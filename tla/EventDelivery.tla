--------------------------- MODULE EventDelivery ---------------------------
(***************************************************************************)
(* What the Workflow Engine's event outbox promises to the rest of the     *)
(* platform, with nothing of how it is done: an event the engine has       *)
(* announced is eventually handed to the broker at least once or given up  *)
(* for good, and nothing is handed to the broker that was not announced.   *)
(*                                                                         *)
(* EventOutbox implements this specification (its module comment gives the *)
(* refinement mapping).                                                    *)
(***************************************************************************)
CONSTANT Events          \* the lifecycle events the engine may announce

VARIABLE fate            \* what has become of each event

vars == <<fate>>

Fates == {"unannounced", "queued", "delivered", "abandoned"}

TypeOK == fate \in [Events -> Fates]

Init == fate = [e \in Events |-> "unannounced"]

(* The state change the event reports is committed, the event with it. *)
Announce(e) ==
    /\ fate[e] = "unannounced"
    /\ fate' = [fate EXCEPT ![e] = "queued"]

(* The broker has the event.  An abandoned event may still arrive: giving  *)
(* up does not reach an attempt already under way.  A second delivery of   *)
(* the same event is a stutter: consumers drop it by the envelope's id.    *)
Deliver(e) ==
    /\ fate[e] \in {"queued", "abandoned"}
    /\ fate' = [fate EXCEPT ![e] = "delivered"]

(* The poison-pill guard gives up every event in S, in one statement. *)
Abandon(S) ==
    /\ \A e \in S : fate[e] = "queued"
    /\ fate' = [e \in Events |-> IF e \in S THEN "abandoned" ELSE fate[e]]

Next ==
    \/ \E e \in Events : Announce(e) \/ Deliver(e)
    \/ \E S \in SUBSET Events : Abandon(S)

(* A queued event does not stay queued. *)
Settles(e) == fate[e] = "queued" ~> fate[e] \in {"delivered", "abandoned"}

Safety == Init /\ [][Next]_vars

Spec == Safety /\ \A e \in Events : Settles(e)

=============================================================================
