-------------------------- MODULE HumanOversight ---------------------------
(***************************************************************************)
(* The Human Oversight service: the queue of requests ("tickets") of       *)
(* core/queue_manager.py and the decisions of core/decision_capture.py,    *)
(* down to the callback of clients/http_clients.py.                        *)
(*                                                                         *)
(* An API call reads the ticket, checks its status on that copy and writes *)
(* it later, each step one commit; nothing locks the ticket, although the  *)
(* design speaks of SELECT FOR UPDATE SKIP LOCKED                          *)
(* (docs/module-16-human-oversight.md:93).  Who makes the callback and who *)
(* may be called back is left to the module that composes this one with a  *)
(* requester.                                                              *)
(*                                                                         *)
(* Abstracted: notifications, audit events (best effort), who claimed.     *)
(* sweep_expired is left out: no code calls it, so no ticket ever expires. *)
(***************************************************************************)
EXTENDS Naturals, Sequences

CONSTANTS
    Tickets,        \* oversight_requests that may be created
    NoTicket,       \* none of them
    Calls,          \* claim and decide calls that may be made
    MaxTries        \* bound: attempts of one callback (clients/resilience.py: 3)

VARIABLES
    ticket,         \* the rows: status, and what the request is about
    decisions,      \* the decisions table, in order
    overridden,     \* the decisions, by index, with an override record
    call,           \* the API calls under way
    posts           \* the attempts of callbacks sent to the requester

oversightVars == <<ticket, decisions, overridden, call, posts>>

Verdicts == {"approved", "rejected", "override"}
Open == {"pending", "claimed"}
Over == {"done", "refused", "failed"}

(* A call about ticket "on": where it is, its verdict, the index of its    *)
(* decision and how many attempts its callback has made.                   *)
NoCall == [at |-> "idle", on |-> NoTicket, verdict |-> "approved",
           decision |-> 0, tries |-> 0]

OversightInit ==
    /\ ticket = [t \in Tickets |-> [status |-> "absent", about |-> 0]]
    /\ decisions = <<>>
    /\ overridden = {}
    /\ call = [c \in Calls |-> NoCall]
    /\ posts = {}

Proceeds(c, from, to) ==
    /\ call[c].at = from
    /\ call' = [call EXCEPT ![c].at = to]

Marks(t, status) == ticket' = [ticket EXCEPT ![t].status = status]

(* enqueue: a request about x. *)
Enqueue(t, x) ==
    /\ ticket[t].status = "absent"
    /\ ticket' = [ticket EXCEPT ![t] = [status |-> "pending", about |-> x]]
    /\ UNCHANGED <<decisions, overridden, call, posts>>

(* claim, in two steps: the status is checked on what was read. *)
ReadForClaim(c, t) ==
    /\ call[c].at = "idle" /\ ticket[t].status = "pending"
    /\ call' = [call EXCEPT ![c] = [NoCall EXCEPT !.at = "claim", !.on = t]]
    /\ UNCHANGED <<ticket, decisions, overridden, posts>>

SaveClaim(c) ==
    /\ Proceeds(c, "claim", "done")
    /\ Marks(call[c].on, "claimed")
    /\ UNCHANGED <<decisions, overridden, posts>>

(* capture: the status check, on a copy. *)
ReadForDecision(c, t, verdict) ==
    /\ call[c].at = "idle" /\ ticket[t].status \in Open
    /\ call' = [call EXCEPT ![c] = [NoCall EXCEPT !.at = "decide", !.on = t, !.verdict = verdict]]
    /\ UNCHANGED <<ticket, decisions, overridden, posts>>

(* Bug: an override is not logged. *)
StoreDecisionUnlogged(c) ==
    /\ call[c].at = "decide"
    /\ decisions' = Append(decisions, [ticket |-> call[c].on, verdict |-> call[c].verdict])
    /\ call' = [call EXCEPT ![c].decision = Len(decisions'), ![c].at = "settle"]
    /\ UNCHANGED <<ticket, overridden, posts>>

StoreDecision(c) ==
    /\ call[c].at = "decide"
    /\ decisions' = Append(decisions, [ticket |-> call[c].on, verdict |-> call[c].verdict])
    /\ call' = [call EXCEPT ![c].decision = Len(decisions'),
                            ![c].at = IF call[c].verdict = "override" THEN "log" ELSE "settle"]
    /\ UNCHANGED <<ticket, overridden, posts>>

(* The Override Logger's record. *)
LogOverride(c) ==
    /\ Proceeds(c, "log", "settle")
    /\ overridden' = overridden \cup {call[c].decision}
    /\ UNCHANGED <<ticket, decisions, posts>>

(* The ticket is decided, and the first attempt of the callback is made. *)
SettleTicket(c) ==
    /\ call[c].at = "settle"
    /\ Marks(call[c].on, "decided")
    /\ call' = [call EXCEPT ![c].at = "notify", ![c].tries = 1]
    /\ posts' = posts \cup {<<c, 1>>}
    /\ UNCHANGED <<decisions, overridden>>

(* Bug: the last attempt's error is swallowed. *)
CallbackTimesOutQuietly(c) ==
    /\ Proceeds(c, "notify", "done")
    /\ UNCHANGED <<ticket, decisions, overridden, posts>>

(* The attempt is not answered in time: it is made again, up to MaxTries;  *)
(* the last one's error goes to the reviewer.                              *)
CallbackTimesOut(c) ==
    /\ call[c].at = "notify"
    /\ IF call[c].tries < MaxTries
       THEN /\ call' = [call EXCEPT ![c].tries = @ + 1]
            /\ posts' = posts \cup {<<c, call[c].tries + 1>>}
       ELSE /\ call' = [call EXCEPT ![c].at = "failed"]
            /\ UNCHANGED posts
    /\ UNCHANGED <<ticket, decisions, overridden>>

(* The requester's answer: an error status is not retried. *)
CallbackAnswered(c, how) ==
    /\ how \in {"done", "refused"}
    /\ Proceeds(c, "notify", how)
    /\ UNCHANGED <<ticket, decisions, overridden, posts>>

(* The process dies: its calls end where they are. *)
OversightDies ==
    /\ \E c \in Calls : call[c].at \notin {"idle"} \cup Over
    /\ call' = [c \in Calls |-> IF call[c].at \in {"idle"} \cup Over THEN call[c]
                                ELSE [call[c] EXCEPT !.at = "failed"]]
    /\ UNCHANGED <<ticket, decisions, overridden, posts>>

CaptureStep(c) ==
    SaveClaim(c) \/ StoreDecision(c) \/ LogOverride(c) \/ SettleTicket(c)

=============================================================================
