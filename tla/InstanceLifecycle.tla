------------------------- MODULE InstanceLifecycle -------------------------
(***************************************************************************)
(* What the rest of the platform may rely on about one workflow instance:  *)
(* the state diagram of docs/module-01-workflow-engine-lld.md, section     *)
(* 3.6, as far as the engine follows it without an operator's help, and    *)
(* the lifecycle events that go with it.  Consumers of the events see one  *)
(* "started" and then at most one outcome.                                 *)
(***************************************************************************)
EXTENDS Sequences

VARIABLES
    status,      \* the instance's status
    reported     \* the lifecycle events queued so far, in order

vars == <<status, reported>>

TypeOK ==
    /\ status \in {"absent", "running", "paused", "completed", "failed"}
    /\ reported \in {<<>>, <<"started">>, <<"started", "completed">>, <<"started", "failed">>}

Init == status = "absent" /\ reported = <<>>

Create ==
    /\ status = "absent" /\ status' = "running"
    /\ UNCHANGED reported

Start ==
    /\ status = "running" /\ reported = <<>>
    /\ reported' = <<"started">>
    /\ UNCHANGED status

Pause ==
    /\ status = "running" /\ reported = <<"started">>
    /\ status' = "paused"
    /\ UNCHANGED reported

Resume ==
    /\ status = "paused" /\ status' = "running"
    /\ UNCHANGED reported

(* A rejection fails an instance that is paused. *)
Finish(outcome) ==
    /\ \/ status = "running"
       \/ status = "paused" /\ outcome = "failed"
    /\ reported = <<"started">>
    /\ status' = outcome
    /\ reported' = Append(reported, outcome)

Next == Create \/ Start \/ Pause \/ Resume \/ \E o \in {"completed", "failed"} : Finish(o)

Spec == Init /\ [][Next]_vars

=============================================================================
