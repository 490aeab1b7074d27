------------------------- MODULE WorkflowScheduler -------------------------
(***************************************************************************)
(* The Workflow Engine's Execution Scheduler on one workflow instance:     *)
(* core/scheduler.py with core/human.py and core/replanner.py, driven by   *)
(* the HTTP handlers of api/routes_instances.py.                           *)
(*                                                                         *)
(* There is no work queue: each HTTP request runs the scheduler itself, in *)
(* its own database session, until the instance completes, fails or waits  *)
(* for a human.  Requests of one instance therefore run concurrently and   *)
(* meet only in the database.  Every query commits, so an action is one    *)
(* commit with the local computation around it.  update_instance reads the *)
(* row, writes all its columns from the caller's copy and commits (Save),  *)
(* then reads the row back (Refresh): other requests may commit between.   *)
(*                                                                         *)
(* Abstracted: contexts and outputs (a conditional edge may or may not be  *)
(* taken), the retries inside a step (FailStep is the last one failing),   *)
(* compensation steps (they write nothing), best-effort events, metrics.   *)
(*                                                                         *)
(* A definition whose comment begins with "Bug:" is not part of the model: *)
(* it is a mistake the properties below are shown to catch.                *)
(***************************************************************************)
EXTENDS Naturals, Sequences, FiniteSets, SequencesExt

CONSTANTS
    Steps,           \* the nodes of the workflow graph
    NoStep,          \* no fallback step
    Entry,           \* graph.entry_point
    Out,             \* for each step, the steps its outgoing edges lead to
    Conditional,     \* the edges, as pairs of steps, that have a condition
    Fallback,        \* for each step, its config.replan_fallback_step_id
    Mode,            \* for each step, its resolved execution mode
    MaxParallel,     \* max_parallel_steps_per_instance
    Controls,        \* the operator requests that are made
    MaxRequests,     \* bound: HTTP requests about this instance
    MaxAnswers,      \* bound: callbacks about one approval (2: it is retried)
    MaxFaults        \* bound: crashes and errors of a request or a step

ASSUME StepsFinite == IsFiniteSet(Steps) /\ NoStep \notin Steps
ASSUME GraphIsValid ==
    /\ Entry \in Steps
    /\ Out \in [Steps -> Seq(Steps)]
    /\ Conditional \subseteq Steps \X Steps
    /\ Fallback \in [Steps -> Steps \cup {NoStep}]
    /\ Mode \in [Steps -> {"symbolic", "neural", "human"}]
ASSUME BoundsNatural ==
    /\ MaxParallel \in Nat \ {0} /\ MaxRequests \in Nat /\ MaxAnswers \in Nat
    /\ MaxFaults \in Nat
ASSUME ControlsKnown == Controls \subseteq {"pause", "resume", "terminate"}

Requests == 1..MaxRequests

VARIABLES
    row,         \* the instance's row: status and frontier (current_step_ids)
    execs,       \* step_executions in order, each with its approval request
                 \* and the decisions Human Oversight has sent about it
    outbox,      \* the kinds of the lifecycle events queued for the instance
    pc,          \* where each request is
    my,          \* what each request has read: the row's frontier and the
                 \* execution it is about to settle
    answer,      \* what each request was sent to do
    batch,       \* the tasks of each request's asyncio.gather, by step
    faults       \* faults that have happened

records == <<row, execs, outbox>>
requests == <<pc, my, answer, batch>>
vars == <<records, requests, faults>>

Places == {"idle", "start", "refresh", "batch", "complete", "fail", "callback",
           "resume", "settle", "save", "override", "done"}
Answers == {"none", "approved", "rejected", "paused", "terminated"}
Final == {"completed", "failed", "terminated"}

(* A task holds the semaphore while its step runs or asks for approval. *)
Executing == {"running", "asking", "asked"}
TaskStates == {"none", "queued", "awaiting", "completed", "rerouted", "raised"} \cup Executing

(* What request r's gather holds for step s. *)
Task(r, s) == batch[r][s]

Statuses == {"absent", "running", "paused"} \cup Final

Execution == [step : Steps, state : {"running", "completed", "failed"},
              approval : {"none", "pending", "approved", "rejected"},
              answers : Seq({"approved", "rejected"})]

(* A task that executes its step does so for an execution of that step, and *)
(* what a request is about to settle is an execution or none.               *)
TypeOK ==
    /\ row.status \in Statuses
    /\ execs \in Seq(Execution)
    /\ outbox \in Seq({"started", "completed", "failed"})
    /\ pc \in [Requests -> Places]
    /\ DOMAIN my = Requests
    /\ \A r \in Requests : pc[r] = "settle" => my[r].step_exec \in DOMAIN execs \cup {0}
    /\ answer \in [Requests -> Answers]
    /\ \A r \in Requests : pc[r] = "override" => answer[r] \in {"paused", "terminated"}
    /\ batch \in [Requests -> [Steps -> [is : TaskStates, exec : Nat]]]
    /\ \A r \in Requests, s \in Steps :
         Task(r, s).is \in Executing =>
           Task(r, s).exec \in DOMAIN execs /\ execs[Task(r, s).exec].step = s
    /\ faults \in Nat

(* A request's copy: a frontier, and the execution to settle (0: none). *)
Copy(frontier, x) == [frontier |-> frontier, step_exec |-> x]

NoTask == [is |-> "none", exec |-> 0]
NewTask == [is |-> "queued", exec |-> 0]

Init ==
    /\ row = [status |-> "absent", frontier |-> <<>>]
    /\ execs = <<>>
    /\ outbox = <<>>
    /\ pc = [r \in Requests |-> "idle"]
    /\ my = [r \in Requests |-> Copy(<<>>, 0)]
    /\ answer = [r \in Requests |-> "none"]
    /\ batch = [r \in Requests |-> [s \in Steps |-> NoTask]]
    /\ faults = 0

-----------------------------------------------------------------------------
(* Requests are numbered in the order in which they are accepted. *)
Accepts(r) == pc[r] = "idle" /\ \A q \in 1..(r - 1) : pc[q] # "idle"

Goes(r, to) == pc' = [pc EXCEPT ![r] = to]

Moves(r, from, to) == pc[r] = from /\ Goes(r, to)

(* update_instance, up to its commit. *)
Save(status, frontier) == row' = [status |-> status, frontier |-> frontier]

(* update_instance_and_enqueue_event: the row and its event in one commit. *)
SaveAndReport(status, frontier, kind) ==
    /\ Save(status, frontier)
    /\ outbox' = Append(outbox, kind)

(* POST /instances: the row, already "running" but with nothing to run. *)
CreateInstance(r) ==
    /\ Accepts(r) /\ Goes(r, "start")
    /\ row.status = "absent"
    /\ Save("running", <<>>)
    /\ UNCHANGED <<execs, outbox, my, answer, batch, faults>>

(* start *)
Start(r) ==
    /\ Moves(r, "start", "refresh")
    /\ SaveAndReport("running", <<Entry>>, "started")
    /\ UNCHANGED <<execs, my, answer, batch, faults>>

(* The loop head of _run, on the row as update_instance has read it back:  *)
(* a batch of the frontier's steps, the end, or nothing if another request *)
(* has changed the status.                                                 *)
Refresh(r) ==
    /\ pc[r] = "refresh"
    /\ my' = [my EXCEPT ![r] = Copy(row.frontier, 0)]
    /\ Goes(r, IF row.status # "running" THEN "done"
               ELSE IF row.frontier = <<>> THEN "complete" ELSE "batch")
    /\ batch' = [batch EXCEPT ![r] =
         [s \in Steps |->
            IF row.status = "running" /\ s \in ToSet(row.frontier) THEN NewTask ELSE NoTask]]
    /\ UNCHANGED <<records, answer, faults>>

-----------------------------------------------------------------------------
(* The tasks of a batch.  They go on after one of them has raised.         *)

Becomes(r, s, is) == batch' = [batch EXCEPT ![r][s].is = is]

(* update_step_execution: the status the task holds, whatever the row's is. *)
Records(r, s, state) == execs' = [execs EXCEPT ![Task(r, s).exec].state = state]

(* Bug: the task keeps the index of the execution before its own. *)
BeginStepOffByOne(r, s) ==
    /\ Task(r, s).is = "queued"
    /\ s = Head(SelectSeq(my[r].frontier, LAMBDA t : Task(r, t).is = "queued"))
    /\ execs' = Append(execs, [step |-> s, state |-> "running", approval |-> "none", answers |-> <<>>])
    /\ batch' = [batch EXCEPT ![r][s] = [is |-> "running", exec |-> Len(execs)]]
    /\ UNCHANGED <<row, outbox, pc, my, answer, faults>>

(* The semaphore admits the tasks in the order of the frontier, and        *)
(* _execute_step inserts the execution.                                    *)
BeginStep(r, s) ==
    /\ Task(r, s).is = "queued"
    /\ s = Head(SelectSeq(my[r].frontier, LAMBDA t : Task(r, t).is = "queued"))
    /\ Cardinality({t \in Steps : Task(r, t).is \in Executing}) < MaxParallel
    /\ execs' = Append(execs, [step |-> s, state |-> "running", approval |-> "none", answers |-> <<>>])
    /\ batch' = [batch EXCEPT ![r][s] = [is |-> "running", exec |-> Len(execs')]]
    /\ UNCHANGED <<row, outbox, pc, my, answer, faults>>

(* Bug: needs_approval forgets the human steps. *)
CompleteUnasked(r, s) ==
    /\ Task(r, s).is = "running"
    /\ Records(r, s, "completed")
    /\ Becomes(r, s, "completed")
    /\ UNCHANGED <<row, outbox, pc, my, answer, faults>>

(* The executor's result needs no approval. *)
CompleteStep(r, s) ==
    /\ Task(r, s).is = "running" /\ Mode[s] # "human"
    /\ Records(r, s, "completed")
    /\ Becomes(r, s, "completed")
    /\ UNCHANGED <<row, outbox, pc, my, answer, faults>>

(* request_approval: a human step, or a neural one below its confidence    *)
(* threshold, inserts an approval request and posts it to Human Oversight. *)
RequestApproval(r, s) ==
    /\ Task(r, s).is = "running" /\ Mode[s] # "symbolic"
    /\ execs' = [execs EXCEPT ![Task(r, s).exec].approval = "pending"]
    /\ Becomes(r, s, "asking")
    /\ UNCHANGED <<row, outbox, pc, my, answer, faults>>

(* Human Oversight has answered the post: the request is written back with *)
(* its reference, and still pending.                                       *)
StoreReference(r, s) ==
    /\ Task(r, s).is = "asking"
    /\ execs' = [execs EXCEPT ![Task(r, s).exec].approval = "pending"]
    /\ Becomes(r, s, "asked")
    /\ UNCHANGED <<row, outbox, pc, my, answer, faults>>

(* The execution is written back with its output, and still running;       *)
(* _AwaitingApproval ends the task.                                        *)
AwaitApproval(r, s) ==
    /\ Task(r, s).is = "asked"
    /\ Records(r, s, "running")
    /\ Becomes(r, s, "awaiting")
    /\ UNCHANGED <<row, outbox, pc, my, answer, faults>>

(* The retries are used up: reroute to the fallback step or raise. *)
FailStep(r, s) ==
    /\ Task(r, s).is = "running" /\ Mode[s] # "human"
    /\ Records(r, s, "failed")
    /\ Becomes(r, s, IF Fallback[s] = NoStep THEN "raised" ELSE "rerouted")
    /\ UNCHANGED <<row, outbox, pc, my, answer, faults>>

-----------------------------------------------------------------------------
(* The end of a batch.                                                     *)

(* _successors: the edges without a condition, and those whose condition holds. *)
Successors(s, holding) ==
    FlattenSeq([i \in DOMAIN Out[s] |->
      IF <<s, Out[s][i]>> \in Conditional \ holding THEN <<>> ELSE <<Out[s][i]>>])

(* The frontier without repetitions, in order. *)
Distinct(frontier) ==
    FoldLeft(LAMBDA seen, s : IF Contains(seen, s) THEN seen ELSE Append(seen, s), <<>>, frontier)

(* What one step of the batch adds to the next frontier. *)
Continuation(r, s, holding) ==
    CASE Task(r, s).is = "awaiting"  -> <<s>>
      [] Task(r, s).is = "completed" -> Successors(s, holding)
      [] Task(r, s).is = "rerouted"  -> <<Fallback[s]>>

(* gather returns: every task has a result. *)
Advance(r) ==
    /\ pc[r] = "batch"
    /\ \A s \in ToSet(my[r].frontier) : Task(r, s).is \in {"awaiting", "completed", "rerouted"}
    /\ LET order == Distinct(my[r].frontier)
           paused == \E s \in Steps : Task(r, s).is = "awaiting"
       IN  /\ \E holding \in SUBSET Conditional :
                Save(IF paused THEN "paused" ELSE "running",
                     FlattenSeq([i \in DOMAIN order |-> Continuation(r, order[i], holding)]))
           /\ Goes(r, IF paused THEN "done" ELSE "refresh")
    /\ UNCHANGED <<execs, outbox, my, answer, batch, faults>>

(* Bug: the exception ends the request, not the instance. *)
BatchRaisesUncaught(r) ==
    /\ Moves(r, "batch", "done")
    /\ \E s \in Steps : Task(r, s).is = "raised"
    /\ UNCHANGED <<records, my, answer, batch, faults>>

(* gather raises WorkflowFailedError; the other tasks are left running. *)
BatchRaises(r) ==
    /\ Moves(r, "batch", "fail")
    /\ \E s \in Steps : Task(r, s).is = "raised"
    /\ UNCHANGED <<records, my, answer, batch, faults>>

(* Bug: the failure is saved without its event. *)
SaveFailedQuietly(r) ==
    /\ Moves(r, "fail", "done")
    /\ Save("failed", my[r].frontier)
    /\ UNCHANGED <<execs, outbox, my, answer, batch, faults>>

(* _fail *)
SaveFailed(r) ==
    /\ Moves(r, "fail", "done")
    /\ SaveAndReport("failed", my[r].frontier, "failed")
    /\ UNCHANGED <<execs, my, answer, batch, faults>>

(* The end of _run. *)
SaveCompleted(r) ==
    /\ Moves(r, "complete", "done")
    /\ SaveAndReport("completed", my[r].frontier, "completed")
    /\ UNCHANGED <<execs, my, answer, batch, faults>>

-----------------------------------------------------------------------------
(* The other requests.  One that finds a status it does not accept (409)   *)
(* changes nothing and is left out.                                        *)

(* Each reads the instance, remembers its copy and what it is to do. *)
Reads(r, what, to) ==
    /\ Goes(r, to)
    /\ my' = [my EXCEPT ![r] = Copy(row.frontier, 0)]
    /\ answer' = [answer EXCEPT ![r] = what]

ReadForPause(r) ==
    /\ "pause" \in Controls /\ Accepts(r)
    /\ row.status = "running"
    /\ Reads(r, "paused", "override")
    /\ UNCHANGED <<records, batch, faults>>

ReadForTerminate(r) ==
    /\ "terminate" \in Controls /\ Accepts(r)
    /\ row.status \in {"running", "paused"}
    /\ Reads(r, "terminated", "override")
    /\ UNCHANGED <<records, batch, faults>>

(* pause_instance and terminate_instance save the copy they have read. *)
Override(r) ==
    /\ Moves(r, "override", "done")
    /\ Save(answer[r], my[r].frontier)
    /\ UNCHANGED <<execs, outbox, my, answer, batch, faults>>

(* resume_instance: the same as an approval. *)
ReadForResume(r) ==
    /\ "resume" \in Controls /\ Accepts(r)
    /\ row.status = "paused"
    /\ Reads(r, "approved", "resume")
    /\ UNCHANGED <<records, batch, faults>>

(* approval_callback stores the decision, whatever the approval's status;  *)
(* Human Oversight sends it again when the answer takes too long.          *)
Decide(r, x, decision) ==
    /\ Accepts(r) /\ Goes(r, "callback")
    /\ execs[x].approval # "none" /\ Len(execs[x].answers) < MaxAnswers
    /\ execs' = [execs EXCEPT ![x].approval = decision, ![x].answers = Append(@, decision)]
    /\ answer' = [answer EXCEPT ![r] = decision]
    /\ UNCHANGED <<row, outbox, my, batch, faults>>

(* Bug: a running instance is resumed as well. *)
ReadForCallbackUnchecked(r) ==
    /\ pc[r] = "callback"
    /\ Reads(r, answer[r], IF row.status \in {"paused", "running"} THEN "resume" ELSE "done")
    /\ UNCHANGED <<records, batch, faults>>

(* It then resumes the instance, if that is paused now. *)
ReadForCallback(r) ==
    /\ pc[r] = "callback"
    /\ Reads(r, answer[r], IF row.status = "paused" THEN "resume" ELSE "done")
    /\ UNCHANGED <<records, batch, faults>>

(* resume_after_approval looks for an execution of the frontier's first    *)
(* step: one that is running, else any, else there is none.                *)
FindExecution(r) ==
    /\ Moves(r, "resume", "settle")
    /\ my[r].frontier # <<>>
    /\ LET ofStep == {x \in DOMAIN execs : execs[x].step = Head(my[r].frontier)}
           running == {x \in ofStep : execs[x].state = "running"}
           found == CASE ofStep = {} -> {0} [] running # {} -> running [] OTHER -> ofStep
       IN  \E x \in found : my' = [my EXCEPT ![r] = Copy(my[r].frontier, x)]
    /\ UNCHANGED <<records, answer, batch, faults>>

(* It then settles that one, whatever has happened to it since. *)
Settles(r, state) ==
    IF my[r].step_exec = 0 THEN UNCHANGED execs
    ELSE execs' = [execs EXCEPT ![my[r].step_exec].state = state]

(* The frontier goes on with new steps in the place of its first. *)
Replaces(r, steps) ==
    my' = [my EXCEPT ![r] = Copy(Tail(my[r].frontier) \o steps, 0)]

(* Bug: the rest of the frontier is lost. *)
ApproveStepAlone(r) ==
    /\ Moves(r, "settle", "save") /\ answer[r] = "approved"
    /\ Settles(r, "completed")
    /\ my' = [my EXCEPT ![r] = Copy(Successors(Head(my[r].frontier), {}), 0)]
    /\ UNCHANGED <<row, outbox, answer, batch, faults>>

ApproveStep(r) ==
    /\ Moves(r, "settle", "save") /\ answer[r] = "approved"
    /\ Settles(r, "completed")
    /\ \E holding \in SUBSET Conditional :
         Replaces(r, Successors(Head(my[r].frontier), holding))
    /\ UNCHANGED <<row, outbox, answer, batch, faults>>

(* A rejection is a failure of the step: its fallback or the end. *)
RejectStep(r) ==
    /\ pc[r] = "settle" /\ answer[r] = "rejected"
    /\ Settles(r, "failed")
    /\ LET fallback == Fallback[Head(my[r].frontier)]
       IN  IF fallback = NoStep
           THEN Goes(r, "fail") /\ UNCHANGED my
           ELSE Goes(r, "save") /\ Replaces(r, <<fallback>>)
    /\ UNCHANGED <<row, outbox, answer, batch, faults>>

(* resume_after_approval returns at once when the frontier is empty. *)
NothingToResume(r) ==
    /\ Moves(r, "resume", "done")
    /\ my[r].frontier = <<>>
    /\ UNCHANGED <<records, my, answer, batch, faults>>

(* Bug: the instance is marked running and not run. *)
SaveResumedOnly(r) ==
    /\ Moves(r, "save", "done")
    /\ Save("running", my[r].frontier)
    /\ UNCHANGED <<execs, outbox, my, answer, batch, faults>>

SaveResumed(r) ==
    /\ Moves(r, "save", "refresh")
    /\ Save("running", my[r].frontier)
    /\ UNCHANGED <<execs, outbox, my, answer, batch, faults>>

-----------------------------------------------------------------------------
(* Faults.  Nothing takes a request's work up again.                       *)

Fault == faults < MaxFaults /\ faults' = faults + 1

Busy(r) == pc[r] \notin {"idle", "done"}

(* A task raises something else than WorkflowFailedError: a database error *)
(* (the tasks of a batch share one session) or a client error, also one in *)
(* the replanner, once the execution has failed.  The request ends with it. *)
StepErrs(r, s) ==
    /\ Fault
    /\ Task(r, s).is \in Executing
    /\ \/ UNCHANGED execs
       \/ /\ Task(r, s).is = "running" /\ Mode[s] # "human" /\ Fallback[s] # NoStep
          /\ Records(r, s, "failed")
    /\ Becomes(r, s, "none")
    /\ Goes(r, IF pc[r] = "batch" THEN "done" ELSE pc[r])
    /\ UNCHANGED <<row, outbox, my, answer>>

(* A query of the request itself fails. *)
RequestErrs(r) ==
    /\ Fault
    /\ Busy(r) /\ pc[r] # "batch"
    /\ Goes(r, "done")
    /\ UNCHANGED <<records, my, answer, batch>>

(* The process that runs these requests dies, and their tasks with it. *)
Crash(dead) ==
    /\ Fault
    /\ \E r \in dead : Busy(r)
    /\ pc' = [r \in Requests |-> IF r \in dead /\ pc[r] # "idle" THEN "done" ELSE pc[r]]
    /\ batch' = [r \in Requests |-> IF r \in dead THEN [s \in Steps |-> NoTask] ELSE batch[r]]
    /\ UNCHANGED <<records, my, answer>>

-----------------------------------------------------------------------------
StepAction(r, s) ==
    \/ BeginStep(r, s) \/ CompleteStep(r, s) \/ RequestApproval(r, s)
    \/ StoreReference(r, s) \/ AwaitApproval(r, s) \/ FailStep(r, s)

RequestAction(r) ==
    \/ Start(r) \/ Refresh(r) \/ Advance(r) \/ BatchRaises(r)
    \/ SaveFailed(r) \/ SaveCompleted(r) \/ Override(r)
    \/ ReadForCallback(r) \/ FindExecution(r) \/ NothingToResume(r)
    \/ ApproveStep(r) \/ RejectStep(r) \/ SaveResumed(r)

Next ==
    \/ \E r \in Requests :
         \/ CreateInstance(r) \/ RequestAction(r)
         \/ ReadForPause(r) \/ ReadForTerminate(r) \/ ReadForResume(r)
         \/ \E x \in DOMAIN execs, decision \in {"approved", "rejected"} : Decide(r, x, decision)
         \/ \E s \in Steps : StepAction(r, s) \/ StepErrs(r, s)
         \/ RequestErrs(r)
    \/ \E dead \in SUBSET Requests : Crash(dead)

(* A request that has been accepted runs on, and so do its tasks: steps    *)
(* have timeouts.  Nothing makes a human decide or an operator intervene.  *)
Fairness ==
    \A r \in Requests :
      /\ WF_vars(RequestAction(r))
      /\ WF_vars(\E s \in Steps : StepAction(r, s))

Safety == Init /\ [][Next]_vars

Spec == Safety /\ Fairness

-----------------------------------------------------------------------------
(* Properties.                                                             *)

(* While nothing has gone wrong, an instance whose row says "running" has  *)
(* a request that is running it: no interleaving of approvals and operator *)
(* requests loses it between two requests that each leave it to the other. *)
RunningIsOwned ==
    row.status = "running" /\ faults = 0 =>
      \E r \in Requests : pc[r] \in {"start", "refresh", "batch", "complete", "fail"}

(* A committed outcome has its event queued, and workflow.started is       *)
(* queued before any outcome, whichever requests raced to commit them      *)
(* (modules/workflow-engine/README.md:66-71, no dual-write window).        *)
OutcomesReported ==
    /\ row.status \in {"completed", "failed"} => row.status \in ToSet(outbox)
    /\ outbox # <<>> => outbox[1] = "started"

(* An execution that waits for a human is completed only if a human has    *)
(* approved that very execution, and a human step only after it has asked. *)
(* The scheduler relies on graphs in which one step at a time waits         *)
(* (core/scheduler.py:15-19); the checked graph is one of those.           *)
GateRespected ==
    \A x \in DOMAIN execs :
      /\ execs[x].state = "completed"
      /\ execs[x].approval # "none" \/ Mode[execs[x].step] = "human"
      => "approved" \in ToSet(execs[x].answers)

(* No step is executed by two requests at the same time                    *)
(* (docs/module-01-workflow-engine-lld.md:384, "avoiding double-execution"). *)
NoDoubleExecution ==
    \A r, q \in Requests, s \in Steps :
      Task(r, s).is \in Executing /\ Task(q, s).is \in Executing => r = q

(* When the instance has completed, every step that has completed was      *)
(* followed by each of its unconditional successors, and every step that   *)
(* has failed by its fallback: no branch is dropped on the way.            *)
NothingSkipped ==
    row.status = "completed" =>
      \A x \in DOMAIN execs :
        LET due == IF execs[x].state = "failed" THEN {Fallback[execs[x].step]}
                   ELSE {t \in ToSet(Out[execs[x].step]) : <<execs[x].step, t>> \notin Conditional}
        IN  \A t \in due : \E y \in DOMAIN execs : y > x /\ execs[y].step = t

(* Unless something goes wrong, an instance does not stay "running". *)
RunsSettle ==
    [](faults = 0) => (row.status = "running" ~> row.status # "running")

(* docs/module-01-workflow-engine-lld.md:187: terminated is "Terminal, not *)
(* resumable", and the state diagram at :279 has no way out of it.         *)
TerminatedIsFinal == [][row.status = "terminated" => row'.status = "terminated"]_vars

-----------------------------------------------------------------------------
(* WorkflowScheduler implements InstanceLifecycle while no operator steps   *)
(* in and every approval is answered once.                                  *)
Lifecycle == INSTANCE InstanceLifecycle WITH status <- row.status, reported <- outbox

ImplementsLifecycle == Lifecycle!Spec

=============================================================================
