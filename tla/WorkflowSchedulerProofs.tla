---------------------- MODULE WorkflowSchedulerProofs ----------------------
(***************************************************************************)
(* Proofs about WorkflowScheduler for every graph, every set of operator   *)
(* requests and any number of requests, repeated callbacks and faults.     *)
(* Three invariants: the types, that an instance that says it runs has a   *)
(* request that runs it, and that a committed outcome is reported.         *)
(***************************************************************************)
EXTENDS WorkflowScheduler, SequenceTheorems, TLAPS

USE BoundsNatural, StepsFinite, GraphIsValid

-----------------------------------------------------------------------------
(* Type correctness.                                                       *)

LEMMA InitType == Init => TypeOK
  BY DEF Init, TypeOK, Statuses, Execution, Places, Answers, Final, TaskStates, Executing,
         NoTask, Task

(* A changed execution stays one of the same step. *)
LEMMA ExecutionChanged ==
  ASSUME execs \in Seq(Execution),
         NEW x \in DOMAIN execs, NEW e \in Execution, e.step = execs[x].step,
         execs' = [execs EXCEPT ![x] = e]
  PROVE  /\ execs' \in Seq(Execution)
         /\ DOMAIN execs' = DOMAIN execs
         /\ \A y \in DOMAIN execs : execs'[y].step = execs[y].step
  BY ExceptSeq

LEMMA ExecutionType ==
  ASSUME execs \in Seq(Execution), NEW x \in DOMAIN execs
  PROVE  execs[x] \in Execution
  BY ElementOfSeq

(* The executions as every action but BeginStep leaves them. *)
ExecsKept ==
  /\ execs' \in Seq(Execution)
  /\ DOMAIN execs' = DOMAIN execs
  /\ \A y \in DOMAIN execs : execs'[y].step = execs[y].step

LEMMA StateChanged ==
  ASSUME execs \in Seq(Execution), NEW x \in DOMAIN execs,
         NEW state \in {"running", "completed", "failed"},
         execs' = [execs EXCEPT ![x].state = state]
  PROVE  ExecsKept
<1> DEFINE e == [execs[x] EXCEPT !.state = state]
<1>1. e \in Execution /\ e.step = execs[x].step
  BY ExecutionType DEF Execution
<1>2. execs' = [execs EXCEPT ![x] = e]
  OBVIOUS
<1> QED
  BY <1>1, <1>2, ExecutionChanged DEF ExecsKept

LEMMA ApprovalChanged ==
  ASSUME execs \in Seq(Execution), NEW x \in DOMAIN execs,
         execs' = [execs EXCEPT ![x].approval = "pending"]
  PROVE  ExecsKept
<1> DEFINE e == [execs[x] EXCEPT !.approval = "pending"]
<1>1. e \in Execution /\ e.step = execs[x].step
  BY ExecutionType DEF Execution
<1>2. execs' = [execs EXCEPT ![x] = e]
  OBVIOUS
<1> QED
  BY <1>1, <1>2, ExecutionChanged DEF ExecsKept

(* What the requests have read, and which execution each is to settle. *)
CopiesOK ==
  /\ DOMAIN my = Requests
  /\ \A r \in Requests : pc[r] = "settle" => my[r].step_exec \in DOMAIN execs \cup {0}

LEMMA CopiesKept ==
  ASSUME TypeOK, UNCHANGED my, DOMAIN execs \subseteq DOMAIN execs',
         \A r \in Requests : pc'[r] = "settle" => pc[r] = "settle"
  PROVE  CopiesOK'
  BY DEF TypeOK, CopiesOK

(* Request r reads something and is not about to settle an execution. *)
LEMMA CopyRead ==
  ASSUME TypeOK, UNCHANGED execs, NEW r \in Requests, NEW to \in Places \ {"settle"},
         Goes(r, to), NEW copy, my' = [my EXCEPT ![r] = copy]
  PROVE  CopiesOK'
  BY DEF TypeOK, CopiesOK, Goes

(* Tasks of executions that are kept, none of which is new, are well typed. *)
LEMMA TasksKept ==
  ASSUME TypeOK, ExecsKept,
         \A r \in Requests, s \in Steps :
           Task(r, s)'.is \in Executing =>
             Task(r, s).is \in Executing /\ Task(r, s)'.exec = Task(r, s).exec
  PROVE  \A r \in Requests, s \in Steps :
           Task(r, s)'.is \in Executing =>
             Task(r, s)'.exec \in DOMAIN execs' /\ execs'[Task(r, s)'.exec].step = s
<1> SUFFICES ASSUME NEW r \in Requests, NEW s \in Steps, Task(r, s)'.is \in Executing
             PROVE  Task(r, s)'.exec \in DOMAIN execs' /\ execs'[Task(r, s)'.exec].step = s
  OBVIOUS
<1>1. Task(r, s).is \in Executing /\ Task(r, s)'.exec = Task(r, s).exec
  OBVIOUS
<1>2. Task(r, s).exec \in DOMAIN execs /\ execs[Task(r, s).exec].step = s
  BY <1>1 DEF TypeOK
<1> QED
  BY <1>1, <1>2 DEF ExecsKept

(* One task of a batch takes another state. *)
LEMMA TaskBecomes ==
  ASSUME TypeOK, NEW r \in Requests, NEW s \in Steps, NEW is \in TaskStates,
         Becomes(r, s, is), is \in Executing => Task(r, s).is \in Executing
  PROVE  /\ batch' \in [Requests -> [Steps -> [is : TaskStates, exec : Nat]]]
         /\ \A q \in Requests, t \in Steps :
              Task(q, t)'.is \in Executing =>
                Task(q, t).is \in Executing /\ Task(q, t)'.exec = Task(q, t).exec
<1>1. batch[r] \in [Steps -> [is : TaskStates, exec : Nat]]
  BY DEF TypeOK
<1>2. batch[r][s] \in [is : TaskStates, exec : Nat]
  BY <1>1
<1>3. [batch[r][s] EXCEPT !.is = is] \in [is : TaskStates, exec : Nat]
  BY <1>2
<1>4. batch' = [batch EXCEPT ![r] = [@ EXCEPT ![s] = [batch[r][s] EXCEPT !.is = is]]]
  BY DEF Becomes
<1>5. batch' \in [Requests -> [Steps -> [is : TaskStates, exec : Nat]]]
  BY <1>1, <1>3, <1>4 DEF TypeOK
<1>6. ASSUME NEW q \in Requests, NEW t \in Steps, Task(q, t)'.is \in Executing
      PROVE  Task(q, t).is \in Executing /\ Task(q, t)'.exec = Task(q, t).exec
  <2>1. CASE q = r /\ t = s
    <3>1. Task(q, t)' = [batch[r][s] EXCEPT !.is = is]
      BY <1>4, <2>1 DEF Task, TypeOK
    <3> QED
      BY <1>2, <1>6, <2>1, <3>1 DEF Task
  <2>2. CASE ~(q = r /\ t = s)
    <3>1. Task(q, t)' = Task(q, t)
      BY <1>4, <2>2 DEF Task, TypeOK
    <3> QED
      BY <1>6, <3>1
  <2> QED
    BY <2>1, <2>2
<1> QED
  BY <1>5, <1>6

LEMMA UnchangedExecsKept == TypeOK /\ UNCHANGED execs => ExecsKept
  BY DEF TypeOK, ExecsKept

(* resume_after_approval changes at most the state of one execution. *)
LEMMA SettlesKeeps ==
  ASSUME TypeOK, NEW r \in Requests, pc[r] = "settle", NEW state \in {"completed", "failed"},
         Settles(r, state)
  PROVE  ExecsKept
<1>1. CASE UNCHANGED execs
  BY <1>1, UnchangedExecsKept
<1>2. CASE \E x \in DOMAIN execs : execs' = [execs EXCEPT ![x].state = state]
  BY <1>2, StateChanged DEF TypeOK
<1>3. my[r].step_exec \in DOMAIN execs \cup {0}
  BY DEF TypeOK
<1> QED
  BY <1>1, <1>2, <1>3 DEF Settles

(* The types of everything a request changes besides its tasks. *)
LEMMA TypeFromParts ==
  ASSUME TypeOK, ExecsKept, CopiesOK', UNCHANGED batch,
         row'.status \in Statuses,
         outbox' \in Seq({"started", "completed", "failed"}),
         pc' \in [Requests -> Places], answer' \in [Requests -> Answers],
         \A r \in Requests : pc'[r] = "override" => answer'[r] \in {"paused", "terminated"},
         faults' \in Nat
  PROVE  TypeOK'
<1>1. \A r \in Requests, s \in Steps : Task(r, s)' = Task(r, s)
  BY DEF Task
<1>2. \A r \in Requests, s \in Steps :
        Task(r, s)'.is \in Executing =>
          Task(r, s)'.exec \in DOMAIN execs' /\ execs'[Task(r, s)'.exec].step = s
  BY <1>1, TasksKept
<1> QED
  BY <1>2 DEF TypeOK, ExecsKept, CopiesOK

(* A request that runs the instance, or changes its row. *)
LEMMA RequestType ==
  ASSUME TypeOK, NEW r \in Requests,
         \/ CreateInstance(r) \/ Start(r) \/ Advance(r) \/ BatchRaises(r)
         \/ SaveFailed(r) \/ SaveCompleted(r) \/ Override(r)
         \/ ReadForCallback(r) \/ NothingToResume(r) \/ SaveResumed(r)
         \/ ReadForPause(r) \/ ReadForTerminate(r) \/ ReadForResume(r) \/ RequestErrs(r)
  PROVE  TypeOK'
<1> USE UnchangedExecsKept, TypeFromParts, CopiesKept, CopyRead
<1> USE DEF TypeOK, Statuses, Final, Places, Answers, records, Goes, Moves, Save,
            SaveAndReport, Reads, Fault
<1>1. CASE CreateInstance(r)
  BY <1>1 DEF CreateInstance
<1>2. CASE Start(r)
  BY <1>2, AppendProperties DEF Start
<1>3. CASE Advance(r)
  BY <1>3, SMTT(60) DEF Advance
<1>4. CASE BatchRaises(r)
  BY <1>4 DEF BatchRaises
<1>5. CASE SaveFailed(r)
  BY <1>5, AppendProperties DEF SaveFailed
<1>6. CASE SaveCompleted(r)
  BY <1>6, AppendProperties DEF SaveCompleted
<1>7. CASE Override(r)
  BY <1>7 DEF Override
<1>8. CASE ReadForCallback(r)
  BY <1>8 DEF ReadForCallback
<1>9. CASE NothingToResume(r)
  BY <1>9 DEF NothingToResume
<1>10. CASE SaveResumed(r)
  BY <1>10 DEF SaveResumed
<1>11. CASE ReadForPause(r)
  BY <1>11 DEF ReadForPause
<1>12. CASE ReadForTerminate(r)
  BY <1>12 DEF ReadForTerminate
<1>13. CASE ReadForResume(r)
  BY <1>13 DEF ReadForResume
<1>14. CASE RequestErrs(r)
  BY <1>14 DEF RequestErrs
<1> QED
  BY <1>1, <1>2, <1>3, <1>4, <1>5, <1>6, <1>7, <1>8, <1>9, <1>10, <1>11, <1>12, <1>13, <1>14

(* A decision, and the resumption it leads to. *)
LEMMA DecisionType ==
  ASSUME TypeOK, NEW r \in Requests,
         \/ \E x \in DOMAIN execs, d \in {"approved", "rejected"} : Decide(r, x, d)
         \/ FindExecution(r) \/ ApproveStep(r) \/ RejectStep(r)
  PROVE  TypeOK'
<1>1. ASSUME NEW x \in DOMAIN execs, NEW d \in {"approved", "rejected"}, Decide(r, x, d)
      PROVE  TypeOK'
  <2> DEFINE e == [execs[x] EXCEPT !.approval = d, !.answers = Append(execs[x].answers, d)]
  <2>1. execs \in Seq(Execution) /\ execs[x] \in Execution
    BY ExecutionType DEF TypeOK
  <2>2. Append(execs[x].answers, d) \in Seq({"approved", "rejected"})
    BY <2>1, AppendProperties DEF Execution
  <2>3. e \in Execution /\ e.step = execs[x].step
    BY <2>1, <2>2 DEF Execution
  <2>4. execs' = [execs EXCEPT ![x] = e]
    BY <1>1 DEF Decide
  <2>5. ExecsKept
    BY <2>1, <2>3, <2>4, ExecutionChanged DEF ExecsKept
  <2>6. CopiesOK'
    BY <1>1, <2>5, CopiesKept DEF Decide, Goes, ExecsKept, TypeOK
  <2> QED
    BY <1>1, <2>5, <2>6, TypeFromParts DEF Decide, TypeOK, Goes, Places, Answers
<1>2. CASE FindExecution(r)
  <2>1. PICK x \in DOMAIN execs \cup {0} : my' = [my EXCEPT ![r] = Copy(my[r].frontier, x)]
    BY <1>2 DEF FindExecution
  <2>2. CopiesOK'
    BY <1>2, <2>1 DEF FindExecution, Moves, Goes, Copy, records, CopiesOK, TypeOK
  <2>3. ExecsKept
    BY <1>2, UnchangedExecsKept DEF FindExecution, records
  <2> QED
    BY <1>2, <2>2, <2>3, TypeFromParts DEF FindExecution, Moves, Goes, records, Places, TypeOK
<1>3. CASE ApproveStep(r)
  <2>1. ExecsKept
    BY <1>3, SettlesKeeps DEF ApproveStep, Moves
  <2>2. CopiesOK'
    BY <1>3, <2>1 DEF ApproveStep, Replaces, Moves, Goes, CopiesOK, ExecsKept, TypeOK
  <2> QED
    BY <1>3, <2>1, <2>2, TypeFromParts DEF ApproveStep, TypeOK, Goes, Moves, Places
<1>4. CASE RejectStep(r)
  <2>1. ExecsKept
    BY <1>4, SettlesKeeps DEF RejectStep
  <2>2. CopiesOK'
    <3>1. PICK to \in {"fail", "save"} : Goes(r, to)
      BY <1>4 DEF RejectStep
    <3>2. \A q \in Requests : pc'[q] = "settle" => q # r /\ pc[q] = "settle"
      BY <3>1 DEF Goes, TypeOK
    <3>3. DOMAIN my' = Requests /\ \A q \in Requests \ {r} : my'[q] = my[q]
      BY <1>4 DEF RejectStep, Replaces, TypeOK
    <3> QED
      BY <2>1, <3>2, <3>3 DEF CopiesOK, ExecsKept, TypeOK
  <2>3. PICK to \in {"fail", "save"} : pc' = [pc EXCEPT ![r] = to]
    BY <1>4 DEF RejectStep, Goes
  <2>4. UNCHANGED <<row, outbox, answer, batch, faults>>
    BY <1>4 DEF RejectStep
  <2>5. pc' \in [Requests -> Places] /\ \A q \in Requests : pc'[q] = "override" => pc[q] = "override"
    BY <2>3 DEF TypeOK, Places
  <2>6. /\ row'.status \in Statuses /\ outbox' \in Seq({"started", "completed", "failed"})
        /\ answer' \in [Requests -> Answers] /\ faults' \in Nat
        /\ \A q \in Requests : pc'[q] = "override" => answer'[q] \in {"paused", "terminated"}
    BY <2>4, <2>5 DEF TypeOK
  <2> QED
    BY <2>1, <2>2, <2>4, <2>5, <2>6, TypeFromParts
<1> QED
  BY <1>1, <1>2, <1>3, <1>4

(* A new batch, or none: no task in it executes a step yet. *)
LEMMA RefreshType ==
  ASSUME TypeOK, NEW r \in Requests, Refresh(r)
  PROVE  TypeOK'
<1> DEFINE tasks == [s \in Steps |->
             IF row.status = "running" /\ s \in ToSet(row.frontier) THEN NewTask ELSE NoTask]
<1>1. batch' = [batch EXCEPT ![r] = tasks] /\ UNCHANGED <<row, execs, outbox, answer, faults>>
  BY DEF Refresh, records
<1>2. NewTask \in [is : TaskStates, exec : Nat] /\ NoTask \in [is : TaskStates, exec : Nat]
  BY DEF NewTask, NoTask, TaskStates
<1>3. tasks \in [Steps -> [is : TaskStates, exec : Nat]]
  BY <1>2
<1>4. batch' \in [Requests -> [Steps -> [is : TaskStates, exec : Nat]]]
  BY <1>1, <1>3 DEF TypeOK
<1>5. ASSUME NEW q \in Requests, NEW s \in Steps, Task(q, s)'.is \in Executing
      PROVE  Task(q, s).is \in Executing /\ Task(q, s)'.exec = Task(q, s).exec
  <2>1. CASE q = r
    <3>1. Task(q, s)' = tasks[s]
      BY <1>1, <2>1 DEF Task, TypeOK
    <3>2. Task(q, s)'.is \in {"none", "queued"}
      BY <3>1 DEF NewTask, NoTask
    <3> QED
      BY <1>5, <3>2 DEF Executing
  <2>2. CASE q # r
    <3>1. Task(q, s)' = Task(q, s)
      BY <1>1, <2>2 DEF Task, TypeOK
    <3> QED
      BY <1>5, <3>1
  <2> QED
    BY <2>1, <2>2
<1>6. ExecsKept
  BY <1>1, UnchangedExecsKept
<1>7. \A q \in Requests, s \in Steps :
        Task(q, s)'.is \in Executing =>
          Task(q, s)'.exec \in DOMAIN execs' /\ execs'[Task(q, s)'.exec].step = s
  BY <1>5, <1>6, TasksKept
<1>8. pc' \in [Requests -> Places] /\ \A q \in Requests : pc'[q] = "override" => pc[q] = "override"
  BY DEF Refresh, Goes, TypeOK, Places
<1>9. CopiesOK'
  BY <1>1, CopyRead DEF Refresh, Places
<1> QED
  BY <1>1, <1>4, <1>7, <1>8, <1>9 DEF TypeOK, CopiesOK

(* The requests and the tasks of a process are gone. *)
LEMMA CrashType ==
  ASSUME TypeOK, NEW dead \in SUBSET Requests, Crash(dead)
  PROVE  TypeOK'
<1>1. /\ batch' = [r \in Requests |-> IF r \in dead THEN [s \in Steps |-> NoTask] ELSE batch[r]]
      /\ UNCHANGED <<row, execs, outbox, answer>>
      /\ faults' \in Nat
  BY DEF Crash, records, Fault, TypeOK
<1>2. NoTask \in [is : TaskStates, exec : Nat] /\ NoTask.is \notin Executing
  BY DEF NoTask, TaskStates, Executing
<1>3. batch' \in [Requests -> [Steps -> [is : TaskStates, exec : Nat]]]
  BY <1>1, <1>2 DEF TypeOK
<1>4. ASSUME NEW q \in Requests, NEW s \in Steps, Task(q, s)'.is \in Executing
      PROVE  Task(q, s).is \in Executing /\ Task(q, s)'.exec = Task(q, s).exec
  <2>1. Task(q, s)' = IF q \in dead THEN NoTask ELSE Task(q, s)
    BY <1>1 DEF Task
  <2> QED
    BY <1>2, <1>4, <2>1
<1>5. ExecsKept
  BY <1>1, UnchangedExecsKept
<1>6. \A q \in Requests, s \in Steps :
        Task(q, s)'.is \in Executing =>
          Task(q, s)'.exec \in DOMAIN execs' /\ execs'[Task(q, s)'.exec].step = s
  BY <1>4, <1>5, TasksKept
<1>7. pc' \in [Requests -> Places] /\ \A q \in Requests : pc'[q] = "override" => pc[q] = "override"
  BY DEF Crash, TypeOK, Places
<1>8. CopiesOK'
  BY <1>1, CopiesKept DEF Crash
<1> QED
  BY <1>1, <1>3, <1>6, <1>7, <1>8 DEF TypeOK, CopiesOK

(* A task inserts an execution of its step and keeps its index. *)
LEMMA BeginStepType ==
  ASSUME TypeOK, NEW r \in Requests, NEW s \in Steps, BeginStep(r, s)
  PROVE  TypeOK'
<1> DEFINE new == [step |-> s, state |-> "running", approval |-> "none", answers |-> <<>>]
           task == [is |-> "running", exec |-> Len(execs) + 1]
<1>1. new \in Execution
  BY DEF Execution
<1>2. execs \in Seq(Execution) /\ execs' = Append(execs, new)
  BY DEF BeginStep, TypeOK
<1>3. /\ execs' \in Seq(Execution)
      /\ Len(execs') = Len(execs) + 1 /\ Len(execs) \in Nat
      /\ \A y \in 1..Len(execs) : execs'[y] = execs[y]
      /\ execs'[Len(execs) + 1] = new
  BY <1>1, <1>2, AppendProperties, LenProperties
<1>4. DOMAIN execs = 1..Len(execs) /\ DOMAIN execs' = 1..(Len(execs) + 1)
  BY <1>2, <1>3, LenProperties
<1>5. batch' = [batch EXCEPT ![r] = [@ EXCEPT ![s] = task]]
  BY <1>3 DEF BeginStep
<1>6. task \in [is : TaskStates, exec : Nat]
  BY <1>3 DEF TaskStates, Executing
<1>7. batch' \in [Requests -> [Steps -> [is : TaskStates, exec : Nat]]]
  BY <1>5, <1>6 DEF TypeOK
<1>8. ASSUME NEW q \in Requests, NEW t \in Steps, Task(q, t)'.is \in Executing
      PROVE  Task(q, t)'.exec \in DOMAIN execs' /\ execs'[Task(q, t)'.exec].step = t
  <2>1. CASE q = r /\ t = s
    <3>1. Task(q, t)' = task
      BY <1>5, <2>1 DEF Task, TypeOK
    <3> QED
      BY <1>3, <1>4, <2>1, <3>1
  <2>2. CASE ~(q = r /\ t = s)
    <3>1. Task(q, t)' = Task(q, t)
      BY <1>5, <2>2 DEF Task, TypeOK
    <3>2. Task(q, t).exec \in DOMAIN execs /\ execs[Task(q, t).exec].step = t
      BY <1>8, <3>1 DEF TypeOK
    <3> QED
      BY <1>3, <1>4, <3>1, <3>2
  <2> QED
    BY <2>1, <2>2
<1>9. CopiesOK'
  BY <1>3, <1>4, CopiesKept DEF BeginStep
<1> QED
  BY <1>3, <1>7, <1>8, <1>9 DEF BeginStep, TypeOK, CopiesOK

(* A task that runs or asks ends, waits or starts to ask. *)
LEMMA TaskType ==
  ASSUME TypeOK, NEW r \in Requests, NEW s \in Steps,
         \/ CompleteStep(r, s) \/ FailStep(r, s) \/ RequestApproval(r, s)
         \/ StoreReference(r, s) \/ AwaitApproval(r, s) \/ StepErrs(r, s)
  PROVE  TypeOK'
<1> DEFINE x == Task(r, s).exec
<1>1. Task(r, s).is \in Executing
  BY DEF CompleteStep, FailStep, RequestApproval, StoreReference, AwaitApproval, StepErrs, Executing
<1>2. execs \in Seq(Execution) /\ x \in DOMAIN execs /\ execs[x] \in Execution
  BY <1>1, ExecutionType DEF TypeOK
<1>3. ExecsKept
  <2>1. CASE CompleteStep(r, s)
    BY <1>2, <2>1, StateChanged DEF CompleteStep, Records
  <2>2. CASE FailStep(r, s)
    BY <1>2, <2>2, StateChanged DEF FailStep, Records
  <2>3. CASE RequestApproval(r, s)
    BY <1>2, <2>3, ApprovalChanged DEF RequestApproval
  <2>4. CASE StoreReference(r, s)
    BY <1>2, <2>4, ApprovalChanged DEF StoreReference
  <2>5. CASE AwaitApproval(r, s)
    BY <1>2, <2>5, StateChanged DEF AwaitApproval, Records
  <2>6. CASE StepErrs(r, s)
    BY <1>2, <2>6, StateChanged, UnchangedExecsKept DEF StepErrs, Records
  <2> QED
    BY <2>1, <2>2, <2>3, <2>4, <2>5, <2>6
<1>4. \E is \in TaskStates : Becomes(r, s, is)
  <2>1. {"none", "awaiting", "completed", "rerouted", "raised", "asking", "asked"} \subseteq TaskStates
    BY DEF TaskStates, Executing
  <2> QED
    BY <2>1 DEF CompleteStep, FailStep, RequestApproval, StoreReference, AwaitApproval, StepErrs
<1>5. /\ batch' \in [Requests -> [Steps -> [is : TaskStates, exec : Nat]]]
      /\ \A q \in Requests, t \in Steps :
           Task(q, t)'.is \in Executing =>
             Task(q, t).is \in Executing /\ Task(q, t)'.exec = Task(q, t).exec
  BY <1>1, <1>4, TaskBecomes
<1>6. \A q \in Requests, t \in Steps :
        Task(q, t)'.is \in Executing =>
          Task(q, t)'.exec \in DOMAIN execs' /\ execs'[Task(q, t)'.exec].step = t
  BY <1>3, <1>5, TasksKept
<1>7. /\ UNCHANGED <<row, outbox, answer>> /\ faults' \in Nat
      /\ pc' \in [Requests -> Places]
      /\ \A q \in Requests : pc'[q] = "override" => pc[q] = "override"
  <2>1. CASE StepErrs(r, s)
    BY <2>1 DEF StepErrs, Fault, Goes, TypeOK, Places
  <2>2. CASE ~StepErrs(r, s)
    BY <2>2 DEF CompleteStep, FailStep, RequestApproval, StoreReference, AwaitApproval, TypeOK
  <2> QED
    BY <2>1, <2>2
<1>8. CopiesOK'
  <2>1. CASE StepErrs(r, s)
    BY <1>3, <2>1, CopiesKept DEF StepErrs, Goes, TypeOK, ExecsKept
  <2>2. CASE ~StepErrs(r, s)
    BY <1>3, <2>2, CopiesKept
       DEF CompleteStep, FailStep, RequestApproval, StoreReference, AwaitApproval, ExecsKept
  <2> QED
    BY <2>1, <2>2
<1> QED
  BY <1>3, <1>5, <1>6, <1>7, <1>8 DEF TypeOK, ExecsKept, CopiesOK

LEMMA StutterType == TypeOK /\ UNCHANGED vars => TypeOK'
  BY DEF TypeOK, vars, records, requests, Task

LEMMA NextType == TypeOK /\ [Next]_vars => TypeOK'
  BY RequestType, DecisionType, RefreshType, CrashType, BeginStepType, TaskType, StutterType
     DEF Next, RequestAction, StepAction

(* Every value stays in its type; in particular a task that executes its   *)
(* step points at an execution of that step (_execute_step's step_exec).   *)
THEOREM TypeCorrect == Safety => []TypeOK
<1>1. Init => TypeOK
  BY InitType
<1>2. TypeOK /\ [Next]_vars => TypeOK'
  BY NextType
<1> QED
  BY <1>1, <1>2, PTL DEF Safety

-----------------------------------------------------------------------------
(* Ownership.  Given the types, RunningIsOwned is inductive by itself: a    *)
(* request stops owning the instance only in the action that commits       *)
(* another status than "running", or that has just read one.               *)

Owning == {"start", "refresh", "batch", "complete", "fail"}

(* A request that goes on owning the instance keeps RunningIsOwned. *)
LEMMA StaysOwned ==
  ASSUME TypeOK, RunningIsOwned, NEW r \in Requests, NEW to \in Places,
         Goes(r, to), faults' = faults,
         row'.status = "running" => to \in Owning
  PROVE  RunningIsOwned'
  BY DEF TypeOK, RunningIsOwned, Goes, Owning

(* So does one that owned nothing, or an action that moves no request, if  *)
(* the row is left alone.                                                  *)
LEMMA OthersOwn ==
  ASSUME TypeOK, RunningIsOwned, UNCHANGED <<row, faults>>,
         \A q \in Requests : pc[q] \in Owning => pc'[q] = pc[q]
  PROVE  RunningIsOwned'
  BY DEF RunningIsOwned, Owning

LEMMA FaultOwned == TypeOK /\ Fault => RunningIsOwned'
  BY DEF TypeOK, Fault, RunningIsOwned

LEMMA RequestOwned ==
  ASSUME TypeOK, RunningIsOwned, NEW r \in Requests, CreateInstance(r) \/ RequestAction(r)
  PROVE  RunningIsOwned'
<1> USE StaysOwned
<1> USE DEF Owning, Places, Moves, Save, SaveAndReport, records
<1>1. CASE CreateInstance(r)
  BY <1>1 DEF CreateInstance
<1>2. CASE Start(r)
  BY <1>2 DEF Start
<1>3. CASE Refresh(r)
  BY <1>3 DEF Refresh
<1>4. CASE Advance(r)
  BY <1>4 DEF Advance
<1>5. CASE BatchRaises(r)
  BY <1>5 DEF BatchRaises
<1>6. CASE SaveFailed(r)
  BY <1>6 DEF SaveFailed
<1>7. CASE SaveCompleted(r)
  BY <1>7 DEF SaveCompleted
<1>8. CASE Override(r)
  BY <1>8 DEF Override, TypeOK
<1>9. CASE ReadForCallback(r)
  BY <1>9, OthersOwn DEF ReadForCallback, Reads, Goes, TypeOK
<1>10. CASE ApproveStep(r)
  BY <1>10, OthersOwn DEF ApproveStep, Goes, TypeOK
<1>11. CASE RejectStep(r)
  BY <1>11, OthersOwn DEF RejectStep, Goes, TypeOK
<1>12. CASE NothingToResume(r)
  BY <1>12, OthersOwn DEF NothingToResume, Goes, TypeOK
<1>13. CASE SaveResumed(r)
  BY <1>13 DEF SaveResumed
<1>14. CASE FindExecution(r)
  BY <1>14, OthersOwn DEF FindExecution, Goes, TypeOK
<1> QED
  BY <1>1, <1>2, <1>3, <1>4, <1>5, <1>6, <1>7, <1>8, <1>9, <1>10, <1>11, <1>12, <1>13, <1>14
     DEF RequestAction

LEMMA NextOwned == TypeOK /\ RunningIsOwned /\ [Next]_vars => RunningIsOwned'
<1> SUFFICES ASSUME TypeOK, RunningIsOwned, [Next]_vars PROVE RunningIsOwned'
  OBVIOUS
<1>1. ASSUME NEW r \in Requests, CreateInstance(r) \/ RequestAction(r) PROVE RunningIsOwned'
  BY <1>1, RequestOwned
<1>2. ASSUME NEW r \in Requests, ReadForPause(r) \/ ReadForTerminate(r) \/ ReadForResume(r)
      PROVE  RunningIsOwned'
  BY <1>2, OthersOwn
     DEF ReadForPause, ReadForTerminate, ReadForResume, Reads, Accepts, Goes, records, TypeOK, Owning
<1>3. ASSUME NEW r \in Requests, NEW x, NEW d, Decide(r, x, d) PROVE RunningIsOwned'
  BY <1>3, OthersOwn DEF Decide, Accepts, Goes, TypeOK, Owning
<1>4. ASSUME NEW r \in Requests, NEW s \in Steps, StepAction(r, s) PROVE RunningIsOwned'
  BY <1>4, OthersOwn
     DEF StepAction, BeginStep, CompleteStep, RequestApproval, StoreReference, AwaitApproval, FailStep
<1>5. ASSUME NEW r \in Requests, RequestErrs(r) \/ \E s \in Steps : StepErrs(r, s)
      PROVE  RunningIsOwned'
  BY <1>5, FaultOwned DEF RequestErrs, StepErrs
<1>6. ASSUME NEW dead \in SUBSET Requests, Crash(dead) PROVE RunningIsOwned'
  BY <1>6, FaultOwned DEF Crash
<1>7. CASE UNCHANGED vars
  BY <1>7, OthersOwn DEF vars, records, requests
<1> QED
  BY <1>1, <1>2, <1>3, <1>4, <1>5, <1>6, <1>7 DEF Next

(* However approvals, repeated callbacks, pauses, resumes and terminations  *)
(* interleave, an instance whose row says "running" has a request running  *)
(* it as long as no request has died or ended with an error: every save of *)
(* "running" (update_instance) is followed by the saver's own loop.        *)
THEOREM RunningIsOwnedHolds == Safety => []RunningIsOwned
<1>1. Init => RunningIsOwned
  BY DEF Init, RunningIsOwned
<1>2. TypeOK /\ RunningIsOwned /\ [Next]_vars => RunningIsOwned'
  BY NextOwned
<1> QED
  BY <1>1, <1>2, TypeCorrect, PTL DEF Safety

-----------------------------------------------------------------------------
(* Outcomes and their events.                                              *)

Early == {"idle", "start", "callback", "resume", "override", "done"}

(* Before workflow.started is queued there is no frontier anywhere, so no  *)
(* request can resume, run, fail or complete the instance.                 *)
StartedFirst ==
  /\ my = [r \in Requests |-> my[r]]
  /\ outbox = <<>> =>
       /\ row.frontier = <<>>
       /\ \A r \in Requests : pc[r] \in Early /\ my[r].frontier = <<>>

ReportInv == StartedFirst /\ OutcomesReported

(* Nothing changes for the outbox while it has an event and the row keeps  *)
(* its status.                                                             *)
LEMMA StillReported ==
  ASSUME TypeOK, ReportInv, UNCHANGED outbox, outbox # <<>>,
         row'.status \in {row.status, "running", "paused", "terminated"},
         my' = [r \in Requests |-> my'[r]]
  PROVE  ReportInv'
  BY DEF ReportInv, StartedFirst, OutcomesReported

(* A request that reads the row finds no frontier before that either. *)
LEMMA ReadReported ==
  ASSUME TypeOK, ReportInv, NEW r \in Requests, NEW what,
         NEW to \in {"override", "resume", "done"}, Reads(r, what, to), UNCHANGED records
  PROVE  ReportInv'
<1>1. my' = [q \in Requests |-> my'[q]]
  BY DEF Reads, ReportInv, StartedFirst
<1>2. \A q \in Requests : my'[q].frontier = IF q = r THEN row.frontier ELSE my[q].frontier
  BY DEF Reads, Copy, ReportInv, StartedFirst
<1>3. \A q \in Requests : pc'[q] = IF q = r THEN to ELSE pc[q]
  BY DEF Reads, Goes, TypeOK
<1> QED
  BY <1>1, <1>2, <1>3 DEF records, ReportInv, StartedFirst, OutcomesReported, Early

(* An event is queued with the outcome it reports. *)
LEMMA NewlyReported ==
  ASSUME TypeOK, ReportInv, NEW status, NEW frontier, NEW kind \in {"started", "completed", "failed"},
         SaveAndReport(status, frontier, kind), UNCHANGED my,
         status = kind \/ status = "running",
         outbox = <<>> => kind = "started"
  PROVE  ReportInv'
<1> DEFINE Kinds == {"started", "completed", "failed"}
<1>0. outbox \in Seq(Kinds) /\ Len(outbox) \in Nat
  BY LenProperties DEF TypeOK
<1>1. /\ outbox' \in Seq(Kinds) /\ outbox' # <<>>
      /\ Len(outbox') = Len(outbox) + 1
      /\ \A i \in 1..Len(outbox) : outbox'[i] = outbox[i]
      /\ outbox'[Len(outbox) + 1] = kind
  <2>1. kind \in Kinds
    OBVIOUS
  <2>2. outbox' = Append(outbox, kind)
    BY DEF SaveAndReport
  <2> HIDE DEF Kinds
  <2>3. Append(outbox, kind) \in Seq(Kinds) /\ Append(outbox, kind) # <<>>
    BY <1>0, <2>1, AppendProperties
  <2>4. Len(Append(outbox, kind)) = Len(outbox) + 1
    BY <1>0, <2>1, AppendProperties
  <2>5. \A i \in 1..Len(outbox) : Append(outbox, kind)[i] = outbox[i]
    BY <1>0, <2>1, AppendProperties
  <2>6. Append(outbox, kind)[Len(outbox) + 1] = kind
    BY <1>0, <2>1, AppendProperties
  <2> QED
    BY <2>2, <2>3, <2>4, <2>5, <2>6
<1>2. kind \in ToSet(outbox')
  <2>1. DOMAIN outbox' = 1..(Len(outbox) + 1)
    BY <1>1, LenProperties
  <2> QED
    BY <1>0, <1>1, <2>1 DEF ToSet
<1>3. outbox'[1] = "started"
  <2>1. CASE outbox = <<>>
    <3>1. Len(outbox) = 0
      BY <2>1
    <3> QED
      BY <1>1, <2>1, <3>1
  <2>2. CASE outbox # <<>>
    <3>1. Len(outbox) # 0
      BY <1>0, <2>2, EmptySeq
    <3>2. 1 \in 1..Len(outbox)
      BY <1>0, <3>1
    <3> QED
      BY <1>1, <2>2, <3>2 DEF ReportInv, OutcomesReported
  <2> QED
    BY <2>1, <2>2
<1> QED
  BY <1>1, <1>2, <1>3 DEF SaveAndReport, Save, ReportInv, StartedFirst, OutcomesReported

LEMMA RequestReported ==
  ASSUME TypeOK, ReportInv, NEW r \in Requests, CreateInstance(r) \/ RequestAction(r)
  PROVE  ReportInv'
<1>1. CASE CreateInstance(r)
  BY <1>1 DEF CreateInstance, Save, Goes, Early, ReportInv, StartedFirst, OutcomesReported, TypeOK
<1>2. CASE Start(r)
  BY <1>2, NewlyReported DEF Start
<1>3. ASSUME pc[r] \notin Early PROVE outbox # <<>>
  BY <1>3 DEF ReportInv, StartedFirst
<1>4. CASE Refresh(r)
  BY <1>3, <1>4, StillReported DEF Refresh, Early, records, ReportInv, StartedFirst
<1>5. CASE Advance(r)
  BY <1>3, <1>5, StillReported DEF Advance, Save, Early, ReportInv, StartedFirst
<1>6. CASE BatchRaises(r)
  BY <1>3, <1>6, StillReported DEF BatchRaises, Moves, Early, records, ReportInv, StartedFirst
<1>7. CASE SaveFailed(r)
  BY <1>3, <1>7, NewlyReported DEF SaveFailed, Moves, Early
<1>8. CASE SaveCompleted(r)
  BY <1>3, <1>8, NewlyReported DEF SaveCompleted, Moves, Early
<1>9. CASE Override(r)
  <2>1. CASE outbox = <<>>
    <3>1. /\ pc' = [pc EXCEPT ![r] = "done"] /\ UNCHANGED <<outbox, my>>
          /\ row'.status = answer[r] /\ row'.frontier = my[r].frontier
          /\ answer[r] \in {"paused", "terminated"}
      BY <1>9 DEF Override, Moves, Goes, Save, TypeOK
    <3>2. \A q \in Requests : pc'[q] \in Early
      BY <2>1, <3>1 DEF ReportInv, StartedFirst, Early, TypeOK
    <3>3. StartedFirst'
      BY <2>1, <3>1, <3>2 DEF ReportInv, StartedFirst
    <3>4. OutcomesReported'
      BY <2>1, <3>1 DEF ReportInv, OutcomesReported
    <3> QED
      BY <3>3, <3>4 DEF ReportInv
  <2>2. CASE outbox # <<>>
    BY <1>9, <2>2, StillReported DEF Override, Moves, Save, ReportInv, StartedFirst, TypeOK
  <2> QED
    BY <2>1, <2>2
<1>10. CASE ReadForCallback(r)
  BY <1>10, ReadReported DEF ReadForCallback
<1>11. ASSUME my[r].frontier # <<>> PROVE outbox # <<>>
  BY <1>11 DEF ReportInv, StartedFirst
<1>12. CASE ApproveStep(r)
  BY <1>3, <1>12, StillReported DEF ApproveStep, Replaces, Moves, Early, ReportInv, StartedFirst
<1>13. CASE RejectStep(r)
  BY <1>3, <1>13, StillReported DEF RejectStep, Replaces, Early, ReportInv, StartedFirst
<1>14. CASE NothingToResume(r)
  BY <1>14 DEF NothingToResume, Moves, Goes, records, Early, ReportInv, StartedFirst,
               OutcomesReported, TypeOK
<1>15. CASE SaveResumed(r)
  BY <1>3, <1>15, StillReported DEF SaveResumed, Moves, Save, Early, ReportInv, StartedFirst
<1>16. CASE FindExecution(r)
  BY <1>11, <1>16, StillReported DEF FindExecution, records, ReportInv, StartedFirst
<1> QED
  BY <1>1, <1>2, <1>4, <1>5, <1>6, <1>7, <1>8, <1>9, <1>10, <1>12, <1>13, <1>14, <1>15, <1>16
     DEF RequestAction

LEMMA NextReported == TypeOK /\ ReportInv /\ [Next]_vars => ReportInv'
<1> SUFFICES ASSUME TypeOK, ReportInv, [Next]_vars PROVE ReportInv'
  OBVIOUS
<1> USE DEF ReportInv, StartedFirst, OutcomesReported, Early
<1>1. ASSUME NEW r \in Requests, CreateInstance(r) \/ RequestAction(r) PROVE ReportInv'
  BY <1>1, RequestReported
<1>2. ASSUME NEW r \in Requests, ReadForPause(r) \/ ReadForTerminate(r) \/ ReadForResume(r)
      PROVE  ReportInv'
  BY <1>2, ReadReported DEF ReadForPause, ReadForTerminate, ReadForResume
<1>3. ASSUME NEW r \in Requests, NEW x, NEW d, Decide(r, x, d) PROVE ReportInv'
  BY <1>3 DEF Decide, Goes, TypeOK
<1>4. ASSUME NEW r \in Requests, NEW s \in Steps, StepAction(r, s) PROVE ReportInv'
  BY <1>4
     DEF StepAction, BeginStep, CompleteStep, RequestApproval, StoreReference, AwaitApproval, FailStep
<1>5. ASSUME NEW r \in Requests, NEW s \in Steps, StepErrs(r, s) PROVE ReportInv'
  BY <1>5 DEF StepErrs, Goes, TypeOK
<1>6. ASSUME NEW r \in Requests, RequestErrs(r) PROVE ReportInv'
  BY <1>6 DEF RequestErrs, Goes, records, TypeOK
<1>7. ASSUME NEW dead \in SUBSET Requests, Crash(dead) PROVE ReportInv'
  BY <1>7 DEF Crash, records, TypeOK
<1>8. CASE UNCHANGED vars
  BY <1>8 DEF vars, records, requests
<1> QED
  BY <1>1, <1>2, <1>3, <1>4, <1>5, <1>6, <1>7, <1>8 DEF Next

(* Whatever requests race to commit, a row that says "completed" or        *)
(* "failed" has that event queued, and workflow.started is queued before   *)
(* either (update_instance_and_enqueue_event).                             *)
THEOREM OutcomesReportedHolds == Safety => []OutcomesReported
<1>1. Init => ReportInv
  BY DEF Init, Copy, ReportInv, StartedFirst, OutcomesReported, Early
<1>2. TypeOK /\ ReportInv /\ [Next]_vars => ReportInv'
  BY NextReported
<1>3. ReportInv => OutcomesReported
  BY DEF ReportInv
<1> QED
  BY <1>1, <1>2, <1>3, TypeCorrect, PTL DEF Safety

=============================================================================
