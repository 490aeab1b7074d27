------------------------- MODULE ApprovalGateProofs -------------------------
(***************************************************************************)
(* Proofs about WorkflowScheduler as the Workflow Engine means it to be    *)
(* used: no operator steps in, an approval is answered once, and at most   *)
(* one step of the instance waits for a human (core/scheduler.py:15-19).   *)
(* The last two are not properties of every graph and every client, so     *)
(* they are hypotheses of the theorems, as state predicates that are to    *)
(* hold throughout the behaviour.                                          *)
(***************************************************************************)
EXTENDS WorkflowSchedulerProofs

Waiting == {"asking", "asked", "awaiting"}
Waits(r, s) == Task(r, s).is \in Waiting

(* core/scheduler.py:15-19: one step at a time waits for an approval. *)
OneWaits == \A r \in Requests, s, t \in Steps : Waits(r, s) /\ Waits(r, t) => s = t

(* Human Oversight's callback about an approval is not repeated. *)
AnsweredOnce == \A x \in DOMAIN execs : Len(execs[x].answers) <= 1

-----------------------------------------------------------------------------
(* The baton.  At most one request works on the instance; a request that   *)
(* does hands the work on only by pausing the instance, and what takes the *)
(* work up again is the answer to the one approval that is open then.      *)

Active == {"queued"} \cup Executing
Working == {"start", "refresh", "batch", "complete", "fail", "resume", "settle", "save"}
Works(r) == pc[r] \in Working \/ \E s \in Steps : Task(r, s).is \in Active

OneWorks == \A q, r \in Requests : Works(q) /\ Works(r) => q = r

(* An approval that has not been answered, and one whose answer is handled. *)
Unanswered(x) == execs[x].approval # "none" /\ execs[x].answers = <<>>
Answering(r) == pc[r] = "callback"

NoAnswerDue ==
  /\ \A x \in DOMAIN execs : ~Unanswered(x)
  /\ \A r \in Requests : ~Answering(r)

OneAnswerDue ==
  /\ \A x, y \in DOMAIN execs : Unanswered(x) /\ Unanswered(y) => x = y
  /\ \A q, r \in Requests : Answering(q) /\ Answering(r) => q = r
  /\ \A x \in DOMAIN execs, r \in Requests : ~(Unanswered(x) /\ Answering(r))

(* The row's status while a request is at each place. *)
StatusOK ==
  \A r \in Requests :
    /\ pc[r] \in {"start", "refresh", "batch", "complete"} => row.status = "running"
    /\ pc[r] = "fail" => row.status \in {"running", "paused"}
    /\ pc[r] \in {"resume", "settle", "save"} => row.status = "paused"
    /\ pc[r] # "override"
    /\ row.status = "absent" => pc[r] = "idle"

(* The tasks a request has at each place. *)
TaskOK(r, s) ==
  /\ pc[r] \in {"idle", "start", "callback", "resume", "settle", "save"} => Task(r, s).is = "none"
  /\ pc[r] \in {"refresh", "complete"} => Task(r, s).is \notin Active
  /\ pc[r] = "fail" /\ row.status = "paused" => Task(r, s).is = "none"
  /\ pc[r] = "batch" /\ Task(r, s).is # "none" => s \in ToSet(my[r].frontier)
  /\ Task(r, s).is \in {"asking", "asked"} => execs[Task(r, s).exec].approval # "none"

TasksOK == \A r \in Requests, s \in Steps : TaskOK(r, s)

(* While a request works outside a batch no answer is due; in a batch one  *)
(* is only if a task has asked for it; and in a pause either one is due or *)
(* one request works.                                                      *)
AnswersOK ==
  /\ \A r \in Requests :
       /\ pc[r] \in {"start", "refresh", "resume", "settle", "save"} => NoAnswerDue
       /\ pc[r] = "batch" =>
            /\ OneAnswerDue
            /\ \A x \in DOMAIN execs : Unanswered(x) => \E s \in Steps : Waits(r, s) /\ Task(r, s).exec = x
            /\ \A q \in Requests : Answering(q) => \E s \in Steps : Waits(r, s)
  /\ row.status = "absent" => NoAnswerDue
  /\ row.status = "paused" =>
       /\ OneAnswerDue
       /\ \A r \in Requests :
            Works(r) => pc[r] \in {"resume", "settle", "save", "fail"} /\ NoAnswerDue

Baton == OneWorks /\ StatusOK /\ TasksOK /\ AnswersOK

LEMMA InitBaton == Init => Baton
  BY DEF Init, Baton, OneWorks, StatusOK, TasksOK, TaskOK, AnswersOK, NoAnswerDue, OneAnswerDue,
         Works, Working, Active, Executing, Answering, Task, NoTask, Waits, Waiting

(* An action that leaves the approvals and their answers alone. *)
AnswersKept ==
  /\ DOMAIN execs' = DOMAIN execs
  /\ \A x \in DOMAIN execs :
       execs'[x].approval = execs[x].approval /\ execs'[x].answers = execs[x].answers

LEMMA RecordKeepsAnswers ==
  ASSUME TypeOK, NEW x \in DOMAIN execs, NEW state, execs' = [execs EXCEPT ![x].state = state]
  PROVE  AnswersKept
<1>1. execs[x] \in Execution
  BY ExecutionType DEF TypeOK
<1>2. \A y \in DOMAIN execs : execs'[y] = IF y = x THEN [execs[x] EXCEPT !.state = state] ELSE execs[y]
  OBVIOUS
<1>3. [execs[x] EXCEPT !.state = state].approval = execs[x].approval
      /\ [execs[x] EXCEPT !.state = state].answers = execs[x].answers
  BY <1>1 DEF Execution
<1> QED
  BY <1>2, <1>3 DEF AnswersKept

LEMMA SettlesKeepsAnswers ==
  ASSUME TypeOK, NEW r \in Requests, pc[r] = "settle", NEW state, Settles(r, state)
  PROVE  AnswersKept
<1>1. my[r].step_exec \in DOMAIN execs \cup {0}
  BY DEF TypeOK
<1>2. CASE UNCHANGED execs
  BY <1>2 DEF AnswersKept
<1>3. CASE \E x \in DOMAIN execs : execs' = [execs EXCEPT ![x].state = state]
  BY <1>3, RecordKeepsAnswers
<1> QED
  BY <1>1, <1>2, <1>3 DEF Settles

(* A request that moves, while tasks and answers stay. *)
RequestMoves(r, to) ==
  /\ Goes(r, to) /\ UNCHANGED batch /\ AnswersKept
  /\ \A q \in Requests \ {r} : my'[q] = my[q]

LEMMA MovesPointwise ==
  ASSUME TypeOK, NEW r \in Requests, NEW to, RequestMoves(r, to)
  PROVE  /\ \A q \in Requests : pc'[q] = IF q = r THEN to ELSE pc[q]
         /\ \A q \in Requests, s \in Steps : Task(q, s)' = Task(q, s) /\ (Waits(q, s)' <=> Waits(q, s))
         /\ \A q \in Requests : q # r => (Answering(q)' <=> Answering(q)) /\ (Works(q)' <=> Works(q))
         /\ DOMAIN execs' = DOMAIN execs
         /\ \A x \in DOMAIN execs : Unanswered(x)' <=> Unanswered(x)
<1>1. \A q \in Requests : pc'[q] = IF q = r THEN to ELSE pc[q]
  BY DEF RequestMoves, Goes, TypeOK
<1>2. \A q \in Requests, s \in Steps : Task(q, s)' = Task(q, s)
  BY DEF RequestMoves, Task
<1>3. \A q \in Requests, s \in Steps : Waits(q, s)' <=> Waits(q, s)
  BY <1>2 DEF Waits
<1>4. \A x \in DOMAIN execs : Unanswered(x)' <=> Unanswered(x)
  BY DEF RequestMoves, AnswersKept, Unanswered
<1>5. \A q \in Requests : q # r => (Answering(q)' <=> Answering(q)) /\ (Works(q)' <=> Works(q))
  BY <1>1, <1>2 DEF Answering, Works
<1> QED
  BY <1>1, <1>2, <1>3, <1>4, <1>5 DEF RequestMoves, AnswersKept

(* Only a request that already works goes on working, or one when none does. *)
LEMMA MoveOneWorks ==
  ASSUME TypeOK, OneWorks, NEW r \in Requests, NEW to, RequestMoves(r, to),
         to \in Working => Works(r) \/ \A q \in Requests : ~Works(q)
  PROVE  OneWorks'
<1>1. Works(r)' => to \in Working \/ \E s \in Steps : Task(r, s).is \in Active
  BY MovesPointwise DEF Works
<1> QED
  BY <1>1, MovesPointwise DEF OneWorks, Works

LEMMA MoveTasks ==
  ASSUME TypeOK, TasksOK, NEW r \in Requests, NEW to, RequestMoves(r, to),
         row'.status = "paused" =>
           row.status = "paused" \/ \A q \in Requests \ {r} : pc'[q] # "fail",
         to # "batch",
         to \in {"start", "callback", "resume", "settle", "save"} =>
           \A s \in Steps : Task(r, s).is = "none",
         to \in {"refresh", "complete"} => \A s \in Steps : Task(r, s).is \notin Active,
         to = "fail" /\ row'.status = "paused" => \A s \in Steps : Task(r, s).is = "none",
         to # "idle"
  PROVE  TasksOK'
<1> SUFFICES ASSUME NEW q \in Requests, NEW s \in Steps
             PROVE  TaskOK(q, s)'
  BY DEF TasksOK
<1>1. Task(q, s).is \in {"asking", "asked"} =>
        Task(q, s).exec \in DOMAIN execs /\ execs[Task(q, s).exec].approval # "none"
  BY DEF TypeOK, TasksOK, TaskOK, Executing
<1>2. Task(q, s)'.is \in {"asking", "asked"} => execs'[Task(q, s)'.exec].approval # "none"
  BY <1>1, MovesPointwise DEF RequestMoves, AnswersKept
<1>3. CASE q = r
  BY <1>2, <1>3, MovesPointwise DEF TasksOK, TaskOK
<1>4. CASE q # r
  <2>1. my'[q] = my[q]
    BY <1>4 DEF RequestMoves
  <2> QED
    BY <1>2, <1>4, <2>1, MovesPointwise DEF TasksOK, TaskOK
<1> QED
  BY <1>3, <1>4

(* The one that works may move on, also to a place where no answer may be  *)
(* due if none is.                                                         *)
LEMMA MoveAnswers ==
  ASSUME TypeOK, AnswersOK, OneWorks, NEW r \in Requests, NEW to, RequestMoves(r, to),
         Works(r), ~Answering(r), to \notin {"batch", "callback"},
         row'.status # "absent",
         to \in {"start", "refresh", "resume", "settle", "save"} => NoAnswerDue,
         row'.status = "paused" =>
           /\ OneAnswerDue
           /\ \/ to \in {"resume", "settle", "save", "fail"} /\ NoAnswerDue
              \/ to \notin Working /\ \A s \in Steps : Task(r, s).is \notin Active
  PROVE  AnswersOK'
<1> USE MovesPointwise
<1>1. OneAnswerDue => OneAnswerDue'
  BY DEF OneAnswerDue, Answering
<1>2. NoAnswerDue => NoAnswerDue'
  BY DEF NoAnswerDue, Answering
<1>3. \A q \in Requests : pc'[q] \in {"start", "refresh", "resume", "settle", "save"} => NoAnswerDue'
  BY <1>2 DEF AnswersOK
<1>4. \A q \in Requests : pc'[q] # "batch"
  BY DEF OneWorks, Works, Working
<1>5. ASSUME row'.status = "paused", NEW q \in Requests, Works(q)'
      PROVE  pc'[q] \in {"resume", "settle", "save", "fail"} /\ NoAnswerDue'
  <2>1. q = r
    BY <1>5 DEF OneWorks
  <2> QED
    BY <1>2, <1>5, <2>1 DEF Works
<1> QED
  BY <1>1, <1>3, <1>4, <1>5 DEF AnswersOK

(* Where a request that works may go, and what has to hold for it. *)
Placed(r, to) ==
  \/ /\ to = "done"
     /\ row'.status = "paused" => OneAnswerDue /\ \A s \in Steps : Task(r, s).is \notin Active
  \/ /\ to = "refresh" /\ row'.status = "running" /\ NoAnswerDue
     /\ \A s \in Steps : Task(r, s).is \notin Active
  \/ /\ to = "fail" /\ row'.status = "running"
  \/ /\ to \in {"settle", "save", "fail"} /\ row'.status = "paused" /\ NoAnswerDue
     /\ \A s \in Steps : Task(r, s).is = "none"

LEMMA NoneDue == NoAnswerDue => OneAnswerDue
  BY DEF NoAnswerDue, OneAnswerDue

LEMMA WorkerMoves ==
  ASSUME TypeOK, Baton, NEW r \in Requests, NEW to, RequestMoves(r, to),
         pc[r] \in Working, row'.status # "absent", Placed(r, to)
  PROVE  Baton'
<1>1. Works(r) /\ ~Answering(r)
  BY DEF Works, Answering, Working
<1>2. \A q \in Requests : pc'[q] \in Working => q = r /\ pc'[q] = to
  BY <1>1, MovesPointwise DEF Baton, OneWorks, Works
<1>3. to \in {"done", "refresh", "fail", "settle", "save"}
  BY DEF Placed
<1>4. OneWorks'
  BY <1>1, MoveOneWorks DEF Baton
<1>5. \A q \in Requests : pc'[q] # "override"
  BY <1>3, MovesPointwise DEF Baton, StatusOK
<1>6. StatusOK'
  BY <1>2, <1>5 DEF StatusOK, Placed, Working
<1>7. TasksOK'
  <2>1. \A q \in Requests \ {r} : pc'[q] # "fail"
    BY <1>2 DEF Working
  <2> QED
    BY <1>3, <2>1, MoveTasks DEF Baton, Placed, Active, Executing
<1>8. AnswersOK'
  <2>1. to \in {"start", "refresh", "resume", "settle", "save"} => NoAnswerDue
    BY DEF Placed
  <2>2. row'.status = "paused" =>
          /\ OneAnswerDue
          /\ \/ to \in {"resume", "settle", "save", "fail"} /\ NoAnswerDue
             \/ to \notin Working /\ \A s \in Steps : Task(r, s).is \notin Active
    BY NoneDue DEF Placed, Working
  <2>3. to \notin {"batch", "callback"}
    BY <1>3
  <2> QED
    BY <1>1, <2>1, <2>2, <2>3, MoveAnswers DEF Baton
<1> QED
  BY <1>4, <1>6, <1>7, <1>8 DEF Baton

LEMMA MoveBaton ==
  ASSUME TypeOK, Baton, NEW r \in Requests,
         \/ Start(r) \/ BatchRaises(r) \/ SaveFailed(r) \/ SaveCompleted(r)
         \/ FindExecution(r) \/ NothingToResume(r) \/ ApproveStep(r) \/ RejectStep(r)
         \/ SaveResumed(r)
  PROVE  Baton'
<1>1. pc[r] \in {"start", "resume", "settle", "save"} =>
        NoAnswerDue /\ \A s \in Steps : Task(r, s).is = "none"
  BY DEF Baton, AnswersOK, TasksOK, TaskOK
<1>2. "none" \notin Active
  BY DEF Active, Executing
<1>3. CASE Start(r)
  BY <1>1, <1>2, <1>3, WorkerMoves
     DEF Start, Moves, RequestMoves, SaveAndReport, Save, AnswersKept, Working, Placed
<1>4. CASE BatchRaises(r)
  BY <1>4, WorkerMoves
     DEF BatchRaises, Moves, RequestMoves, records, AnswersKept, Working, Placed, Baton, StatusOK
<1>5. CASE SaveFailed(r)
  BY <1>5, WorkerMoves
     DEF SaveFailed, Moves, RequestMoves, SaveAndReport, Save, AnswersKept, Working, Placed
<1>6. CASE SaveCompleted(r)
  BY <1>6, WorkerMoves
     DEF SaveCompleted, Moves, RequestMoves, SaveAndReport, Save, AnswersKept, Working, Placed
<1>7. CASE FindExecution(r)
  <2>1. RequestMoves(r, "settle") /\ row' = row /\ pc[r] = "resume"
    BY <1>7 DEF FindExecution, Moves, RequestMoves, records, AnswersKept, TypeOK
  <2> QED
    BY <1>1, <2>1, WorkerMoves DEF Working, Placed, Baton, StatusOK
<1>8. CASE NothingToResume(r)
  BY <1>1, <1>2, <1>8, NoneDue, WorkerMoves
     DEF NothingToResume, Moves, RequestMoves, records, AnswersKept, Working, Placed, Baton, StatusOK
<1>9. CASE ApproveStep(r)
  <2>1. RequestMoves(r, "save") /\ row' = row /\ pc[r] = "settle"
    BY <1>9, SettlesKeepsAnswers DEF ApproveStep, Moves, RequestMoves, Replaces, TypeOK
  <2> QED
    BY <1>1, <2>1, WorkerMoves DEF Working, Placed, Baton, StatusOK
<1>10. CASE RejectStep(r)
  <2>1. /\ RequestMoves(r, "save") \/ RequestMoves(r, "fail")
        /\ row' = row /\ pc[r] = "settle"
    BY <1>10, SettlesKeepsAnswers DEF RejectStep, Moves, RequestMoves, Replaces, TypeOK
  <2> QED
    BY <1>1, <2>1, WorkerMoves DEF Working, Placed, Baton, StatusOK
<1>11. CASE SaveResumed(r)
  BY <1>1, <1>2, <1>11, WorkerMoves
     DEF SaveResumed, Moves, RequestMoves, Save, AnswersKept, Working, Placed
<1> QED
  BY <1>3, <1>4, <1>5, <1>6, <1>7, <1>8, <1>9, <1>10, <1>11

LEMMA AdvanceBaton ==
  ASSUME TypeOK, Baton, NEW r \in Requests, Advance(r)
  PROVE  Baton'
<1>1. \A s \in Steps : Task(r, s).is \in {"none", "awaiting", "completed", "rerouted"}
  BY DEF Advance, Baton, TasksOK, TaskOK
<1>2. \A s \in Steps : Task(r, s).is \notin Active
  BY <1>1 DEF Active, Executing
<1>3. CASE \E s \in Steps : Task(r, s).is = "awaiting"
  <2>1. RequestMoves(r, "done") /\ row'.status = "paused"
    BY <1>3 DEF Advance, RequestMoves, Save, AnswersKept
  <2>2. OneAnswerDue
    BY DEF Advance, Baton, AnswersOK
  <2> QED
    BY <1>2, <2>1, <2>2, WorkerMoves DEF Advance, Working, Placed
<1>4. CASE ~\E s \in Steps : Task(r, s).is = "awaiting"
  <2>1. RequestMoves(r, "refresh") /\ row'.status = "running"
    BY <1>4 DEF Advance, RequestMoves, Save, AnswersKept
  <2>2. \A s \in Steps : ~Waits(r, s)
    BY <1>1, <1>4 DEF Waits, Waiting
  <2>3. NoAnswerDue
    BY <2>2 DEF Advance, Baton, AnswersOK, NoAnswerDue
  <2> QED
    BY <1>2, <2>1, <2>3, WorkerMoves DEF Advance, Working, Placed
<1> QED
  BY <1>3, <1>4

(* The answer's request resumes a paused instance, on which none works     *)
(* while the answer is due, or ends.                                       *)
LEMMA AnswererMoves ==
  ASSUME TypeOK, Baton, NEW r \in Requests, NEW to, RequestMoves(r, to), pc[r] = "callback",
         UNCHANGED row, to = "done" \/ (to = "resume" /\ row.status = "paused")
  PROVE  Baton'
<1>1. Answering(r) /\ ~NoAnswerDue
  BY DEF Answering, NoAnswerDue
<1>2. \A s \in Steps : Task(r, s).is = "none"
  BY DEF Baton, TasksOK, TaskOK
<1>3. "none" \notin Active
  BY DEF Active, Executing
<1>4. row.status = "paused" => \A q \in Requests : ~Works(q)
  BY <1>1 DEF Baton, AnswersOK
<1>5. OneWorks'
  BY <1>4, MoveOneWorks DEF Baton, Working
<1>6. StatusOK'
  BY MovesPointwise DEF Baton, StatusOK
<1>7. TasksOK'
  BY <1>2, MoveTasks DEF Baton
<1>8. OneAnswerDue => NoAnswerDue'
  BY <1>1, MovesPointwise DEF OneAnswerDue, NoAnswerDue, Answering
<1>9. AnswersOK'
  <2>1. ASSUME NEW q \in Requests, pc'[q] \in {"start", "refresh", "resume", "settle", "save"}
        PROVE  NoAnswerDue'
    <3>1. CASE q = r
      BY <1>8, <2>1, <3>1, MovesPointwise DEF Baton, AnswersOK
    <3>2. CASE q # r
      BY <1>1, <2>1, <3>2, MovesPointwise DEF Baton, AnswersOK
    <3> QED
      BY <3>1, <3>2
  <2>2. ASSUME NEW q \in Requests, pc'[q] = "batch"
        PROVE  /\ OneAnswerDue'
               /\ \A x \in DOMAIN execs' :
                    Unanswered(x)' => \E s \in Steps : Waits(q, s)' /\ Task(q, s)'.exec = x
               /\ \A p \in Requests : Answering(p)' => \E s \in Steps : Waits(q, s)'
    <3>1. pc[q] = "batch"
      BY <2>2, MovesPointwise
    <3>2. NoAnswerDue'
      BY <1>8, <3>1 DEF Baton, AnswersOK
    <3> QED
      BY <3>2 DEF NoAnswerDue, OneAnswerDue
  <2>3. row'.status = "absent" => NoAnswerDue'
    BY <1>1 DEF Baton, AnswersOK
  <2>4. ASSUME row'.status = "paused"
        PROVE  /\ OneAnswerDue'
               /\ \A q \in Requests : Works(q)' =>
                    pc'[q] \in {"resume", "settle", "save", "fail"} /\ NoAnswerDue'
    <3>1. NoAnswerDue'
      BY <1>8, <2>4 DEF Baton, AnswersOK
    <3>2. OneAnswerDue'
      BY <3>1 DEF NoAnswerDue, OneAnswerDue
    <3>3. \A q \in Requests : Works(q)' => q = r
      BY <1>4, <2>4, MovesPointwise
    <3>4. Works(r)' => to = "resume"
      BY <1>2, <1>3, MovesPointwise DEF Works, Working
    <3> QED
      BY <3>1, <3>2, <3>3, <3>4, MovesPointwise
  <2> QED
    BY <2>1, <2>2, <2>3, <2>4 DEF AnswersOK
<1> QED
  BY <1>5, <1>6, <1>7, <1>9 DEF Baton

LEMMA AnswerBaton ==
  ASSUME TypeOK, Baton, NEW r \in Requests, ReadForCallback(r) \/ RequestErrs(r)
  PROVE  Baton'
<1>1. CASE ReadForCallback(r)
  <2>1. RequestMoves(r, IF row.status = "paused" THEN "resume" ELSE "done") /\ row' = row
    BY <1>1 DEF ReadForCallback, Reads, RequestMoves, records, AnswersKept, TypeOK
  <2> QED
    BY <1>1, <2>1, AnswererMoves DEF ReadForCallback
<1>2. CASE RequestErrs(r)
  <2>1. RequestMoves(r, "done") /\ row' = row
    BY <1>2 DEF RequestErrs, RequestMoves, records, AnswersKept
  <2>2. CASE pc[r] = "callback"
    BY <2>1, <2>2, AnswererMoves
  <2>3. CASE pc[r] \in Working
    <3>1. row.status # "absent"
      BY <2>3 DEF Baton, StatusOK, Working
    <3>2. row.status = "paused" => OneAnswerDue /\ \A s \in Steps : Task(r, s).is \notin Active
      BY <2>3 DEF Baton, StatusOK, Working, AnswersOK, TasksOK, TaskOK, Works, Active, Executing
    <3> QED
      BY <2>1, <2>3, <3>1, <3>2, WorkerMoves DEF Placed
  <2> QED
    BY <1>2, <2>2, <2>3 DEF RequestErrs, Busy, TypeOK, Places, Working, Baton, StatusOK
<1> QED
  BY <1>1, <1>2

LEMMA CreateBaton ==
  ASSUME TypeOK, Baton, NEW r \in Requests, CreateInstance(r)
  PROVE  Baton'
<1>1. RequestMoves(r, "start") /\ row.status = "absent" /\ row'.status = "running"
  BY DEF CreateInstance, RequestMoves, Save, AnswersKept
<1>2. \A q \in Requests : pc[q] = "idle" /\ \A s \in Steps : Task(q, s).is = "none"
  BY <1>1 DEF Baton, StatusOK, TasksOK, TaskOK
<1>3. \A q \in Requests : ~Works(q)
  BY <1>2 DEF Works, Working, Active, Executing
<1>4. \A q \in Requests : pc'[q] = IF q = r THEN "start" ELSE "idle"
  BY <1>1, <1>2, MovesPointwise
<1>5. OneWorks'
  BY <1>1, <1>3, MoveOneWorks DEF Baton
<1>6. StatusOK'
  BY <1>1, <1>4 DEF StatusOK
<1>7. TasksOK'
  BY <1>1, <1>2, <1>4, MoveTasks DEF Baton
<1>8. NoAnswerDue'
  BY <1>1, <1>4, MovesPointwise DEF Baton, AnswersOK, NoAnswerDue, Answering
<1>9. AnswersOK'
  BY <1>1, <1>4, <1>8 DEF AnswersOK
<1> QED
  BY <1>5, <1>6, <1>7, <1>9 DEF Baton

(* A new batch, of the steps of the frontier. *)
LEMMA RefreshBaton ==
  ASSUME TypeOK, Baton, NEW r \in Requests, Refresh(r)
  PROVE  Baton'
<1>1. /\ pc[r] = "refresh" /\ row.status = "running" /\ NoAnswerDue
      /\ UNCHANGED <<row, execs, outbox>>
  BY DEF Refresh, records, Baton, StatusOK, AnswersOK
<1>2. Works(r) /\ \A q \in Requests : Works(q) => q = r
  BY <1>1 DEF Works, Working, Baton, OneWorks
<1>3. PICK to \in {"batch", "complete"} :
        /\ Goes(r, to)
        /\ to = "complete" => row.frontier = <<>>
  BY <1>1 DEF Refresh
<1>4. /\ \A q \in Requests : pc'[q] = IF q = r THEN to ELSE pc[q]
      /\ \A q \in Requests \ {r} : my'[q] = my[q]
      /\ my'[r].frontier = row.frontier
  BY <1>3 DEF Goes, Refresh, Copy, TypeOK
<1>5. \A q \in Requests, s \in Steps :
        Task(q, s)' = IF q # r THEN Task(q, s)
                      ELSE IF s \in ToSet(row.frontier) THEN NewTask ELSE NoTask
  BY <1>1 DEF Refresh, Task, TypeOK
<1>6. \A q \in Requests : Works(q)' => q = r
  BY <1>2, <1>4, <1>5 DEF Works
<1>7. OneWorks'
  BY <1>6 DEF OneWorks
<1>8. StatusOK'
  BY <1>1, <1>3, <1>4 DEF Baton, StatusOK
<1>9. TasksOK'
  <2> SUFFICES ASSUME NEW q \in Requests, NEW s \in Steps PROVE TaskOK(q, s)'
    BY DEF TasksOK
  <2>1. CASE q = r
    <3>1. row.frontier = <<>> => s \notin ToSet(row.frontier)
      BY DEF ToSet
    <3>2. NewTask.is = "queued" /\ NoTask.is = "none" /\ "none" \notin Active
      BY DEF NewTask, NoTask, Active, Executing
    <3> QED
      BY <1>3, <1>4, <1>5, <2>1, <3>1, <3>2 DEF TaskOK
  <2>2. CASE q # r
    <3>1. TaskOK(q, s)
      BY DEF Baton, TasksOK
    <3> QED
      BY <1>1, <1>4, <1>5, <2>2, <3>1 DEF TaskOK
  <2> QED
    BY <2>1, <2>2
<1>10. NoAnswerDue'
  BY <1>1, <1>3, <1>4 DEF NoAnswerDue, Unanswered, Answering
<1>11. AnswersOK'
  BY <1>1, <1>10 DEF AnswersOK, NoAnswerDue, OneAnswerDue
<1> QED
  BY <1>7, <1>8, <1>9, <1>11 DEF Baton

(* An approval is answered once, so a decision is about the open one. *)
LEMMA DecideBaton ==
  ASSUME TypeOK, Baton, AnsweredOnce', NEW r \in Requests, NEW x \in DOMAIN execs,
         NEW d \in {"approved", "rejected"}, Decide(r, x, d)
  PROVE  Baton'
<1> DEFINE e == [execs[x] EXCEPT !.approval = d, !.answers = Append(execs[x].answers, d)]
<1>1. execs[x] \in Execution /\ execs[x].answers \in Seq({"approved", "rejected"})
  BY ExecutionType DEF TypeOK, Execution
<1>2. e.approval = d /\ e.answers = Append(execs[x].answers, d)
  BY <1>1 DEF Execution
<1>3. execs' = [execs EXCEPT ![x] = e]
  BY DEF Decide
<1> HIDE DEF e
<1>4. DOMAIN execs' = DOMAIN execs
      /\ \A y \in DOMAIN execs : execs'[y] = IF y = x THEN e ELSE execs[y]
  BY <1>3
<1>5. Len(Append(execs[x].answers, d)) = Len(execs[x].answers) + 1
      /\ Append(execs[x].answers, d) # <<>> /\ Len(execs[x].answers) \in Nat
  BY <1>1, AppendProperties, LenProperties
<1>6. execs[x].answers = <<>>
  BY <1>1, <1>2, <1>4, <1>5, EmptySeq DEF AnsweredOnce
<1>7. Unanswered(x) /\ ~NoAnswerDue
  BY <1>6 DEF Decide, Unanswered, NoAnswerDue
<1>8. \A y \in DOMAIN execs : Unanswered(y)' <=> y # x /\ Unanswered(y)
  BY <1>2, <1>4, <1>5 DEF Unanswered
<1>9. /\ pc[r] = "idle" /\ \A q \in Requests : pc'[q] = IF q = r THEN "callback" ELSE pc[q]
      /\ UNCHANGED <<row, my, batch>>
  BY DEF Decide, Accepts, Goes, TypeOK
<1>10. \A q \in Requests, s \in Steps :
         Task(q, s)' = Task(q, s) /\ (Waits(q, s)' <=> Waits(q, s))
  BY <1>9 DEF Task, Waits
<1>11. \A q \in Requests : Answering(q)' <=> q = r \/ Answering(q)
  BY <1>9 DEF Answering
<1>12. \A q \in Requests : Works(q)' => Works(q)
  BY <1>9, <1>10 DEF Works, Working
<1>13. OneWorks'
  BY <1>12 DEF Baton, OneWorks
<1>14. StatusOK'
  BY <1>7, <1>9 DEF Baton, StatusOK, AnswersOK
<1>15. TasksOK'
  <2> SUFFICES ASSUME NEW q \in Requests, NEW s \in Steps PROVE TaskOK(q, s)'
    BY DEF TasksOK
  <2>1. TaskOK(q, s) /\ TaskOK(r, s)
    BY DEF Baton, TasksOK
  <2>2. Task(q, s).is \in {"asking", "asked"} =>
          /\ Task(q, s).exec \in DOMAIN execs
          /\ execs'[Task(q, s).exec].approval # "none"
    BY <1>2, <1>4, <2>1, ZenonT(40) DEF TaskOK, TypeOK, Executing
  <2> QED
    BY <1>9, <1>10, <2>1, <2>2 DEF TaskOK
<1>16. OneAnswerDue => OneAnswerDue'
  BY <1>4, <1>7, <1>8, <1>11 DEF OneAnswerDue
<1>17. AnswersOK'
  <2>1. \A q \in Requests : pc'[q] \notin {"start", "refresh", "resume", "settle", "save"}
    BY <1>7, <1>9 DEF Baton, AnswersOK
  <2>2. row.status = "paused" => \A q \in Requests : ~Works(q)
    BY <1>7 DEF Baton, AnswersOK
  <2>3. ASSUME NEW q \in Requests, pc'[q] = "batch"
        PROVE  /\ OneAnswerDue'
               /\ \A y \in DOMAIN execs' :
                    Unanswered(y)' => \E s \in Steps : Waits(q, s)' /\ Task(q, s)'.exec = y
               /\ \A p \in Requests : Answering(p)' => \E s \in Steps : Waits(q, s)'
    <3>1. pc[q] = "batch" /\ OneAnswerDue
      BY <1>9, <2>3 DEF Baton, AnswersOK
    <3>2. \E s \in Steps : Waits(q, s)
      BY <1>7, <3>1 DEF Baton, AnswersOK
    <3> QED
      BY <1>4, <1>8, <1>10, <1>16, <3>1, <3>2 DEF Baton, AnswersOK
  <2>4. row'.status # "absent"
    BY <1>7, <1>9 DEF Baton, AnswersOK
  <2> QED
    BY <1>9, <1>12, <1>16, <2>1, <2>2, <2>3, <2>4 DEF Baton, AnswersOK
<1> QED
  BY <1>13, <1>14, <1>15, <1>17 DEF Baton

(* What a batch's own answers have to be like. *)
BatchAnswersOK(r) ==
  /\ OneAnswerDue
  /\ \A x \in DOMAIN execs : Unanswered(x) => \E s \in Steps : Waits(r, s) /\ Task(r, s).exec = x
  /\ \A q \in Requests : Answering(q) => \E s \in Steps : Waits(r, s)

(* One task of request r changes. *)
TaskActs(r, s) ==
  /\ Task(r, s).is \in Active
  /\ UNCHANGED <<row, my>>
  /\ \A q \in Requests : pc'[q] = pc[q] \/ (q = r /\ pc[q] = "batch" /\ pc'[q] = "done")
  /\ \A q \in Requests, t \in Steps : ~(q = r /\ t = s) => Task(q, t)' = Task(q, t)

LEMMA TaskActsBaton ==
  ASSUME TypeOK, Baton, NEW r \in Requests, NEW s \in Steps, TaskActs(r, s),
         DOMAIN execs \subseteq DOMAIN execs',
         \A x \in DOMAIN execs : execs[x].approval # "none" => execs'[x].approval # "none",
         Task(r, s)'.is \in {"asking", "asked"} => execs'[Task(r, s)'.exec].approval # "none",
         pc'[r] = "batch" => BatchAnswersOK(r)'
  PROVE  Baton'
<1>1. Works(r) /\ Task(r, s).is # "none"
  BY DEF TaskActs, Works, Active, Executing
<1>2. pc[r] \in {"batch", "fail", "done"}
  BY <1>1 DEF TaskActs, Baton, TasksOK, TaskOK, StatusOK, TypeOK, Places
<1>3. row.status \notin {"paused", "absent"}
  BY <1>1, <1>2 DEF Baton, AnswersOK, StatusOK, TasksOK, TaskOK
<1>4. \A q \in Requests : Works(q)' => q = r
  <2> SUFFICES ASSUME NEW q \in Requests, q # r, Works(q)' PROVE FALSE
    OBVIOUS
  <2>1. Works(q)
    BY DEF TaskActs, Works
  <2> QED
    BY <1>1, <2>1 DEF Baton, OneWorks
<1>5. OneWorks'
  BY <1>4 DEF OneWorks
<1>6. StatusOK'
  BY DEF TaskActs, Baton, StatusOK
<1>7. TasksOK'
  <2> SUFFICES ASSUME NEW q \in Requests, NEW t \in Steps PROVE TaskOK(q, t)'
    BY DEF TasksOK
  <2>1. TaskOK(q, t)
    BY DEF Baton, TasksOK
  <2>2. CASE q = r /\ t = s
    BY <1>1, <1>2, <1>3, <2>1, <2>2 DEF TaskActs, TaskOK
  <2>3. CASE ~(q = r /\ t = s)
    <3>1. Task(q, t)' = Task(q, t)
      BY <2>3 DEF TaskActs
    <3>2. Task(q, t).is \in {"asking", "asked"} => execs'[Task(q, t).exec].approval # "none"
      BY <2>1 DEF TaskOK, TypeOK, Executing
    <3> QED
      BY <1>3, <2>1, <3>1, <3>2 DEF TaskActs, TaskOK
  <2> QED
    BY <2>2, <2>3
<1>8. AnswersOK'
  <2>1. \A q \in Requests : pc'[q] \notin {"start", "refresh", "resume", "settle", "save"}
    BY <1>1, <1>2 DEF TaskActs, Baton, OneWorks, Works, Working
  <2>2. ASSUME NEW q \in Requests, pc'[q] = "batch" PROVE BatchAnswersOK(q)'
    <3>1. q = r
      BY <1>1, <2>2 DEF TaskActs, Baton, OneWorks, Works, Working
    <3> QED
      BY <2>2, <3>1
  <2> QED
    BY <1>3, <2>1, <2>2 DEF TaskActs, AnswersOK, BatchAnswersOK
<1> QED
  BY <1>5, <1>6, <1>7, <1>8 DEF Baton

(* What Becomes does to the tasks. *)
LEMMA BecomesPointwise ==
  ASSUME TypeOK, NEW r \in Requests, NEW s \in Steps, NEW is, Becomes(r, s, is)
  PROVE  /\ Task(r, s)'.is = is /\ Task(r, s)'.exec = Task(r, s).exec
         /\ \A q \in Requests, t \in Steps : ~(q = r /\ t = s) => Task(q, t)' = Task(q, t)
<1>1. batch[r] \in [Steps -> [is : TaskStates, exec : Nat]] /\ DOMAIN batch = Requests
  BY DEF TypeOK
<1>2. batch[r][s] \in [is : TaskStates, exec : Nat]
  BY <1>1
<1>3. [batch[r][s] EXCEPT !.is = is].is = is /\ [batch[r][s] EXCEPT !.is = is].exec = batch[r][s].exec
  BY <1>2
<1>4. batch' = [batch EXCEPT ![r] = [@ EXCEPT ![s] = [batch[r][s] EXCEPT !.is = is]]]
  BY DEF Becomes
<1> QED
  BY <1>1, <1>3, <1>4 DEF Task, TypeOK

LEMMA BatchAnswersKept ==
  ASSUME TypeOK, NEW r \in Requests, BatchAnswersOK(r),
         \A x \in DOMAIN execs' : Unanswered(x)' => x \in DOMAIN execs /\ Unanswered(x),
         \A s \in Steps : Waits(r, s) => Waits(r, s)' /\ Task(r, s)'.exec = Task(r, s).exec,
         \A q \in Requests : pc'[q] = "callback" => pc[q] = "callback"
  PROVE  BatchAnswersOK(r)'
<1>1. \A q \in Requests : Answering(q)' => Answering(q)
  BY DEF Answering
<1>2. OneAnswerDue'
  BY <1>1 DEF BatchAnswersOK, OneAnswerDue
<1>3. \A x \in DOMAIN execs' :
        Unanswered(x)' => \E s \in Steps : Waits(r, s)' /\ Task(r, s)'.exec = x
  BY DEF BatchAnswersOK
<1>4. \A q \in Requests : Answering(q)' => \E s \in Steps : Waits(r, s)'
  BY <1>1 DEF BatchAnswersOK
<1> QED
  BY <1>2, <1>3, <1>4 DEF BatchAnswersOK

LEMMA BeginBaton ==
  ASSUME TypeOK, Baton, NEW r \in Requests, NEW s \in Steps, BeginStep(r, s)
  PROVE  Baton'
<1> DEFINE new == [step |-> s, state |-> "running", approval |-> "none", answers |-> <<>>]
           task == [is |-> "running", exec |-> Len(execs')]
<1>1. new \in Execution /\ execs \in Seq(Execution) /\ execs' = Append(execs, new)
  BY DEF Execution, BeginStep, TypeOK
<1>2. /\ Len(execs) \in Nat /\ DOMAIN execs = 1..Len(execs)
      /\ DOMAIN execs' = 1..(Len(execs) + 1)
      /\ \A y \in DOMAIN execs : execs'[y] = execs[y]
      /\ execs'[Len(execs) + 1] = new
  BY <1>1, AppendProperties, LenProperties
<1>3. batch' = [batch EXCEPT ![r] = [@ EXCEPT ![s] = task]]
  BY DEF BeginStep
<1>4. Task(r, s)' = task /\ \A q \in Requests, t \in Steps : ~(q = r /\ t = s) => Task(q, t)' = Task(q, t)
  BY <1>3 DEF Task, TypeOK
<1>5. Task(r, s).is = "queued" /\ Task(r, s)'.is = "running" /\ UNCHANGED <<row, my, pc>>
  BY <1>4 DEF BeginStep
<1>6. TaskActs(r, s)
  BY <1>4, <1>5 DEF TaskActs, Active
<1>7. \A x \in DOMAIN execs' : Unanswered(x)' => x \in DOMAIN execs /\ Unanswered(x)
  BY <1>2 DEF Unanswered
<1>8. \A t \in Steps : Waits(r, t) => Waits(r, t)' /\ Task(r, t)'.exec = Task(r, t).exec
  BY <1>4, <1>5 DEF Waits, Waiting
<1>9. pc'[r] = "batch" => BatchAnswersOK(r)
  BY <1>5 DEF Baton, AnswersOK, BatchAnswersOK
<1>10. pc'[r] = "batch" => BatchAnswersOK(r)'
  BY <1>5, <1>7, <1>8, <1>9, BatchAnswersKept
<1>11. DOMAIN execs \subseteq DOMAIN execs' /\ \A x \in DOMAIN execs : execs'[x].approval = execs[x].approval
  BY <1>2
<1> QED
  BY <1>5, <1>6, <1>10, <1>11, TaskActsBaton

(* A request for approval, or its reference: the execution has an approval *)
(* and nothing else changes.                                               *)
LEMMA PendingPointwise ==
  ASSUME TypeOK, NEW x \in DOMAIN execs, execs' = [execs EXCEPT ![x].approval = "pending"]
  PROVE  /\ DOMAIN execs' = DOMAIN execs
         /\ \A y \in DOMAIN execs :
              /\ execs'[y].answers = execs[y].answers /\ execs'[y].state = execs[y].state
              /\ execs'[y].step = execs[y].step
              /\ execs'[y].approval = IF y = x THEN "pending" ELSE execs[y].approval
<1>1. execs[x] \in Execution
  BY ExecutionType DEF TypeOK
<1>2. \A y \in DOMAIN execs : execs'[y] = IF y = x THEN [execs[x] EXCEPT !.approval = "pending"] ELSE execs[y]
  OBVIOUS
<1> DEFINE e == [execs[x] EXCEPT !.approval = "pending"]
<1>3. e.answers = execs[x].answers /\ e.state = execs[x].state /\ e.step = execs[x].step
      /\ e.approval = "pending"
  BY <1>1 DEF Execution
<1> HIDE DEF e
<1>4. DOMAIN execs' = DOMAIN execs /\ \A y \in DOMAIN execs : execs'[y] = IF y = x THEN e ELSE execs[y]
  BY <1>2 DEF e
<1> QED
  BY <1>3, <1>4

LEMMA TaskBaton ==
  ASSUME TypeOK, Baton, OneWaits', NEW r \in Requests, NEW s \in Steps,
         \/ CompleteStep(r, s) \/ FailStep(r, s) \/ RequestApproval(r, s)
         \/ StoreReference(r, s) \/ AwaitApproval(r, s) \/ StepErrs(r, s)
  PROVE  Baton'
<1> DEFINE x == Task(r, s).exec
<1>1. Task(r, s).is \in Executing
  BY DEF CompleteStep, FailStep, RequestApproval, StoreReference, AwaitApproval, StepErrs, Executing
<1>2. x \in DOMAIN execs
  BY <1>1 DEF TypeOK
<1>3. PICK is : Becomes(r, s, is)
  BY DEF CompleteStep, FailStep, RequestApproval, StoreReference, AwaitApproval, StepErrs
<1>4. /\ Task(r, s)'.is = is /\ Task(r, s)'.exec = x
      /\ \A q \in Requests, t \in Steps : ~(q = r /\ t = s) => Task(q, t)' = Task(q, t)
  BY <1>3, BecomesPointwise
<1>5. TaskActs(r, s)
  BY <1>1, <1>4 DEF CompleteStep, FailStep, RequestApproval, StoreReference, AwaitApproval, StepErrs,
                    Goes, TypeOK, TaskActs, Active
<1>6. pc[r] = "batch" => BatchAnswersOK(r)
  BY DEF Baton, AnswersOK, BatchAnswersOK
<1>7. CASE CompleteStep(r, s) \/ FailStep(r, s)
  <2>1. AnswersKept
    BY <1>2, <1>7, RecordKeepsAnswers DEF CompleteStep, FailStep, Records
  <2>2. Task(r, s).is = "running" /\ Task(r, s)'.is \in {"completed", "raised", "rerouted"} /\ pc' = pc
    BY <1>7, BecomesPointwise DEF CompleteStep, FailStep
  <2>3. \A t \in Steps : Waits(r, t) => Waits(r, t)' /\ Task(r, t)'.exec = Task(r, t).exec
    BY <1>4, <2>2 DEF Waits, Waiting
  <2>4. pc'[r] = "batch" => BatchAnswersOK(r)'
    BY <1>6, <2>1, <2>2, <2>3, BatchAnswersKept DEF AnswersKept, Unanswered
  <2> QED
    BY <1>5, <2>1, <2>2, <2>4, TaskActsBaton DEF AnswersKept
<1>8. CASE AwaitApproval(r, s)
  <2>1. AnswersKept
    BY <1>2, <1>8, RecordKeepsAnswers DEF AwaitApproval, Records
  <2>2. Task(r, s).is = "asked" /\ Task(r, s)'.is = "awaiting" /\ pc' = pc
    BY <1>8, BecomesPointwise DEF AwaitApproval
  <2>3. \A t \in Steps : Waits(r, t) => Waits(r, t)' /\ Task(r, t)'.exec = Task(r, t).exec
    BY <1>4, <2>2 DEF Waits, Waiting
  <2>4. pc'[r] = "batch" => BatchAnswersOK(r)'
    BY <1>6, <2>1, <2>2, <2>3, BatchAnswersKept DEF AnswersKept, Unanswered
  <2> QED
    BY <1>5, <2>1, <2>2, <2>4, TaskActsBaton DEF AnswersKept
<1>9. CASE StoreReference(r, s)
  <2>1. /\ DOMAIN execs' = DOMAIN execs
        /\ \A y \in DOMAIN execs :
             /\ execs'[y].answers = execs[y].answers
             /\ execs'[y].approval = IF y = x THEN "pending" ELSE execs[y].approval
    BY <1>2, <1>9, PendingPointwise DEF StoreReference
  <2>2. Task(r, s).is = "asking" /\ Task(r, s)'.is = "asked" /\ pc' = pc
    BY <1>9, BecomesPointwise DEF StoreReference
  <2>3. \A t \in Steps : Waits(r, t) => Waits(r, t)' /\ Task(r, t)'.exec = Task(r, t).exec
    BY <1>4, <2>2 DEF Waits, Waiting
  <2>4. execs[x].approval # "none"
    BY <2>2 DEF Baton, TasksOK, TaskOK
  <2>5. \A y \in DOMAIN execs' : Unanswered(y)' => y \in DOMAIN execs /\ Unanswered(y)
    BY <2>1, <2>4 DEF Unanswered
  <2>6. pc'[r] = "batch" => BatchAnswersOK(r)'
    BY <1>6, <2>2, <2>3, <2>5, BatchAnswersKept
  <2> QED
    BY <1>2, <1>4, <1>5, <2>1, <2>6, TaskActsBaton
<1>10. CASE RequestApproval(r, s)
  <2>1. /\ DOMAIN execs' = DOMAIN execs
        /\ \A y \in DOMAIN execs :
             /\ execs'[y].answers = execs[y].answers
             /\ execs'[y].approval = IF y = x THEN "pending" ELSE execs[y].approval
    BY <1>2, <1>10, PendingPointwise DEF RequestApproval
  <2>2. Task(r, s).is = "running" /\ Task(r, s)'.is = "asking" /\ pc' = pc
    BY <1>10, BecomesPointwise DEF RequestApproval
  <2>3. Waits(r, s)' /\ \A t \in Steps : ~Waits(r, t)
    BY <1>4, <2>2 DEF OneWaits, Waits, Waiting
  <2>4. pc[r] = "batch" => NoAnswerDue
    BY <1>6, <2>3 DEF BatchAnswersOK, NoAnswerDue
  <2>5. \A y \in DOMAIN execs : Unanswered(y)' => y = x \/ Unanswered(y)
    BY <2>1 DEF Unanswered
  <2>6. pc'[r] = "batch" => BatchAnswersOK(r)'
    BY <1>4, <2>1, <2>2, <2>3, <2>4, <2>5 DEF BatchAnswersOK, OneAnswerDue, NoAnswerDue, Answering
  <2> QED
    BY <1>2, <1>4, <1>5, <2>1, <2>6, TaskActsBaton
<1>11. CASE StepErrs(r, s)
  <2>1. AnswersKept
    BY <1>2, <1>11, RecordKeepsAnswers DEF StepErrs, Records, AnswersKept
  <2>2. Task(r, s)'.is = "none" /\ pc'[r] # "batch"
    BY <1>11, BecomesPointwise DEF StepErrs, Goes, TypeOK
  <2> QED
    BY <1>5, <2>1, <2>2, TaskActsBaton DEF AnswersKept
<1> QED
  BY <1>7, <1>8, <1>9, <1>10, <1>11

(* Some requests end at once, and their tasks with them. *)
LEMMA CrashBaton ==
  ASSUME TypeOK, Baton, NEW dead \in SUBSET Requests, Crash(dead)
  PROVE  Baton'
<1>1. /\ UNCHANGED <<row, execs, my>>
      /\ \A q \in Requests : pc'[q] = pc[q] \/ pc'[q] = "done"
      /\ \A q \in Requests : pc'[q] = "idle" => pc[q] = "idle"
      /\ \A q \in dead : pc'[q] \in {"idle", "done"}
      /\ \A q \in Requests \ dead : pc'[q] = pc[q]
  BY DEF Crash, records
<1>2. \A q \in Requests, s \in Steps :
        Task(q, s)' = IF q \in dead THEN NoTask ELSE Task(q, s)
  BY DEF Crash, Task
<1>3. NoTask.is = "none" /\ "none" \notin Active
  BY DEF NoTask, Active, Executing
<1>4. \A q \in Requests : Works(q)' => Works(q) /\ q \notin dead
  BY <1>1, <1>2, <1>3 DEF Works, Working
<1>5. /\ \A q \in Requests : Answering(q)' => Answering(q)
      /\ \A x \in DOMAIN execs : Unanswered(x)' <=> Unanswered(x)
  BY <1>1 DEF Answering, Unanswered
<1>6. OneWorks'
  BY <1>4 DEF Baton, OneWorks
<1>7. row.status = "absent" => \A q \in Requests : pc[q] = "idle"
  BY DEF Baton, StatusOK
<1>8. \A q \in Requests : pc[q] = "idle" => pc'[q] = "idle"
  BY DEF Crash
<1>9. StatusOK'
  BY <1>1, <1>7, <1>8 DEF Baton, StatusOK
<1>10. TasksOK'
  <2> SUFFICES ASSUME NEW q \in Requests, NEW s \in Steps PROVE TaskOK(q, s)'
    BY DEF TasksOK
  <2>1. TaskOK(q, s)
    BY DEF Baton, TasksOK
  <2>2. CASE q \in dead
    BY <1>1, <1>2, <1>3, <2>2 DEF TaskOK
  <2>3. CASE q \notin dead
    <3>1. Task(q, s)' = Task(q, s) /\ pc'[q] = pc[q]
      BY <1>1, <1>2, <2>3
    <3> QED
      BY <1>1, <2>1, <3>1 DEF TaskOK
  <2> QED
    BY <2>2, <2>3
<1>11. NoAnswerDue => NoAnswerDue'
  BY <1>1, <1>5 DEF NoAnswerDue
<1>12. OneAnswerDue => OneAnswerDue'
  BY <1>1, <1>5 DEF OneAnswerDue
<1>13. AnswersOK'
  <2>1. ASSUME NEW q \in Requests, pc'[q] = "batch" PROVE BatchAnswersOK(q)'
    <3>1. pc[q] = "batch" /\ q \notin dead
      BY <1>1, <2>1
    <3>2. BatchAnswersOK(q)
      BY <3>1 DEF Baton, AnswersOK, BatchAnswersOK
    <3>3. \A s \in Steps : Waits(q, s) => Waits(q, s)' /\ Task(q, s)'.exec = Task(q, s).exec
      BY <1>2, <3>1 DEF Waits
    <3> QED
      BY <1>1, <1>5, <3>2, <3>3, BatchAnswersKept
  <2>2. ASSUME NEW q \in Requests, pc'[q] \in {"start", "refresh", "resume", "settle", "save"}
        PROVE  NoAnswerDue'
    BY <1>1, <1>11, <2>2 DEF Baton, AnswersOK
  <2>3. row'.status = "paused" =>
          /\ OneAnswerDue'
          /\ \A q \in Requests :
               Works(q)' => pc'[q] \in {"resume", "settle", "save", "fail"} /\ NoAnswerDue'
    BY <1>1, <1>4, <1>11, <1>12 DEF Baton, AnswersOK
  <2>4. row'.status = "absent" => NoAnswerDue'
    BY <1>1, <1>11 DEF Baton, AnswersOK
  <2> QED
    BY <2>1, <2>2, <2>3, <2>4 DEF AnswersOK, BatchAnswersOK
<1> QED
  BY <1>6, <1>9, <1>10, <1>13 DEF Baton

LEMMA StutterBaton == Baton /\ UNCHANGED vars => Baton'
  BY DEF vars, records, requests, Baton, OneWorks, Works, StatusOK, TasksOK, TaskOK, Task, AnswersOK,
         OneAnswerDue, NoAnswerDue, Unanswered, Answering, Waits

LEMMA NextBaton ==
  ASSUME Controls = {}
  PROVE  TypeOK /\ Baton /\ OneWaits' /\ AnsweredOnce' /\ [Next]_vars => Baton'
<1> SUFFICES ASSUME TypeOK, Baton, OneWaits', AnsweredOnce', [Next]_vars PROVE Baton'
  OBVIOUS
<1>1. ASSUME NEW r \in Requests, RequestAction(r) PROVE Baton'
  <2>1. ~Override(r)
    BY DEF Override, Moves, Baton, StatusOK
  <2> QED
    BY <1>1, <2>1, MoveBaton, RefreshBaton, AdvanceBaton, AnswerBaton DEF RequestAction
<1>2. ASSUME NEW r \in Requests, CreateInstance(r) \/ RequestErrs(r) PROVE Baton'
  BY <1>2, CreateBaton, AnswerBaton
<1>3. ASSUME NEW r \in Requests, ReadForPause(r) \/ ReadForTerminate(r) \/ ReadForResume(r)
      PROVE  FALSE
  BY <1>3 DEF ReadForPause, ReadForTerminate, ReadForResume
<1>4. ASSUME NEW r \in Requests, NEW x \in DOMAIN execs, NEW d \in {"approved", "rejected"},
             Decide(r, x, d)
      PROVE  Baton'
  BY <1>4, DecideBaton
<1>5. ASSUME NEW r \in Requests, NEW s \in Steps, StepAction(r, s) \/ StepErrs(r, s)
      PROVE  Baton'
  BY <1>5, BeginBaton, TaskBaton DEF StepAction
<1>6. ASSUME NEW dead \in SUBSET Requests, Crash(dead) PROVE Baton'
  BY <1>6, CrashBaton
<1>7. CASE UNCHANGED vars
  BY <1>7, StutterBaton
<1> QED
  BY <1>1, <1>2, <1>3, <1>4, <1>5, <1>6, <1>7 DEF Next

LEMMA BatonExcludes == TypeOK /\ Baton => NoDoubleExecution
  BY DEF Baton, OneWorks, Works, Active, NoDoubleExecution

(* However answers, crashes and errors fall, no step is executed by two     *)
(* requests at once: the request that resumes a paused instance finds no   *)
(* other at work on it (core/scheduler.py, resume_after_approval and _run).*)
THEOREM NoDoubleExecutionHolds ==
  ASSUME Controls = {}
  PROVE  Safety /\ []OneWaits /\ []AnsweredOnce => []NoDoubleExecution
<1>1. Init => Baton
  BY InitBaton
<1>2. TypeOK /\ Baton /\ OneWaits' /\ AnsweredOnce' /\ [Next]_vars => Baton'
  BY NextBaton
<1>3. TypeOK /\ Baton => NoDoubleExecution
  BY BatonExcludes
<1> QED
  BY <1>1, <1>2, <1>3, TypeCorrect, PTL DEF Safety

-----------------------------------------------------------------------------
(* The refinement of InstanceLifecycle.  With the baton, the outbox follows *)
(* from where the one request that works is.                               *)

OutboxOK ==
  /\ outbox \in {<<>>, <<"started">>, <<"started", "completed">>, <<"started", "failed">>}
  /\ row.status = "absent" => outbox = <<>>
  /\ row.status = "paused" => outbox = <<"started">>
  /\ \A r \in Requests :
       /\ pc[r] = "start" => outbox = <<>>
       /\ pc[r] \in Working \ {"start"} => outbox = <<"started">>

LEMMA InitOutbox == Init => OutboxOK
  BY DEF Init, OutboxOK, Working

(* A step that queues nothing. *)
LEMMA OutboxKept ==
  ASSUME OutboxOK, UNCHANGED outbox,
         row'.status = "absent" => row.status = "absent",
         row'.status = "paused" => row.status = "paused" \/ outbox = <<"started">>,
         \A q \in Requests : pc'[q] = "start" => outbox = <<>>,
         \A q \in Requests :
           pc'[q] \in Working \ {"start"} =>
             pc[q] \in Working \ {"start"} \/ outbox = <<"started">>
  PROVE  OutboxOK'
  BY DEF OutboxOK

LEMMA AppendFirst == Append(<<>>, "started") = <<"started">>
  OBVIOUS

LEMMA AppendSecond ==
  ASSUME NEW a, NEW b PROVE Append(<<a>>, b) = <<a, b>>
<1> DEFINE S == {a, b}
           s == Append(<<a>>, b)
           t == <<a, b>>
<1>1. <<a>> \in Seq(S) /\ b \in S /\ t \in Seq(S) /\ Len(<<a>>) = 1
  OBVIOUS
<1>2. s \in Seq(S) /\ Len(s) = 2 /\ s[1] = a /\ s[2] = b
  BY <1>1, AppendProperties
<1>3. Len(t) = 2 /\ t[1] = a /\ t[2] = b
  OBVIOUS
<1>4. \A i \in 1..Len(s) : s[i] = t[i]
  BY <1>2, <1>3
<1> HIDE DEF S, s, t
<1>5. s = t
  BY <1>1, <1>2, <1>3, <1>4, SeqEqual
<1> QED
  BY <1>5 DEF s, t

LifecycleStep == Lifecycle!Next \/ UNCHANGED Lifecycle!vars

LEMMA LifecycleStutter == UNCHANGED <<row, outbox>> => LifecycleStep
  BY DEF LifecycleStep, Lifecycle!vars

(* The steps that save the row. *)
LEMMA SavesLifecycle ==
  ASSUME TypeOK, Baton, OutboxOK, NEW r \in Requests,
         \/ CreateInstance(r) \/ Start(r) \/ Advance(r) \/ SaveFailed(r)
         \/ SaveCompleted(r) \/ SaveResumed(r)
  PROVE  OutboxOK' /\ LifecycleStep
<1> USE DEF LifecycleStep, Lifecycle!Next, Lifecycle!vars
<1>1. ASSUME NEW to, Goes(r, to) PROVE \A q \in Requests : pc'[q] = IF q = r THEN to ELSE pc[q]
  BY <1>1 DEF Goes, TypeOK
<1>2. pc[r] \in Working => \A q \in Requests : pc[q] \in Working => q = r
  BY DEF Baton, OneWorks, Works
<1>3. CASE CreateInstance(r)
  <2>1. outbox = <<>> /\ row'.status = "running" /\ outbox' = outbox /\ row.status = "absent"
    BY <1>3 DEF CreateInstance, Save, OutboxOK
  <2>2. \A q \in Requests : pc'[q] = IF q = r THEN "start" ELSE "idle"
    BY <1>1, <1>3, <2>1 DEF CreateInstance, Baton, StatusOK
  <2>3. OutboxOK'
    BY <2>1, <2>2 DEF OutboxOK, Working
  <2>4. Lifecycle!Create
    BY <2>1 DEF Lifecycle!Create
  <2> QED
    BY <2>3, <2>4
<1>4. CASE Start(r)
  <2>1. /\ pc[r] = "start" /\ row.status = "running" /\ outbox = <<>>
        /\ row'.status = "running" /\ outbox' = <<"started">>
    BY <1>4, AppendFirst DEF Start, Moves, SaveAndReport, Save, OutboxOK, Baton, StatusOK
  <2>2. \A q \in Requests : pc'[q] = IF q = r THEN "refresh" ELSE pc[q]
    BY <1>1, <1>4 DEF Start, Moves
  <2>3. \A q \in Requests : pc'[q] \in Working => pc'[q] = "refresh"
    BY <1>2, <2>1, <2>2 DEF Working
  <2>4. OutboxOK'
    BY <2>1, <2>3 DEF OutboxOK, Working
  <2>5. Lifecycle!Start
    BY <2>1 DEF Lifecycle!Start
  <2> QED
    BY <2>4, <2>5
<1>5. CASE Advance(r)
  <2>1. /\ pc[r] = "batch" /\ row.status = "running" /\ outbox = <<"started">>
        /\ row'.status \in {"paused", "running"} /\ outbox' = outbox
    BY <1>5 DEF Advance, Save, OutboxOK, Working, Baton, StatusOK
  <2>2. PICK to \in {"done", "refresh"} : Goes(r, to)
    BY <1>5 DEF Advance
  <2>3. \A q \in Requests : pc'[q] = IF q = r THEN to ELSE pc[q]
    BY <1>1, <2>2
  <2>4. OutboxOK'
    BY <2>1, <2>3, OutboxKept DEF OutboxOK
  <2>5. Lifecycle!Pause \/ (row'.status = row.status /\ outbox' = outbox)
    BY <2>1 DEF Lifecycle!Pause
  <2> QED
    BY <2>4, <2>5
<1>6. CASE SaveFailed(r)
  <2>1. /\ pc[r] = "fail" /\ row.status \in {"running", "paused"} /\ outbox = <<"started">>
        /\ row'.status = "failed" /\ outbox' = <<"started", "failed">>
    BY <1>6, AppendSecond DEF SaveFailed, Moves, SaveAndReport, Save, OutboxOK, Working, Baton, StatusOK
  <2>2. \A q \in Requests : pc'[q] \notin Working
    BY <1>1, <1>2, <1>6, <2>1 DEF SaveFailed, Moves, Working
  <2>3. OutboxOK'
    BY <2>1, <2>2 DEF OutboxOK, Working
  <2>4. outbox' = Append(outbox, "failed")
    BY <1>6 DEF SaveFailed, SaveAndReport
  <2>5. Lifecycle!Finish("failed")
    BY <2>1, <2>4 DEF Lifecycle!Finish
  <2> QED
    BY <2>3, <2>5
<1>7. CASE SaveCompleted(r)
  <2>1. /\ pc[r] = "complete" /\ row.status = "running" /\ outbox = <<"started">>
        /\ row'.status = "completed" /\ outbox' = <<"started", "completed">>
    BY <1>7, AppendSecond DEF SaveCompleted, Moves, SaveAndReport, Save, OutboxOK, Working, Baton, StatusOK
  <2>2. \A q \in Requests : pc'[q] \notin Working
    BY <1>1, <1>2, <1>7, <2>1 DEF SaveCompleted, Moves, Working
  <2>3. OutboxOK'
    BY <2>1, <2>2 DEF OutboxOK, Working
  <2>4. outbox' = Append(outbox, "completed")
    BY <1>7 DEF SaveCompleted, SaveAndReport
  <2>5. Lifecycle!Finish("completed")
    BY <2>1, <2>4 DEF Lifecycle!Finish
  <2> QED
    BY <2>3, <2>5
<1>8. CASE SaveResumed(r)
  <2>1. /\ pc[r] = "save" /\ row.status = "paused" /\ outbox = <<"started">>
        /\ row'.status = "running" /\ outbox' = outbox
    BY <1>8 DEF SaveResumed, Moves, Save, OutboxOK, Baton, StatusOK
  <2>2. \A q \in Requests : pc'[q] = IF q = r THEN "refresh" ELSE pc[q]
    BY <1>1, <1>8 DEF SaveResumed, Moves
  <2>3. OutboxOK'
    BY <2>1, <2>2, OutboxKept DEF OutboxOK
  <2>4. Lifecycle!Resume
    BY <2>1 DEF Lifecycle!Resume
  <2> QED
    BY <2>3, <2>4
<1> QED
  BY <1>3, <1>4, <1>5, <1>6, <1>7, <1>8

(* The steps that only read, and those of tasks, answers and faults. *)
LEMMA OthersLifecycle ==
  ASSUME TypeOK, Baton, OutboxOK, UNCHANGED <<row, outbox>>,
         \A q \in Requests : pc'[q] = "start" => pc[q] = "start",
         \A q \in Requests :
           pc'[q] \in Working \ {"start"} => pc[q] \in Working \ {"start"} \/ row.status = "paused"
  PROVE  OutboxOK' /\ LifecycleStep
<1>1. OutboxOK'
  BY OutboxKept DEF OutboxOK
<1> QED
  BY <1>1, LifecycleStutter

LEMMA NextLifecycle ==
  ASSUME Controls = {}
  PROVE  TypeOK /\ Baton /\ OutboxOK /\ [Next]_vars => OutboxOK' /\ LifecycleStep
<1> SUFFICES ASSUME TypeOK, Baton, OutboxOK, [Next]_vars PROVE OutboxOK' /\ LifecycleStep
  OBVIOUS
<1>1. ASSUME NEW r \in Requests, NEW to, Goes(r, to), UNCHANGED <<row, outbox>>, to # "start",
             to \in Working => pc[r] \in Working \ {"start"} \/ row.status = "paused"
      PROVE  OutboxOK' /\ LifecycleStep
  <2>1. \A q \in Requests : pc'[q] = IF q = r THEN to ELSE pc[q]
    BY <1>1 DEF Goes, TypeOK
  <2> QED
    BY <1>1, <2>1, OthersLifecycle
<1>2. ASSUME NEW r \in Requests, RequestAction(r) PROVE OutboxOK' /\ LifecycleStep
  <2>1. ~Override(r)
    BY DEF Override, Moves, Baton, StatusOK
  <2>2. CASE Refresh(r) \/ BatchRaises(r) \/ NothingToResume(r) \/ FindExecution(r) \/ ReadForCallback(r)
    BY <1>1, <2>2 DEF Refresh, BatchRaises, NothingToResume, FindExecution, ReadForCallback, Reads,
                      Moves, records, Working
  <2>3. CASE ApproveStep(r)
    BY <1>1, <2>3 DEF ApproveStep, Moves, Working
  <2>4. CASE RejectStep(r)
    BY <1>1, <2>4 DEF RejectStep, Working
  <2> QED
    BY <1>2, <2>1, <2>2, <2>3, <2>4, SavesLifecycle DEF RequestAction
<1>3. ASSUME NEW r \in Requests, CreateInstance(r) PROVE OutboxOK' /\ LifecycleStep
  BY <1>3, SavesLifecycle
<1>4. ASSUME NEW r \in Requests, ReadForPause(r) \/ ReadForTerminate(r) \/ ReadForResume(r)
      PROVE  FALSE
  BY <1>4 DEF ReadForPause, ReadForTerminate, ReadForResume
<1>5. ASSUME NEW r \in Requests, NEW x, NEW d, Decide(r, x, d) PROVE OutboxOK' /\ LifecycleStep
  BY <1>1, <1>5 DEF Decide, Working
<1>6. ASSUME NEW r \in Requests, NEW s \in Steps, StepAction(r, s) PROVE OutboxOK' /\ LifecycleStep
  BY <1>6, OthersLifecycle
     DEF StepAction, BeginStep, CompleteStep, RequestApproval, StoreReference, AwaitApproval, FailStep
<1>7. ASSUME NEW r \in Requests, RequestErrs(r) \/ \E s \in Steps : StepErrs(r, s)
      PROVE  OutboxOK' /\ LifecycleStep
  <2>1. UNCHANGED <<row, outbox>> /\ (Goes(r, "done") \/ Goes(r, pc[r]))
    BY <1>7 DEF RequestErrs, StepErrs, records
  <2>2. \A q \in Requests : pc'[q] = pc[q] \/ pc'[q] = "done"
    BY <2>1 DEF Goes, TypeOK
  <2> QED
    BY <2>1, <2>2, OthersLifecycle DEF Working
<1>8. ASSUME NEW dead \in SUBSET Requests, Crash(dead) PROVE OutboxOK' /\ LifecycleStep
  <2>1. UNCHANGED <<row, outbox>> /\ \A q \in Requests : pc'[q] = pc[q] \/ pc'[q] = "done"
    BY <1>8 DEF Crash, records
  <2> QED
    BY <2>1, OthersLifecycle DEF Working
<1>9. CASE UNCHANGED vars
  BY <1>9, OthersLifecycle DEF vars, records, requests
<1> QED
  BY <1>2, <1>3, <1>4, <1>5, <1>6, <1>7, <1>8, <1>9 DEF Next

(* The instance's rows and events are those of the state diagram in        *)
(* docs/module-01-workflow-engine-lld.md: one workflow.started, then at    *)
(* most one outcome, and no way out of an outcome.                         *)
THEOREM ImplementsLifecycleHolds ==
  ASSUME Controls = {}
  PROVE  Safety /\ []OneWaits /\ []AnsweredOnce => ImplementsLifecycle
<1>1. Init => Baton /\ OutboxOK /\ Lifecycle!Init
  BY InitBaton, InitOutbox DEF Init, Lifecycle!Init
<1>2. TypeOK /\ Baton /\ OneWaits' /\ AnsweredOnce' /\ [Next]_vars => Baton'
  BY NextBaton
<1>3. TypeOK /\ Baton /\ OutboxOK /\ [Next]_vars => OutboxOK' /\ [Lifecycle!Next]_(Lifecycle!vars)
  BY NextLifecycle DEF LifecycleStep
<1> QED
  BY <1>1, <1>2, <1>3, TypeCorrect, PTL DEF Safety, ImplementsLifecycle, Lifecycle!Spec

-----------------------------------------------------------------------------
(* The gate.  resume_after_approval looks for the execution that waits by  *)
(* the first step of the frontier; that it finds the one the answer is     *)
(* about takes a third hypothesis, again one about the graph.              *)

Running(x) == execs[x].state = "running"

(* In a pause, what is still running is an execution of the first step.    *)
WaitsInFront ==
  row.status = "paused" =>
    \A x \in DOMAIN execs : Running(x) => execs[x].step = Head(row.frontier)

(* Request r was sent a decision that is on record for execution x. *)
Told(r, x) == answer[r] \in ToSet(execs[x].answers)

NoneRuns == \A x \in DOMAIN execs : ~Running(x)

(* A task and its execution. *)
HeldOK(r, s) ==
  /\ Task(r, s).is \in Executing => Running(Task(r, s).exec)
  /\ Task(r, s).is = "running" => execs[Task(r, s).exec].approval = "none"
  /\ pc[r] = "batch" /\ Task(r, s).is = "awaiting" =>
       /\ Task(r, s).exec \in DOMAIN execs
       /\ Running(Task(r, s).exec)
       /\ execs[Task(r, s).exec].approval # "none"

(* In a batch, what is running belongs to a task of the batch, and a       *)
(* decision that is being handled to the task that waits.                  *)
BatchRunsOK(r) ==
  /\ \A x \in DOMAIN execs : Running(x) =>
       \E s \in Steps : Task(r, s).is \in Executing \cup {"awaiting"} /\ Task(r, s).exec = x
  /\ \A q \in Requests, s \in Steps : Answering(q) /\ Waits(r, s) => Told(q, Task(r, s).exec)

(* In a pause, at most one execution is running: the one that waits, which *)
(* an answer is due to, or the one that a request has the answer to.       *)
PauseRunsOK ==
  /\ \A x, y \in DOMAIN execs : Running(x) /\ Running(y) => x = y
  /\ \A x \in DOMAIN execs : Unanswered(x) => Running(x)
  /\ \A q \in Requests :
       /\ pc[q] \in {"callback", "resume", "settle"} => \E x \in DOMAIN execs : Running(x) /\ Told(q, x)
       /\ pc[q] \in {"resume", "settle"} => my[q].frontier = row.frontier
       /\ pc[q] = "settle" => my[q].step_exec \in DOMAIN execs /\ Running(my[q].step_exec)

RunsOK ==
  /\ \A r \in Requests :
       /\ pc[r] \in {"start", "refresh", "save"} => NoneRuns
       /\ pc[r] = "batch" => BatchRunsOK(r)
  /\ row.status = "absent" => NoneRuns
  /\ row.status = "paused" => PauseRunsOK

AllHeld == \A r \in Requests, s \in Steps : HeldOK(r, s)

GateInv == AllHeld /\ RunsOK /\ GateRespected

LEMMA InitGate == Init => GateInv
  BY DEF Init, GateInv, AllHeld, HeldOK, RunsOK, GateRespected, NoneRuns, Task, NoTask, Executing

(* A request moves and no execution or task changes. *)
LEMMA MoveGate ==
  ASSUME TypeOK, GateInv, NEW r \in Requests, NEW to, Goes(r, to), UNCHANGED <<execs, batch, answer>>,
         to \notin {"batch", "callback"},
         to \in {"start", "refresh", "save"} => NoneRuns,
         row'.status # "absent",
         row'.status = "paused" => PauseRunsOK'
  PROVE  GateInv'
<1>1. \A q \in Requests : pc'[q] = IF q = r THEN to ELSE pc[q]
  BY DEF Goes, TypeOK
<1>2. \A q \in Requests, s \in Steps : Task(q, s)' = Task(q, s) /\ (Waits(q, s)' <=> Waits(q, s))
  BY DEF Task, Waits
<1>3. /\ \A q \in Requests : Answering(q)' => Answering(q)
      /\ NoneRuns => NoneRuns'
      /\ \A x \in DOMAIN execs : Running(x)' <=> Running(x)
      /\ \A q \in Requests, x \in DOMAIN execs : Told(q, x)' <=> Told(q, x)
  BY <1>1 DEF Answering, NoneRuns, Running, Told
<1>4. AllHeld'
  <2> SUFFICES ASSUME NEW q \in Requests, NEW s \in Steps PROVE HeldOK(q, s)'
    BY DEF AllHeld
  <2>1. HeldOK(q, s)
    BY DEF GateInv, AllHeld
  <2> QED
    BY <1>1, <1>2, <2>1 DEF HeldOK, Running
<1>5. RunsOK'
  <2>1. ASSUME NEW q \in Requests, pc'[q] = "batch" PROVE BatchRunsOK(q)'
    <3>1. BatchRunsOK(q)
      BY <1>1, <2>1 DEF GateInv, RunsOK
    <3> QED
      BY <1>2, <1>3, <3>1 DEF BatchRunsOK, Told
  <2>2. ASSUME NEW q \in Requests, pc'[q] \in {"start", "refresh", "save"} PROVE NoneRuns'
    BY <1>1, <1>3, <2>2 DEF GateInv, RunsOK
  <2> QED
    BY <2>1, <2>2 DEF RunsOK
<1>6. GateRespected'
  BY DEF GateInv, GateRespected
<1> QED
  BY <1>4, <1>5, <1>6 DEF GateInv

(* A pause goes on while a request ends. *)
LEMMA PauseGoesOn ==
  ASSUME TypeOK, PauseRunsOK, NEW r \in Requests, NEW to, Goes(r, to), UNCHANGED <<row, execs, answer, my>>,
         to \notin {"callback", "resume", "settle"}
  PROVE  PauseRunsOK'
<1>1. \A q \in Requests : pc'[q] = IF q = r THEN to ELSE pc[q]
  BY DEF Goes, TypeOK
<1> QED
  BY <1>1 DEF PauseRunsOK, Running, Unanswered, Told

LEMMA SimpleMovesGate ==
  ASSUME TypeOK, Baton, GateInv, NEW r \in Requests,
         \/ CreateInstance(r) \/ Start(r) \/ BatchRaises(r) \/ SaveFailed(r) \/ SaveCompleted(r)
         \/ NothingToResume(r) \/ SaveResumed(r) \/ RequestErrs(r)
  PROVE  GateInv'
<1> USE MoveGate
<1>1. CASE CreateInstance(r)
  BY <1>1 DEF CreateInstance, Save, GateInv, RunsOK
<1>2. CASE Start(r)
  BY <1>2 DEF Start, Moves, SaveAndReport, Save, GateInv, RunsOK
<1>3. CASE BatchRaises(r)
  BY <1>3 DEF BatchRaises, Moves, records, Baton, StatusOK
<1>4. CASE SaveFailed(r)
  BY <1>4 DEF SaveFailed, Moves, SaveAndReport, Save
<1>5. CASE SaveCompleted(r)
  BY <1>5 DEF SaveCompleted, Moves, SaveAndReport, Save
<1>6. CASE NothingToResume(r)
  BY <1>6, PauseGoesOn DEF NothingToResume, Moves, records, GateInv, RunsOK, Baton, StatusOK
<1>7. CASE SaveResumed(r)
  BY <1>7 DEF SaveResumed, Moves, Save, GateInv, RunsOK
<1>8. CASE RequestErrs(r)
  BY <1>8, PauseGoesOn DEF RequestErrs, Busy, records, GateInv, RunsOK, Baton, StatusOK
<1> QED
  BY <1>1, <1>2, <1>3, <1>4, <1>5, <1>6, <1>7, <1>8

(* The answer's request, which takes the row's frontier along. *)
LEMMA ReadGate ==
  ASSUME TypeOK, Baton, GateInv, NEW r \in Requests, ReadForCallback(r)
  PROVE  GateInv'
<1> DEFINE to == IF row.status = "paused" THEN "resume" ELSE "done"
<1>1. Goes(r, to) /\ UNCHANGED <<row, execs, batch, answer>> /\ pc[r] = "callback"
  BY DEF ReadForCallback, Reads, records, TypeOK
<1>2. \A q \in Requests : pc'[q] = IF q = r THEN to ELSE pc[q]
  BY <1>1 DEF Goes, TypeOK
<1>3. \A q \in Requests : my'[q] = IF q = r THEN Copy(row.frontier, 0) ELSE my[q]
  BY DEF ReadForCallback, Reads, TypeOK
<1>4. row.status # "absent"
  BY <1>1 DEF Baton, StatusOK
<1>5. ASSUME row.status = "paused" PROVE PauseRunsOK'
  <2>1. PauseRunsOK
    BY <1>5 DEF GateInv, RunsOK
  <2>2. Copy(row.frontier, 0).frontier = row.frontier
    BY DEF Copy
  <2> QED
    BY <1>1, <1>2, <1>3, <1>5, <2>1, <2>2 DEF PauseRunsOK, Running, Unanswered, Told
<1> QED
  BY <1>1, <1>4, <1>5, MoveGate

(* The execution of the frontier's first step that is running is the one   *)
(* the answer is about.                                                    *)
LEMMA FindGate ==
  ASSUME TypeOK, Baton, GateInv, WaitsInFront, NEW r \in Requests, FindExecution(r)
  PROVE  GateInv'
<1>1. /\ pc[r] = "resume" /\ Goes(r, "settle") /\ UNCHANGED <<row, execs, batch, answer>>
      /\ row.status = "paused"
  BY DEF FindExecution, Moves, records, Baton, StatusOK
<1>2. PauseRunsOK /\ my[r].frontier = row.frontier
  BY <1>1 DEF GateInv, RunsOK, PauseRunsOK
<1>3. PICK x0 \in DOMAIN execs : Running(x0) /\ Told(r, x0)
  BY <1>1, <1>2 DEF PauseRunsOK
<1>4. execs[x0].step = Head(my[r].frontier)
  BY <1>1, <1>2, <1>3 DEF WaitsInFront
<1> DEFINE ofStep == {x \in DOMAIN execs : execs[x].step = Head(my[r].frontier)}
           running == {x \in ofStep : execs[x].state = "running"}
<1>5. ofStep # {} /\ running # {} /\ \A x \in running : x \in DOMAIN execs /\ Running(x)
  BY <1>3, <1>4 DEF Running
<1>6. PICK x \in running : my' = [my EXCEPT ![r] = Copy(my[r].frontier, x)]
  BY <1>5 DEF FindExecution
<1>7. \A q \in Requests : pc'[q] = IF q = r THEN "settle" ELSE pc[q]
  BY <1>1 DEF Goes, TypeOK
<1>8. \A q \in Requests : my'[q] = IF q = r THEN Copy(my[r].frontier, x) ELSE my[q]
  BY <1>6 DEF TypeOK
<1>9. Copy(my[r].frontier, x).frontier = row.frontier /\ Copy(my[r].frontier, x).step_exec = x
  BY <1>2 DEF Copy
<1>10. x \in DOMAIN execs /\ Running(x)
  BY <1>5
<1>11. PauseRunsOK'
  BY <1>1, <1>2, <1>7, <1>8, <1>9, <1>10 DEF PauseRunsOK, Running, Unanswered, Told
<1> QED
  BY <1>1, <1>11, MoveGate

LEMMA AdvanceGate ==
  ASSUME TypeOK, Baton, OneWaits, GateInv, NEW r \in Requests, Advance(r)
  PROVE  GateInv'
<1>1. pc[r] = "batch" /\ UNCHANGED <<execs, batch, answer, my>> /\ BatchRunsOK(r) /\ BatchAnswersOK(r)
  BY DEF Advance, GateInv, RunsOK, Baton, AnswersOK, BatchAnswersOK
<1>2. \A s \in Steps : Task(r, s).is \in {"none", "awaiting", "completed", "rerouted"}
  BY DEF Advance, Baton, TasksOK, TaskOK
<1>3. \A x \in DOMAIN execs : Running(x) =>
        \E s \in Steps : Task(r, s).is = "awaiting" /\ Task(r, s).exec = x
  BY <1>1, <1>2 DEF BatchRunsOK, Executing
<1>4. CASE ~\E s \in Steps : Task(r, s).is = "awaiting"
  <2>1. Goes(r, "refresh") /\ row'.status = "running"
    BY <1>4 DEF Advance, Save
  <2>2. NoneRuns
    BY <1>3, <1>4 DEF NoneRuns
  <2> QED
    BY <1>1, <2>1, <2>2, MoveGate
<1>5. CASE \E s \in Steps : Task(r, s).is = "awaiting"
  <2>1. Goes(r, "done") /\ row'.status = "paused"
    BY <1>5 DEF Advance, Save
  <2>2. PICK s \in Steps : Task(r, s).is = "awaiting"
    BY <1>5
  <2>3. \A t \in Steps : Waits(r, t) => t = s
    BY <2>2 DEF OneWaits, Waits, Waiting
  <2> DEFINE x0 == Task(r, s).exec
  <2>4. x0 \in DOMAIN execs /\ Running(x0)
    BY <1>1, <2>2 DEF GateInv, AllHeld, HeldOK
  <2>5. \A x \in DOMAIN execs : Running(x) => x = x0
    BY <1>3, <2>3 DEF Waits, Waiting
  <2>6. \A x \in DOMAIN execs : Unanswered(x) => x = x0
    BY <1>1, <2>3 DEF BatchAnswersOK
  <2>7. \A q \in Requests : pc'[q] = IF q = r THEN "done" ELSE pc[q]
    BY <2>1 DEF Goes, TypeOK
  <2>8. \A q \in Requests : pc'[q] \notin {"resume", "settle"}
    BY <1>1, <2>7 DEF Baton, OneWorks, Works, Working
  <2>9. \A q \in Requests : pc'[q] = "callback" => Told(q, x0)
    BY <1>1, <2>2, <2>7 DEF BatchRunsOK, Answering, Waits, Waiting
  <2>10. /\ \A x \in DOMAIN execs : (Running(x)' <=> Running(x)) /\ (Unanswered(x)' <=> Unanswered(x))
         /\ \A q \in Requests, x \in DOMAIN execs : Told(q, x)' <=> Told(q, x)
         /\ DOMAIN execs' = DOMAIN execs
    BY <1>1 DEF Running, Unanswered, Told
  <2> HIDE DEF x0
  <2>11. PauseRunsOK'
    BY <2>4, <2>5, <2>6, <2>8, <2>9, <2>10 DEF PauseRunsOK
  <2> QED
    BY <1>1, <2>1, <2>11, MoveGate
<1> QED
  BY <1>4, <1>5

LEMMA RefreshGate ==
  ASSUME TypeOK, Baton, GateInv, NEW r \in Requests, Refresh(r)
  PROVE  GateInv'
<1>1. /\ pc[r] = "refresh" /\ row.status = "running" /\ NoneRuns /\ NoAnswerDue
      /\ UNCHANGED <<row, execs, outbox, answer>>
  BY DEF Refresh, records, Baton, StatusOK, AnswersOK, GateInv, RunsOK
<1>2. PICK to \in {"batch", "complete"} : Goes(r, to)
  BY <1>1 DEF Refresh
<1>3. \A q \in Requests : pc'[q] = IF q = r THEN to ELSE pc[q]
  BY <1>2 DEF Goes, TypeOK
<1>4. \A q \in Requests : pc[q] \in Working => q = r
  BY <1>1 DEF Baton, OneWorks, Works, Working
<1>5. \A q \in Requests, s \in Steps :
        Task(q, s)' = IF q # r THEN Task(q, s)
                      ELSE IF s \in ToSet(row.frontier) THEN NewTask ELSE NoTask
  BY <1>1 DEF Refresh, Task, TypeOK
<1>6. NewTask.is = "queued" /\ NoTask.is = "none"
  BY DEF NewTask, NoTask
<1>7. NoneRuns' /\ \A q \in Requests : ~Answering(q)'
  BY <1>1, <1>2, <1>3 DEF NoneRuns, Running, NoAnswerDue, Answering
<1>8. AllHeld'
  <2> SUFFICES ASSUME NEW q \in Requests, NEW s \in Steps PROVE HeldOK(q, s)'
    BY DEF AllHeld
  <2>1. HeldOK(q, s)
    BY DEF GateInv, AllHeld
  <2>2. CASE q = r
    BY <1>5, <1>6, <2>2 DEF HeldOK, Executing
  <2>3. CASE q # r
    BY <1>1, <1>3, <1>5, <2>1, <2>3 DEF HeldOK, Running
  <2> QED
    BY <2>2, <2>3
<1>9. RunsOK'
  BY <1>1, <1>7 DEF RunsOK, BatchRunsOK, NoneRuns
<1>10. GateRespected'
  BY <1>1 DEF GateInv, GateRespected
<1> QED
  BY <1>8, <1>9, <1>10 DEF GateInv

(* What changes with one execution's state. *)
LEMMA StatePointwise ==
  ASSUME TypeOK, NEW x \in DOMAIN execs, NEW state, execs' = [execs EXCEPT ![x].state = state]
  PROVE  /\ DOMAIN execs' = DOMAIN execs
         /\ \A y \in DOMAIN execs :
              /\ execs'[y].answers = execs[y].answers /\ execs'[y].approval = execs[y].approval
              /\ execs'[y].step = execs[y].step
              /\ execs'[y].state = IF y = x THEN state ELSE execs[y].state
<1>1. execs[x] \in Execution
  BY ExecutionType DEF TypeOK
<1> DEFINE e == [execs[x] EXCEPT !.state = state]
<1>2. e.answers = execs[x].answers /\ e.approval = execs[x].approval /\ e.step = execs[x].step
      /\ e.state = state
  BY <1>1 DEF Execution
<1>3. execs' = [execs EXCEPT ![x] = e]
  OBVIOUS
<1> HIDE DEF e
<1>4. DOMAIN execs' = DOMAIN execs /\ \A y \in DOMAIN execs : execs'[y] = IF y = x THEN e ELSE execs[y]
  BY <1>3
<1> QED
  BY <1>2, <1>4

(* The execution that waited is settled as it was decided. *)
LEMMA SettleGate ==
  ASSUME TypeOK, Baton, GateInv, NEW r \in Requests, ApproveStep(r) \/ RejectStep(r)
  PROVE  GateInv'
<1> DEFINE x0 == my[r].step_exec
           state == IF answer[r] = "approved" THEN "completed" ELSE "failed"
<1>1. pc[r] = "settle" /\ UNCHANGED <<row, batch, answer>> /\ row.status = "paused"
  BY DEF ApproveStep, RejectStep, Moves, Baton, StatusOK
<1>2. PauseRunsOK /\ NoAnswerDue
  BY <1>1 DEF GateInv, RunsOK, Baton, AnswersOK
<1>3. x0 \in DOMAIN execs /\ Running(x0) /\ \A x \in DOMAIN execs : Running(x) => x = x0
  BY <1>1, <1>2 DEF PauseRunsOK
<1>4. Told(r, x0)
  BY <1>1, <1>2, <1>3 DEF PauseRunsOK
<1>5. Settles(r, state)
  BY DEF ApproveStep, RejectStep
<1>6. x0 # 0
  BY <1>3, LenProperties DEF TypeOK
<1>7. execs' = [execs EXCEPT ![x0].state = state]
  BY <1>5, <1>6 DEF Settles
<1> HIDE DEF x0, state
<1>8. /\ DOMAIN execs' = DOMAIN execs
      /\ \A y \in DOMAIN execs :
           /\ execs'[y].answers = execs[y].answers /\ execs'[y].approval = execs[y].approval
           /\ execs'[y].step = execs[y].step
           /\ execs'[y].state = IF y = x0 THEN state ELSE execs[y].state
  BY <1>3, <1>7, StatePointwise
<1>9. state \in {"completed", "failed"} /\ (state = "completed" => answer[r] = "approved")
  BY DEF state
<1>10. PICK to \in {"save", "fail"} : Goes(r, to)
  BY DEF ApproveStep, RejectStep, Moves
<1>11. \A q \in Requests : pc'[q] = IF q = r THEN to ELSE pc[q]
  BY <1>10 DEF Goes, TypeOK
<1>12. \A q \in Requests : pc'[q] \notin {"callback", "resume", "settle", "batch"}
  BY <1>1, <1>2, <1>11 DEF NoAnswerDue, Answering, Baton, OneWorks, Works, Working
<1>13. NoneRuns'
  BY <1>3, <1>8, <1>9 DEF NoneRuns, Running
<1>14. \A q \in Requests, s \in Steps : Task(q, s)' = Task(q, s) /\ Task(q, s).is \notin Executing
  <2>1. \A q \in Requests, s \in Steps : Task(q, s)' = Task(q, s)
    BY <1>1 DEF Task
  <2>2. \A s \in Steps : Task(r, s).is = "none"
    BY <1>1 DEF Baton, TasksOK, TaskOK
  <2>3. \A q \in Requests \ {r} : ~Works(q)
    BY <1>1 DEF Baton, OneWorks, Works, Working
  <2>4. \A q \in Requests, s \in Steps : Task(q, s).is \notin Executing
    BY <2>2, <2>3 DEF Works, Active, Executing
  <2> QED
    BY <2>1, <2>4
<1>15. AllHeld'
  BY <1>12, <1>14 DEF AllHeld, HeldOK, Executing
<1>16. \A x \in DOMAIN execs' : ~Unanswered(x)'
  BY <1>2, <1>8 DEF NoAnswerDue, Unanswered
<1>17. RunsOK'
  BY <1>1, <1>12, <1>13, <1>16 DEF RunsOK, PauseRunsOK, NoneRuns
<1>18. GateRespected'
  BY <1>4, <1>8, <1>9 DEF GateInv, GateRespected, Told
<1> QED
  BY <1>15, <1>17, <1>18 DEF GateInv

LEMMA AppendRange ==
  ASSUME NEW S, NEW s \in Seq(S), NEW d \in S
  PROVE  ToSet(Append(s, d)) = ToSet(s) \cup {d}
<1>1. /\ Len(s) \in Nat /\ DOMAIN s = 1..Len(s)
      /\ DOMAIN Append(s, d) = 1..(Len(s) + 1)
      /\ \A i \in 1..Len(s) : Append(s, d)[i] = s[i]
      /\ Append(s, d)[Len(s) + 1] = d
  BY AppendProperties, LenProperties
<1>2. ToSet(Append(s, d)) \subseteq ToSet(s) \cup {d}
  BY <1>1 DEF ToSet
<1>3. ToSet(s) \subseteq ToSet(Append(s, d)) /\ d \in ToSet(Append(s, d))
  BY <1>1 DEF ToSet
<1> QED
  BY <1>2, <1>3

(* What a decision changes. *)
LEMMA DecidePointwise ==
  ASSUME TypeOK, NEW r \in Requests, NEW x \in DOMAIN execs, NEW d \in {"approved", "rejected"},
         Decide(r, x, d)
  PROVE  /\ DOMAIN execs' = DOMAIN execs
         /\ \A y \in DOMAIN execs :
              /\ execs'[y].step = execs[y].step /\ execs'[y].state = execs[y].state
              /\ y # x => execs'[y].answers = execs[y].answers
              /\ y # x => execs'[y].approval = execs[y].approval
         /\ execs'[x].approval = d /\ execs'[x].answers = Append(execs[x].answers, d)
         /\ ToSet(execs'[x].answers) = ToSet(execs[x].answers) \cup {d}
<1> DEFINE e == [execs[x] EXCEPT !.approval = d, !.answers = Append(execs[x].answers, d)]
<1>1. execs[x] \in Execution /\ execs[x].answers \in Seq({"approved", "rejected"})
  BY ExecutionType DEF TypeOK, Execution
<1>2. e.approval = d /\ e.answers = Append(execs[x].answers, d) /\ e.step = execs[x].step
      /\ e.state = execs[x].state
  BY <1>1 DEF Execution
<1>3. execs' = [execs EXCEPT ![x] = e]
  BY DEF Decide
<1> HIDE DEF e
<1>4. DOMAIN execs' = DOMAIN execs
      /\ \A y \in DOMAIN execs : execs'[y] = IF y = x THEN e ELSE execs[y]
  BY <1>3
<1>5. ToSet(Append(execs[x].answers, d)) = ToSet(execs[x].answers) \cup {d}
  BY <1>1, AppendRange
<1> QED
  BY <1>2, <1>4, <1>5

LEMMA DecideGate ==
  ASSUME TypeOK, Baton, OneWaits, AnsweredOnce', GateInv, NEW r \in Requests, NEW x \in DOMAIN execs,
         NEW d \in {"approved", "rejected"}, Decide(r, x, d)
  PROVE  GateInv'
<1>1. /\ DOMAIN execs' = DOMAIN execs
      /\ \A y \in DOMAIN execs :
           /\ execs'[y].step = execs[y].step /\ execs'[y].state = execs[y].state
           /\ y # x => execs'[y].answers = execs[y].answers
           /\ y # x => execs'[y].approval = execs[y].approval
      /\ execs'[x].approval = d /\ execs'[x].answers = Append(execs[x].answers, d)
      /\ ToSet(execs'[x].answers) = ToSet(execs[x].answers) \cup {d}
  BY DecidePointwise
<1>2. execs[x].answers = <<>> /\ execs'[x].answers # <<>>
  <2>1. execs[x].answers \in Seq({"approved", "rejected"})
    BY ExecutionType DEF TypeOK, Execution
  <2>2. Len(Append(execs[x].answers, d)) = Len(execs[x].answers) + 1
        /\ Append(execs[x].answers, d) # <<>> /\ Len(execs[x].answers) \in Nat
    BY <2>1, AppendProperties, LenProperties
  <2> QED
    BY <1>1, <2>1, <2>2, EmptySeq DEF AnsweredOnce
<1>3. Unanswered(x) /\ ~NoAnswerDue
  BY <1>2 DEF Decide, Unanswered, NoAnswerDue
<1>4. /\ pc[r] = "idle" /\ \A q \in Requests : pc'[q] = IF q = r THEN "callback" ELSE pc[q]
      /\ \A q \in Requests : answer'[q] = IF q = r THEN d ELSE answer[q]
      /\ UNCHANGED <<row, my, batch>>
  BY DEF Decide, Accepts, Goes, TypeOK
<1>5. \A q \in Requests, s \in Steps : Task(q, s)' = Task(q, s) /\ (Waits(q, s)' <=> Waits(q, s))
  BY <1>4 DEF Task, Waits
<1>6. /\ \A y \in DOMAIN execs : Running(y)' <=> Running(y)
      /\ \A y \in DOMAIN execs : Unanswered(y)' => Unanswered(y)
      /\ Told(r, x)'
      /\ \A q \in Requests : Answering(q)' => q = r \/ Answering(q)
  BY <1>1, <1>2, <1>4 DEF Running, Unanswered, Told, Answering
<1>7. \A q \in Requests : pc'[q] \notin {"start", "refresh", "save", "resume", "settle"}
  BY <1>3, <1>4 DEF Baton, AnswersOK
<1>8. AllHeld'
  <2> SUFFICES ASSUME NEW q \in Requests, NEW s \in Steps PROVE HeldOK(q, s)'
    BY DEF AllHeld
  <2>1. HeldOK(q, s)
    BY DEF GateInv, AllHeld
  <2>2. Task(q, s).is \in Executing => Task(q, s).exec \in DOMAIN execs
    BY DEF TypeOK
  <2>3. Task(q, s).is = "running" => Task(q, s).is \in Executing /\ Task(q, s).exec # x
    BY <1>3, <2>1 DEF HeldOK, Unanswered, Executing
  <2> QED
    BY <1>1, <1>4, <1>5, <1>6, <2>1, <2>2, <2>3 DEF HeldOK
<1>9. RunsOK'
  <2>1. ASSUME NEW q \in Requests, pc'[q] = "batch" PROVE BatchRunsOK(q)'
    <3>1. pc[q] = "batch"
      BY <1>4, <2>1
    <3>2. BatchRunsOK(q) /\ BatchAnswersOK(q)
      BY <3>1 DEF GateInv, RunsOK, Baton, AnswersOK, BatchAnswersOK
    <3>3. \A p \in Requests : ~Answering(p)
      BY <1>3, <3>2 DEF BatchAnswersOK, OneAnswerDue
    <3>4. \A s \in Steps : Waits(q, s) => Task(q, s).exec = x
      BY <1>3, <3>2 DEF BatchAnswersOK, OneWaits
    <3>5. \A p \in Requests, s \in Steps : Answering(p)' /\ Waits(q, s)' => p = r /\ Task(q, s)'.exec = x
      BY <1>5, <1>6, <3>3, <3>4
    <3>6. \A p \in Requests, s \in Steps : Answering(p)' /\ Waits(q, s)' =>
            answer'[p] \in ToSet(execs'[Task(q, s)'.exec].answers)
      BY <1>6, <3>5 DEF Told
    <3>7. \A y \in DOMAIN execs' : Running(y)' =>
            \E s \in Steps : Task(q, s)'.is \in Executing \cup {"awaiting"} /\ Task(q, s)'.exec = y
      BY <1>1, <1>5, <1>6, <3>2 DEF BatchRunsOK
    <3> QED
      BY <3>6, <3>7 DEF BatchRunsOK, Told
  <2>2. ASSUME row'.status = "paused" PROVE PauseRunsOK'
    <3>1. PauseRunsOK /\ OneAnswerDue
      BY <1>4, <2>2 DEF GateInv, RunsOK, Baton, AnswersOK
    <3>2. Running(x) /\ \A p \in Requests : ~Answering(p)
      BY <1>3, <3>1 DEF PauseRunsOK, OneAnswerDue
    <3>3. \A q \in Requests : pc'[q] \in {"callback", "resume", "settle"} => q = r
      BY <1>4, <1>7, <3>2 DEF Answering
    <3>4. \A y, z \in DOMAIN execs' : Running(y)' /\ Running(z)' => y = z
      BY <1>1, <1>6, <3>1 DEF PauseRunsOK
    <3>5. \A y \in DOMAIN execs' : Unanswered(y)' => Running(y)'
      BY <1>1, <1>6, <3>1 DEF PauseRunsOK
    <3>6. x \in DOMAIN execs' /\ Running(x)' /\ Told(r, x)'
      BY <1>1, <1>6, <3>2
    <3> QED
      BY <1>7, <3>3, <3>4, <3>5, <3>6 DEF PauseRunsOK
  <2>3. row'.status # "absent"
    BY <1>3, <1>4 DEF Baton, AnswersOK
  <2> QED
    BY <1>7, <2>1, <2>2, <2>3 DEF RunsOK
<1>10. GateRespected'
  <2> SUFFICES ASSUME NEW y \in DOMAIN execs, execs[y].state = "completed",
                      execs'[y].approval # "none" \/ Mode[execs[y].step] = "human"
               PROVE  "approved" \in ToSet(execs'[y].answers)
    BY <1>1 DEF GateRespected
  <2>1. CASE y = x
    <3>1. "approved" \in ToSet(execs[x].answers)
      BY <1>3, <2>1 DEF GateInv, GateRespected, Unanswered
    <3> QED
      BY <1>1, <2>1, <3>1
  <2>2. CASE y # x
    BY <1>1, <2>2 DEF GateInv, GateRespected
  <2> QED
    BY <2>1, <2>2
<1> QED
  BY <1>8, <1>9, <1>10 DEF GateInv

(* Two tasks that execute their steps never do so for the same execution.  *)
LEMMA OneTaskPerExecution ==
  ASSUME TypeOK, Baton, NEW q \in Requests, NEW r \in Requests, NEW s \in Steps, NEW t \in Steps,
         Task(q, s).is \in Executing, Task(r, t).is \in Executing, Task(q, s).exec = Task(r, t).exec
  PROVE  q = r /\ s = t
<1>1. q = r
  BY DEF Baton, OneWorks, Works, Active
<1>2. execs[Task(q, s).exec].step = s /\ execs[Task(r, t).exec].step = t
  BY DEF TypeOK
<1> QED
  BY <1>1, <1>2

(* One task acts, on its execution x.                                      *)
LEMMA TaskActsGate ==
  ASSUME TypeOK, Baton, GateInv, NEW r \in Requests, NEW s \in Steps, NEW x,
         TaskActs(r, s), UNCHANGED answer,
         \/ Task(r, s).is = "queued" /\ x \notin DOMAIN execs
         \/ Task(r, s).is \in Executing /\ Task(r, s).exec = x,
         DOMAIN execs' = DOMAIN execs \cup {x},
         \A y \in DOMAIN execs :
           /\ execs'[y].answers = execs[y].answers
           /\ y # x => /\ execs'[y].state = execs[y].state
                       /\ execs'[y].approval = execs[y].approval
                       /\ execs'[y].step = execs[y].step,
         HeldOK(r, s)',
         Running(x)' /\ pc'[r] = "batch" =>
           Task(r, s)'.is \in Executing \cup {"awaiting"} /\ Task(r, s)'.exec = x,
         Waits(r, s)' /\ pc'[r] = "batch" =>
           (Waits(r, s) /\ Task(r, s)'.exec = x) \/ \A q \in Requests : ~Answering(q),
         \A t \in Steps : t # s /\ pc'[r] = "batch" /\ Task(r, t).is = "awaiting" => Task(r, t).exec # x,
         /\ execs'[x].state = "completed"
         /\ execs'[x].approval # "none" \/ Mode[execs'[x].step] = "human"
         => "approved" \in ToSet(execs'[x].answers)
  PROVE  GateInv'
<1>1. Works(r) /\ Task(r, s).is # "none"
  BY DEF TaskActs, Works, Active, Executing
<1>2. pc[r] \in {"batch", "fail", "done"}
  BY <1>1 DEF TaskActs, Baton, TasksOK, TaskOK, StatusOK, TypeOK, Places
<1>3. row.status \notin {"paused", "absent"}
  BY <1>1, <1>2 DEF Baton, AnswersOK, StatusOK, TasksOK, TaskOK
<1>4. \A q \in Requests : pc[q] \in Working => q = r
  BY <1>1 DEF Baton, OneWorks, Works
<1>5. /\ \A q \in Requests : Answering(q)' => Answering(q)
      /\ \A y \in DOMAIN execs : y # x => (Running(y)' <=> Running(y))
      /\ \A q \in Requests, y \in DOMAIN execs : Told(q, y)' <=> Told(q, y)
  BY DEF TaskActs, Answering, Running, Told
<1>6. AllHeld'
  <2> SUFFICES ASSUME NEW q \in Requests, NEW t \in Steps, ~(q = r /\ t = s) PROVE HeldOK(q, t)'
    BY DEF AllHeld
  <2>1. HeldOK(q, t) /\ Task(q, t)' = Task(q, t)
    BY DEF GateInv, AllHeld, TaskActs
  <2>2. Task(q, t).is \in Executing =>
          Task(q, t).exec \in DOMAIN execs /\ Task(q, t).exec # x
    BY OneTaskPerExecution DEF TypeOK
  <2>3. pc'[q] = "batch" /\ Task(q, t).is = "awaiting" =>
          pc[q] = "batch" /\ Task(q, t).exec # x
    <3>1. pc'[q] = "batch" => pc[q] = "batch" /\ q = r
      BY <1>4 DEF TaskActs, Working
    <3> QED
      BY <3>1
  <2>4. "running" \in Executing
    BY DEF Executing
  <2> QED
    BY <1>5, <2>1, <2>2, <2>3, <2>4 DEF HeldOK
<1>7. ASSUME pc'[r] = "batch" PROVE BatchRunsOK(r)'
  <2>1. BatchRunsOK(r) /\ pc[r] = "batch"
    BY <1>7 DEF GateInv, RunsOK, TaskActs
  <2>2. ASSUME NEW y \in DOMAIN execs', Running(y)'
        PROVE  \E t \in Steps : Task(r, t)'.is \in Executing \cup {"awaiting"} /\ Task(r, t)'.exec = y
    <3>1. CASE y = x
      BY <1>7, <2>2, <3>1
    <3>2. CASE y # x
      <4>1. y \in DOMAIN execs /\ Running(y)
        BY <1>5, <2>2, <3>2
      <4>2. PICK t \in Steps : Task(r, t).is \in Executing \cup {"awaiting"} /\ Task(r, t).exec = y
        BY <2>1, <4>1 DEF BatchRunsOK
      <4>3. t # s
        BY <3>2, <4>2 DEF Executing
      <4> QED
        BY <4>2, <4>3 DEF TaskActs
    <3> QED
      BY <3>1, <3>2
  <2>3. ASSUME NEW q \in Requests, NEW t \in Steps, Answering(q)', Waits(r, t)'
        PROVE  answer'[q] \in ToSet(execs'[Task(r, t)'.exec].answers)
    <3>1. Answering(q)
      BY <1>5, <2>3
    <3>2. Waits(r, t) /\ Task(r, t)'.exec = Task(r, t).exec
      <4>1. CASE t = s
        BY <1>7, <2>3, <3>1, <4>1 DEF Waits, Waiting, Executing
      <4>2. CASE t # s
        BY <2>3, <4>2 DEF TaskActs, Waits
      <4> QED
        BY <4>1, <4>2
    <3>3. Told(q, Task(r, t).exec)
      BY <2>1, <3>1, <3>2 DEF BatchRunsOK
    <3>4. Task(r, t).exec \in DOMAIN execs
      BY <2>1, <3>2 DEF Waits, Waiting, TypeOK, Executing, GateInv, AllHeld, HeldOK
    <3> QED
      BY <3>2, <3>3, <3>4 DEF Told
  <2> QED
    BY <2>2, <2>3 DEF BatchRunsOK, Told
<1>8. RunsOK'
  <2>1. \A q \in Requests : pc'[q] \notin {"start", "refresh", "save"}
    BY <1>2, <1>4 DEF TaskActs, Working
  <2>2. \A q \in Requests : pc'[q] = "batch" => q = r
    BY <1>4 DEF TaskActs, Working
  <2>3. row' = row
    BY DEF TaskActs
  <2> QED
    BY <1>3, <1>7, <2>1, <2>2, <2>3 DEF RunsOK
<1>9. GateRespected'
  BY DEF GateInv, GateRespected
<1> QED
  BY <1>6, <1>8, <1>9 DEF GateInv

LEMMA BeginGate ==
  ASSUME TypeOK, Baton, GateInv, NEW r \in Requests, NEW s \in Steps, BeginStep(r, s)
  PROVE  GateInv'
<1> DEFINE new == [step |-> s, state |-> "running", approval |-> "none", answers |-> <<>>]
           task == [is |-> "running", exec |-> Len(execs')]
           x == Len(execs) + 1
<1>1. new \in Execution /\ execs \in Seq(Execution) /\ execs' = Append(execs, new)
  BY DEF Execution, BeginStep, TypeOK
<1>2. /\ Len(execs) \in Nat /\ DOMAIN execs = 1..Len(execs) /\ Len(execs') = x
      /\ DOMAIN execs' = DOMAIN execs \cup {x} /\ x \notin DOMAIN execs
      /\ \A y \in DOMAIN execs : execs'[y] = execs[y]
      /\ execs'[x] = new
  BY <1>1, AppendProperties, LenProperties
<1>3. batch' = [batch EXCEPT ![r] = [@ EXCEPT ![s] = task]]
  BY DEF BeginStep
<1>4. Task(r, s)' = task /\ \A q \in Requests, t \in Steps : ~(q = r /\ t = s) => Task(q, t)' = Task(q, t)
  BY <1>3 DEF Task, TypeOK
<1>5. Task(r, s).is = "queued" /\ Task(r, s)'.is = "running" /\ Task(r, s)'.exec = x
      /\ UNCHANGED <<row, my, pc, answer>>
  BY <1>2, <1>4 DEF BeginStep
<1>6. TaskActs(r, s)
  BY <1>4, <1>5 DEF TaskActs, Active
<1>7. execs'[x].state = "running" /\ execs'[x].approval = "none"
  BY <1>2
<1>8. HeldOK(r, s)'
  BY <1>5, <1>7 DEF HeldOK, Running
<1>9. ~Waits(r, s)' /\ Task(r, s)'.is \in Executing
  BY <1>5 DEF Waits, Waiting, Executing
<1>10. \A t \in Steps : pc'[r] = "batch" /\ Task(r, t).is = "awaiting" => Task(r, t).exec # x
  BY <1>2, <1>5 DEF GateInv, AllHeld, HeldOK
<1> HIDE DEF x, new, task
<1> QED
  BY <1>2, <1>5, <1>6, <1>7, <1>8, <1>9, <1>10, TaskActsGate

LEMMA TaskGate ==
  ASSUME TypeOK, Baton, OneWaits, OneWaits', GateInv, NEW r \in Requests, NEW s \in Steps,
         \/ CompleteStep(r, s) \/ FailStep(r, s) \/ RequestApproval(r, s)
         \/ StoreReference(r, s) \/ AwaitApproval(r, s) \/ StepErrs(r, s)
  PROVE  GateInv'
<1>0. PICK x : x = Task(r, s).exec
  OBVIOUS
<1>1. Task(r, s).is \in Executing
  BY DEF CompleteStep, FailStep, RequestApproval, StoreReference, AwaitApproval, StepErrs, Executing
<1>2. x \in DOMAIN execs /\ execs[x].step = s /\ Running(x)
  BY <1>0, <1>1 DEF TypeOK, GateInv, AllHeld, HeldOK
<1>3. PICK is : Becomes(r, s, is)
  BY DEF CompleteStep, FailStep, RequestApproval, StoreReference, AwaitApproval, StepErrs
<1>4. /\ Task(r, s)'.is = is /\ Task(r, s)'.exec = x
      /\ \A q \in Requests, t \in Steps : ~(q = r /\ t = s) => Task(q, t)' = Task(q, t)
  BY <1>0, <1>3, BecomesPointwise
<1>5. TaskActs(r, s) /\ UNCHANGED answer
  BY <1>1, <1>4 DEF CompleteStep, FailStep, RequestApproval, StoreReference, AwaitApproval, StepErrs,
                    Goes, TypeOK, TaskActs, Active
<1>6. Task(r, s).is = "running" => execs[x].approval = "none"
  BY <1>0 DEF GateInv, AllHeld, HeldOK
<1>7. "running" \in Executing /\ "asking" \in Executing /\ "asked" \in Executing /\ "awaiting" \notin Executing
  BY DEF Executing
(* No other task of the request waits for the same execution. *)
<1>8. ASSUME Task(r, s).is = "running"
      PROVE  \A t \in Steps : t # s /\ pc[r] = "batch" /\ Task(r, t).is = "awaiting" => Task(r, t).exec # x
  BY <1>6, <1>8 DEF GateInv, AllHeld, HeldOK
<1>9. ASSUME Waits(r, s) \/ Waits(r, s)'
      PROVE  \A t \in Steps : t # s => Task(r, t).is # "awaiting"
  BY <1>4, <1>9 DEF OneWaits, Waits, Waiting
<1>10. CASE CompleteStep(r, s) \/ FailStep(r, s)
  <2>1. PICK state \in {"completed", "failed"} : execs' = [execs EXCEPT ![x].state = state]
    BY <1>0, <1>10 DEF CompleteStep, FailStep, Records
  <2>2. /\ DOMAIN execs' = DOMAIN execs
        /\ \A y \in DOMAIN execs :
             /\ execs'[y].answers = execs[y].answers /\ execs'[y].approval = execs[y].approval
             /\ execs'[y].step = execs[y].step
             /\ execs'[y].state = IF y = x THEN state ELSE execs[y].state
    BY <1>2, <2>1, StatePointwise
  <2>3. Task(r, s).is = "running" /\ Mode[s] # "human" /\ pc' = pc
        /\ Task(r, s)'.is \in {"completed", "raised", "rerouted"}
    BY <1>10, BecomesPointwise DEF CompleteStep, FailStep
  <2>4. ~Running(x)' /\ execs'[x].approval = "none" /\ Mode[execs'[x].step] # "human"
    BY <1>2, <1>6, <2>1, <2>2, <2>3 DEF Running
  <2>5. HeldOK(r, s)' /\ ~Waits(r, s)'
    BY <2>3 DEF HeldOK, Executing, Waits, Waiting
  <2> QED
    BY <1>0, <1>1, <1>2, <1>5, <1>8, <2>2, <2>3, <2>4, <2>5, TaskActsGate
<1>11. CASE RequestApproval(r, s) \/ StoreReference(r, s)
  <2>1. /\ DOMAIN execs' = DOMAIN execs
        /\ \A y \in DOMAIN execs :
             /\ execs'[y].answers = execs[y].answers /\ execs'[y].state = execs[y].state
             /\ execs'[y].step = execs[y].step
             /\ execs'[y].approval = IF y = x THEN "pending" ELSE execs[y].approval
    BY <1>0, <1>2, <1>11, PendingPointwise DEF RequestApproval, StoreReference
  <2>2. /\ pc' = pc
        /\ Task(r, s)'.is \in {"asking", "asked"} /\ (Waits(r, s) \/ Task(r, s).is = "running")
    BY <1>11, BecomesPointwise DEF RequestApproval, StoreReference, Waits, Waiting
  <2>3. Running(x)' /\ execs'[x].state # "completed"
    BY <1>2, <2>1 DEF Running
  <2>4. HeldOK(r, s)' /\ Waits(r, s)' /\ Task(r, s)'.is \in Executing
    BY <1>4, <2>2, <2>3 DEF HeldOK, Executing, Waits, Waiting
  <2>5. \A t \in Steps : Waits(r, t) => t = s
    BY <1>4, <2>4 DEF OneWaits, Waits
  <2>6. pc[r] = "batch" /\ ~Waits(r, s) => \A q \in Requests : ~Answering(q)
    BY <2>5 DEF Baton, AnswersOK
  <2> QED
    BY <1>0, <1>1, <1>2, <1>4, <1>5, <1>9, <2>1, <2>2, <2>3, <2>4, <2>6, TaskActsGate
<1>12. CASE AwaitApproval(r, s)
  <2>1. /\ DOMAIN execs' = DOMAIN execs
        /\ \A y \in DOMAIN execs :
             /\ execs'[y].answers = execs[y].answers /\ execs'[y].approval = execs[y].approval
             /\ execs'[y].step = execs[y].step
             /\ execs'[y].state = IF y = x THEN "running" ELSE execs[y].state
    BY <1>0, <1>2, <1>12, StatePointwise DEF AwaitApproval, Records
  <2>2. pc' = pc /\ Task(r, s).is = "asked" /\ Task(r, s)'.is = "awaiting"
    BY <1>12, BecomesPointwise DEF AwaitApproval
  <2>3. Running(x)' /\ execs'[x].state # "completed"
    BY <1>2, <2>1 DEF Running
  <2>4. execs[x].approval # "none"
    BY <1>0, <2>2 DEF Baton, TasksOK, TaskOK
  <2>5. HeldOK(r, s)' /\ Waits(r, s) /\ Waits(r, s)'
    BY <1>2, <1>4, <1>7, <2>1, <2>2, <2>3, <2>4 DEF HeldOK, Waits, Waiting
  <2> QED
    BY <1>0, <1>1, <1>2, <1>4, <1>5, <1>9, <2>1, <2>2, <2>3, <2>5, TaskActsGate
<1>13. CASE StepErrs(r, s)
  <2>1. Task(r, s)'.is = "none" /\ pc'[r] # "batch"
    BY <1>13, BecomesPointwise DEF StepErrs, Goes, TypeOK
  <2>2. HeldOK(r, s)' /\ ~Waits(r, s)'
    BY <2>1 DEF HeldOK, Executing, Waits, Waiting
  <2>3. PICK state : /\ state # "completed"
                     /\ DOMAIN execs' = DOMAIN execs
                     /\ \A y \in DOMAIN execs :
                          /\ execs'[y].answers = execs[y].answers /\ execs'[y].approval = execs[y].approval
                          /\ execs'[y].step = execs[y].step
                          /\ execs'[y].state = IF y = x THEN state ELSE execs[y].state
    <3>1. CASE UNCHANGED execs
      <4>1. \A y \in DOMAIN execs : execs[y].state = IF y = x THEN "running" ELSE execs[y].state
        BY <1>2 DEF Running
      <4> QED
        BY <3>1, <4>1
    <3>2. CASE Records(r, s, "failed")
      BY <1>0, <1>2, <3>2, StatePointwise DEF Records
    <3> QED
      BY <1>13, <3>1, <3>2 DEF StepErrs
  <2>4. execs'[x].state # "completed"
    BY <1>2, <2>3
  <2> QED
    BY <1>0, <1>1, <1>2, <1>5, <2>1, <2>2, <2>3, <2>4, TaskActsGate
<1> QED
  BY <1>10, <1>11, <1>12, <1>13

LEMMA CrashGate ==
  ASSUME TypeOK, Baton, GateInv, NEW dead \in SUBSET Requests, Crash(dead)
  PROVE  GateInv'
<1>1. /\ UNCHANGED <<row, execs, my, answer>>
      /\ \A q \in Requests : pc'[q] = pc[q] \/ pc'[q] = "done"
      /\ \A q \in dead : pc'[q] \in {"idle", "done"}
      /\ \A q \in Requests \ dead : pc'[q] = pc[q]
  BY DEF Crash, records
<1>2. \A q \in Requests, s \in Steps :
        Task(q, s)' = IF q \in dead THEN NoTask ELSE Task(q, s)
  BY DEF Crash, Task
<1>3. NoTask.is = "none"
  BY DEF NoTask
<1>4. /\ \A x \in DOMAIN execs : (Running(x)' <=> Running(x)) /\ (Unanswered(x)' <=> Unanswered(x))
      /\ \A q \in Requests, x \in DOMAIN execs : Told(q, x)' <=> Told(q, x)
      /\ NoneRuns => NoneRuns'
      /\ \A q \in Requests : Answering(q)' => Answering(q)
  BY <1>1 DEF Running, Unanswered, Told, NoneRuns, Answering
<1>5. AllHeld'
  <2> SUFFICES ASSUME NEW q \in Requests, NEW s \in Steps PROVE HeldOK(q, s)'
    BY DEF AllHeld
  <2>1. HeldOK(q, s)
    BY DEF GateInv, AllHeld
  <2>2. CASE q \in dead
    BY <1>2, <1>3, <2>2 DEF HeldOK, Executing
  <2>3. CASE q \notin dead
    BY <1>1, <1>2, <2>1, <2>3 DEF HeldOK, Running
  <2> QED
    BY <2>2, <2>3
<1>6. ASSUME NEW q \in Requests, pc'[q] = "batch" PROVE BatchRunsOK(q)'
  <2>1. pc[q] = "batch" /\ q \notin dead
    BY <1>1, <1>6
  <2>2. BatchRunsOK(q)
    BY <2>1 DEF GateInv, RunsOK
  <2>3. \A s \in Steps : Task(q, s)' = Task(q, s) /\ (Waits(q, s)' <=> Waits(q, s))
    BY <1>2, <2>1 DEF Waits
  <2> QED
    BY <1>1, <1>4, <2>2, <2>3 DEF BatchRunsOK, Told
<1>7. ASSUME row'.status = "paused" PROVE PauseRunsOK'
  <2>1. PauseRunsOK
    BY <1>1, <1>7 DEF GateInv, RunsOK
  <2>2. \A q \in Requests : pc'[q] \in {"callback", "resume", "settle"} => pc'[q] = pc[q]
    BY <1>1
  <2> QED
    BY <1>1, <1>4, <2>1, <2>2 DEF PauseRunsOK
<1>8. RunsOK'
  <2>1. ASSUME NEW q \in Requests, pc'[q] \in {"start", "refresh", "save"} PROVE NoneRuns'
    BY <1>1, <1>4, <2>1 DEF GateInv, RunsOK
  <2>2. row'.status = "absent" => NoneRuns'
    BY <1>1, <1>4 DEF GateInv, RunsOK
  <2> QED
    BY <1>6, <1>7, <2>1, <2>2 DEF RunsOK
<1>9. GateRespected'
  BY <1>1 DEF GateInv, GateRespected
<1> QED
  BY <1>5, <1>8, <1>9 DEF GateInv

LEMMA StutterGate == GateInv /\ UNCHANGED vars => GateInv'
  BY DEF vars, records, requests, GateInv, AllHeld, HeldOK, RunsOK, NoneRuns, BatchRunsOK, PauseRunsOK,
         Running, Told, Unanswered, Answering, Waits, Task, GateRespected

LEMMA NextGate ==
  ASSUME Controls = {}
  PROVE  TypeOK /\ Baton /\ GateInv /\ OneWaits /\ OneWaits' /\ AnsweredOnce' /\ WaitsInFront
         /\ [Next]_vars => GateInv'
<1> SUFFICES ASSUME TypeOK, Baton, GateInv, OneWaits, OneWaits', AnsweredOnce', WaitsInFront, [Next]_vars
             PROVE  GateInv'
  OBVIOUS
<1>1. ASSUME NEW r \in Requests, RequestAction(r) PROVE GateInv'
  <2>1. ~Override(r)
    BY DEF Override, Moves, Baton, StatusOK
  <2> QED
    BY <1>1, <2>1, SimpleMovesGate, RefreshGate, AdvanceGate, ReadGate, FindGate, SettleGate
       DEF RequestAction
<1>2. ASSUME NEW r \in Requests, CreateInstance(r) \/ RequestErrs(r) PROVE GateInv'
  BY <1>2, SimpleMovesGate
<1>3. ASSUME NEW r \in Requests, ReadForPause(r) \/ ReadForTerminate(r) \/ ReadForResume(r)
      PROVE  FALSE
  BY <1>3 DEF ReadForPause, ReadForTerminate, ReadForResume
<1>4. ASSUME NEW r \in Requests, NEW x \in DOMAIN execs, NEW d \in {"approved", "rejected"},
             Decide(r, x, d)
      PROVE  GateInv'
  BY <1>4, DecideGate
<1>5. ASSUME NEW r \in Requests, NEW s \in Steps, StepAction(r, s) \/ StepErrs(r, s)
      PROVE  GateInv'
  BY <1>5, BeginGate, TaskGate DEF StepAction
<1>6. ASSUME NEW dead \in SUBSET Requests, Crash(dead) PROVE GateInv'
  BY <1>6, CrashGate
<1>7. CASE UNCHANGED vars
  BY <1>7, StutterGate
<1> QED
  BY <1>1, <1>2, <1>3, <1>4, <1>5, <1>6, <1>7 DEF Next

(* On a graph in which one step at a time waits, and waits in front, an    *)
(* answer given once reaches the execution it is about: nothing that asked *)
(* for an approval completes without one, and no human step without asking *)
(* (core/scheduler.py, resume_after_approval; core/human.py).              *)
THEOREM GateRespectedHolds ==
  ASSUME Controls = {}
  PROVE  Safety /\ []OneWaits /\ []AnsweredOnce /\ []WaitsInFront => []GateRespected
<1>1. Init => Baton /\ GateInv
  BY InitBaton, InitGate
<1>2. TypeOK /\ Baton /\ OneWaits' /\ AnsweredOnce' /\ [Next]_vars => Baton'
  BY NextBaton
<1>3. TypeOK /\ Baton /\ GateInv /\ OneWaits /\ OneWaits' /\ AnsweredOnce' /\ WaitsInFront
      /\ [Next]_vars => GateInv'
  BY NextGate
<1>4. GateInv => GateRespected
  BY DEF GateInv
<1> QED
  BY <1>1, <1>2, <1>3, <1>4, TypeCorrect, PTL DEF Safety

=============================================================================
