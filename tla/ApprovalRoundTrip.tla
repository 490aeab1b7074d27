------------------------- MODULE ApprovalRoundTrip -------------------------
(***************************************************************************)
(* The Workflow Engine asks, Human Oversight decides and calls back:       *)
(* WorkflowScheduler and HumanOversight joined by their two HTTP calls,    *)
(*   POST /requests of Human Oversight, made by core/human.py inside a     *)
(*     task of a batch, and                                                *)
(*   POST /instances/{id}/approvals/{id}/callback of the Workflow Engine,  *)
(*     made by HTTPDecisionCallbackDispatcher.                             *)
(* Each client gives up waiting and tries again, while the other side may  *)
(* have taken the first attempt and may take it at any later time.         *)
(*                                                                         *)
(* A ticket is about an execution (by index), as requesting_ref is about   *)
(* its approval.  Operators and faults of the engine are explored by       *)
(* WorkflowScheduler's own runs and left out here.                         *)
(***************************************************************************)
EXTENDS WorkflowScheduler, HumanOversight

VARIABLE carries    \* the attempt of a callback each engine request handles

NoPost == <<>>

roundTripVars == <<vars, oversightVars, carries>>

RoundTripInit ==
    /\ Init /\ OversightInit
    /\ carries = [r \in Requests |-> NoPost]

TicketsAbout(x) == {t \in Tickets : ticket[t].status # "absent" /\ ticket[t].about = x}

(* The engine alone. *)
EngineStep(r) ==
    /\ \/ CreateInstance(r) \/ RequestAction(r)
       \/ \E s \in Steps : BeginStep(r, s) \/ CompleteStep(r, s) \/ RequestApproval(r, s)
                           \/ AwaitApproval(r, s) \/ FailStep(r, s)
    /\ UNCHANGED <<oversightVars, carries>>

(* The engine's request arrives: the first attempt while the task is       *)
(* asking; a repetition then or at any later time.                         *)
AskArrives(t, x) ==
    /\ \/ TicketsAbout(x) # {}
       \/ \E r \in Requests, s \in Steps : Task(r, s) = [is |-> "asking", exec |-> x]
    /\ Enqueue(t, x)
    /\ UNCHANGED <<vars, carries>>

(* Human Oversight's answer, the ticket's id, arrives. *)
AskAnswered(r, s) ==
    /\ TicketsAbout(Task(r, s).exec) # {}
    /\ StoreReference(r, s)
    /\ UNCHANGED <<oversightVars, carries>>

(* The body of the callback an attempt carries. *)
Verdict(p) == call[p[1]].verdict
(* Bug: the newest approval is meant, whatever the URL says. *)
AboutLatest(p) == Len(execs)

About(p) == ticket[call[p[1]].on].about

(* Bug: whatever is not a rejection counts as an approval. *)
CallbackArrivesLax(r, p) ==
    /\ Decide(r, About(p), IF Verdict(p) = "rejected" THEN "rejected" ELSE "approved")
    /\ posts' = posts \ {p}
    /\ carries' = [carries EXCEPT ![r] = p]
    /\ UNCHANGED <<ticket, decisions, overridden, call>>

(* approval_callback, up to its first commit. *)
CallbackArrives(r, p) ==
    /\ Verdict(p) \in {"approved", "rejected"}
    /\ Decide(r, About(p), Verdict(p))
    /\ posts' = posts \ {p}
    /\ carries' = [carries EXCEPT ![r] = p]
    /\ UNCHANGED <<ticket, decisions, overridden, call>>

(* Any other decision is answered with 422 and changes nothing. *)
CallbackRefused(p) ==
    /\ Verdict(p) \notin {"approved", "rejected"}
    /\ p[2] = call[p[1]].tries
    /\ CallbackAnswered(p[1], "refused")
    /\ UNCHANGED <<vars, carries>>

(* The engine has handled the attempt that is being waited for, to the end. *)
CallbackReturns(r) ==
    /\ pc[r] = "done" /\ carries[r] # NoPost
    /\ carries[r][2] = call[carries[r][1]].tries
    /\ CallbackAnswered(carries[r][1], "done")
    /\ UNCHANGED <<vars, carries>>

OversightStep(c) ==
    /\ CaptureStep(c) \/ CallbackTimesOut(c)
    /\ UNCHANGED <<vars, carries>>

RoundTripNext ==
    \/ \E r \in Requests :
         \/ EngineStep(r)
         \/ \E s \in Steps : AskAnswered(r, s)
         \/ \E p \in posts : CallbackArrives(r, p)
         \/ CallbackReturns(r)
    \/ \E p \in posts : CallbackRefused(p)
    \/ \E t \in Tickets : \E x \in DOMAIN execs : AskArrives(t, x)
    \/ \E c \in Calls :
         \/ OversightStep(c)
         \/ /\ \E t \in Tickets : ReadForClaim(c, t) \/ \E v \in Verdicts : ReadForDecision(c, t, v)
            /\ UNCHANGED <<vars, carries>>
    \/ OversightDies /\ UNCHANGED <<vars, carries>>

RoundTripSpec == RoundTripInit /\ [][RoundTripNext]_roundTripVars

-----------------------------------------------------------------------------
(* Properties.                                                             *)

HumanSays(x, verdict) ==
    \E d \in DOMAIN decisions :
      ticket[decisions[d].ticket].about = x /\ decisions[d].verdict = verdict

Repeated == \E x \in DOMAIN execs : Len(execs[x].answers) > 1

(* Across the two services: an execution that asked a human is completed   *)
(* only if a reviewer has approved a ticket about that very execution, as  *)
(* long as no approval has been answered twice.                            *)
GateBackedByHuman ==
    ~Repeated =>
      \A x \in DOMAIN execs :
        execs[x].state = "completed" /\ execs[x].approval # "none" => HumanSays(x, "approved")

(* Whatever is lost, repeated or late: the engine never holds a decision   *)
(* that Human Oversight has no record of.                                  *)
AnswersOnRecord ==
    \A x \in DOMAIN execs : \A v \in ToSet(execs[x].answers) : HumanSays(x, v)

(* A decided ticket has its decision on record, and an override its record *)
(* too: a crash may leave a decision without a decided ticket, never the   *)
(* other way round (core/decision_capture.py:1-6).                         *)
DecidedOnRecord ==
    \A t \in Tickets : ticket[t].status = "decided" =>
      \E d \in DOMAIN decisions :
        /\ decisions[d].ticket = t
        /\ decisions[d].verdict = "override" => d \in overridden

(* A reviewer whose decide call succeeds has been heard: the engine has    *)
(* recorded that verdict for the approval in question.                     *)
ReviewerIsHeard ==
    \A c \in Calls : call[c].at = "done" /\ call[c].decision # 0 =>
      call[c].verdict \in ToSet(execs[ticket[call[c].on].about].answers)

=============================================================================
