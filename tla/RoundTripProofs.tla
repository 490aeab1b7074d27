-------------------------- MODULE RoundTripProofs --------------------------
(***************************************************************************)
(* Proofs about ApprovalRoundTrip: what the Workflow Engine holds about an *)
(* approval is on record in Human Oversight, whatever either side loses,   *)
(* repeats or delivers late, and the scheduler's own theorems carry over   *)
(* to the engine as a part of the pair.                                    *)
(***************************************************************************)
EXTENDS ApprovalRoundTrip, FrontierProofs

CallRecord ==
  [at : {"idle", "claim", "decide", "log", "settle", "notify"} \cup Over,
   on : Tickets \cup {NoTicket}, verdict : Verdicts, decision : Nat, tries : Nat]

OversightType ==
  /\ ticket \in [Tickets -> [status : {"absent", "pending", "claimed", "decided"}, about : Nat]]
  /\ decisions \in Seq([ticket : Tickets, verdict : Verdicts])
  /\ call \in [Calls -> CallRecord]
  /\ posts \subseteq Calls \X Nat
  /\ DOMAIN carries = Requests

Known(t) == t \in Tickets /\ ticket[t].status # "absent"

(* A call that has left its start is about a known ticket, and its decision *)
(* is the one it stored, once it has; an override is logged before the     *)
(* ticket is decided.                                                      *)
CallOK(c) ==
  /\ call[c].at # "idle" => Known(call[c].on)
  /\ call[c].at \in {"claim", "decide"} => call[c].decision = 0
  /\ call[c].at \in {"log", "settle", "notify"} => call[c].decision # 0
  /\ call[c].decision # 0 =>
       /\ call[c].at # "idle"
       /\ call[c].decision \in DOMAIN decisions
       /\ decisions[call[c].decision] = [ticket |-> call[c].on, verdict |-> call[c].verdict]
  /\ call[c].at = "settle" /\ call[c].verdict = "override" => call[c].decision \in overridden

(* An attempt of a callback is about a decision that has been stored. *)
PostOK(p) == p \in Calls \X Nat /\ call[p[1]].decision # 0

(* The attempt that a request handles has been recorded by the engine. *)
CarriesOK(r) ==
  carries[r] # NoPost =>
    /\ PostOK(carries[r])
    /\ Verdict(carries[r]) \in ToSet(execs[About(carries[r])].answers)

TicketsOK == \A t \in Tickets : ticket[t].status # "absent" => ticket[t].about \in DOMAIN execs
DecisionsOK == \A d \in DOMAIN decisions : Known(decisions[d].ticket)

RoundTripInv ==
  /\ OversightType
  /\ \A c \in Calls : CallOK(c)
  /\ \A p \in posts : PostOK(p)
  /\ \A r \in Requests : CarriesOK(r)
  /\ TicketsOK /\ DecisionsOK
  /\ AnswersOnRecord /\ DecidedOnRecord /\ ReviewerIsHeard

LEMMA InitRoundTrip == RoundTripInit => RoundTripInv
<1> SUFFICES ASSUME RoundTripInit PROVE RoundTripInv
  OBVIOUS
<1>1. OversightType
  BY DEF RoundTripInit, OversightInit, OversightType, CallRecord, NoCall, Verdicts
<1>2. \A c \in Calls : call[c].at = "idle" /\ call[c].decision = 0
  BY DEF RoundTripInit, OversightInit, NoCall
<1>3. /\ \A t \in Tickets : ticket[t].status = "absent"
      /\ \A r \in Requests : carries[r] = NoPost
      /\ posts = {} /\ DOMAIN decisions = {} /\ DOMAIN execs = {}
  BY DEF RoundTripInit, OversightInit, Init
<1> QED
  BY <1>1, <1>2, <1>3
     DEF RoundTripInv, CallOK, CarriesOK, TicketsOK, DecisionsOK, AnswersOnRecord, DecidedOnRecord,
         ReviewerIsHeard

-----------------------------------------------------------------------------
(* The engine's side.                                                      *)

(* Executions are added, without an answer, and keep the answers they have. *)
AnswersStay ==
  /\ \A x \in DOMAIN execs : x \in DOMAIN execs' /\ execs'[x].answers = execs[x].answers
  /\ \A x \in DOMAIN execs' : x \notin DOMAIN execs => execs'[x].answers = <<>>

LEMMA EngineRoundTrip ==
  ASSUME RoundTripInv, AnswersStay, UNCHANGED <<oversightVars, carries>>
  PROVE  RoundTripInv'
<1>1. OversightType' /\ (\A c \in Calls : CallOK(c)') /\ (\A p \in posts' : PostOK(p)')
      /\ DecisionsOK' /\ DecidedOnRecord'
  BY DEF RoundTripInv, OversightType, CallOK, PostOK, DecisionsOK, DecidedOnRecord, Known, oversightVars
<1>2. TicketsOK'
  BY DEF RoundTripInv, TicketsOK, AnswersStay, oversightVars
<1>3. \A x, v : HumanSays(x, v)' <=> HumanSays(x, v)
  BY DEF HumanSays, oversightVars
<1>4. AnswersOnRecord'
  <2> SUFFICES ASSUME NEW x \in DOMAIN execs', NEW v \in ToSet(execs'[x].answers)
               PROVE  HumanSays(x, v)'
    BY DEF AnswersOnRecord
  <2>1. CASE x \in DOMAIN execs
    BY <1>3, <2>1 DEF AnswersStay, RoundTripInv, AnswersOnRecord
  <2>2. CASE x \notin DOMAIN execs
    BY <2>2 DEF AnswersStay, ToSet
  <2> QED
    BY <2>1, <2>2
<1>5. \A c \in Calls : call[c].decision # 0 => ticket[call[c].on].about \in DOMAIN execs
  BY DEF RoundTripInv, CallOK, TicketsOK, Known
<1>6. ReviewerIsHeard'
  BY <1>5 DEF RoundTripInv, ReviewerIsHeard, AnswersStay, oversightVars
<1>7. \A r \in Requests : CarriesOK(r)'
  <2> SUFFICES ASSUME NEW r \in Requests, carries[r] # NoPost PROVE CarriesOK(r)'
    BY DEF CarriesOK, oversightVars
  <2>1. PICK p : p = carries[r]
    OBVIOUS
  <2>2. PostOK(p) /\ Verdict(p) \in ToSet(execs[About(p)].answers)
    BY <2>1 DEF RoundTripInv, CarriesOK
  <2>3. About(p) \in DOMAIN execs
    BY <1>5, <2>2 DEF PostOK, About
  <2>4. PostOK(p)' /\ Verdict(p)' = Verdict(p) /\ About(p)' = About(p) /\ carries'[r] = p
    BY <2>1, <2>2 DEF PostOK, Verdict, About, oversightVars
  <2>5. Verdict(p)' \in ToSet(execs'[About(p)'].answers)
    BY <2>2, <2>3, <2>4 DEF AnswersStay
  <2> QED
    BY <2>4, <2>5 DEF CarriesOK
<1> QED
  BY <1>1, <1>2, <1>4, <1>6, <1>7 DEF RoundTripInv

LEMMA EngineAnswersStay ==
  ASSUME TypeOK, NEW r \in Requests,
         EngineStep(r) \/ \E s \in Steps : AskAnswered(r, s)
  PROVE  AnswersStay
<1>1. AnswersKept => AnswersStay
  BY DEF AnswersKept, AnswersStay
<1>2. UNCHANGED execs => AnswersStay
  BY DEF AnswersStay
<1>3. CASE CreateInstance(r)
  BY <1>2, <1>3 DEF CreateInstance
<1>4. CASE RequestAction(r)
  <2>1. CASE ApproveStep(r) \/ RejectStep(r)
    BY <1>1, <2>1, SettlesKeepsAnswers DEF ApproveStep, RejectStep, Moves
  <2>2. CASE ~(ApproveStep(r) \/ RejectStep(r))
    BY <1>2, <1>4, <2>2
       DEF RequestAction, Start, Refresh, Advance, BatchRaises, SaveFailed, SaveCompleted, Override,
           ReadForCallback, FindExecution, NothingToResume, SaveResumed, records
  <2> QED
    BY <2>1, <2>2
<1>5. ASSUME NEW s \in Steps, BeginStep(r, s) PROVE AnswersStay
  <2> DEFINE new == [step |-> s, state |-> "running", approval |-> "none", answers |-> <<>>]
  <2>1. new \in Execution /\ execs \in Seq(Execution) /\ execs' = Append(execs, new)
    BY <1>5 DEF Execution, BeginStep, TypeOK
  <2>2. /\ Len(execs) \in Nat /\ DOMAIN execs = 1..Len(execs) /\ DOMAIN execs' = 1..(Len(execs) + 1)
        /\ \A y \in DOMAIN execs : execs'[y] = execs[y]
        /\ execs'[Len(execs) + 1].answers = <<>>
    BY <2>1, AppendProperties, LenProperties
  <2> HIDE DEF new
  <2> QED
    BY <2>2 DEF AnswersStay
<1>6. ASSUME NEW s \in Steps,
             \/ CompleteStep(r, s) \/ FailStep(r, s) \/ RequestApproval(r, s) \/ StoreReference(r, s)
             \/ AwaitApproval(r, s)
      PROVE  AnswersStay
  <2>1. PICK x : x = Task(r, s).exec
    OBVIOUS
  <2>2. x \in DOMAIN execs
    BY <1>6, <2>1 DEF CompleteStep, FailStep, RequestApproval, StoreReference, AwaitApproval, Executing, TypeOK
  <2>3. \/ execs' = [execs EXCEPT ![x].approval = "pending"]
        \/ \E state : execs' = [execs EXCEPT ![x].state = state]
    BY <1>6, <2>1 DEF CompleteStep, FailStep, RequestApproval, StoreReference, AwaitApproval, Records
  <2>4. AnswersKept \/ (DOMAIN execs' = DOMAIN execs
                        /\ \A y \in DOMAIN execs : execs'[y].answers = execs[y].answers)
    BY <2>2, <2>3, PendingPointwise, RecordKeepsAnswers
  <2> QED
    BY <1>1, <2>4 DEF AnswersStay
<1> QED
  BY <1>3, <1>4, <1>5, <1>6 DEF EngineStep, AskAnswered

(* A callback is recorded: its verdict is one that a reviewer has given     *)
(* about that very execution.                                              *)
LEMMA CallbackRoundTrip ==
  ASSUME TypeOK, RoundTripInv, NEW r \in Requests, NEW p \in posts, CallbackArrives(r, p)
  PROVE  /\ RoundTripInv'
         /\ About(p) \in DOMAIN execs /\ Verdict(p) \in {"approved", "rejected"}
         /\ Decide(r, About(p), Verdict(p))
<1> DEFINE c == p[1]
           x == About(p)
           v == Verdict(p)
<1>1. v \in {"approved", "rejected"} /\ Decide(r, x, v)
      /\ posts' = posts \ {p} /\ carries' = [carries EXCEPT ![r] = p]
      /\ UNCHANGED <<ticket, decisions, overridden, call>>
  BY DEF CallbackArrives
<1>2. PostOK(p) /\ c \in Calls /\ call[c].decision # 0
  BY DEF RoundTripInv, PostOK
<1>3. CallOK(c) /\ Known(call[c].on)
  BY <1>2 DEF RoundTripInv, CallOK
<1>4. x \in DOMAIN execs
  BY <1>3 DEF RoundTripInv, TicketsOK, Known, About
<1>5. /\ decisions[call[c].decision] = [ticket |-> call[c].on, verdict |-> call[c].verdict]
      /\ call[c].decision \in DOMAIN decisions
  BY <1>2, <1>3 DEF CallOK
<1>6. HumanSays(x, v)
  BY <1>5 DEF HumanSays, About, Verdict
<1>7. v = call[c].verdict /\ x = ticket[call[c].on].about
  BY DEF About, Verdict
<1> HIDE DEF c, x, v
<1>8. /\ DOMAIN execs' = DOMAIN execs
      /\ \A y \in DOMAIN execs : y # x => execs'[y].answers = execs[y].answers
      /\ ToSet(execs'[x].answers) = ToSet(execs[x].answers) \cup {v}
  <2>1. PICK y \in DOMAIN execs, w \in {"approved", "rejected"} : y = x /\ w = v /\ Decide(r, y, w)
    BY <1>1, <1>4
  <2>2. /\ DOMAIN execs' = DOMAIN execs
        /\ \A z \in DOMAIN execs : z # y => execs'[z].answers = execs[z].answers
        /\ ToSet(execs'[y].answers) = ToSet(execs[y].answers) \cup {w}
    BY <2>1, DecidePointwise
  <2> QED
    BY <2>1, <2>2
<1>9. \A y \in DOMAIN execs : ToSet(execs[y].answers) \subseteq ToSet(execs'[y].answers)
  BY <1>8
<1>10. OversightType' /\ (\A k \in Calls : CallOK(k)') /\ (\A q \in posts' : PostOK(q)')
       /\ DecisionsOK' /\ DecidedOnRecord' /\ TicketsOK'
  BY <1>1, <1>8 DEF RoundTripInv, OversightType, CallOK, PostOK, DecisionsOK, DecidedOnRecord, TicketsOK, Known
<1>11. \A y, w : HumanSays(y, w)' <=> HumanSays(y, w)
  BY <1>1 DEF HumanSays
<1>12. AnswersOnRecord'
  BY <1>6, <1>8, <1>11 DEF RoundTripInv, AnswersOnRecord
<1>13. \A k \in Calls : call[k].decision # 0 => ticket[call[k].on].about \in DOMAIN execs
  BY DEF RoundTripInv, CallOK, TicketsOK, Known
<1>14. ReviewerIsHeard'
  BY <1>1, <1>9, <1>13 DEF RoundTripInv, ReviewerIsHeard
<1>15. \A q \in Requests : CarriesOK(q)'
  <2> SUFFICES ASSUME NEW q \in Requests, carries'[q] # NoPost PROVE CarriesOK(q)'
    BY DEF CarriesOK
  <2>1. PICK m : m = carries'[q]
    OBVIOUS
  <2>2. m = IF q = r THEN p ELSE carries[q]
    BY <1>1, <2>1 DEF RoundTripInv, OversightType
  <2>3. PostOK(m)' /\ Verdict(m)' \in ToSet(execs'[About(m)'].answers)
    <3>1. CASE q = r
      <4>1. m = p
        BY <2>2, <3>1
      <4>2. v \in ToSet(execs'[x].answers)
        BY <1>8
      <4>3. PostOK(p)' /\ Verdict(p)' = v /\ About(p)' = x
        BY <1>1, <1>2 DEF PostOK, Verdict, About, v, x
      <4> QED
        BY <4>1, <4>2, <4>3
    <3>2. CASE q # r
      <4>1. m = carries[q] /\ m # NoPost
        BY <2>1, <2>2, <3>2
      <4>2. PostOK(m) /\ Verdict(m) \in ToSet(execs[About(m)].answers)
        BY <4>1 DEF RoundTripInv, CarriesOK
      <4>3. About(m) \in DOMAIN execs
        BY <1>13, <4>2 DEF PostOK, About
      <4>4. PostOK(m)' /\ Verdict(m)' = Verdict(m) /\ About(m)' = About(m)
        BY <1>1, <4>2 DEF PostOK, Verdict, About
      <4> QED
        BY <1>9, <4>2, <4>3, <4>4
    <3> QED
      BY <3>1, <3>2
  <2> QED
    BY <2>1, <2>3 DEF CarriesOK
<1> QED
  BY <1>1, <1>4, <1>10, <1>12, <1>14, <1>15 DEF RoundTripInv, x, v

-----------------------------------------------------------------------------
(* Human Oversight's side.  What a step there may change without taking     *)
(* back anything that is on record.                                        *)
RecordsGrow ==
  /\ \A t \in Tickets : ticket[t].status # "absent" =>
       ticket'[t].status # "absent" /\ ticket'[t].about = ticket[t].about
  /\ \A d \in DOMAIN decisions : d \in DOMAIN decisions' /\ decisions'[d] = decisions[d]
  /\ overridden \subseteq overridden'
  /\ \A c \in Calls : call[c].decision # 0 =>
       /\ call'[c].decision = call[c].decision
       /\ call'[c].on = call[c].on /\ call'[c].verdict = call[c].verdict

LEMMA OversightRoundTrip ==
  ASSUME RoundTripInv, RecordsGrow, OversightType', UNCHANGED <<vars, carries>>,
         \A c \in Calls : CallOK(c)',
         \A p \in posts' : p \in posts \/ PostOK(p)',
         TicketsOK', DecisionsOK', DecidedOnRecord',
         \A c \in Calls : call'[c].at = "done" /\ call'[c].decision # 0 =>
           \/ call[c].at = "done" /\ call[c].decision # 0
           \/ call'[c].verdict \in ToSet(execs[ticket'[call'[c].on].about].answers)
  PROVE  RoundTripInv'
<1>1. execs' = execs /\ carries' = carries
  BY DEF vars, records
<1>2. \A x, v : HumanSays(x, v) => HumanSays(x, v)'
  <2> TAKE x, v
  <2> SUFFICES ASSUME NEW d \in DOMAIN decisions, ticket[decisions[d].ticket].about = x,
                      decisions[d].verdict = v
               PROVE  HumanSays(x, v)'
    BY DEF HumanSays
  <2>1. Known(decisions[d].ticket)
    BY DEF RoundTripInv, DecisionsOK
  <2> QED
    BY <2>1 DEF RecordsGrow, HumanSays, Known
<1>3. AnswersOnRecord'
  BY <1>1, <1>2 DEF RoundTripInv, AnswersOnRecord
<1>4. ASSUME NEW p, PostOK(p)
      PROVE  PostOK(p)' /\ Verdict(p)' = Verdict(p) /\ About(p)' = About(p)
  <2>1. p[1] \in Calls /\ call[p[1]].decision # 0 /\ Known(call[p[1]].on)
    BY <1>4 DEF RoundTripInv, CallOK, PostOK
  <2> QED
    BY <1>4, <2>1 DEF RecordsGrow, PostOK, Verdict, About, Known
<1>5. \A r \in Requests : CarriesOK(r)'
  <2> SUFFICES ASSUME NEW r \in Requests, carries[r] # NoPost PROVE CarriesOK(r)'
    BY <1>1 DEF CarriesOK
  <2>1. PICK m : m = carries[r]
    OBVIOUS
  <2>2. PostOK(m) /\ Verdict(m) \in ToSet(execs[About(m)].answers)
    BY <2>1 DEF RoundTripInv, CarriesOK
  <2>3. PostOK(m)' /\ Verdict(m)' \in ToSet(execs'[About(m)'].answers)
    BY <1>1, <1>4, <2>2
  <2> QED
    BY <1>1, <2>1, <2>3 DEF CarriesOK
<1>6. \A p \in posts' : PostOK(p)'
  BY <1>4 DEF RoundTripInv
<1>7. ReviewerIsHeard'
  <2> SUFFICES ASSUME NEW c \in Calls, call'[c].at = "done", call'[c].decision # 0
               PROVE  call'[c].verdict \in ToSet(execs[ticket'[call'[c].on].about].answers)
    BY <1>1 DEF ReviewerIsHeard
  <2>1. CASE call[c].at = "done" /\ call[c].decision # 0
    <3>1. Known(call[c].on)
      BY <2>1 DEF RoundTripInv, CallOK
    <3>2. call[c].verdict \in ToSet(execs[ticket[call[c].on].about].answers)
      BY <2>1 DEF RoundTripInv, ReviewerIsHeard
    <3> QED
      BY <2>1, <3>1, <3>2 DEF RecordsGrow, Known
  <2>2. CASE ~(call[c].at = "done" /\ call[c].decision # 0)
    BY <2>2
  <2> QED
    BY <2>1, <2>2
<1> QED
  BY <1>3, <1>5, <1>6, <1>7 DEF RoundTripInv

(* One call moves on, and nothing that it has stored changes. *)
LEMMA CallStep ==
  ASSUME RoundTripInv, NEW c \in Calls, NEW k \in CallRecord, call' = [call EXCEPT ![c] = k],
         call[c].decision # 0 =>
           k.decision = call[c].decision /\ k.on = call[c].on /\ k.verdict = call[c].verdict,
         UNCHANGED <<ticket, decisions, overridden, vars, carries>>,
         \A p \in posts' : p \in posts \/ PostOK(p)', posts' \subseteq Calls \X Nat,
         CallOK(c)',
         k.at = "done" /\ k.decision # 0 => k.verdict \in ToSet(execs[ticket[k.on].about].answers)
  PROVE  RoundTripInv'
<1>1. call' \in [Calls -> CallRecord] /\ \A e \in Calls : call'[e] = IF e = c THEN k ELSE call[e]
  BY DEF RoundTripInv, OversightType
<1>2. OversightType'
  BY <1>1 DEF RoundTripInv, OversightType
<1>3. \A e \in Calls : CallOK(e)'
  BY <1>1 DEF RoundTripInv, CallOK, Known
<1>4. RecordsGrow
  BY <1>1 DEF RecordsGrow
<1>5. TicketsOK' /\ DecisionsOK' /\ DecidedOnRecord'
  BY DEF RoundTripInv, TicketsOK, DecisionsOK, DecidedOnRecord, Known, vars, records
<1>6. \A e \in Calls : call'[e].at = "done" /\ call'[e].decision # 0 =>
           \/ call[e].at = "done" /\ call[e].decision # 0
           \/ call'[e].verdict \in ToSet(execs[ticket'[call'[e].on].about].answers)
  BY <1>1
<1> QED
  BY <1>2, <1>3, <1>4, <1>5, <1>6, OversightRoundTrip

LEMMA CallType ==
  ASSUME RoundTripInv, NEW c \in Calls
  PROVE  /\ call[c] \in CallRecord /\ CallOK(c)
         /\ \A to \in {"idle", "claim", "decide", "log", "settle", "notify"} \cup Over :
              LET k == [call[c] EXCEPT !.at = to]
              IN  /\ k \in CallRecord /\ k.at = to
                  /\ k.on = call[c].on /\ k.verdict = call[c].verdict
                  /\ k.decision = call[c].decision /\ k.tries = call[c].tries
BY DEF RoundTripInv, OversightType, CallRecord

LEMMA ReadRoundTrip ==
  ASSUME RoundTripInv, NEW c \in Calls, NEW t \in Tickets, UNCHANGED <<vars, carries>>,
         ReadForClaim(c, t) \/ \E v \in Verdicts : ReadForDecision(c, t, v)
  PROVE  RoundTripInv'
<1>1. PICK k : /\ k \in CallRecord /\ call' = [call EXCEPT ![c] = k]
               /\ k.at \in {"claim", "decide"} /\ k.on = t /\ k.decision = 0
  <2>1. NoCall = [at |-> "idle", on |-> NoTicket, verdict |-> "approved", decision |-> 0, tries |-> 0]
    BY DEF NoCall
  <2>2. NoCall \in CallRecord /\ NoCall.decision = 0
    BY <2>1 DEF CallRecord, Verdicts
  <2> HIDE DEF NoCall
  <2>3. CASE ReadForClaim(c, t)
    <3> DEFINE k == [NoCall EXCEPT !.at = "claim", !.on = t]
    <3>1. k \in CallRecord /\ k.at = "claim" /\ k.on = t /\ k.decision = 0
      BY <2>2 DEF CallRecord
    <3>2. call' = [call EXCEPT ![c] = k]
      BY <2>3 DEF ReadForClaim
    <3> HIDE DEF k
    <3> QED
      BY <3>1, <3>2
  <2>4. ASSUME NEW v \in Verdicts, ReadForDecision(c, t, v)
        PROVE  \E k : /\ k \in CallRecord /\ call' = [call EXCEPT ![c] = k]
                      /\ k.at \in {"claim", "decide"} /\ k.on = t /\ k.decision = 0
    <3> DEFINE k == [NoCall EXCEPT !.at = "decide", !.on = t, !.verdict = v]
    <3>1. k \in CallRecord /\ k.at = "decide" /\ k.on = t /\ k.decision = 0
      BY <2>2 DEF CallRecord
    <3>2. call' = [call EXCEPT ![c] = k]
      BY <2>4 DEF ReadForDecision
    <3> HIDE DEF k
    <3> QED
      BY <3>1, <3>2
  <2> QED
    BY <2>3, <2>4
<1>3. call[c].at = "idle" /\ ticket[t].status # "absent" /\ UNCHANGED <<ticket, decisions, overridden, posts>>
  BY DEF ReadForClaim, ReadForDecision, Open
<1>4. call[c].decision = 0
  BY <1>3, CallType DEF CallOK
<1>5. call'[c] = k
  BY <1>1 DEF RoundTripInv, OversightType
<1>6. posts' \subseteq Calls \X Nat
  BY <1>3 DEF RoundTripInv, OversightType
<1>7. CallOK(c)'
  BY <1>1, <1>3, <1>5 DEF CallOK, Known
<1> QED
  BY <1>1, <1>3, <1>4, <1>6, <1>7, CallStep

LEMMA TimeoutRoundTrip ==
  ASSUME RoundTripInv, NEW c \in Calls, UNCHANGED <<vars, carries>>, CallbackTimesOut(c)
  PROVE  RoundTripInv'
<1>1. call[c].at = "notify" /\ UNCHANGED <<ticket, decisions, overridden>>
  BY DEF CallbackTimesOut
<1>2. call[c] \in CallRecord /\ CallOK(c) /\ posts \subseteq Calls \X Nat
  BY CallType DEF RoundTripInv, OversightType
<1>3. call[c].decision # 0
  BY <1>1, <1>2 DEF CallOK
<1>4. CASE call[c].tries < MaxTries
  <2> DEFINE k == [call[c] EXCEPT !.tries = @ + 1]
  <2>1. call' = [call EXCEPT ![c] = k] /\ posts' = posts \cup {<<c, call[c].tries + 1>>}
    BY <1>4 DEF CallbackTimesOut
  <2>2. /\ k \in CallRecord /\ k.at = "notify"
        /\ k.on = call[c].on /\ k.verdict = call[c].verdict /\ k.decision = call[c].decision
    BY <1>1, <1>2 DEF CallRecord
  <2>3. call'[c] = k /\ <<c, call[c].tries + 1>> \in Calls \X Nat
    BY <1>2, <2>1 DEF RoundTripInv, OversightType, CallRecord
  <2> HIDE DEF k
  <2>4. CallOK(c)'
    BY <1>1, <1>2, <2>2, <2>3 DEF CallOK, Known
  <2>5. \A p \in posts' : p \in posts \/ PostOK(p)'
    BY <1>3, <2>1, <2>2, <2>3 DEF PostOK
  <2>6. posts' \subseteq Calls \X Nat
    BY <1>2, <2>1, <2>3
  <2> QED
    BY <1>1, <2>1, <2>2, <2>4, <2>5, <2>6, CallStep
<1>5. CASE ~(call[c].tries < MaxTries)
  <2> DEFINE k == [call[c] EXCEPT !.at = "failed"]
  <2>1. call' = [call EXCEPT ![c] = k] /\ UNCHANGED posts
    BY <1>5 DEF CallbackTimesOut
  <2>2. /\ k \in CallRecord /\ k.at = "failed"
        /\ k.on = call[c].on /\ k.verdict = call[c].verdict /\ k.decision = call[c].decision
    BY CallType DEF Over
  <2>3. call'[c] = k
    BY <2>1 DEF RoundTripInv, OversightType
  <2> HIDE DEF k
  <2>4. CallOK(c)'
    BY <1>1, <1>2, <2>2, <2>3 DEF CallOK, Known
  <2> QED
    BY <1>1, <1>2, <2>1, <2>2, <2>4, CallStep
<1> QED
  BY <1>4, <1>5

(* The callback's answer ends the call: "done" only when the engine has     *)
(* recorded the verdict.                                                   *)
LEMMA AnsweredRoundTrip ==
  ASSUME RoundTripInv, NEW c \in Calls, NEW how, UNCHANGED <<vars, carries>>, CallbackAnswered(c, how),
         how = "done" => call[c].verdict \in ToSet(execs[ticket[call[c].on].about].answers)
  PROVE  RoundTripInv'
<1> DEFINE k == [call[c] EXCEPT !.at = how]
<1>1. /\ call[c].at = "notify" /\ how \in {"done", "refused"} /\ call' = [call EXCEPT ![c] = k]
      /\ UNCHANGED <<ticket, decisions, overridden, posts>>
  BY DEF CallbackAnswered, Proceeds
<1>2. call[c] \in CallRecord /\ CallOK(c) /\ posts \subseteq Calls \X Nat
  BY CallType DEF RoundTripInv, OversightType
<1>3. /\ k \in CallRecord /\ k.at = how
      /\ k.on = call[c].on /\ k.verdict = call[c].verdict /\ k.decision = call[c].decision
  BY <1>1, CallType DEF Over
<1>4. call'[c] = k
  BY <1>1 DEF RoundTripInv, OversightType
<1> HIDE DEF k
<1>5. CallOK(c)'
  BY <1>1, <1>2, <1>3, <1>4 DEF CallOK, Known
<1> QED
  BY <1>1, <1>2, <1>3, <1>5, CallStep

LEMMA ReturnRoundTrip ==
  ASSUME RoundTripInv, NEW r \in Requests, CallbackReturns(r)
  PROVE  RoundTripInv'
<1> DEFINE c == carries[r][1]
<1>1. carries[r] # NoPost /\ CallbackAnswered(c, "done") /\ UNCHANGED <<vars, carries>>
  BY DEF CallbackReturns
<1>2. PostOK(carries[r]) /\ Verdict(carries[r]) \in ToSet(execs[About(carries[r])].answers)
  BY <1>1 DEF RoundTripInv, CarriesOK
<1>3. c \in Calls /\ call[c].verdict \in ToSet(execs[ticket[call[c].on].about].answers)
  BY <1>2 DEF PostOK, Verdict, About
<1> QED
  BY <1>1, <1>3, AnsweredRoundTrip

LEMMA DiesRoundTrip ==
  ASSUME RoundTripInv, OversightDies, UNCHANGED <<vars, carries>>
  PROVE  RoundTripInv'
<1>1. UNCHANGED <<ticket, decisions, overridden, posts>>
  BY DEF OversightDies
<1>2. call' \in [Calls -> CallRecord] /\ \A c \in Calls :
        (\/ call'[c] = call[c]
         \/ /\ call[c].at # "idle" /\ call'[c].at = "failed" /\ call'[c].on = call[c].on
            /\ call'[c].verdict = call[c].verdict /\ call'[c].decision = call[c].decision)
  <2> DEFINE failed(c) == [call[c] EXCEPT !.at = "failed"]
  <2>1. \A c \in Calls :
          /\ call[c] \in CallRecord /\ failed(c) \in CallRecord /\ failed(c).at = "failed"
          /\ failed(c).on = call[c].on /\ failed(c).verdict = call[c].verdict
          /\ failed(c).decision = call[c].decision
    BY CallType DEF Over
  <2>2. call' = [c \in Calls |-> IF call[c].at \in {"idle"} \cup Over THEN call[c] ELSE failed(c)]
    BY DEF OversightDies
  <2> HIDE DEF failed
  <2> QED
    BY <2>1, <2>2
<1>3. OversightType'
  BY <1>1, <1>2 DEF RoundTripInv, OversightType
<1>4. RecordsGrow
  BY <1>1, <1>2 DEF RecordsGrow
<1>5. \A c \in Calls : CallOK(c)'
  BY <1>1, <1>2 DEF RoundTripInv, CallOK, Known
<1>6. TicketsOK' /\ DecisionsOK' /\ DecidedOnRecord'
  BY <1>1 DEF RoundTripInv, TicketsOK, DecisionsOK, DecidedOnRecord, Known, vars, records
<1> QED
  BY <1>1, <1>2, <1>3, <1>4, <1>5, <1>6, OversightRoundTrip

LEMMA AskRoundTrip ==
  ASSUME RoundTripInv, NEW t \in Tickets, NEW x \in DOMAIN execs, AskArrives(t, x), TypeOK
  PROVE  RoundTripInv'
<1>1. /\ ticket[t].status = "absent"
      /\ ticket' = [ticket EXCEPT ![t] = [status |-> "pending", about |-> x]]
      /\ UNCHANGED <<decisions, overridden, call, posts, vars, carries>>
  BY DEF AskArrives, Enqueue
<1>2. x \in Nat
  BY LenProperties DEF TypeOK
<1>3. /\ DOMAIN ticket' = Tickets
      /\ \A u \in Tickets : ticket'[u] = IF u = t THEN [status |-> "pending", about |-> x] ELSE ticket[u]
  BY <1>1 DEF RoundTripInv, OversightType
<1>4. OversightType'
  BY <1>1, <1>2, <1>3 DEF RoundTripInv, OversightType
<1>5. RecordsGrow
  BY <1>1, <1>3 DEF RecordsGrow
<1>6. \A c \in Calls : CallOK(c)'
  BY <1>1, <1>3 DEF RoundTripInv, CallOK, Known
<1>7. TicketsOK' /\ DecisionsOK' /\ DecidedOnRecord'
  BY <1>1, <1>3 DEF RoundTripInv, TicketsOK, DecisionsOK, DecidedOnRecord, Known, vars, records
<1> QED
  BY <1>1, <1>4, <1>5, <1>6, <1>7, OversightRoundTrip

-----------------------------------------------------------------------------
(* A decide call's own steps.                                              *)

(* A call marks its ticket and moves on. *)
LEMMA MarkRoundTrip ==
  ASSUME RoundTripInv, NEW c \in Calls, UNCHANGED <<vars, carries>>, SaveClaim(c) \/ SettleTicket(c)
  PROVE  RoundTripInv'
<1> DEFINE t == call[c].on
<1>1. PICK status \in {"claimed", "decided"} : /\ Marks(t, status)
                                               /\ status = "decided" <=> SettleTicket(c)
  BY DEF SaveClaim, SettleTicket, Proceeds
<1>2. call[c] \in CallRecord /\ CallOK(c) /\ Known(t) /\ posts \subseteq Calls \X Nat
  BY CallType DEF SaveClaim, SettleTicket, Proceeds, CallOK, RoundTripInv, OversightType
<1>3. UNCHANGED <<decisions, overridden>>
  BY DEF SaveClaim, SettleTicket
<1>4. /\ DOMAIN ticket' = Tickets
      /\ \A u \in Tickets : /\ ticket'[u].about = ticket[u].about
                            /\ ticket'[u].status = IF u = t THEN status ELSE ticket[u].status
                            /\ ticket'[u] \in [status : {"absent", "pending", "claimed", "decided"}, about : Nat]
  BY <1>1, <1>2 DEF Marks, Known, RoundTripInv, OversightType
<1>5. /\ call' \in [Calls -> CallRecord] /\ \A e \in Calls : e # c => call'[e] = call[e]
      /\ call'[c].on = t /\ call'[c].verdict = call[c].verdict
      /\ call'[c].decision = call[c].decision
      /\ IF SettleTicket(c) THEN call[c].at = "settle" /\ call'[c].at = "notify"
         ELSE call[c].at = "claim" /\ call'[c].at = "done"
  <2>1. PICK k : /\ k \in CallRecord /\ call' = [call EXCEPT ![c] = k]
                 /\ k.on = t /\ k.verdict = call[c].verdict /\ k.decision = call[c].decision
                 /\ IF SettleTicket(c) THEN call[c].at = "settle" /\ k.at = "notify"
                    ELSE call[c].at = "claim" /\ k.at = "done"
    <3>1. CASE SettleTicket(c)
      <4> DEFINE k == [call[c] EXCEPT !.at = "notify", !.tries = 1]
      <4>1. call' = [call EXCEPT ![c] = k] /\ call[c].at = "settle"
        BY <3>1 DEF SettleTicket
      <4>2. /\ k \in CallRecord /\ k.at = "notify"
            /\ k.on = t /\ k.verdict = call[c].verdict /\ k.decision = call[c].decision
        BY <1>2 DEF CallRecord
      <4> HIDE DEF k
      <4> QED
        BY <3>1, <4>1, <4>2
    <3>2. CASE ~SettleTicket(c)
      <4> DEFINE k == [call[c] EXCEPT !.at = "done"]
      <4>1. call' = [call EXCEPT ![c] = k] /\ call[c].at = "claim"
        BY <3>2 DEF SaveClaim, Proceeds
      <4>2. /\ k \in CallRecord /\ k.at = "done"
            /\ k.on = t /\ k.verdict = call[c].verdict /\ k.decision = call[c].decision
        BY CallType DEF Over
      <4> HIDE DEF k
      <4> QED
        BY <3>2, <4>1, <4>2
    <3> QED
      BY <3>1, <3>2
  <2> QED
    BY <2>1 DEF RoundTripInv, OversightType
<1>6. posts' \subseteq posts \cup {<<c, 1>>} /\ (posts' # posts => SettleTicket(c))
  BY DEF SaveClaim, SettleTicket
<1> HIDE DEF t
<1>7. OversightType'
  <2>1. decisions' \in Seq([ticket : Tickets, verdict : Verdicts]) /\ DOMAIN carries' = Requests
    BY <1>3 DEF RoundTripInv, OversightType
  <2>3. ticket' \in [Tickets -> [status : {"absent", "pending", "claimed", "decided"}, about : Nat]]
    BY <1>1, <1>4 DEF Marks
  <2> QED
    BY <1>2, <1>5, <1>6, <2>1, <2>3 DEF OversightType
<1>8. RecordsGrow
  <2>1. \A u \in Tickets : ticket[u].status # "absent" =>
          ticket'[u].status # "absent" /\ ticket'[u].about = ticket[u].about
    BY <1>1, <1>4
  <2>2. \A e \in Calls : /\ call'[e].decision = call[e].decision /\ call'[e].verdict = call[e].verdict
                         /\ call'[e].on = call[e].on
    BY <1>5 DEF t
  <2> QED
    BY <1>3, <2>1, <2>2 DEF RecordsGrow
<1>9. \A e \in Calls : CallOK(e)'
  BY <1>2, <1>3, <1>4, <1>5 DEF RoundTripInv, CallOK, Known, t
<1>10. TicketsOK' /\ DecisionsOK'
  <2>1. \A u \in Tickets : /\ ticket'[u].about = ticket[u].about
                           /\ ticket'[u].status # "absent" <=> ticket[u].status # "absent"
    BY <1>1, <1>2, <1>4 DEF Known
  <2>2. UNCHANGED execs
    BY DEF vars, records
  <2>3. TicketsOK'
    BY <2>1, <2>2 DEF RoundTripInv, TicketsOK
  <2>4. ASSUME NEW d \in DOMAIN decisions PROVE Known(decisions[d].ticket)'
    <3>1. Known(decisions[d].ticket)
      BY DEF RoundTripInv, DecisionsOK
    <3>2. PICK u : u = decisions[d].ticket
      OBVIOUS
    <3>3. decisions'[d].ticket = u
      BY <1>3, <3>2
    <3> QED
      BY <2>1, <3>1, <3>2, <3>3 DEF Known
  <2> QED
    BY <1>3, <2>3, <2>4 DEF DecisionsOK
<1>11. DecidedOnRecord'
  <2> SUFFICES ASSUME NEW u \in Tickets, ticket'[u].status = "decided"
               PROVE  \E d \in DOMAIN decisions : decisions[d].ticket = u
                        /\ (decisions[d].verdict = "override" => d \in overridden)
    BY <1>3 DEF DecidedOnRecord
  <2>1. CASE u = t /\ SettleTicket(c)
    <3>1. call[c].at = "settle" /\ call[c].decision # 0
      BY <1>2, <2>1 DEF SettleTicket, CallOK
    <3>2. /\ call[c].decision \in DOMAIN decisions
          /\ decisions[call[c].decision] = [ticket |-> call[c].on, verdict |-> call[c].verdict]
          /\ call[c].verdict = "override" => call[c].decision \in overridden
      BY <1>2, <3>1 DEF CallOK
    <3> QED
      BY <2>1, <3>2 DEF t
  <2>2. CASE ~(u = t /\ SettleTicket(c))
    <3>1. ticket[u].status = "decided"
      BY <1>1, <1>4, <2>2
    <3> QED
      BY <3>1 DEF RoundTripInv, DecidedOnRecord
  <2> QED
    BY <2>1, <2>2
<1>12. \A p \in posts' : p \in posts \/ PostOK(p)'
  <2>1. SettleTicket(c) => call[c].decision # 0
    BY <1>2 DEF SettleTicket, CallOK
  <2> QED
    BY <1>5, <1>6, <2>1 DEF PostOK
<1>13. \A e \in Calls : call'[e].at = "done" /\ call'[e].decision # 0 =>
           call[e].at = "done" /\ call[e].decision # 0
  BY <1>2, <1>5 DEF CallOK
<1> QED
  BY <1>7, <1>8, <1>9, <1>10, <1>11, <1>12, <1>13, OversightRoundTrip

LEMMA LogRoundTrip ==
  ASSUME RoundTripInv, NEW c \in Calls, UNCHANGED <<vars, carries>>, LogOverride(c)
  PROVE  RoundTripInv'
<1>1. /\ call[c].at = "log" /\ call' = [call EXCEPT ![c] = [call[c] EXCEPT !.at = "settle"]]
      /\ overridden' = overridden \cup {call[c].decision} /\ UNCHANGED <<ticket, decisions, posts>>
  BY DEF LogOverride, Proceeds
<1>2. /\ DOMAIN call' = Calls /\ call' \in [Calls -> CallRecord]
      /\ \A e \in Calls : e # c => call'[e] = call[e]
      /\ call'[c].at = "settle" /\ call'[c].on = call[c].on /\ call'[c].verdict = call[c].verdict
      /\ call'[c].decision = call[c].decision
  BY <1>1, CallType DEF RoundTripInv, OversightType
<1>3. OversightType'
  BY <1>1, <1>2 DEF RoundTripInv, OversightType
<1>4. RecordsGrow
  BY <1>1, <1>2 DEF RecordsGrow
<1>5. \A e \in Calls : CallOK(e)'
  BY <1>1, <1>2 DEF RoundTripInv, CallOK, Known
<1>6. TicketsOK' /\ DecisionsOK' /\ DecidedOnRecord'
  BY <1>1 DEF RoundTripInv, TicketsOK, DecisionsOK, DecidedOnRecord, Known, vars, records
<1>7. \A e \in Calls : call'[e].at = "done" /\ call'[e].decision # 0 =>
           call[e].at = "done" /\ call[e].decision # 0
  BY <1>2
<1> QED
  BY <1>1, <1>3, <1>4, <1>5, <1>6, <1>7, OversightRoundTrip

LEMMA StoreRoundTrip ==
  ASSUME RoundTripInv, NEW c \in Calls, UNCHANGED <<vars, carries>>, StoreDecision(c)
  PROVE  RoundTripInv'
<1> DEFINE d == [ticket |-> call[c].on, verdict |-> call[c].verdict]
           n == Len(decisions)
<1>1. call[c].at = "decide" /\ decisions' = Append(decisions, d) /\ UNCHANGED <<ticket, overridden, posts>>
  BY DEF StoreDecision
<1>2. call[c] \in CallRecord /\ CallOK(c) /\ Known(call[c].on) /\ call[c].decision = 0
  BY <1>1, CallType DEF CallOK
<1>3. d \in [ticket : Tickets, verdict : Verdicts]
  BY <1>2 DEF Known, CallRecord
<1>4. /\ n \in Nat /\ DOMAIN decisions = 1..n
      /\ decisions' \in Seq([ticket : Tickets, verdict : Verdicts])
      /\ DOMAIN decisions' = 1..(n + 1) /\ Len(decisions') = n + 1
      /\ \A i \in 1..n : decisions'[i] = decisions[i]
      /\ decisions'[n + 1] = d
  BY <1>1, <1>3, AppendProperties, LenProperties DEF RoundTripInv, OversightType
<1>5. /\ DOMAIN call' = Calls /\ call' \in [Calls -> CallRecord]
      /\ \A e \in Calls : e # c => call'[e] = call[e]
      /\ call'[c].at = IF call[c].verdict = "override" THEN "log" ELSE "settle"
      /\ call'[c].on = call[c].on /\ call'[c].verdict = call[c].verdict /\ call'[c].decision = n + 1
  <2>0. PICK to : to = IF call[c].verdict = "override" THEN "log" ELSE "settle"
    OBVIOUS
  <2> DEFINE k == [call[c] EXCEPT !.decision = n + 1, !.at = to]
  <2>1. call' = [call EXCEPT ![c] = k]
    BY <1>4, <2>0 DEF StoreDecision
  <2>3. /\ k \in CallRecord /\ k.at = to
        /\ k.on = call[c].on /\ k.verdict = call[c].verdict /\ k.decision = n + 1
    <3>1. PICK m \in Nat : m = n + 1
      BY <1>4
    <3>2. to \in {"log", "settle"} /\ k = [call[c] EXCEPT !.decision = m, !.at = to]
      BY <2>0, <3>1
    <3> HIDE DEF k, n
    <3> QED
      BY <1>2, <3>1, <3>2 DEF CallRecord
  <2>2. /\ k \in CallRecord
        /\ k.at = IF call[c].verdict = "override" THEN "log" ELSE "settle"
        /\ k.on = call[c].on /\ k.verdict = call[c].verdict /\ k.decision = n + 1
    BY <2>0, <2>3
  <2> HIDE DEF k
  <2> QED
    BY <2>1, <2>2 DEF RoundTripInv, OversightType
<1>6. OversightType'
  BY <1>1, <1>4, <1>5 DEF RoundTripInv, OversightType
<1>7. RecordsGrow
  BY <1>1, <1>2, <1>4, <1>5, SMTT(30) DEF RecordsGrow
<1>8. n + 1 # 0 /\ \A i \in DOMAIN decisions : i \in DOMAIN decisions'
  BY <1>4
<1> HIDE DEF n
<1>9. \A e \in Calls : CallOK(e)'
  BY <1>1, <1>2, <1>4, <1>5, <1>8 DEF RoundTripInv, CallOK, Known
<1>10. TicketsOK' /\ DecisionsOK'
  <2>1. \A i \in DOMAIN decisions' : i = n + 1 \/ i \in 1..n
    BY <1>4
  <2> QED
    BY <1>1, <1>2, <1>4, <2>1 DEF RoundTripInv, TicketsOK, DecisionsOK, Known, vars, records
<1>11. DecidedOnRecord'
  BY <1>1, <1>4, <1>8 DEF RoundTripInv, DecidedOnRecord
<1>12. \A e \in Calls : call'[e].at = "done" /\ call'[e].decision # 0 =>
           call[e].at = "done" /\ call[e].decision # 0
  BY <1>5
<1> QED
  BY <1>1, <1>6, <1>7, <1>9, <1>10, <1>11, <1>12, OversightRoundTrip

-----------------------------------------------------------------------------
(* The pair.                                                               *)

LEMMA NextRoundTrip ==
  TypeOK /\ RoundTripInv /\ [RoundTripNext]_roundTripVars => RoundTripInv' /\ [Next]_vars
<1> SUFFICES ASSUME TypeOK, RoundTripInv, [RoundTripNext]_roundTripVars
             PROVE  RoundTripInv' /\ [Next]_vars
  OBVIOUS
<1>1. ASSUME NEW r \in Requests, EngineStep(r) \/ \E s \in Steps : AskAnswered(r, s)
      PROVE  RoundTripInv' /\ Next
  <2>1. UNCHANGED <<oversightVars, carries>>
    BY <1>1 DEF EngineStep, AskAnswered
  <2>2. Next
    BY <1>1 DEF EngineStep, AskAnswered, Next, StepAction
  <2> QED
    BY <1>1, <2>1, <2>2, EngineAnswersStay, EngineRoundTrip
<1>2. ASSUME NEW r \in Requests, NEW p \in posts, CallbackArrives(r, p)
      PROVE  RoundTripInv' /\ Next
  BY <1>2, CallbackRoundTrip DEF Next
<1>3. ASSUME NEW r \in Requests, CallbackReturns(r) PROVE RoundTripInv' /\ UNCHANGED vars
  BY <1>3, ReturnRoundTrip DEF CallbackReturns
<1>4. ASSUME NEW p \in posts, CallbackRefused(p) PROVE RoundTripInv' /\ UNCHANGED vars
  <2>1. p[1] \in Calls
    BY DEF RoundTripInv, PostOK
  <2> QED
    BY <1>4, <2>1, AnsweredRoundTrip DEF CallbackRefused
<1>5. ASSUME NEW t \in Tickets, NEW x \in DOMAIN execs, AskArrives(t, x)
      PROVE  RoundTripInv' /\ UNCHANGED vars
  BY <1>5, AskRoundTrip DEF AskArrives
<1>6. ASSUME NEW c \in Calls, OversightStep(c) PROVE RoundTripInv' /\ UNCHANGED vars
  BY <1>6, MarkRoundTrip, LogRoundTrip, StoreRoundTrip, TimeoutRoundTrip DEF OversightStep, CaptureStep
<1>7. ASSUME NEW c \in Calls, NEW t \in Tickets, UNCHANGED <<vars, carries>>,
             ReadForClaim(c, t) \/ \E v \in Verdicts : ReadForDecision(c, t, v)
      PROVE  RoundTripInv' /\ UNCHANGED vars
  BY <1>7, ReadRoundTrip
<1>8. ASSUME OversightDies, UNCHANGED <<vars, carries>> PROVE RoundTripInv'
  BY <1>8, DiesRoundTrip
<1>9. CASE UNCHANGED roundTripVars
  <2>1. AnswersStay /\ UNCHANGED <<vars, oversightVars, carries>>
    BY <1>9 DEF roundTripVars, AnswersStay, vars, records
  <2> QED
    BY <2>1, EngineRoundTrip
<1>10. CASE RoundTripNext
  BY <1>1, <1>2, <1>3, <1>4, <1>5, <1>6, <1>7, <1>8, <1>10 DEF RoundTripNext
<1> QED
  BY <1>9, <1>10

(* The engine of the pair is WorkflowScheduler: everything that is proved   *)
(* of the scheduler's behaviours holds of it.                              *)
LEMMA PairIsSafe == RoundTripSpec => Safety /\ []RoundTripInv
<1>1. RoundTripInit => Init /\ RoundTripInv
  BY InitRoundTrip DEF RoundTripInit
<1>2. Init => TypeOK
  BY InitType
<1>3. TypeOK /\ [Next]_vars => TypeOK'
  BY NextType
<1>4. TypeOK /\ RoundTripInv /\ [RoundTripNext]_roundTripVars => RoundTripInv' /\ [Next]_vars
  BY NextRoundTrip
<1> QED
  BY <1>1, <1>2, <1>3, <1>4, PTL DEF RoundTripSpec, Safety

(* Lost, repeated and late callbacks included: what the engine has stored   *)
(* as a human's decision, a reviewer has decided about that execution.     *)
THEOREM AnswersOnRecordHolds == RoundTripSpec => []AnswersOnRecord
<1>1. RoundTripInv => AnswersOnRecord
  BY DEF RoundTripInv
<1> QED
  BY <1>1, PairIsSafe, PTL

(* Crashes of Human Oversight included: a decided ticket has its decision,  *)
(* and an override its log entry (core/decision_capture.py:1-6).           *)
THEOREM DecidedOnRecordHolds == RoundTripSpec => []DecidedOnRecord
<1>1. RoundTripInv => DecidedOnRecord
  BY DEF RoundTripInv
<1> QED
  BY <1>1, PairIsSafe, PTL

(* A decide call that returns without an error has reached the engine.      *)
THEOREM ReviewerIsHeardHolds == RoundTripSpec => []ReviewerIsHeard
<1>1. RoundTripInv => ReviewerIsHeard
  BY DEF RoundTripInv
<1> QED
  BY <1>1, PairIsSafe, PTL

-----------------------------------------------------------------------------
(* The gate across the two services.                                       *)

(* What has been answered twice stays so. *)
LEMMA OnceBefore ==
  TypeOK /\ RoundTripInv /\ [RoundTripNext]_roundTripVars /\ AnsweredOnce' => AnsweredOnce
<1> SUFFICES ASSUME TypeOK, RoundTripInv, [RoundTripNext]_roundTripVars, AnsweredOnce'
             PROVE  AnsweredOnce
  OBVIOUS
<1>1. AnswersStay => AnsweredOnce
  BY DEF AnswersStay, AnsweredOnce
<1>2. UNCHANGED vars => AnsweredOnce
  BY DEF vars, records, AnsweredOnce
<1>3. ASSUME NEW r \in Requests, NEW p \in posts, CallbackArrives(r, p) PROVE AnsweredOnce
  <2> DEFINE x == About(p)
             d == Verdict(p)
  <2>1. x \in DOMAIN execs /\ d \in {"approved", "rejected"} /\ Decide(r, x, d)
    BY <1>3, CallbackRoundTrip
  <2> HIDE DEF x, d
  <2>2. /\ DOMAIN execs' = DOMAIN execs
        /\ \A y \in DOMAIN execs : y # x => execs'[y].answers = execs[y].answers
        /\ execs'[x].answers = Append(execs[x].answers, d)
    BY <2>1, DecidePointwise
  <2>3. execs[x].answers \in Seq({"approved", "rejected"})
    BY <2>1, ExecutionType DEF TypeOK, Execution
  <2>4. Len(execs[x].answers) \in Nat /\ Len(execs'[x].answers) = Len(execs[x].answers) + 1
    BY <2>1, <2>2, <2>3, AppendProperties, LenProperties
  <2>5. Len(execs'[x].answers) <= 1
    BY <2>1, <2>2 DEF AnsweredOnce
  <2>6. Len(execs[x].answers) <= 1
    BY <2>4, <2>5
  <2> QED
    BY <2>2, <2>6 DEF AnsweredOnce
<1>4. ASSUME NEW r \in Requests, EngineStep(r) \/ \E s \in Steps : AskAnswered(r, s)
      PROVE  AnsweredOnce
  BY <1>1, <1>4, EngineAnswersStay
<1>5. CASE RoundTripNext
  BY <1>2, <1>3, <1>4, <1>5
     DEF RoundTripNext, CallbackReturns, CallbackRefused, AskArrives, OversightStep
<1>6. CASE UNCHANGED roundTripVars
  BY <1>2, <1>6 DEF roundTripVars
<1> QED
  BY <1>5, <1>6

LEMMA OnceIsUnrepeated == TypeOK => (~Repeated => AnsweredOnce)
<1> SUFFICES ASSUME TypeOK, ~Repeated, NEW x \in DOMAIN execs PROVE Len(execs[x].answers) <= 1
  BY DEF AnsweredOnce
<1>1. execs[x].answers \in Seq({"approved", "rejected"})
  BY ExecutionType DEF TypeOK, Execution
<1>2. Len(execs[x].answers) \in Nat /\ ~(Len(execs[x].answers) > 1)
  BY <1>1, LenProperties DEF Repeated
<1> QED
  BY <1>2

LEMMA GateAndRecord ==
  GateRespected /\ AnswersOnRecord =>
    \A x \in DOMAIN execs :
      execs[x].state = "completed" /\ execs[x].approval # "none" => HumanSays(x, "approved")
BY DEF GateRespected, AnswersOnRecord

(* As long as no approval has been answered twice, what passed the engine's *)
(* gate was approved by a reviewer of Human Oversight, about that very     *)
(* execution, on the graphs that core/scheduler.py:15-19 relies on.        *)
THEOREM GateBackedByHumanHolds ==
  ASSUME Controls = {}
  PROVE  RoundTripSpec /\ []OneWaits /\ [](AnsweredOnce => WaitsInFront) => []GateBackedByHuman
<1>1. Init => Baton /\ GateInv
  BY InitBaton, InitGate
<1>2. TypeOK /\ Baton /\ OneWaits' /\ AnsweredOnce' /\ [Next]_vars => Baton'
  BY NextBaton
<1>3. TypeOK /\ Baton /\ GateInv /\ OneWaits /\ OneWaits' /\ AnsweredOnce' /\ WaitsInFront
      /\ [Next]_vars => GateInv'
  BY NextGate
<1>4. TypeOK /\ RoundTripInv /\ [RoundTripNext]_roundTripVars /\ AnsweredOnce' => AnsweredOnce
  BY OnceBefore
<1>5. TypeOK /\ RoundTripInv /\ (AnsweredOnce => GateInv) => GateBackedByHuman
  BY OnceIsUnrepeated, GateAndRecord DEF RoundTripInv, GateInv, GateBackedByHuman
<1> QED
  BY <1>1, <1>2, <1>3, <1>4, <1>5, PairIsSafe, TypeCorrect, PTL DEF RoundTripSpec, Safety

(* For workflows whose steps follow each other that is true without any     *)
(* hypothesis about the behaviour, and with any number of gates.           *)
THEOREM SequentialRoundTrip ==
  ASSUME Controls = {}, \A s \in Steps : Len(Out[s]) <= 1
  PROVE  RoundTripSpec => []GateBackedByHuman
<1>1. Init => SingleFile /\ WaitsInFront
  BY InitSingleFile
<1>2. SingleFile => OneWaits
  BY DEF SingleFile, OneWaits, Waits, Waiting
<1>3. TypeOK /\ FrontierType /\ SingleFile /\ [Next]_vars => SingleFile'
  BY NextSingleFile
<1>4. Init => Baton /\ GateInv /\ FrontierType /\ Owing
  BY InitBaton, InitGate, InitFrontier, InitOwing
<1>5. TypeOK /\ Baton /\ OneWaits' /\ AnsweredOnce' /\ [Next]_vars => Baton'
  BY NextBaton
<1>6. TypeOK /\ Baton /\ GateInv /\ OneWaits /\ OneWaits' /\ AnsweredOnce' /\ WaitsInFront
      /\ [Next]_vars => GateInv'
  BY NextGate
<1>7. TypeOK /\ FrontierType /\ [Next]_vars => FrontierType'
  BY NextFrontierType
<1>8. TypeOK /\ FrontierType /\ FrontierType' /\ Baton /\ GateInv /\ Owing /\ SingleFile'
      /\ WaitsInFront /\ [Next]_vars => WaitsInFront'
  BY NextWaitsInFront
<1>9. TypeOK /\ FrontierType /\ Baton /\ GateInv /\ Owing /\ OneWaits
      /\ WaitsInFront /\ WaitsInFront' /\ [Next]_vars => Owing'
  BY NextOwing
<1>10. TypeOK /\ RoundTripInv /\ [RoundTripNext]_roundTripVars /\ AnsweredOnce' => AnsweredOnce
  BY OnceBefore
<1>11. Safety => []SingleFile /\ []FrontierType
  BY <1>1, <1>3, <1>4, <1>7, TypeCorrect, PTL DEF Safety
<1>12. RoundTripSpec => []OneWaits /\ [](AnsweredOnce => WaitsInFront)
  BY <1>1, <1>2, <1>4, <1>5, <1>6, <1>8, <1>9, <1>10, <1>11, PairIsSafe, TypeCorrect, PTL
     DEF RoundTripSpec, Safety
<1> QED
  BY <1>12, GateBackedByHumanHolds, PTL

=============================================================================
