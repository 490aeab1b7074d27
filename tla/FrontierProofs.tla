--------------------------- MODULE FrontierProofs ---------------------------
(***************************************************************************)
(* Proofs about the frontier of WorkflowScheduler: what the sequence of    *)
(* steps that is built at the end of a batch contains, that no branch is   *)
(* dropped on the way to completion, and what all of this comes to for     *)
(* workflows whose steps follow each other.                                *)
(***************************************************************************)
EXTENDS ApprovalGateProofs, FoldLemmas

-----------------------------------------------------------------------------
(* The fold that takes the repetitions out of a frontier.                  *)

AddNew(seen, s) == IF Contains(seen, s) THEN seen ELSE Append(seen, s)

(* The equation of the recursive function inside Distinct has a solution.   *)
Collects(f, seq, n) ==
  f = [I \in SUBSET (1..n) |-> IF I = {} THEN <<>> ELSE AddNew(f[I \ {Max(I)}], seq[Max(I)])]

LEMMA CollectExists ==
  ASSUME NEW seq, NEW n \in Nat
  PROVE  \E f : Collects(f, seq, n)
<1> DEFINE T == {m \in Nat : \E f : Collects(f, seq, m)}
<1>1. 0 \in T
  <2> DEFINE f == [I \in {{}} |-> <<>>]
  <2>1. SUBSET (1..0) = {{}}
    OBVIOUS
  <2>2. Collects(f, seq, 0)
    BY <2>1 DEF Collects
  <2> QED
    BY <2>2
<1>2. ASSUME NEW m \in Nat, m \in T PROVE m + 1 \in T
  <2>1. PICK f : Collects(f, seq, m)
    BY <1>2
  <2> DEFINE last == m + 1
             g == [I \in SUBSET (1..last) |->
                     IF last \in I THEN AddNew(f[I \ {last}], seq[last]) ELSE f[I]]
  <2>2. \A I \in SUBSET (1..m) : f[I] = IF I = {} THEN <<>> ELSE AddNew(f[I \ {Max(I)}], seq[Max(I)])
    BY <2>1, ZenonT(20) DEF Collects
  <2>3. \A I \in SUBSET (1..m) : I \in SUBSET (1..last) /\ last \notin I /\ g[I] = f[I]
    OBVIOUS
  <2>4. ASSUME NEW I \in SUBSET (1..last)
        PROVE  g[I] = IF I = {} THEN <<>> ELSE AddNew(g[I \ {Max(I)}], seq[Max(I)])
    <3>1. CASE last \in I
      <4>1. Max(I) = last
        BY <3>1, MaxFacts
      <4>2. I \ {last} \in SUBSET (1..m)
        OBVIOUS
      <4>3. g[I] = AddNew(f[I \ {last}], seq[last])
        BY <3>1
      <4> HIDE DEF g
      <4> QED
        BY <2>3, <3>1, <4>1, <4>2, <4>3
    <3>2. CASE last \notin I
      <4>1. \A i \in I : i \in 1..m
        BY <3>2
      <4>2. I \in SUBSET (1..m) /\ \A i : I \ {i} \in SUBSET (1..m)
        BY <4>1
      <4> HIDE DEF g
      <4> QED
        BY <2>2, <2>3, <4>2
    <3> QED
      BY <3>1, <3>2
  <2>5. g = [I \in SUBSET (1..last) |-> g[I]]
    OBVIOUS
  <2> HIDE DEF g
  <2>6. g = [I \in SUBSET (1..last) |-> IF I = {} THEN <<>> ELSE AddNew(g[I \ {Max(I)}], seq[Max(I)])]
    BY <2>4, <2>5
  <2>7. Collects(g, seq, last)
    BY <2>6 DEF Collects
  <2> QED
    BY <2>7
<1> HIDE DEF T
<1>3. n \in T
  BY <1>1, <1>2, SetInduction
<1> QED
  BY <1>3 DEF T

LEMMA DistinctIsLast ==
  ASSUME NEW S, NEW seq \in Seq(S)
  PROVE  \E f : Collects(f, seq, Len(seq)) /\ Distinct(seq) = f[1..Len(seq)]
<1> DEFINE f == CHOOSE f : f = [I \in SUBSET (1..Len(seq)) |->
                   IF I = {} THEN <<>> ELSE AddNew(f[I \ {Max(I)}], seq[Max(I)])]
<1>1. DOMAIN seq = 1..Len(seq) /\ Len(seq) \in Nat
  BY LenProperties
<1>2. \E h : Collects(h, seq, Len(seq))
  BY <1>1, CollectExists
<1>3. f = [I \in SUBSET (1..Len(seq)) |-> IF I = {} THEN <<>> ELSE AddNew(f[I \ {Max(I)}], seq[Max(I)])]
  BY <1>2 DEF Collects
<1>4. Distinct(seq) = f[1..Len(seq)]
  BY <1>1 DEF Distinct, FoldLeft, MapThenFoldSet, AddNew
<1> HIDE DEF f
<1> QED
  BY <1>3, <1>4 DEF Collects

LEMMA DistinctFacts ==
  ASSUME NEW S, NEW seq \in Seq(S)
  PROVE  Distinct(seq) \in Seq(S) /\ ToSet(Distinct(seq)) = ToSet(seq) /\ Len(Distinct(seq)) <= Len(seq)
<1>1. DOMAIN seq = 1..Len(seq) /\ Len(seq) \in Nat
  BY LenProperties
<1>2. PICK f : Collects(f, seq, Len(seq)) /\ Distinct(seq) = f[1..Len(seq)]
  BY DistinctIsLast
<1>3. \A I \in SUBSET (1..Len(seq)) : f[I] = IF I = {} THEN <<>> ELSE AddNew(f[I \ {Max(I)}], seq[Max(I)])
  BY <1>2, ZenonT(20) DEF Collects
<1> DEFINE T == {m \in Nat : m <= Len(seq) => 
                          /\ f[1..m] \in Seq(S) /\ Len(f[1..m]) <= m
                          /\ ToSet(f[1..m]) = {seq[i] : i \in 1..m}}
<1>4. 0 \in T
  <2>1. f[{}] = <<>>
    BY <1>3
  <2>2. 1..0 = {} /\ {seq[i] : i \in {}} = {}
    OBVIOUS
  <2>3. ToSet(<<>>) = {} /\ <<>> \in Seq(S) /\ Len(<<>>) <= 0
    BY DEF ToSet
  <2>4. f[1..0] = <<>>
    BY <2>1, <2>2
  <2>5. f[1..0] \in Seq(S) /\ Len(f[1..0]) <= 0 /\ ToSet(f[1..0]) = {seq[i] : i \in 1..0}
    BY <2>2, <2>3, <2>4
  <2> QED
    BY <2>5
<1>5. ASSUME NEW m \in Nat, m \in T PROVE m + 1 \in T
  <2> SUFFICES ASSUME m + 1 <= Len(seq)
               PROVE  /\ f[1..(m + 1)] \in Seq(S) /\ Len(f[1..(m + 1)]) <= m + 1
                      /\ ToSet(f[1..(m + 1)]) = {seq[i] : i \in 1..(m + 1)}
    OBVIOUS
  <2>1. PICK p : p = f[1..m]
    OBVIOUS
  <2>2. p \in Seq(S) /\ Len(p) <= m /\ Len(p) \in Nat /\ ToSet(p) = {seq[i] : i \in 1..m}
    BY <1>1, <1>5, <2>1, LenProperties
  <2>3. PICK x : x = seq[m + 1]
    OBVIOUS
  <2>4. x \in S
    BY <1>1, <2>3
  <2>5. {seq[i] : i \in 1..(m + 1)} = {seq[i] : i \in 1..m} \cup {x}
    <3>1. 1..(m + 1) = (1..m) \cup {m + 1}
      OBVIOUS
    <3> QED
      BY <2>3, <3>1
  <2>6. f[1..(m + 1)] = AddNew(p, x)
    <3>1. Max(1..(m + 1)) = m + 1
      BY MaxFacts
    <3>2. (1..(m + 1)) \ {m + 1} = 1..m
      OBVIOUS
    <3>3. m + 1 \in 1..(m + 1) /\ \A i \in 1..(m + 1) : i \in 1..Len(seq)
      BY <1>1
    <3>4. 1..(m + 1) \in SUBSET (1..Len(seq))
      BY <3>3
    <3> QED
      BY <1>3, <2>1, <2>3, <3>1, <3>2, <3>3, <3>4
  <2>7. CASE Contains(p, x)
    <3>1. x \in ToSet(p)
      BY <2>7 DEF Contains, ToSet
    <3>2. AddNew(p, x) = p /\ ToSet(p) = ToSet(p) \cup {x}
      BY <2>7, <3>1 DEF AddNew
    <3>3. Len(p) <= m + 1
      BY <2>2
    <3> QED
      BY <2>2, <2>5, <2>6, <3>2, <3>3
  <2>8. CASE ~Contains(p, x)
    <3>1. AddNew(p, x) = Append(p, x)
      BY <2>8 DEF AddNew
    <3>2. ToSet(Append(p, x)) = ToSet(p) \cup {x} /\ Append(p, x) \in Seq(S) /\ Len(Append(p, x)) = Len(p) + 1
      BY <2>2, <2>4, AppendRange, AppendProperties
    <3>3. Len(Append(p, x)) <= m + 1
      BY <2>2, <3>2
    <3> QED
      BY <2>2, <2>5, <2>6, <3>1, <3>2, <3>3
  <2> QED
    BY <2>7, <2>8
<1> HIDE DEF T
<1>6. Len(seq) \in T
  BY <1>1, <1>4, <1>5, SetInduction
<1>7. ToSet(seq) = {seq[i] : i \in 1..Len(seq)}
  BY <1>1 DEF ToSet
<1> QED
  BY <1>1, <1>2, <1>6, <1>7 DEF T

-----------------------------------------------------------------------------
(* What frontiers are made of.                                             *)

FrontierType ==
  /\ row.frontier \in Seq(Steps)
  /\ \A r \in Requests :
       /\ my[r].frontier \in Seq(Steps)
       /\ pc[r] = "settle" => my[r].frontier # <<>>
       /\ \A s \in Steps : Task(r, s).is = "rerouted" => Fallback[s] \in Steps

(* The successors that are taken, each as its own sequence. *)
Taken(s, holding) ==
  [i \in DOMAIN Out[s] |->
     IF <<s, Out[s][i]>> \in Conditional \ holding THEN <<>> ELSE <<Out[s][i]>>]

LEMMA SuccessorsFacts ==
  ASSUME NEW s \in Steps, NEW holding
  PROVE  /\ Successors(s, holding) \in Seq(Steps)
         /\ \A t \in ToSet(Out[s]) : <<s, t>> \notin Conditional => t \in ToSet(Successors(s, holding))
<1> DEFINE n == Len(Out[s])
<1>1. Out[s] \in Seq(Steps) /\ n \in Nat /\ DOMAIN Out[s] = 1..n
  BY GraphIsValid, LenProperties
<1>2. ASSUME NEW i \in 1..n PROVE Out[s][i] \in Steps
  BY <1>1
<1>3. Taken(s, holding) \in [1..n -> Seq(Steps)]
  BY <1>1, <1>2 DEF Taken
<1>4. Successors(s, holding) = FlattenSeq(Taken(s, holding))
  BY DEF Successors, Taken
<1>5. FlattenSeq(Taken(s, holding)) \in Seq(Steps) /\ Keeps(Taken(s, holding), n, FlattenSeq(Taken(s, holding)))
  BY <1>1, <1>3, FlattenFacts
<1>6. ASSUME NEW t \in ToSet(Out[s]), <<s, t>> \notin Conditional
      PROVE  t \in ToSet(Successors(s, holding))
  <2>1. PICK i \in 1..n : Out[s][i] = t
    BY <1>1 DEF ToSet
  <2>2. Taken(s, holding)[i] = <<t>>
    BY <1>1, <1>6, <2>1 DEF Taken
  <2>3. t \in ToSet(<<t>>)
    BY DEF ToSet
  <2>4. ToSet(Taken(s, holding)[i]) \subseteq ToSet(FlattenSeq(Taken(s, holding)))
    BY <1>5 DEF Keeps
  <2> QED
    BY <1>4, <2>2, <2>3, <2>4
<1> QED
  BY <1>4, <1>5, <1>6

(* What a batch of the frontier comes to. *)
Continued(r, order, holding) == [i \in DOMAIN order |-> Continuation(r, order[i], holding)]

Gathered(r) ==
  \A s \in ToSet(my[r].frontier) : Task(r, s).is \in {"awaiting", "completed", "rerouted"}

LEMMA ContinuationType ==
  ASSUME FrontierType, NEW r \in Requests, NEW s \in Steps, NEW holding,
         Task(r, s).is \in {"awaiting", "completed", "rerouted"}
  PROVE  Continuation(r, s, holding) \in Seq(Steps)
<1>1. CASE Task(r, s).is = "awaiting"
  BY <1>1 DEF Continuation
<1>2. CASE Task(r, s).is = "completed"
  BY <1>2, SuccessorsFacts DEF Continuation
<1>3. CASE Task(r, s).is = "rerouted"
  BY <1>3 DEF Continuation, FrontierType
<1> QED
  BY <1>1, <1>2, <1>3

(* The next frontier: what every task of the batch adds to it is in it, and *)
(* what two of them add stands in it twice.                                *)
LEMMA NextFrontier ==
  ASSUME FrontierType, NEW r \in Requests, Gathered(r), NEW holding
  PROVE  LET next == FlattenSeq(Continued(r, Distinct(my[r].frontier), holding))
         IN  /\ next \in Seq(Steps)
             /\ \A s \in ToSet(my[r].frontier) :
                  ToSet(Continuation(r, s, holding)) \subseteq ToSet(next)
             /\ \A s, t \in ToSet(my[r].frontier) : s # t =>
                  \A u \in ToSet(Continuation(r, s, holding)), v \in ToSet(Continuation(r, t, holding)) :
                    Before(next, u, v) \/ Before(next, v, u)
<1> DEFINE order == Distinct(my[r].frontier)
           seqs == Continued(r, order, holding)
           n == Len(order)
<1>1. order \in Seq(Steps) /\ ToSet(order) = ToSet(my[r].frontier)
  BY DistinctFacts DEF FrontierType
<1>2. n \in Nat /\ DOMAIN order = 1..n
  BY <1>1, LenProperties
<1>3. \A i \in 1..n : order[i] \in Steps /\ order[i] \in ToSet(my[r].frontier)
  <2>1. \A i \in 1..n : order[i] \in ToSet(order)
    BY <1>2 DEF ToSet
  <2>2. \A i \in 1..n : order[i] \in Steps
    BY <1>1, <1>2
  <2> HIDE DEF order
  <2> QED
    BY <1>1, <2>1, <2>2
<1>4. \A i \in 1..n : Continuation(r, order[i], holding) \in Seq(Steps)
  BY <1>3, ContinuationType DEF Gathered
<1>5. seqs \in [1..n -> Seq(Steps)] /\ \A i \in 1..n : seqs[i] = Continuation(r, order[i], holding)
  BY <1>2, <1>4 DEF Continued
<1> HIDE DEF seqs
<1>6. FlattenSeq(seqs) \in Seq(Steps) /\ Keeps(seqs, n, FlattenSeq(seqs))
  BY <1>2, <1>5, FlattenFacts
<1>7. \A s \in ToSet(my[r].frontier) : \E i \in 1..n : order[i] = s
  BY <1>1, <1>2 DEF ToSet
<1>8. ASSUME NEW s \in ToSet(my[r].frontier)
      PROVE  ToSet(Continuation(r, s, holding)) \subseteq ToSet(FlattenSeq(seqs))
  BY <1>5, <1>6, <1>7 DEF Keeps
<1>9. ASSUME NEW s \in ToSet(my[r].frontier), NEW t \in ToSet(my[r].frontier), s # t,
             NEW u \in ToSet(Continuation(r, s, holding)), NEW v \in ToSet(Continuation(r, t, holding))
      PROVE  Before(FlattenSeq(seqs), u, v) \/ Before(FlattenSeq(seqs), v, u)
  <2>1. PICK i \in 1..n : order[i] = s
    BY <1>7
  <2>2. PICK j \in 1..n : order[j] = t
    BY <1>7
  <2>3. u \in ToSet(seqs[i]) /\ v \in ToSet(seqs[j])
    BY <1>5, <2>1, <2>2
  <2>4. i < j \/ j < i
    BY <1>2, <1>9, <2>1, <2>2
  <2> QED
    BY <1>6, <2>3, <2>4 DEF Keeps
<1> QED
  BY <1>6, <1>8, <1>9 DEF seqs

LEMMA InitFrontier == Init => FrontierType
<1> SUFFICES ASSUME Init PROVE FrontierType
  OBVIOUS
<1>1. <<>> \in Seq(Steps) /\ Copy(<<>>, 0).frontier = <<>> /\ NoTask.is = "none"
  BY DEF Copy, NoTask
<1>2. \A r \in Requests : my[r] = Copy(<<>>, 0) /\ pc[r] = "idle" /\ \A s \in Steps : Task(r, s) = NoTask
  BY DEF Init, Task
<1> QED
  BY <1>1, <1>2 DEF Init, FrontierType

(* Request r moves with a new copy of the row, and no task changes. *)
LEMMA CopyFrontier ==
  ASSUME TypeOK, FrontierType, NEW r \in Requests, NEW to, NEW frontier \in Seq(Steps), NEW x,
         Goes(r, to), my' = [my EXCEPT ![r] = Copy(frontier, x)], UNCHANGED <<row, batch>>,
         to = "settle" => frontier # <<>>
  PROVE  FrontierType'
<1>1. \A q \in Requests : pc'[q] = IF q = r THEN to ELSE pc[q]
  BY DEF Goes, TypeOK
<1>2. \A q \in Requests : my'[q] = IF q = r THEN Copy(frontier, x) ELSE my[q]
  BY DEF TypeOK
<1>3. Copy(frontier, x).frontier = frontier
  BY DEF Copy
<1>4. \A q \in Requests, s \in Steps : Task(q, s)' = Task(q, s)
  BY DEF Task
<1> QED
  BY <1>1, <1>2, <1>3, <1>4 DEF FrontierType

(* Request r moves and saves a frontier of steps. *)
LEMMA SaveFrontier ==
  ASSUME TypeOK, FrontierType, NEW r \in Requests, NEW to, Goes(r, to), to # "settle",
         row'.frontier \in Seq(Steps), UNCHANGED <<my, batch>>
  PROVE  FrontierType'
<1>1. \A q \in Requests : pc'[q] = IF q = r THEN to ELSE pc[q]
  BY DEF Goes, TypeOK
<1>2. \A q \in Requests, s \in Steps : Task(q, s)' = Task(q, s)
  BY DEF Task
<1> QED
  BY <1>1, <1>2 DEF FrontierType

LEMMA SavesFrontier ==
  ASSUME TypeOK, FrontierType, NEW r \in Requests,
         \/ CreateInstance(r) \/ Start(r) \/ Advance(r) \/ BatchRaises(r) \/ SaveFailed(r)
         \/ SaveCompleted(r) \/ Override(r) \/ NothingToResume(r) \/ SaveResumed(r) \/ RequestErrs(r)
         \/ \E x \in DOMAIN execs, d \in {"approved", "rejected"} : Decide(r, x, d)
  PROVE  FrontierType'
<1>1. my[r].frontier \in Seq(Steps) /\ row.frontier \in Seq(Steps)
  BY DEF FrontierType
<1>2. CASE CreateInstance(r)
  BY <1>2, SaveFrontier DEF CreateInstance, Save
<1>3. CASE Start(r)
  BY <1>3, SaveFrontier, GraphIsValid DEF Start, Moves, SaveAndReport, Save
<1>4. CASE Advance(r)
  <2>1. PICK holding \in SUBSET Conditional :
          row'.frontier = FlattenSeq(Continued(r, Distinct(my[r].frontier), holding))
    BY <1>4 DEF Advance, Save, Continued
  <2>2. Gathered(r)
    BY <1>4 DEF Advance, Gathered
  <2>3. row'.frontier \in Seq(Steps)
    BY <2>1, <2>2, NextFrontier
  <2>4. PICK to \in {"done", "refresh"} : Goes(r, to)
    BY <1>4 DEF Advance
  <2> QED
    BY <1>4, <2>3, <2>4, SaveFrontier DEF Advance
<1>5. CASE BatchRaises(r)
  BY <1>1, <1>5, SaveFrontier DEF BatchRaises, Moves, records
<1>6. CASE SaveFailed(r) \/ SaveCompleted(r)
  BY <1>1, <1>6, SaveFrontier DEF SaveFailed, SaveCompleted, Moves, SaveAndReport, Save
<1>7. CASE Override(r)
  BY <1>1, <1>7, SaveFrontier DEF Override, Moves, Save
<1>8. CASE NothingToResume(r)
  BY <1>1, <1>8, SaveFrontier DEF NothingToResume, Moves, records
<1>9. CASE SaveResumed(r)
  BY <1>1, <1>9, SaveFrontier DEF SaveResumed, Moves, Save
<1>10. CASE RequestErrs(r)
  BY <1>1, <1>10, SaveFrontier DEF RequestErrs, records
<1>11. CASE \E x \in DOMAIN execs, d \in {"approved", "rejected"} : Decide(r, x, d)
  BY <1>1, <1>11, SaveFrontier DEF Decide
<1> QED
  BY <1>2, <1>3, <1>4, <1>5, <1>6, <1>7, <1>8, <1>9, <1>10, <1>11

LEMMA SettleFrontier ==
  ASSUME TypeOK, FrontierType, NEW r \in Requests, ApproveStep(r) \/ RejectStep(r)
  PROVE  FrontierType'
<1>1. pc[r] = "settle" /\ UNCHANGED <<row, batch>>
  BY DEF ApproveStep, RejectStep, Moves
<1>2. my[r].frontier \in Seq(Steps) /\ my[r].frontier # <<>>
  BY <1>1 DEF FrontierType
<1>3. Head(my[r].frontier) \in Steps /\ Tail(my[r].frontier) \in Seq(Steps)
  BY <1>2, HeadTailProperties
<1>4. CASE ApproveStep(r)
  <2>1. PICK holding : Replaces(r, Successors(Head(my[r].frontier), holding))
    BY <1>4 DEF ApproveStep
  <2>2. Tail(my[r].frontier) \o Successors(Head(my[r].frontier), holding) \in Seq(Steps)
    BY <1>3, SuccessorsFacts, ConcatFacts
  <2> QED
    BY <1>1, <1>4, <2>1, <2>2, CopyFrontier DEF ApproveStep, Moves, Replaces
<1>5. CASE RejectStep(r)
  <2> DEFINE fallback == Fallback[Head(my[r].frontier)]
  <2>1. CASE fallback = NoStep
    <3>1. Goes(r, "fail") /\ UNCHANGED <<my, batch, row>>
      BY <1>5, <2>1 DEF RejectStep
    <3> QED
      BY <1>2, <3>1, SaveFrontier DEF FrontierType
  <2>2. CASE fallback # NoStep
    <3>1. fallback \in Steps
      BY <1>3, <2>2, GraphIsValid
    <3>2. Tail(my[r].frontier) \o <<fallback>> \in Seq(Steps)
      BY <1>3, <3>1, ConcatFacts
    <3> QED
      BY <1>1, <1>5, <2>2, <3>2, CopyFrontier DEF RejectStep, Replaces
  <2> QED
    BY <2>1, <2>2
<1> QED
  BY <1>4, <1>5

LEMMA CopiesFrontier ==
  ASSUME TypeOK, FrontierType, NEW r \in Requests,
         \/ ReadForPause(r) \/ ReadForTerminate(r) \/ ReadForResume(r) \/ ReadForCallback(r)
         \/ FindExecution(r)
  PROVE  FrontierType'
<1>1. my[r].frontier \in Seq(Steps) /\ row.frontier \in Seq(Steps)
  BY DEF FrontierType
<1>2. CASE FindExecution(r)
  <2>1. PICK x : my' = [my EXCEPT ![r] = Copy(my[r].frontier, x)]
    BY <1>2 DEF FindExecution
  <2> QED
    BY <1>1, <1>2, <2>1, CopyFrontier DEF FindExecution, Moves, records
<1>3. CASE ~FindExecution(r)
  <2>1. PICK to \in {"override", "resume", "done"} : Goes(r, to)
    BY <1>3 DEF ReadForPause, ReadForTerminate, ReadForResume, ReadForCallback, Reads
  <2>2. my' = [my EXCEPT ![r] = Copy(row.frontier, 0)] /\ UNCHANGED <<row, batch>>
    BY <1>3 DEF ReadForPause, ReadForTerminate, ReadForResume, ReadForCallback, Reads, records
  <2> QED
    BY <1>1, <2>1, <2>2, CopyFrontier
<1> QED
  BY <1>2, <1>3

LEMMA RefreshFrontier ==
  ASSUME TypeOK, FrontierType, NEW r \in Requests, Refresh(r)
  PROVE  FrontierType'
<1>1. PICK to \in {"done", "complete", "batch"} : Goes(r, to)
  BY DEF Refresh
<1>2. \A q \in Requests : pc'[q] = IF q = r THEN to ELSE pc[q]
  BY <1>1 DEF Goes, TypeOK
<1>3. \A q \in Requests : my'[q] = IF q = r THEN Copy(row.frontier, 0) ELSE my[q]
  BY DEF Refresh, TypeOK
<1>4. Copy(row.frontier, 0).frontier = row.frontier /\ UNCHANGED row
  BY DEF Copy, Refresh, records
<1>5. \A q \in Requests, s \in Steps :
        Task(q, s)' = Task(q, s) \/ Task(q, s)' = NewTask \/ Task(q, s)' = NoTask
  BY DEF Refresh, Task, TypeOK
<1>6. NewTask.is = "queued" /\ NoTask.is = "none"
  BY DEF NewTask, NoTask
<1> QED
  BY <1>2, <1>3, <1>4, <1>5, <1>6 DEF FrontierType

LEMMA TaskFrontier ==
  ASSUME TypeOK, FrontierType, NEW r \in Requests, NEW s \in Steps,
         StepAction(r, s) \/ StepErrs(r, s)
  PROVE  FrontierType'
<1>1. UNCHANGED <<row, my>> /\ \A q \in Requests : pc'[q] = "settle" => pc[q] = "settle"
  BY DEF StepAction, StepErrs, BeginStep, CompleteStep, FailStep, RequestApproval, StoreReference,
         AwaitApproval, Goes, TypeOK
<1>2. \A q \in Requests, u \in Steps :
        Task(q, u)'.is = "rerouted" => Task(q, u).is = "rerouted" \/ Fallback[u] \in Steps
  <2>1. CASE BeginStep(r, s)
    <3> DEFINE task == [is |-> "running", exec |-> Len(execs')]
    <3>1. batch' = [batch EXCEPT ![r] = [@ EXCEPT ![s] = task]]
      BY <2>1 DEF BeginStep
    <3>2. Task(r, s)' = task /\ \A q \in Requests, u \in Steps : ~(q = r /\ u = s) => Task(q, u)' = Task(q, u)
      BY <3>1 DEF Task, TypeOK
    <3> QED
      BY <3>2
  <2>2. CASE ~BeginStep(r, s)
    <3>1. PICK is : /\ Becomes(r, s, is)
                    /\ is = "rerouted" => Fallback[s] # NoStep
      BY <2>2 DEF StepAction, StepErrs, CompleteStep, FailStep, RequestApproval, StoreReference,
                  AwaitApproval
    <3>2. /\ Task(r, s)'.is = is
          /\ \A q \in Requests, u \in Steps : ~(q = r /\ u = s) => Task(q, u)' = Task(q, u)
      BY <3>1, BecomesPointwise
    <3>3. Fallback[s] # NoStep => Fallback[s] \in Steps
      BY GraphIsValid
    <3> QED
      BY <3>1, <3>2, <3>3
  <2> QED
    BY <2>1, <2>2
<1> QED
  BY <1>1, <1>2 DEF FrontierType

LEMMA NextFrontierType == TypeOK /\ FrontierType /\ [Next]_vars => FrontierType'
<1> SUFFICES ASSUME TypeOK, FrontierType, [Next]_vars PROVE FrontierType'
  OBVIOUS
<1>1. ASSUME NEW r \in Requests, RequestAction(r) PROVE FrontierType'
  BY <1>1, SavesFrontier, SettleFrontier, CopiesFrontier, RefreshFrontier DEF RequestAction
<1>2. ASSUME NEW r \in Requests,
             \/ CreateInstance(r) \/ RequestErrs(r)
             \/ \E x \in DOMAIN execs, d \in {"approved", "rejected"} : Decide(r, x, d)
      PROVE  FrontierType'
  BY <1>2, SavesFrontier
<1>3. ASSUME NEW r \in Requests, ReadForPause(r) \/ ReadForTerminate(r) \/ ReadForResume(r)
      PROVE  FrontierType'
  BY <1>3, CopiesFrontier
<1>4. ASSUME NEW r \in Requests, NEW s \in Steps, StepAction(r, s) \/ StepErrs(r, s)
      PROVE  FrontierType'
  BY <1>4, TaskFrontier
<1>5. ASSUME NEW dead \in SUBSET Requests, Crash(dead) PROVE FrontierType'
  <2>1. UNCHANGED <<row, my>> /\ \A q \in Requests : pc'[q] = "settle" => pc[q] = "settle"
    BY <1>5 DEF Crash, records
  <2>2. \A q \in Requests, s \in Steps : Task(q, s)' = NoTask \/ Task(q, s)' = Task(q, s)
    BY <1>5 DEF Crash, Task
  <2>3. NoTask.is = "none"
    BY DEF NoTask
  <2> QED
    BY <2>1, <2>2, <2>3 DEF FrontierType
<1>6. CASE UNCHANGED vars
  BY <1>6 DEF vars, records, requests, FrontierType, Task
<1> QED
  BY <1>1, <1>2, <1>3, <1>4, <1>5, <1>6 DEF Next

-----------------------------------------------------------------------------
(* No branch is dropped.  What an execution that has ended is still owed,  *)
(* a successor or a fallback, is followed already or still ahead: in the    *)
(* frontier between batches, among the queued tasks or the ended ones in a  *)
(* batch, and behind the step that waits in a pause.                        *)

Due(x) ==
  IF execs[x].state = "failed" THEN {Fallback[execs[x].step]}
  ELSE {t \in ToSet(Out[execs[x].step]) : <<execs[x].step, t>> \notin Conditional}

Followed(x, t) == \E y \in DOMAIN execs : y > x /\ execs[y].step = t

OwedOnly(ahead) ==
  \A x \in DOMAIN execs : ~Running(x) => \A t \in Due(x) : Followed(x, t) \/ t \in ahead

(* Execution x is of the batch that request r runs. *)
Owns(r, x) == \E s \in Steps : Task(r, s).is \notin {"none", "queued"} /\ Task(r, s).exec = x

(* A task that has ended, and its execution. *)
EndOK(r, s) ==
  /\ Task(r, s).is \in {"awaiting", "completed", "rerouted"} =>
       Task(r, s).exec \in DOMAIN execs /\ execs[Task(r, s).exec].step = s
  /\ Task(r, s).is = "completed" => execs[Task(r, s).exec].state = "completed"
  /\ Task(r, s).is = "rerouted" => execs[Task(r, s).exec].state = "failed"

BatchOwes(r) ==
  /\ \A x \in DOMAIN execs : ~Owns(r, x) =>
       \A t \in Due(x) : Followed(x, t) \/ (t \in Steps /\ Task(r, t).is = "queued")
  /\ \A s \in Steps : EndOK(r, s)

Owing ==
  /\ \A r \in Requests :
       /\ pc[r] = "start" => execs = <<>>
       /\ pc[r] = "refresh" => OwedOnly(ToSet(row.frontier))
       /\ pc[r] = "batch" => BatchOwes(r)
       /\ pc[r] = "complete" => NoneRuns /\ OwedOnly({})
       /\ pc[r] = "save" => OwedOnly(ToSet(my[r].frontier))
  /\ row.status = "absent" => execs = <<>>
  /\ row.status = "paused" /\ ~NoneRuns =>
       row.frontier # <<>> /\ OwedOnly(ToSet(Tail(row.frontier)))
  /\ row.status = "completed" =>
       /\ NoneRuns /\ OwedOnly({})
       /\ \A r \in Requests : ~Works(r)

LEMMA InitOwing == Init => Owing
  BY DEF Init, Owing

LEMMA OwingSuffices == Owing => NothingSkipped
<1> SUFFICES ASSUME Owing, row.status = "completed", NEW x \in DOMAIN execs, NEW t \in Due(x)
             PROVE  \E y \in DOMAIN execs : y > x /\ execs[y].step = t
  BY DEF NothingSkipped, Due
<1>1. ~Running(x) /\ OwedOnly({})
  BY DEF Owing, NoneRuns
<1> QED
  BY <1>1 DEF OwedOnly, Followed

(* Steps and states of the executions stay. *)
LEMMA OwedKept ==
  ASSUME DOMAIN execs' = DOMAIN execs,
         \A x \in DOMAIN execs : execs'[x].step = execs[x].step /\ execs'[x].state = execs[x].state
  PROVE  /\ \A ahead : OwedOnly(ahead) => OwedOnly(ahead)'
         /\ NoneRuns' <=> NoneRuns
         /\ \A x \in DOMAIN execs : Due(x)' = Due(x) /\ \A t : Followed(x, t)' <=> Followed(x, t)
<1>1. \A x \in DOMAIN execs : Due(x)' = Due(x)
  BY DEF Due
<1>2. \A x \in DOMAIN execs : \A t : Followed(x, t)' <=> Followed(x, t)
  BY DEF Followed
<1>3. \A x \in DOMAIN execs : Running(x)' <=> Running(x)
  BY DEF Running
<1> QED
  BY <1>1, <1>2, <1>3 DEF OwedOnly, NoneRuns

(* A batch whose tasks stay while steps and states do. *)
LEMMA BatchKept ==
  ASSUME TypeOK, NEW r \in Requests, BatchOwes(r), DOMAIN execs' = DOMAIN execs,
         \A x \in DOMAIN execs : execs'[x].step = execs[x].step /\ execs'[x].state = execs[x].state,
         \A s \in Steps : Task(r, s)' = Task(r, s)
  PROVE  BatchOwes(r)'
<1>1. \A x \in DOMAIN execs : Due(x)' = Due(x) /\ \A t : Followed(x, t)' <=> Followed(x, t)
  BY OwedKept
<1>2. \A x \in DOMAIN execs : Owns(r, x) => Owns(r, x)'
  BY DEF Owns
<1>3. ASSUME NEW x \in DOMAIN execs', ~Owns(r, x)', NEW t \in Due(x)'
      PROVE  Followed(x, t)' \/ (t \in Steps /\ Task(r, t)'.is = "queued")
  BY <1>1, <1>2, <1>3 DEF BatchOwes
<1>4. ASSUME NEW s \in Steps PROVE EndOK(r, s)'
  <2>1. EndOK(r, s) /\ Task(r, s)' = Task(r, s)
    BY DEF BatchOwes
  <2>2. Task(r, s).is \in {"awaiting", "completed", "rerouted"} => Task(r, s).exec \in DOMAIN execs
    BY <2>1 DEF EndOK
  <2> QED
    BY <2>1, <2>2 DEF EndOK
<1> QED
  BY <1>3, <1>4 DEF BatchOwes

(* A request moves beside whatever else is going on. *)
LEMMA BystanderOwing ==
  ASSUME TypeOK, Owing, NEW r \in Requests, NEW to, Goes(r, to), UNCHANGED <<row, batch>>,
         \A q \in Requests \ {r} : my'[q] = my[q],
         DOMAIN execs' = DOMAIN execs,
         \A x \in DOMAIN execs : execs'[x].step = execs[x].step /\ execs'[x].state = execs[x].state,
         to \notin {"start", "refresh", "batch", "complete", "save"},
         row.status = "absent" => execs' = <<>>,
         row.status = "completed" => to \notin Working
  PROVE  Owing'
<1>1. \A q \in Requests : pc'[q] = IF q = r THEN to ELSE pc[q]
  BY DEF Goes, TypeOK
<1>2. /\ \A ahead : OwedOnly(ahead) => OwedOnly(ahead)'
      /\ NoneRuns' <=> NoneRuns
  BY OwedKept
<1>3. ASSUME NEW q \in Requests, pc'[q] \in {"start", "refresh", "batch", "complete", "save"}
      PROVE  /\ pc'[q] = "start" => execs' = <<>>
             /\ pc'[q] = "refresh" => OwedOnly(ToSet(row.frontier))'
             /\ pc'[q] = "batch" => BatchOwes(q)'
             /\ pc'[q] = "complete" => NoneRuns' /\ OwedOnly({})'
             /\ pc'[q] = "save" => OwedOnly(ToSet(my[q].frontier))'
  <2>1. q # r /\ pc[q] = pc'[q] /\ my'[q] = my[q] /\ \A s \in Steps : Task(q, s)' = Task(q, s)
    BY <1>1, <1>3 DEF Task
  <2>2. pc'[q] = "start" => execs' = <<>>
    BY <2>1 DEF Owing
  <2>3. pc'[q] = "refresh" => OwedOnly(ToSet(row.frontier))'
    <3>1. PICK ahead : ahead = ToSet(row.frontier)
      OBVIOUS
    <3>2. pc'[q] = "refresh" => OwedOnly(ahead)'
      BY <1>2, <2>1, <3>1 DEF Owing
    <3> QED
      BY <3>1, <3>2 DEF OwedOnly
  <2>4. pc'[q] = "batch" => BatchOwes(q)'
    BY <2>1, BatchKept DEF Owing
  <2>5. pc'[q] = "complete" => NoneRuns' /\ OwedOnly({})'
    BY <1>2, <2>1 DEF Owing
  <2>6. pc'[q] = "save" => OwedOnly(ToSet(my[q].frontier))'
    <3>1. PICK ahead : ahead = ToSet(my[q].frontier)
      OBVIOUS
    <3>2. pc'[q] = "save" => OwedOnly(ahead)'
      BY <1>2, <2>1, <3>1 DEF Owing
    <3> QED
      BY <2>1, <3>1, <3>2 DEF OwedOnly
  <2> QED
    BY <2>2, <2>3, <2>4, <2>5, <2>6
<1>4. ASSUME row'.status = "paused", ~NoneRuns'
      PROVE  row'.frontier # <<>> /\ OwedOnly(ToSet(Tail(row.frontier)))'
  <2>1. row'.frontier = row.frontier /\ row.frontier # <<>> /\ OwedOnly(ToSet(Tail(row.frontier)))
    BY <1>2, <1>4 DEF Owing
  <2>2. PICK ahead : ahead = ToSet(Tail(row.frontier))
    OBVIOUS
  <2>3. OwedOnly(ahead)'
    BY <1>2, <2>1, <2>2
  <2> QED
    BY <2>1, <2>2, <2>3 DEF OwedOnly
<1>5. ASSUME row'.status = "completed"
      PROVE  NoneRuns' /\ OwedOnly({})' /\ \A q \in Requests : ~Works(q)'
  BY <1>1, <1>2, <1>5 DEF Owing, Works, Task
<1> QED
  BY <1>1, <1>3, <1>4, <1>5 DEF Owing

(* The request that works moves on and saves the row. *)
LEMMA WorkerOwing ==
  ASSUME TypeOK, Owing, NEW r \in Requests, NEW to, Goes(r, to), UNCHANGED <<batch, execs>>,
         \A q \in Requests : pc[q] \in Working => q = r,
         to \notin {"batch", "save", "complete"},
         to = "start" => execs = <<>>,
         to = "refresh" => OwedOnly(ToSet(row'.frontier)),
         row'.status # "absent",
         row'.status = "paused" => row'.frontier # <<>> /\ OwedOnly(ToSet(Tail(row'.frontier))),
         row'.status = "completed" => NoneRuns /\ OwedOnly({}) /\ to = "done" /\ pc[r] = "complete" /\ Baton
  PROVE  Owing'
<1>1. \A q \in Requests : pc'[q] = IF q = r THEN to ELSE pc[q]
  BY DEF Goes, TypeOK
<1>2. /\ \A ahead : OwedOnly(ahead) => OwedOnly(ahead)'
      /\ NoneRuns' <=> NoneRuns
  BY OwedKept
<1>3. \A q \in Requests : pc'[q] \in {"start", "refresh", "batch", "complete", "save"} => q = r /\ pc'[q] = to
  BY <1>1 DEF Working
<1>4. to = "refresh" => OwedOnly(ToSet(row.frontier))'
  <2>1. PICK ahead : ahead = ToSet(row'.frontier)
    OBVIOUS
  <2>2. to = "refresh" => OwedOnly(ahead)'
    BY <1>2, <2>1
  <2> QED
    BY <2>1, <2>2 DEF OwedOnly
<1>5. ASSUME row'.status = "paused"
      PROVE  row'.frontier # <<>> /\ OwedOnly(ToSet(Tail(row.frontier)))'
  <2>1. PICK ahead : ahead = ToSet(Tail(row'.frontier))
    OBVIOUS
  <2>2. OwedOnly(ahead)'
    BY <1>2, <1>5, <2>1
  <2> QED
    BY <1>5, <2>1, <2>2 DEF OwedOnly
<1>6. ASSUME row'.status = "completed"
      PROVE  NoneRuns' /\ OwedOnly({})' /\ \A q \in Requests : ~Works(q)'
  <2>1. Works(r) /\ \A s \in Steps : Task(r, s).is \notin Active
    BY <1>6 DEF Works, Working, Baton, TasksOK, TaskOK
  <2>2. \A q \in Requests : Works(q) => q = r
    BY <1>6, <2>1 DEF Baton, OneWorks
  <2>3. ~Works(r)'
    BY <1>1, <1>6, <2>1 DEF Works, Task, Working
  <2>4. \A q \in Requests \ {r} : Works(q)' => Works(q)
    BY <1>1 DEF Works, Task
  <2> QED
    BY <1>2, <1>6, <2>2, <2>3, <2>4
<1> QED
  BY <1>1, <1>2, <1>3, <1>4, <1>5, <1>6 DEF Owing

LEMMA SimpleMovesOwing ==
  ASSUME TypeOK, Baton, Owing, NEW r \in Requests,
         \/ CreateInstance(r) \/ Start(r) \/ BatchRaises(r) \/ SaveFailed(r) \/ SaveCompleted(r)
         \/ NothingToResume(r) \/ SaveResumed(r) \/ RequestErrs(r) \/ ReadForCallback(r)
         \/ FindExecution(r)
         \/ \E x \in DOMAIN execs, d \in {"approved", "rejected"} : Decide(r, x, d)
  PROVE  Owing'
<1>1. CASE CreateInstance(r)
  <2>1. row.status = "absent" /\ execs = <<>>
    BY <1>1 DEF CreateInstance, Owing
  <2>2. \A q \in Requests : pc[q] \notin Working
    BY <2>1 DEF Baton, StatusOK, Working
  <2> QED
    BY <1>1, <2>1, <2>2, WorkerOwing DEF CreateInstance, Save
<1>2. ASSUME pc[r] \in Working PROVE \A q \in Requests : pc[q] \in Working => q = r
  BY <1>2 DEF Baton, OneWorks, Works
<1>3. CASE Start(r)
  <2>1. execs = <<>> /\ pc[r] \in Working
    BY <1>3 DEF Start, Moves, Owing, Working
  <2>2. OwedOnly(ToSet(row'.frontier))
    BY <2>1 DEF OwedOnly
  <2> QED
    BY <1>2, <1>3, <2>1, <2>2, WorkerOwing DEF Start, Moves, SaveAndReport, Save
<1>4. CASE SaveFailed(r)
  BY <1>2, <1>4, WorkerOwing DEF SaveFailed, Moves, SaveAndReport, Save, Working
<1>5. CASE SaveCompleted(r)
  <2>1. NoneRuns /\ OwedOnly({}) /\ pc[r] \in Working /\ pc[r] = "complete"
    BY <1>5 DEF SaveCompleted, Moves, Owing, Working
  <2> QED
    BY <1>2, <1>5, <2>1, WorkerOwing DEF SaveCompleted, Moves, SaveAndReport, Save
<1>6. CASE SaveResumed(r)
  <2>1. OwedOnly(ToSet(my[r].frontier)) /\ pc[r] \in Working
    BY <1>6 DEF SaveResumed, Moves, Owing, Working
  <2>2. row'.frontier = my[r].frontier /\ row'.status = "running"
    BY <1>6 DEF SaveResumed, Save
  <2> QED
    BY <1>2, <1>6, <2>1, <2>2, WorkerOwing DEF SaveResumed, Moves
<1>7. CASE BatchRaises(r)
  <2>1. row.status = "running"
    BY <1>7 DEF BatchRaises, Moves, Baton, StatusOK
  <2> QED
    BY <1>7, <2>1, BystanderOwing DEF BatchRaises, Moves, records
<1>8. CASE NothingToResume(r)
  BY <1>8, BystanderOwing DEF NothingToResume, Moves, records, Owing, Working
<1>9. CASE RequestErrs(r)
  BY <1>9, BystanderOwing DEF RequestErrs, records, Owing, Working
<1>10. CASE ReadForCallback(r)
  <2>1. PICK to \in {"resume", "done"} : Goes(r, to) /\ (to = "resume" => row.status = "paused")
    BY <1>10 DEF ReadForCallback, Reads
  <2>2. \A q \in Requests \ {r} : my'[q] = my[q]
    BY <1>10 DEF ReadForCallback, Reads, TypeOK
  <2> QED
    BY <1>10, <2>1, <2>2, BystanderOwing DEF ReadForCallback, records, Owing, Working
<1>11. CASE FindExecution(r)
  <2>1. row.status = "paused"
    BY <1>11 DEF FindExecution, Moves, Baton, StatusOK
  <2>2. \A q \in Requests \ {r} : my'[q] = my[q]
    BY <1>11 DEF FindExecution, TypeOK
  <2> QED
    BY <1>11, <2>1, <2>2, BystanderOwing DEF FindExecution, Moves, records
<1>12. ASSUME NEW x \in DOMAIN execs, NEW d \in {"approved", "rejected"}, Decide(r, x, d)
       PROVE  Owing'
  <2>1. /\ DOMAIN execs' = DOMAIN execs
        /\ \A y \in DOMAIN execs : execs'[y].step = execs[y].step /\ execs'[y].state = execs[y].state
    BY <1>12, DecidePointwise
  <2>2. row.status # "absent"
    BY <1>12 DEF Owing
  <2> QED
    BY <1>12, <2>1, <2>2, BystanderOwing DEF Decide, Working
<1> QED
  BY <1>1, <1>3, <1>4, <1>5, <1>6, <1>7, <1>8, <1>9, <1>10, <1>11, <1>12

(* The end of a batch: the next frontier has what its executions are owed. *)
LEMMA AdvanceOwing ==
  ASSUME TypeOK, FrontierType, Baton, OneWaits, GateInv, Owing, WaitsInFront',
         NEW r \in Requests, Advance(r)
  PROVE  Owing'
<1>1. /\ pc[r] = "batch" /\ UNCHANGED <<execs, batch, answer, my>> /\ BatchRunsOK(r) /\ BatchOwes(r)
      /\ Gathered(r)
  BY DEF Advance, GateInv, RunsOK, Owing, Gathered
<1>2. \A s \in Steps :
        /\ Task(r, s).is \in {"none", "awaiting", "completed", "rerouted"}
        /\ Task(r, s).is # "none" => s \in ToSet(my[r].frontier)
  BY DEF Advance, Baton, TasksOK, TaskOK
<1>3. \A x \in DOMAIN execs : Running(x) =>
        \E s \in Steps : Task(r, s).is = "awaiting" /\ Task(r, s).exec = x
  BY <1>1, <1>2 DEF BatchRunsOK, Executing
<1>4. PICK holding \in SUBSET Conditional :
        row'.frontier = FlattenSeq(Continued(r, Distinct(my[r].frontier), holding))
  BY DEF Advance, Save, Continued
<1> DEFINE next == row'.frontier
<1>5. /\ next \in Seq(Steps)
      /\ \A s \in ToSet(my[r].frontier) :
           ToSet(Continuation(r, s, holding)) \subseteq ToSet(next)
      /\ \A s, t \in ToSet(my[r].frontier) : s # t =>
           \A u \in ToSet(Continuation(r, s, holding)), v \in ToSet(Continuation(r, t, holding)) :
             Before(next, u, v) \/ Before(next, v, u)
  BY <1>1, <1>4, NextFrontier
(* Whatever is still owed is in what a task that has ended adds. *)
<1>6. ASSUME NEW x \in DOMAIN execs, ~Running(x), NEW t \in Due(x), ~Followed(x, t)
      PROVE  \E s \in ToSet(my[r].frontier) :
               /\ s \in Steps /\ Task(r, s).is \in {"completed", "rerouted"}
               /\ t \in ToSet(Continuation(r, s, holding))
  <2>1. Owns(r, x)
    BY <1>1, <1>2, <1>6 DEF BatchOwes
  <2>2. PICK s \in Steps : Task(r, s).is \notin {"none", "queued"} /\ Task(r, s).exec = x
    BY <2>1 DEF Owns
  <2>3. Task(r, s).is \in {"completed", "rerouted"} /\ s \in ToSet(my[r].frontier)
    BY <1>1, <1>2, <1>6, <2>2 DEF GateInv, AllHeld, HeldOK
  <2>4. /\ execs[x].step = s
        /\ Task(r, s).is = "completed" => execs[x].state = "completed"
        /\ Task(r, s).is = "rerouted" => execs[x].state = "failed"
    BY <1>1, <2>2, <2>3 DEF BatchOwes, EndOK
  <2>5. CASE Task(r, s).is = "completed"
    <3>1. Continuation(r, s, holding) = Successors(s, holding)
      BY <2>5 DEF Continuation
    <3>2. t \in ToSet(Out[s]) /\ <<s, t>> \notin Conditional
      BY <1>6, <2>4, <2>5 DEF Due
    <3> QED
      BY <2>3, <3>1, <3>2, SuccessorsFacts
  <2>6. CASE Task(r, s).is = "rerouted"
    <3>1. Continuation(r, s, holding) = <<t>>
      BY <1>6, <2>4, <2>6 DEF Continuation, Due
    <3>2. t \in ToSet(<<t>>)
      BY DEF ToSet
    <3> QED
      BY <2>3, <3>1, <3>2
  <2> QED
    BY <2>3, <2>5, <2>6
<1>7. \A q \in Requests : pc[q] \in Working => q = r
  BY <1>1 DEF Baton, OneWorks, Works, Working
<1>8. CASE ~\E s \in Steps : Task(r, s).is = "awaiting"
  <2>1. Goes(r, "refresh") /\ row'.status = "running"
    BY <1>8 DEF Advance, Save
  <2>2. OwedOnly(ToSet(next))
    BY <1>5, <1>6 DEF OwedOnly
  <2> QED
    BY <1>1, <1>7, <2>1, <2>2, WorkerOwing
<1>9. CASE \E s \in Steps : Task(r, s).is = "awaiting"
  <2>1. Goes(r, "done") /\ row'.status = "paused"
    BY <1>9 DEF Advance, Save
  <2>2. PICK s \in Steps : Task(r, s).is = "awaiting"
    BY <1>9
  <2>3. PICK x0 : x0 = Task(r, s).exec
    OBVIOUS
  <2>4. x0 \in DOMAIN execs /\ Running(x0) /\ execs[x0].step = s /\ s \in ToSet(my[r].frontier)
    BY <1>1, <1>2, <2>2, <2>3 DEF GateInv, AllHeld, HeldOK, BatchOwes, EndOK
  <2>5. Head(next) = s
    BY <1>1, <2>1, <2>4 DEF WaitsInFront, Running
  <2>6. s \in ToSet(Continuation(r, s, holding))
    <3>1. Continuation(r, s, holding) = <<s>>
      BY <2>2 DEF Continuation
    <3> QED
      BY <3>1 DEF ToSet
  <2>7. next # <<>>
    <3>1. s \in ToSet(next)
      BY <1>5, <2>4, <2>6
    <3>2. ToSet(<<>>) = {}
      BY DEF ToSet
    <3> QED
      BY <3>1, <3>2
  <2>8. ASSUME NEW x \in DOMAIN execs, ~Running(x), NEW t \in Due(x), ~Followed(x, t)
        PROVE  t \in ToSet(Tail(next))
    <3>1. PICK u \in ToSet(my[r].frontier) :
            Task(r, u).is \in {"completed", "rerouted"} /\ t \in ToSet(Continuation(r, u, holding))
      BY <1>6, <2>8
    <3>2. u # s
      BY <2>2, <3>1
    <3>3. Before(next, t, s) \/ Before(next, s, t)
      BY <1>5, <2>4, <2>6, <3>1, <3>2
    <3> QED
      BY <1>5, <2>5, <3>3, TailHolds
  <2>9. OwedOnly(ToSet(Tail(next)))
    BY <2>8 DEF OwedOnly
  <2> QED
    BY <1>1, <1>7, <2>1, <2>7, <2>9, WorkerOwing
<1> QED
  BY <1>8, <1>9

(* The step that waited is settled: what its execution is owed takes its    *)
(* place in the frontier.                                                  *)
LEMMA SettleOwing ==
  ASSUME TypeOK, FrontierType, Baton, GateInv, Owing, WaitsInFront,
         NEW r \in Requests, ApproveStep(r) \/ RejectStep(r)
  PROVE  Owing'
<1>1. pc[r] = "settle" /\ UNCHANGED <<row, batch, answer>> /\ row.status = "paused"
  BY DEF ApproveStep, RejectStep, Moves, Baton, StatusOK
<1>2. PauseRunsOK
  BY <1>1 DEF GateInv, RunsOK
<1>3. PICK x0 : x0 = my[r].step_exec
  OBVIOUS
<1>4. x0 \in DOMAIN execs /\ Running(x0) /\ my[r].frontier = row.frontier
      /\ \A x \in DOMAIN execs : Running(x) => x = x0
  BY <1>1, <1>2, <1>3 DEF PauseRunsOK
<1>5. ~NoneRuns /\ execs[x0].step = Head(my[r].frontier)
  BY <1>1, <1>4 DEF NoneRuns, WaitsInFront
<1>6. my[r].frontier # <<>> /\ OwedOnly(ToSet(Tail(my[r].frontier)))
  BY <1>1, <1>4, <1>5 DEF Owing
<1> DEFINE h == Head(my[r].frontier)
           state == IF answer[r] = "approved" THEN "completed" ELSE "failed"
<1>7. h \in Steps /\ Tail(my[r].frontier) \in Seq(Steps)
  BY <1>6, HeadTailProperties DEF FrontierType
<1>8. x0 # 0 /\ execs' = [execs EXCEPT ![x0].state = state]
  <2>1. x0 # 0
    BY <1>4, LenProperties DEF TypeOK
  <2> QED
    BY <1>3, <2>1 DEF ApproveStep, RejectStep, Settles
<1>9. state \in {"completed", "failed"} /\ (state = "completed" <=> answer[r] = "approved")
  OBVIOUS
<1> HIDE DEF state
<1>10. /\ DOMAIN execs' = DOMAIN execs
       /\ \A y \in DOMAIN execs :
            /\ execs'[y].step = execs[y].step
            /\ execs'[y].state = IF y = x0 THEN state ELSE execs[y].state
  BY <1>4, <1>8, StatePointwise
<1>11. NoneRuns'
  BY <1>4, <1>9, <1>10 DEF NoneRuns, Running
<1>12. \A x \in DOMAIN execs : /\ x # x0 => ~Running(x) /\ Due(x)' = Due(x)
                               /\ \A t : Followed(x, t)' <=> Followed(x, t)
  BY <1>4, <1>10 DEF Due, Followed
(* What the settled execution is owed. *)
<1>13. Due(x0)' = IF state = "failed" THEN {Fallback[h]}
                  ELSE {t \in ToSet(Out[h]) : <<h, t>> \notin Conditional}
  BY <1>4, <1>5, <1>10 DEF Due
<1>14. ASSUME NEW steps \in Seq(Steps), \A t \in Due(x0)' : t \in ToSet(steps),
              Goes(r, "save"), Replaces(r, steps)
       PROVE  pc'[r] = "save" /\ OwedOnly(ToSet(my[r].frontier))'
  <2>0. PICK rest \in Seq(Steps) : rest = Tail(my[r].frontier)
    BY <1>7
  <2>1. my'[r].frontier = rest \o steps /\ pc'[r] = "save"
    BY <1>14, <2>0 DEF Replaces, Copy, Goes, TypeOK
  <2>2. ToSet(rest) \subseteq ToSet(rest \o steps) /\ ToSet(steps) \subseteq ToSet(rest \o steps)
    <3>1. /\ \A k \in DOMAIN rest : k \in DOMAIN (rest \o steps) /\ (rest \o steps)[k] = rest[k]
          /\ \A l \in DOMAIN steps : Len(rest) + l \in DOMAIN (rest \o steps)
                                   /\ (rest \o steps)[Len(rest) + l] = steps[l]
      BY <1>14, ConcatFacts
    <3> QED
      BY <3>1 DEF ToSet
  <2>3. ASSUME NEW x \in DOMAIN execs', NEW t \in Due(x)'
        PROVE  Followed(x, t)' \/ t \in ToSet(rest \o steps)
    <3>1. CASE x = x0
      BY <1>14, <2>2, <2>3, <3>1
    <3>2. CASE x # x0
      <4>1. Followed(x, t) \/ t \in ToSet(rest)
        BY <1>6, <1>10, <1>12, <2>0, <2>3, <3>2 DEF OwedOnly
      <4> QED
        BY <1>10, <1>12, <2>2, <4>1
    <3> QED
      BY <3>1, <3>2
  <2> QED
    BY <2>1, <2>3 DEF OwedOnly
<1>15. /\ pc'[r] \in {"save", "fail"}
       /\ pc'[r] = "save" => OwedOnly(ToSet(my[r].frontier))'
  <2>1. CASE ApproveStep(r)
    <3>1. PICK holding : Replaces(r, Successors(h, holding))
      BY <2>1 DEF ApproveStep
    <3>2. state = "completed" /\ Goes(r, "save")
      BY <1>9, <2>1 DEF ApproveStep, Moves
    <3>3. Successors(h, holding) \in Seq(Steps) /\ \A t \in Due(x0)' : t \in ToSet(Successors(h, holding))
      BY <1>7, <1>13, <3>2, SuccessorsFacts
    <3> QED
      BY <1>14, <3>1, <3>2, <3>3
  <2>2. CASE RejectStep(r)
    <3>1. state = "failed"
      BY <1>9, <2>2 DEF RejectStep
    <3>2. CASE Fallback[h] = NoStep
      <4>1. Goes(r, "fail")
        BY <2>2, <3>2 DEF RejectStep
      <4> QED
        BY <4>1 DEF Goes, TypeOK
    <3>3. CASE Fallback[h] # NoStep
      <4>1. Goes(r, "save") /\ Replaces(r, <<Fallback[h]>>) /\ Fallback[h] \in Steps
        BY <1>7, <2>2, <3>3, GraphIsValid DEF RejectStep
      <4>2. <<Fallback[h]>> \in Seq(Steps) /\ Fallback[h] \in ToSet(<<Fallback[h]>>)
        BY <4>1 DEF ToSet
      <4> QED
        BY <1>13, <1>14, <3>1, <4>1, <4>2
    <3> QED
      BY <3>2, <3>3
  <2> QED
    BY <2>1, <2>2
<1>16. \A q \in Requests : pc'[q] \in {"start", "refresh", "batch", "complete", "save"} => q = r
  <2>1. \A q \in Requests \ {r} : pc'[q] = pc[q]
    BY DEF ApproveStep, RejectStep, Moves, Goes, TypeOK
  <2> QED
    BY <1>1, <2>1 DEF Baton, OneWorks, Works, Working
<1> QED
  BY <1>1, <1>11, <1>15, <1>16 DEF Owing

(* A batch of the frontier: every step of it is queued. *)
LEMMA RefreshOwing ==
  ASSUME TypeOK, FrontierType, Baton, GateInv, Owing, NEW r \in Requests, Refresh(r)
  PROVE  Owing'
<1>1. /\ pc[r] = "refresh" /\ row.status = "running" /\ NoneRuns /\ OwedOnly(ToSet(row.frontier))
      /\ UNCHANGED <<row, execs>>
  BY DEF Refresh, records, Baton, StatusOK, GateInv, RunsOK, Owing
<1>2. PICK to \in {"batch", "complete"} : Goes(r, to) /\ (to = "complete" => row.frontier = <<>>)
  BY <1>1 DEF Refresh
<1>3. \A q \in Requests : pc'[q] = IF q = r THEN to ELSE pc[q]
  BY <1>2 DEF Goes, TypeOK
<1>4. \A q \in Requests : pc'[q] \in {"start", "refresh", "batch", "complete", "save"} => q = r /\ pc'[q] = to
  BY <1>1, <1>3 DEF Baton, OneWorks, Works, Working
<1>5. \A s \in Steps : Task(r, s)' = IF s \in ToSet(row.frontier) THEN NewTask ELSE NoTask
  BY <1>1 DEF Refresh, Task, TypeOK
<1>6. NewTask.is = "queued" /\ NoTask.is = "none"
  BY DEF NewTask, NoTask
<1>7. /\ NoneRuns' /\ (\A ahead : OwedOnly(ahead) => OwedOnly(ahead)')
      /\ \A x \in DOMAIN execs : Due(x)' = Due(x) /\ \A t : Followed(x, t)' <=> Followed(x, t)
  BY <1>1, OwedKept
<1>8. to = "complete" => OwedOnly({})'
  <2>1. ToSet(<<>>) = {}
    BY DEF ToSet
  <2> QED
    BY <1>1, <1>2, <1>7, <2>1
<1>9. BatchOwes(r)'
  <2>1. ASSUME NEW x \in DOMAIN execs', NEW t \in Due(x)'
        PROVE  Followed(x, t)' \/ (t \in Steps /\ Task(r, t)'.is = "queued")
    <3>1. Followed(x, t) \/ t \in ToSet(row.frontier)
      BY <1>1, <1>7, <2>1 DEF OwedOnly, NoneRuns
    <3>2. ToSet(row.frontier) \subseteq Steps
      BY DEF FrontierType, ToSet
    <3> QED
      BY <1>1, <1>5, <1>6, <1>7, <3>1, <3>2
  <2>2. \A s \in Steps : Task(r, s)'.is \in {"none", "queued"}
    BY <1>5, <1>6
  <2> QED
    BY <2>1, <2>2 DEF BatchOwes, EndOK
<1> QED
  BY <1>1, <1>2, <1>4, <1>7, <1>8, <1>9 DEF Owing

LEMMA TaskActsOwing ==
  ASSUME TypeOK, Baton, Owing, NEW r \in Requests, NEW s \in Steps, TaskActs(r, s),
         pc'[r] = "batch" => BatchOwes(r)'
  PROVE  Owing'
<1>1. Works(r) /\ Task(r, s).is # "none"
  BY DEF TaskActs, Works, Active, Executing
<1>2. pc[r] \in {"batch", "fail", "done"}
  BY <1>1 DEF TaskActs, Baton, TasksOK, TaskOK, StatusOK, TypeOK, Places
<1>3. row.status \notin {"paused", "absent", "completed"}
  BY <1>1, <1>2 DEF Baton, AnswersOK, StatusOK, TasksOK, TaskOK, Owing
<1>4. \A q \in Requests : pc'[q] \in {"start", "refresh", "batch", "complete", "save"} => q = r /\ pc'[q] = "batch"
  BY <1>1, <1>2 DEF TaskActs, Baton, OneWorks, Works, Working
<1>5. row' = row
  BY DEF TaskActs
<1> QED
  BY <1>3, <1>4, <1>5 DEF Owing

LEMMA BeginOwing ==
  ASSUME TypeOK, Baton, Owing, NEW r \in Requests, NEW s \in Steps, BeginStep(r, s)
  PROVE  Owing'
<1> DEFINE new == [step |-> s, state |-> "running", approval |-> "none", answers |-> <<>>]
           task == [is |-> "running", exec |-> Len(execs')]
<1>1. new \in Execution /\ execs \in Seq(Execution) /\ execs' = Append(execs, new)
  BY DEF Execution, BeginStep, TypeOK
<1>2. PICK x : x = Len(execs) + 1
  OBVIOUS
<1>3. /\ Len(execs) \in Nat /\ DOMAIN execs = 1..Len(execs) /\ Len(execs') = x
      /\ DOMAIN execs' = DOMAIN execs \cup {x} /\ \A y \in DOMAIN execs : x > y
      /\ \A y \in DOMAIN execs : execs'[y] = execs[y]
      /\ execs'[x].step = s
  BY <1>1, <1>2, AppendProperties, LenProperties
<1>4. batch' = [batch EXCEPT ![r] = [@ EXCEPT ![s] = task]]
  BY DEF BeginStep
<1>5. Task(r, s)' = task /\ \A q \in Requests, t \in Steps : ~(q = r /\ t = s) => Task(q, t)' = Task(q, t)
  BY <1>4 DEF Task, TypeOK
<1>6. Task(r, s).is = "queued" /\ Task(r, s)'.is = "running" /\ Task(r, s)'.exec = x
      /\ UNCHANGED <<row, my, pc>>
  BY <1>3, <1>5 DEF BeginStep
<1>7. TaskActs(r, s)
  BY <1>5, <1>6 DEF TaskActs, Active
<1> HIDE DEF new, task
<1>8. ASSUME pc'[r] = "batch" PROVE BatchOwes(r)'
  <2>1. BatchOwes(r)
    BY <1>6, <1>8 DEF Owing
  <2>2. ASSUME NEW y \in DOMAIN execs', ~Owns(r, y)', NEW t \in Due(y)'
        PROVE  Followed(y, t)' \/ (t \in Steps /\ Task(r, t)'.is = "queued")
    <3>1. y # x
      BY <1>6, <2>2 DEF Owns
    <3>2. y \in DOMAIN execs /\ execs'[y] = execs[y]
      BY <1>3, <3>1
    <3>3. ~Owns(r, y)
      BY <1>5, <1>6, <2>2 DEF Owns
    <3>4. Due(y)' = Due(y)
      BY <3>2 DEF Due
    <3>5. CASE Followed(y, t)
      BY <1>3, <3>5 DEF Followed
    <3>6. CASE t = s
      BY <1>3, <3>2, <3>6 DEF Followed
    <3>7. CASE t \in Steps /\ t # s /\ Task(r, t).is = "queued"
      BY <1>5, <3>7
    <3> QED
      BY <2>1, <2>2, <3>2, <3>3, <3>4, <3>5, <3>6, <3>7 DEF BatchOwes
  <2>3. ASSUME NEW u \in Steps PROVE EndOK(r, u)'
    <3>1. CASE u = s
      BY <1>6, <3>1 DEF EndOK
    <3>2. CASE u # s
      <4>1. EndOK(r, u) /\ Task(r, u)' = Task(r, u)
        BY <1>5, <2>1, <3>2 DEF BatchOwes
      <4> QED
        BY <1>3, <4>1 DEF EndOK
    <3> QED
      BY <3>1, <3>2
  <2> QED
    BY <2>2, <2>3 DEF BatchOwes
<1> QED
  BY <1>7, <1>8, TaskActsOwing

LEMMA TaskOwing ==
  ASSUME TypeOK, Baton, Owing, NEW r \in Requests, NEW s \in Steps,
         \/ CompleteStep(r, s) \/ FailStep(r, s) \/ RequestApproval(r, s)
         \/ StoreReference(r, s) \/ AwaitApproval(r, s) \/ StepErrs(r, s)
  PROVE  Owing'
<1>0. PICK x : x = Task(r, s).exec
  OBVIOUS
<1>1. Task(r, s).is \in Executing
  BY DEF CompleteStep, FailStep, RequestApproval, StoreReference, AwaitApproval, StepErrs, Executing
<1>2. x \in DOMAIN execs /\ execs[x].step = s
  BY <1>0, <1>1 DEF TypeOK
<1>3. PICK is : Becomes(r, s, is)
  BY DEF CompleteStep, FailStep, RequestApproval, StoreReference, AwaitApproval, StepErrs
<1>4. /\ Task(r, s)'.is = is /\ Task(r, s)'.exec = x
      /\ \A q \in Requests, t \in Steps : ~(q = r /\ t = s) => Task(q, t)' = Task(q, t)
  BY <1>0, <1>3, BecomesPointwise
<1>5. TaskActs(r, s)
  BY <1>1, <1>4 DEF CompleteStep, FailStep, RequestApproval, StoreReference, AwaitApproval, StepErrs,
                    Goes, TypeOK, TaskActs, Active
<1>6. CASE StepErrs(r, s)
  <2>1. pc'[r] # "batch"
    BY <1>6 DEF StepErrs, Goes, TypeOK
  <2> QED
    BY <1>5, <2>1, TaskActsOwing
<1>7. CASE ~StepErrs(r, s)
  <2>1. pc' = pc /\ is \notin {"none", "queued"} /\ Task(r, s).is \notin {"none", "queued"}
    <3>1. Task(r, s)'.is \notin {"none", "queued"}
      BY <1>7, BecomesPointwise DEF CompleteStep, FailStep, RequestApproval, StoreReference, AwaitApproval
    <3> QED
      BY <1>1, <1>4, <1>7, <3>1 DEF CompleteStep, FailStep, RequestApproval, StoreReference, AwaitApproval,
                                 Executing
  <2>2. /\ DOMAIN execs' = DOMAIN execs
        /\ \A y \in DOMAIN execs :
             /\ execs'[y].step = execs[y].step
             /\ y # x => execs'[y].state = execs[y].state
        /\ is = "completed" => execs'[x].state = "completed"
        /\ is = "rerouted" => execs'[x].state = "failed"
    <3>1. CASE RequestApproval(r, s) \/ StoreReference(r, s)
      <4>1. Task(r, s)'.is \in {"asking", "asked"}
        BY <3>1, BecomesPointwise DEF RequestApproval, StoreReference
      <4>2. execs' = [execs EXCEPT ![x].approval = "pending"]
        BY <1>0, <3>1 DEF RequestApproval, StoreReference
      <4>3. /\ DOMAIN execs' = DOMAIN execs
            /\ \A y \in DOMAIN execs : execs'[y].step = execs[y].step /\ execs'[y].state = execs[y].state
        BY <1>2, <4>2, PendingPointwise
      <4> QED
        BY <1>2, <1>4, <4>1, <4>3
    <3>2. CASE AwaitApproval(r, s)
      <4>1. Task(r, s)'.is = "awaiting"
        BY <3>2, BecomesPointwise DEF AwaitApproval
      <4>2. execs' = [execs EXCEPT ![x].state = "running"]
        BY <1>0, <3>2 DEF AwaitApproval, Records
      <4>3. /\ DOMAIN execs' = DOMAIN execs
            /\ \A y \in DOMAIN execs :
                 /\ execs'[y].step = execs[y].step
                 /\ execs'[y].state = IF y = x THEN "running" ELSE execs[y].state
        BY <1>2, <4>2, StatePointwise
      <4> QED
        BY <1>2, <1>4, <4>1, <4>3
    <3>3. CASE CompleteStep(r, s)
      <4>1. Task(r, s)'.is = "completed"
        BY <3>3, BecomesPointwise DEF CompleteStep
      <4>2. execs' = [execs EXCEPT ![x].state = "completed"]
        BY <1>0, <3>3 DEF CompleteStep, Records
      <4>3. /\ DOMAIN execs' = DOMAIN execs
            /\ \A y \in DOMAIN execs :
                 /\ execs'[y].step = execs[y].step
                 /\ execs'[y].state = IF y = x THEN "completed" ELSE execs[y].state
        BY <1>2, <4>2, StatePointwise
      <4> QED
        BY <1>2, <1>4, <4>1, <4>3
    <3>4. CASE FailStep(r, s)
      <4>1. Task(r, s)'.is \in {"raised", "rerouted"}
        BY <3>4, BecomesPointwise DEF FailStep
      <4>2. execs' = [execs EXCEPT ![x].state = "failed"]
        BY <1>0, <3>4 DEF FailStep, Records
      <4>3. /\ DOMAIN execs' = DOMAIN execs
            /\ \A y \in DOMAIN execs :
                 /\ execs'[y].step = execs[y].step
                 /\ execs'[y].state = IF y = x THEN "failed" ELSE execs[y].state
        BY <1>2, <4>2, StatePointwise
      <4> QED
        BY <1>2, <1>4, <4>1, <4>3
    <3> QED
      BY <1>7, <3>1, <3>2, <3>3, <3>4
  <2>3. ASSUME pc'[r] = "batch" PROVE BatchOwes(r)'
    <3>1. BatchOwes(r)
      BY <2>1, <2>3 DEF Owing
    <3>2. \A y \in DOMAIN execs : Owns(r, y) => Owns(r, y)'
      BY <1>0, <1>4, <2>1 DEF Owns
    <3>3. Owns(r, x)'
      BY <1>4, <2>1 DEF Owns
    <3>4. ASSUME NEW y \in DOMAIN execs', ~Owns(r, y)', NEW t \in Due(y)'
          PROVE  Followed(y, t)' \/ (t \in Steps /\ Task(r, t)'.is = "queued")
      <4>1. y \in DOMAIN execs /\ y # x /\ ~Owns(r, y)
        BY <2>2, <3>2, <3>3, <3>4
      <4>2. Due(y)' = Due(y)
        BY <2>2, <4>1 DEF Due
      <4>3. Followed(y, t) => Followed(y, t)'
        BY <2>2 DEF Followed
      <4> QED
        BY <1>4, <2>1, <3>1, <3>4, <4>1, <4>2, <4>3 DEF BatchOwes
    <3>5. ASSUME NEW u \in Steps PROVE EndOK(r, u)'
      <4>1. CASE u = s
        BY <1>2, <1>4, <2>2, <4>1 DEF EndOK
      <4>2. CASE u # s
        <5>1. EndOK(r, u) /\ Task(r, u)' = Task(r, u)
          BY <1>4, <3>1, <4>2 DEF BatchOwes
        <5>2. Task(r, u).is \in {"awaiting", "completed", "rerouted"} =>
                Task(r, u).exec \in DOMAIN execs /\ Task(r, u).exec # x
          BY <1>2, <4>2, <5>1 DEF EndOK
        <5> QED
          BY <2>2, <5>1, <5>2 DEF EndOK
      <4> QED
        BY <4>1, <4>2
    <3> QED
      BY <3>4, <3>5 DEF BatchOwes
  <2> QED
    BY <1>5, <2>3, TaskActsOwing
<1> QED
  BY <1>6, <1>7

LEMMA CrashOwing ==
  ASSUME TypeOK, Owing, NEW dead \in SUBSET Requests, Crash(dead)
  PROVE  Owing'
<1>1. /\ UNCHANGED <<row, execs, my, answer>>
      /\ \A q \in Requests : pc'[q] = pc[q] \/ pc'[q] = "done"
      /\ \A q \in dead : pc'[q] \in {"idle", "done"}
      /\ \A q \in Requests \ dead : pc'[q] = pc[q]
  BY DEF Crash, records
<1>2. \A q \in Requests, s \in Steps :
        Task(q, s)' = IF q \in dead THEN NoTask ELSE Task(q, s)
  BY DEF Crash, Task
<1>3. NoTask.is = "none" /\ "none" \notin Active
  BY DEF NoTask, Active, Executing
<1>4. NoneRuns' <=> NoneRuns
  BY <1>1 DEF NoneRuns, Running
<1>5. \A ahead : OwedOnly(ahead) => OwedOnly(ahead)'
  BY <1>1, OwedKept
<1>6. ASSUME NEW q \in Requests, pc'[q] = "batch" PROVE BatchOwes(q)'
  <2>1. pc[q] = "batch" /\ q \notin dead
    BY <1>1, <1>6
  <2> QED
    BY <1>1, <1>2, <2>1, BatchKept DEF Owing
<1>7. \A q \in Requests : Works(q)' => Works(q)
  BY <1>1, <1>2, <1>3 DEF Works, Working
<1>8. ASSUME NEW q \in Requests, pc'[q] = "refresh" PROVE OwedOnly(ToSet(row.frontier))'
  <2>1. PICK ahead : ahead = ToSet(row.frontier)
    OBVIOUS
  <2>2. OwedOnly(ahead)'
    BY <1>1, <1>5, <1>8, <2>1 DEF Owing
  <2> QED
    BY <1>1, <2>1, <2>2
<1>9. ASSUME NEW q \in Requests, pc'[q] = "save" PROVE OwedOnly(ToSet(my[q].frontier))'
  <2>1. PICK ahead : ahead = ToSet(my[q].frontier)
    OBVIOUS
  <2>2. OwedOnly(ahead)'
    BY <1>1, <1>5, <1>9, <2>1 DEF Owing
  <2> QED
    BY <1>1, <2>1, <2>2
<1>10. ASSUME row'.status = "paused", ~NoneRuns' PROVE OwedOnly(ToSet(Tail(row.frontier)))'
  <2>1. PICK ahead : ahead = ToSet(Tail(row.frontier))
    OBVIOUS
  <2>2. OwedOnly(ahead)'
    BY <1>1, <1>4, <1>5, <1>10, <2>1 DEF Owing
  <2> QED
    BY <1>1, <2>1, <2>2
<1> QED
  BY <1>1, <1>4, <1>5, <1>6, <1>7, <1>8, <1>9, <1>10 DEF Owing

LEMMA StutterOwing == Owing /\ UNCHANGED vars => Owing'
<1> SUFFICES ASSUME Owing, UNCHANGED vars PROVE Owing'
  OBVIOUS
<1>1. UNCHANGED <<row, execs, pc, my, batch>>
  BY DEF vars, records, requests
<1>2. NoneRuns' <=> NoneRuns
  BY <1>1 DEF NoneRuns, Running
<1>3. \A ahead : OwedOnly(ahead)' <=> OwedOnly(ahead)
  BY <1>1 DEF OwedOnly, Running, Due, Followed
<1>4. \A r \in Requests : BatchOwes(r)' <=> BatchOwes(r)
  <2>1. \A r, s : Task(r, s)' = Task(r, s)
    BY <1>1 DEF Task
  <2>2. \A x : Due(x)' = Due(x) /\ \A u : Followed(x, u)' <=> Followed(x, u)
    BY <1>1 DEF Due, Followed
  <2>3. \A r, x : Owns(r, x)' <=> Owns(r, x)
    BY <2>1 DEF Owns
  <2>4. \A r, s : EndOK(r, s)' <=> EndOK(r, s)
    BY <1>1, <2>1 DEF EndOK
  <2> QED
    BY <1>1, <2>1, <2>2, <2>3, <2>4 DEF BatchOwes
<1>5. \A r \in Requests : Works(r)' <=> Works(r)
  BY <1>1 DEF Works, Task
<1>6. OwedOnly(ToSet(Tail(row.frontier)))' <=> OwedOnly(ToSet(Tail(row.frontier)))
  <2>1. PICK ahead : ahead = ToSet(Tail(row.frontier))
    OBVIOUS
  <2> QED
    BY <1>1, <1>3, <2>1
<1>7. OwedOnly(ToSet(row.frontier))' <=> OwedOnly(ToSet(row.frontier))
  <2>1. PICK ahead : ahead = ToSet(row.frontier)
    OBVIOUS
  <2> QED
    BY <1>1, <1>3, <2>1
<1>8. \A r \in Requests :
        OwedOnly(ToSet(my[r].frontier))' <=> OwedOnly(ToSet(my[r].frontier))
  <2> TAKE r \in Requests
  <2>1. PICK ahead : ahead = ToSet(my[r].frontier)
    OBVIOUS
  <2> QED
    BY <1>1, <1>3, <2>1
<1>9. OwedOnly({})' <=> OwedOnly({})
  BY <1>3
<1> QED
  BY <1>1, <1>2, <1>4, <1>5, <1>6, <1>7, <1>8, <1>9 DEF Owing

LEMMA NextOwing ==
  ASSUME Controls = {}
  PROVE  TypeOK /\ FrontierType /\ Baton /\ GateInv /\ Owing /\ OneWaits
         /\ WaitsInFront /\ WaitsInFront' /\ [Next]_vars => Owing'
<1> SUFFICES ASSUME TypeOK, FrontierType, Baton, GateInv, Owing, OneWaits, WaitsInFront, WaitsInFront',
                    [Next]_vars
             PROVE  Owing'
  OBVIOUS
<1>1. ASSUME NEW r \in Requests, RequestAction(r) PROVE Owing'
  <2>1. ~Override(r)
    BY DEF Override, Moves, Baton, StatusOK
  <2> QED
    BY <1>1, <2>1, SimpleMovesOwing, RefreshOwing, AdvanceOwing, SettleOwing DEF RequestAction
<1>2. ASSUME NEW r \in Requests,
             \/ CreateInstance(r) \/ RequestErrs(r)
             \/ \E x \in DOMAIN execs, d \in {"approved", "rejected"} : Decide(r, x, d)
      PROVE  Owing'
  BY <1>2, SimpleMovesOwing
<1>3. ASSUME NEW r \in Requests, ReadForPause(r) \/ ReadForTerminate(r) \/ ReadForResume(r)
      PROVE  FALSE
  BY <1>3 DEF ReadForPause, ReadForTerminate, ReadForResume
<1>4. ASSUME NEW r \in Requests, NEW s \in Steps, StepAction(r, s) \/ StepErrs(r, s)
      PROVE  Owing'
  BY <1>4, BeginOwing, TaskOwing DEF StepAction
<1>5. ASSUME NEW dead \in SUBSET Requests, Crash(dead) PROVE Owing'
  BY <1>5, CrashOwing
<1>6. CASE UNCHANGED vars
  BY <1>6, StutterOwing
<1> QED
  BY <1>1, <1>2, <1>3, <1>4, <1>5, <1>6 DEF Next

(* On the same graphs, an instance that has completed has dropped no       *)
(* branch: whatever an execution that has ended is owed was executed after *)
(* it, through every pause, rejection and replanned step (core/            *)
(* scheduler.py, _run and resume_after_approval).                          *)
THEOREM NothingSkippedHolds ==
  ASSUME Controls = {}
  PROVE  Safety /\ []OneWaits /\ []AnsweredOnce /\ []WaitsInFront => []NothingSkipped
<1>1. Init => Baton /\ GateInv /\ FrontierType /\ Owing
  BY InitBaton, InitGate, InitFrontier, InitOwing
<1>2. TypeOK /\ Baton /\ OneWaits' /\ AnsweredOnce' /\ [Next]_vars => Baton'
  BY NextBaton
<1>3. TypeOK /\ Baton /\ GateInv /\ OneWaits /\ OneWaits' /\ AnsweredOnce' /\ WaitsInFront
      /\ [Next]_vars => GateInv'
  BY NextGate
<1>4. TypeOK /\ FrontierType /\ [Next]_vars => FrontierType'
  BY NextFrontierType
<1>5. TypeOK /\ FrontierType /\ Baton /\ GateInv /\ Owing /\ OneWaits
      /\ WaitsInFront /\ WaitsInFront' /\ [Next]_vars => Owing'
  BY NextOwing
<1>6. Owing => NothingSkipped
  BY OwingSuffices
<1> QED
  BY <1>1, <1>2, <1>3, <1>4, <1>5, <1>6, TypeCorrect, PTL DEF Safety

-----------------------------------------------------------------------------
(* The hypotheses from the graph.                                          *)

(* No approval is answered more often than the bound on callbacks allows.  *)
AnswersBounded == \A x \in DOMAIN execs : Len(execs[x].answers) <= MaxAnswers

LEMMA NextBounded == TypeOK /\ AnswersBounded /\ [Next]_vars => AnswersBounded'
<1> SUFFICES ASSUME TypeOK, AnswersBounded, [Next]_vars PROVE AnswersBounded'
  OBVIOUS
<1>1. AnswersKept => AnswersBounded'
  BY DEF AnswersKept, AnswersBounded
<1>2. UNCHANGED execs => AnswersBounded'
  BY DEF AnswersBounded
<1>3. ASSUME NEW r \in Requests, RequestAction(r) PROVE AnswersBounded'
  <2>1. CASE ApproveStep(r) \/ RejectStep(r)
    BY <1>1, <2>1, SettlesKeepsAnswers DEF ApproveStep, RejectStep, Moves
  <2>2. CASE ~(ApproveStep(r) \/ RejectStep(r))
    BY <1>2, <1>3, <2>2
       DEF RequestAction, Start, Refresh, Advance, BatchRaises, SaveFailed, SaveCompleted, Override,
           ReadForCallback, FindExecution, NothingToResume, SaveResumed, records
  <2> QED
    BY <2>1, <2>2
<1>4. ASSUME NEW r \in Requests,
             \/ CreateInstance(r) \/ RequestErrs(r)
             \/ ReadForPause(r) \/ ReadForTerminate(r) \/ ReadForResume(r)
      PROVE  AnswersBounded'
  BY <1>2, <1>4 DEF CreateInstance, RequestErrs, ReadForPause, ReadForTerminate, ReadForResume, records
<1>5. ASSUME NEW r \in Requests, NEW x \in DOMAIN execs, NEW d \in {"approved", "rejected"},
             Decide(r, x, d)
      PROVE  AnswersBounded'
  <2>1. /\ DOMAIN execs' = DOMAIN execs
        /\ \A y \in DOMAIN execs : y # x => execs'[y].answers = execs[y].answers
        /\ execs'[x].answers = Append(execs[x].answers, d)
    BY <1>5, DecidePointwise
  <2>2. execs[x].answers \in Seq({"approved", "rejected"})
    BY ExecutionType DEF TypeOK, Execution
  <2>3. Len(execs[x].answers) \in Nat /\ Len(execs'[x].answers) = Len(execs[x].answers) + 1
    BY <2>1, <2>2, AppendProperties, LenProperties
  <2>4. Len(execs'[x].answers) <= MaxAnswers
    BY <1>5, <2>3, BoundsNatural DEF Decide
  <2> QED
    BY <2>1, <2>4 DEF AnswersBounded
<1>6. ASSUME NEW r \in Requests, NEW s \in Steps, StepAction(r, s) \/ StepErrs(r, s)
      PROVE  AnswersBounded'
  <2>1. CASE BeginStep(r, s)
    <3> DEFINE new == [step |-> s, state |-> "running", approval |-> "none", answers |-> <<>>]
    <3>1. new \in Execution /\ execs \in Seq(Execution) /\ execs' = Append(execs, new)
      BY <2>1 DEF Execution, BeginStep, TypeOK
    <3>2. /\ Len(execs) \in Nat /\ DOMAIN execs = 1..Len(execs) /\ DOMAIN execs' = 1..(Len(execs) + 1)
          /\ \A y \in DOMAIN execs : execs'[y] = execs[y]
          /\ execs'[Len(execs) + 1].answers = <<>>
      BY <3>1, AppendProperties, LenProperties
    <3>3. Len(<<>>) <= MaxAnswers
      BY BoundsNatural
    <3> HIDE DEF new
    <3> QED
      BY <3>2, <3>3 DEF AnswersBounded
  <2>2. CASE ~BeginStep(r, s)
    <3>1. PICK x : x = Task(r, s).exec
      OBVIOUS
    <3>2. UNCHANGED execs \/ x \in DOMAIN execs
      BY <1>6, <2>2, <3>1 DEF StepAction, StepErrs, CompleteStep, FailStep, RequestApproval, StoreReference,
                            AwaitApproval, Executing, TypeOK
    <3>3. \/ UNCHANGED execs
          \/ execs' = [execs EXCEPT ![x].approval = "pending"]
          \/ \E state : execs' = [execs EXCEPT ![x].state = state]
      BY <1>6, <2>2, <3>1 DEF StepAction, StepErrs, CompleteStep, FailStep, RequestApproval, StoreReference,
                            AwaitApproval, Records
    <3>4. AnswersKept \/ \A y \in DOMAIN execs' : y \in DOMAIN execs /\ execs'[y].answers = execs[y].answers
      BY <3>2, <3>3, PendingPointwise, RecordKeepsAnswers
    <3> QED
      BY <1>1, <3>4 DEF AnswersBounded
  <2> QED
    BY <2>1, <2>2
<1>7. ASSUME NEW dead \in SUBSET Requests, Crash(dead) PROVE AnswersBounded'
  BY <1>2, <1>7 DEF Crash, records
<1>8. CASE UNCHANGED vars
  BY <1>2, <1>8 DEF vars, records
<1> QED
  BY <1>3, <1>4, <1>5, <1>6, <1>7, <1>8 DEF Next

LEMMA BoundedAlways == Safety => []AnswersBounded
<1>1. Init => AnswersBounded
  BY DEF Init, AnswersBounded
<1> QED
  BY <1>1, NextBounded, TypeCorrect, PTL DEF Safety

(* Only a step that is not symbolic asks for an approval. *)
AskersOK == \A r \in Requests, s \in Steps : Waits(r, s) => Mode[s] # "symbolic"

LEMMA NextAskers == TypeOK /\ AskersOK /\ [Next]_vars => AskersOK'
<1> SUFFICES ASSUME TypeOK, AskersOK, [Next]_vars, NEW q \in Requests, NEW t \in Steps, Waits(q, t)'
             PROVE  Mode[t] # "symbolic"
  BY DEF AskersOK
<1>1. Waits(q, t) => Mode[t] # "symbolic"
  BY DEF AskersOK
<1>2. UNCHANGED batch => Mode[t] # "symbolic"
  BY <1>1 DEF Waits, Task
<1>3. ASSUME NEW r \in Requests, NEW s \in Steps, StepAction(r, s) \/ StepErrs(r, s)
      PROVE  Mode[t] # "symbolic"
  <2>1. CASE BeginStep(r, s)
    <3> DEFINE task == [is |-> "running", exec |-> Len(execs')]
    <3>1. batch' = [batch EXCEPT ![r] = [@ EXCEPT ![s] = task]]
      BY <2>1 DEF BeginStep
    <3>2. Task(r, s)' = task /\ \A p \in Requests, u \in Steps : ~(p = r /\ u = s) => Task(p, u)' = Task(p, u)
      BY <3>1 DEF Task, TypeOK
    <3> QED
      BY <1>1, <3>2 DEF Waits, Waiting
  <2>2. CASE ~BeginStep(r, s)
    <3>1. PICK is : /\ Becomes(r, s, is)
                    /\ is \in Waiting => Mode[s] # "symbolic" \/ Waits(r, s)
      BY <1>3, <2>2 DEF StepAction, StepErrs, CompleteStep, FailStep, RequestApproval, StoreReference,
                        AwaitApproval, Waits, Waiting
    <3>2. /\ Task(r, s)'.is = is
          /\ \A p \in Requests, u \in Steps : ~(p = r /\ u = s) => Task(p, u)' = Task(p, u)
      BY <3>1, BecomesPointwise
    <3> QED
      BY <1>1, <3>1, <3>2 DEF Waits
  <2> QED
    BY <2>1, <2>2
<1>4. ASSUME NEW r \in Requests, Refresh(r) PROVE Mode[t] # "symbolic"
  <2>1. Task(q, t)' = Task(q, t) \/ Task(q, t)' = NewTask \/ Task(q, t)' = NoTask
    BY <1>4 DEF Refresh, Task, TypeOK
  <2> QED
    BY <1>1, <2>1 DEF Waits, Waiting, NewTask, NoTask
<1>5. ASSUME NEW dead \in SUBSET Requests, Crash(dead) PROVE Mode[t] # "symbolic"
  <2>1. Task(q, t)' = NoTask \/ Task(q, t)' = Task(q, t)
    BY <1>5 DEF Crash, Task
  <2> QED
    BY <1>1, <2>1 DEF Waits, Waiting, NoTask
<1>6. ASSUME NEW r \in Requests,
             \/ RequestAction(r) /\ ~Refresh(r)
             \/ CreateInstance(r) \/ RequestErrs(r)
             \/ ReadForPause(r) \/ ReadForTerminate(r) \/ ReadForResume(r)
             \/ \E x \in DOMAIN execs, d \in {"approved", "rejected"} : Decide(r, x, d)
      PROVE  UNCHANGED batch
  BY <1>6 DEF RequestAction, Start, Advance, BatchRaises, SaveFailed, SaveCompleted, Override,
              ReadForCallback, FindExecution, NothingToResume, ApproveStep, RejectStep, SaveResumed,
              CreateInstance, RequestErrs, ReadForPause, ReadForTerminate, ReadForResume, Decide
<1>7. CASE UNCHANGED vars
  BY <1>2, <1>7 DEF vars, requests
<1> QED
  BY <1>2, <1>3, <1>4, <1>5, <1>6, <1>7 DEF Next

(* With one gate in the graph and each approval answered once, the two      *)
(* hypotheses hold, and with them what they entail: the lifecycle and the   *)
(* exclusion of double execution, whatever else the graph is like.         *)
THEOREM OneGateSuffices ==
  ASSUME Controls = {}, MaxAnswers <= 1,
         \A s, t \in Steps : Mode[s] # "symbolic" /\ Mode[t] # "symbolic" => s = t
  PROVE  Safety => []NoDoubleExecution /\ ImplementsLifecycle
<1>1. Init => AskersOK
  BY DEF Init, AskersOK, Waits, Waiting, Task, NoTask
<1>2. AskersOK => OneWaits
  BY DEF AskersOK, OneWaits
<1>3. TypeOK /\ AnswersBounded => AnsweredOnce
  <2> SUFFICES ASSUME TypeOK, AnswersBounded, NEW x \in DOMAIN execs PROVE Len(execs[x].answers) <= 1
    BY DEF AnsweredOnce
  <2>1. execs[x].answers \in Seq({"approved", "rejected"})
    BY ExecutionType DEF TypeOK, Execution
  <2>2. Len(execs[x].answers) \in Nat /\ Len(execs[x].answers) <= MaxAnswers
    BY <2>1, LenProperties DEF AnswersBounded
  <2> QED
    BY <2>2, BoundsNatural
<1>4. Safety => []OneWaits /\ []AnsweredOnce
  BY <1>1, <1>2, <1>3, NextAskers, BoundedAlways, TypeCorrect, PTL DEF Safety
<1>5. Safety /\ []OneWaits /\ []AnsweredOnce => []NoDoubleExecution
  BY NoDoubleExecutionHolds
<1>6. Safety /\ []OneWaits /\ []AnsweredOnce => ImplementsLifecycle
  BY ImplementsLifecycleHolds
<1> QED
  BY <1>4, <1>5, <1>6, PTL

-----------------------------------------------------------------------------
(* Workflows whose steps follow each other: no step leads to two.          *)

SingleFile ==
  /\ Len(row.frontier) <= 1
  /\ \A r \in Requests :
       /\ Len(my[r].frontier) <= 1
       /\ \A s, t \in Steps : Task(r, s).is # "none" /\ Task(r, t).is # "none" => s = t

LEMMA InitSingleFile == Init => SingleFile /\ WaitsInFront
<1> SUFFICES ASSUME Init PROVE SingleFile /\ WaitsInFront
  OBVIOUS
<1>1. \A r \in Requests, s \in Steps : Task(r, s).is = "none"
  BY DEF Init, Task, NoTask
<1>2. row.frontier = <<>> /\ row.status = "absent" /\ Len(<<>>) <= 1
  BY DEF Init
<1>3. \A r \in Requests : my[r].frontier = <<>>
  BY DEF Init, Copy
<1> QED
  BY <1>1, <1>2, <1>3 DEF SingleFile, WaitsInFront

LEMMA ShortFacts ==
  ASSUME NEW f \in Seq(Steps), Len(f) <= 1
  PROVE  /\ \A u \in ToSet(f) : u = Head(f)
         /\ f # <<>> => Tail(f) = <<>>
<1>1. Len(f) \in Nat /\ DOMAIN f = 1..Len(f)
  BY LenProperties
<1>2. \A u \in ToSet(f) : u = f[1] /\ f # <<>>
  BY <1>1 DEF ToSet
<1>3. f # <<>> => Head(f) = f[1] /\ Tail(f) \in Seq(Steps) /\ Len(Tail(f)) = Len(f) - 1
  BY HeadTailProperties
<1>4. ASSUME f # <<>> PROVE Tail(f) = <<>>
  <2>1. Len(f) # 0
    BY <1>4, EmptySeq
  <2>2. Len(Tail(f)) = 0 /\ Tail(f) \in Seq(Steps)
    BY <1>1, <1>3, <1>4, <2>1
  <2> QED
    BY <2>2, EmptySeq
<1> QED
  BY <1>2, <1>3, <1>4

LEMMA ShortFlatten ==
  ASSUME NEW n \in Nat, n <= 1, NEW seqs \in [1..n -> Seq(Steps)],
         \A i \in 1..n : Len(seqs[i]) <= 1
  PROVE  Len(FlattenSeq(seqs)) <= 1
<1>1. Len(seqs) = n
  OBVIOUS
<1>2. CASE n = 0
  BY <1>1, <1>2 DEF FlattenSeq
<1>3. CASE n # 0
  <2>1. PICK f : Flattens(f, seqs, n) /\ FlattenSeq(seqs) = f[n]
    BY <1>1, <1>3, FlattenIsLast
  <2>2. n = 1 /\ 1 \in 1..n
    BY <1>3
  <2>3. f[1] = seqs[1]
    BY <2>1, <2>2 DEF Flattens
  <2> QED
    BY <2>1, <2>2, <2>3
<1> QED
  BY <1>2, <1>3

LEMMA ShortSuccessors ==
  ASSUME NEW s \in Steps, NEW holding, Len(Out[s]) <= 1
  PROVE  Len(Successors(s, holding)) <= 1
<1> DEFINE n == Len(Out[s])
<1>1. Out[s] \in Seq(Steps) /\ n \in Nat /\ DOMAIN Out[s] = 1..n
  BY GraphIsValid, LenProperties
<1>2. ASSUME NEW i \in 1..n PROVE Out[s][i] \in Steps
  BY <1>1
<1>3. Taken(s, holding) \in [1..n -> Seq(Steps)] /\ \A i \in 1..n : Len(Taken(s, holding)[i]) <= 1
  BY <1>1, <1>2 DEF Taken
<1> QED
  BY <1>1, <1>3, ShortFlatten DEF Successors, Taken

LEMMA ShortContinuation ==
  ASSUME NEW r \in Requests, NEW s \in Steps, NEW holding, Len(Out[s]) <= 1,
         Task(r, s).is \in {"awaiting", "completed", "rerouted"}
  PROVE  Len(Continuation(r, s, holding)) <= 1
<1>1. CASE Task(r, s).is = "awaiting"
  BY <1>1 DEF Continuation
<1>2. CASE Task(r, s).is = "completed"
  BY <1>2, ShortSuccessors DEF Continuation
<1>3. CASE Task(r, s).is = "rerouted"
  BY <1>3 DEF Continuation
<1> QED
  BY <1>1, <1>2, <1>3

LEMMA ShortNextFrontier ==
  ASSUME \A s \in Steps : Len(Out[s]) <= 1, FrontierType, SingleFile,
         NEW r \in Requests, Gathered(r), NEW holding
  PROVE  Len(FlattenSeq(Continued(r, Distinct(my[r].frontier), holding))) <= 1
<1> DEFINE order == Distinct(my[r].frontier)
           seqs == Continued(r, order, holding)
           n == Len(order)
<1>1. order \in Seq(Steps) /\ ToSet(order) = ToSet(my[r].frontier) /\ n <= Len(my[r].frontier)
  BY DistinctFacts DEF FrontierType
<1>2. Len(my[r].frontier) \in Nat /\ Len(my[r].frontier) <= 1
  BY LenProperties DEF FrontierType, SingleFile
<1>3. n \in Nat /\ DOMAIN order = 1..n
  BY <1>1, LenProperties
<1>4. \A i \in 1..n : order[i] \in Steps /\ order[i] \in ToSet(my[r].frontier)
  <2>1. \A i \in 1..n : order[i] \in ToSet(order)
    BY <1>3 DEF ToSet
  <2>2. \A i \in 1..n : order[i] \in Steps
    BY <1>1, <1>3
  <2> HIDE DEF order
  <2> QED
    BY <1>1, <2>1, <2>2
<1>5. \A i \in 1..n : /\ Continuation(r, order[i], holding) \in Seq(Steps)
                      /\ Len(Continuation(r, order[i], holding)) <= 1
  BY <1>4, ContinuationType, ShortContinuation DEF Gathered
<1>6. seqs \in [1..n -> Seq(Steps)] /\ \A i \in 1..n : Len(seqs[i]) <= 1
  BY <1>3, <1>5 DEF Continued
<1>7. n <= 1
  BY <1>1, <1>2, <1>3
<1> HIDE DEF seqs, n
<1>8. n \in Nat
  BY <1>3 DEF n
<1>9. Len(FlattenSeq(seqs)) <= 1
  BY <1>6, <1>7, <1>8, ShortFlatten
<1> QED
  BY <1>9 DEF seqs

(* One request's copy or the row changes to a short frontier, and no task. *)
LEMMA ShortCopies ==
  ASSUME TypeOK, SingleFile, UNCHANGED batch, Len(row'.frontier) <= 1,
         \A q \in Requests : my'[q] = my[q] \/ Len(my'[q].frontier) <= 1
  PROVE  SingleFile'
<1>1. \A q \in Requests, s \in Steps : Task(q, s)' = Task(q, s)
  BY DEF Task
<1> QED
  BY <1>1 DEF SingleFile

LEMMA SavesSingleFile ==
  ASSUME \A s \in Steps : Len(Out[s]) <= 1, TypeOK, FrontierType, SingleFile, NEW r \in Requests,
         \/ CreateInstance(r) \/ Start(r) \/ Advance(r) \/ BatchRaises(r) \/ SaveFailed(r)
         \/ SaveCompleted(r) \/ Override(r) \/ NothingToResume(r) \/ SaveResumed(r) \/ RequestErrs(r)
         \/ \E x \in DOMAIN execs, d \in {"approved", "rejected"} : Decide(r, x, d)
  PROVE  SingleFile'
<1>1. UNCHANGED <<my, batch>>
  BY DEF CreateInstance, Start, Advance, BatchRaises, SaveFailed, SaveCompleted, Override,
         NothingToResume, SaveResumed, RequestErrs, Decide
<1>2. Len(row.frontier) <= 1 /\ Len(my[r].frontier) <= 1
  BY DEF SingleFile
<1>3. \A status, f, kind : Save(status, f) \/ SaveAndReport(status, f, kind) => row'.frontier = f
  BY DEF Save, SaveAndReport
<1>4. CASE Advance(r)
  <2>1. PICK holding \in SUBSET Conditional :
          row'.frontier = FlattenSeq(Continued(r, Distinct(my[r].frontier), holding))
    BY <1>4 DEF Advance, Save, Continued
  <2>2. Gathered(r)
    BY <1>4 DEF Advance, Gathered
  <2>3. Len(row'.frontier) <= 1
    BY <2>1, <2>2, ShortNextFrontier
  <2> QED
    BY <1>1, <2>3, ShortCopies
<1>5. CASE CreateInstance(r)
  <2>1. row'.frontier = <<>>
    BY <1>3, <1>5 DEF CreateInstance
  <2> QED
    BY <1>1, <2>1, ShortCopies
<1>6. CASE Start(r)
  <2>1. row'.frontier = <<Entry>>
    BY <1>3, <1>6 DEF Start
  <2>2. Len(<<Entry>>) <= 1
    OBVIOUS
  <2> QED
    BY <1>1, <2>1, <2>2, ShortCopies
<1>7. CASE SaveFailed(r) \/ SaveCompleted(r) \/ Override(r) \/ SaveResumed(r)
  <2>1. row'.frontier = my[r].frontier
    BY <1>3, <1>7 DEF SaveFailed, SaveCompleted, Override, SaveResumed
  <2> QED
    BY <1>1, <1>2, <2>1, ShortCopies
<1>8. CASE \/ BatchRaises(r) \/ NothingToResume(r) \/ RequestErrs(r)
           \/ \E x \in DOMAIN execs, d \in {"approved", "rejected"} : Decide(r, x, d)
  <2>1. UNCHANGED row
    BY <1>8 DEF BatchRaises, NothingToResume, RequestErrs, Decide, records
  <2> QED
    BY <1>1, <1>2, <2>1, ShortCopies
<1> QED
  BY <1>4, <1>5, <1>6, <1>7, <1>8

LEMMA CopiesSingleFile ==
  ASSUME \A s \in Steps : Len(Out[s]) <= 1, TypeOK, FrontierType, SingleFile, NEW r \in Requests,
         \/ ReadForPause(r) \/ ReadForTerminate(r) \/ ReadForResume(r) \/ ReadForCallback(r)
         \/ FindExecution(r) \/ ApproveStep(r) \/ RejectStep(r)
  PROVE  SingleFile'
<1>1. UNCHANGED <<row, batch>>
  BY DEF ReadForPause, ReadForTerminate, ReadForResume, ReadForCallback, FindExecution, ApproveStep,
         RejectStep, records
<1>2. Len(row.frontier) <= 1 /\ Len(my[r].frontier) <= 1
  BY DEF SingleFile
<1>3. \A f, x : Copy(f, x).frontier = f
  BY DEF Copy
<1>4. SUFFICES \/ UNCHANGED my
               \/ \E f, x : Len(f) <= 1 /\ my' = [my EXCEPT ![r] = Copy(f, x)]
  <2>1. ASSUME NEW f, NEW x, Len(f) <= 1, my' = [my EXCEPT ![r] = Copy(f, x)]
        PROVE  \A q \in Requests : my'[q] = my[q] \/ Len(my'[q].frontier) <= 1
    <3>1. \A q \in Requests : my'[q] = IF q = r THEN Copy(f, x) ELSE my[q]
      BY <2>1 DEF TypeOK
    <3> QED
      BY <1>3, <2>1, <3>1
  <2>2. \A q \in Requests : my'[q] = my[q] \/ Len(my'[q].frontier) <= 1
    BY <1>4, <2>1
  <2> QED
    BY <1>1, <1>2, <2>2, ShortCopies
<1>5. CASE ReadForPause(r) \/ ReadForTerminate(r) \/ ReadForResume(r) \/ ReadForCallback(r)
  BY <1>2, <1>5 DEF ReadForPause, ReadForTerminate, ReadForResume, ReadForCallback, Reads
<1>6. CASE FindExecution(r)
  BY <1>2, <1>6 DEF FindExecution
<1>7. CASE ApproveStep(r) \/ RejectStep(r)
  <2>1. my[r].frontier \in Seq(Steps) /\ my[r].frontier # <<>>
    BY <1>7 DEF FrontierType, ApproveStep, RejectStep, Moves
  <2>2. Head(my[r].frontier) \in Steps /\ Tail(my[r].frontier) = <<>>
    BY <1>2, <2>1, HeadTailProperties, ShortFacts
  <2>3. ASSUME NEW steps \in Seq(Steps), Len(steps) <= 1, Replaces(r, steps)
        PROVE  \E f, x : Len(f) <= 1 /\ my' = [my EXCEPT ![r] = Copy(f, x)]
    <3>1. Tail(my[r].frontier) \o steps = steps
      BY <2>2, <2>3
    <3> QED
      BY <2>3, <3>1 DEF Replaces
  <2>4. CASE ApproveStep(r)
    <3>1. PICK holding : Replaces(r, Successors(Head(my[r].frontier), holding))
      BY <2>4 DEF ApproveStep
    <3>2. /\ Successors(Head(my[r].frontier), holding) \in Seq(Steps)
          /\ Len(Successors(Head(my[r].frontier), holding)) <= 1
      BY <2>2, SuccessorsFacts, ShortSuccessors
    <3> QED
      BY <2>3, <3>1, <3>2
  <2>5. CASE RejectStep(r)
    <3> DEFINE fallback == Fallback[Head(my[r].frontier)]
    <3>1. CASE fallback = NoStep
      BY <2>5, <3>1 DEF RejectStep
    <3>2. CASE fallback # NoStep
      <4>1. <<fallback>> \in Seq(Steps) /\ Len(<<fallback>>) <= 1
        BY <2>2, <3>2, GraphIsValid
      <4>2. Replaces(r, <<fallback>>)
        BY <2>5, <3>2 DEF RejectStep
      <4> QED
        BY <2>3, <4>1, <4>2
    <3> QED
      BY <3>1, <3>2
  <2> QED
    BY <1>7, <2>4, <2>5
<1> QED
  BY <1>5, <1>6, <1>7

LEMMA TaskSingleFile ==
  ASSUME TypeOK, SingleFile, UNCHANGED <<row, my>>,
         \A q \in Requests, u \in Steps : Task(q, u)'.is # "none" => Task(q, u).is # "none"
  PROVE  SingleFile'
BY DEF SingleFile

LEMMA RefreshSingleFile ==
  ASSUME TypeOK, FrontierType, SingleFile, NEW r \in Requests, Refresh(r)
  PROVE  SingleFile'
<1>1. row.frontier \in Seq(Steps) /\ Len(row.frontier) <= 1
  BY DEF FrontierType, SingleFile
<1>2. \A q \in Requests : my'[q] = IF q = r THEN Copy(row.frontier, 0) ELSE my[q]
  BY DEF Refresh, TypeOK
<1>3. Copy(row.frontier, 0).frontier = row.frontier /\ UNCHANGED row
  BY DEF Copy, Refresh, records
<1>4. \A q \in Requests, s \in Steps :
        IF q # r THEN Task(q, s)' = Task(q, s)
        ELSE Task(q, s)'.is # "none" => s \in ToSet(row.frontier)
  BY DEF Refresh, Task, TypeOK, NewTask, NoTask
<1>5. \A s, t \in ToSet(row.frontier) : s = t
  BY <1>1, ShortFacts
<1> QED
  BY <1>1, <1>2, <1>3, <1>4, <1>5 DEF SingleFile

LEMMA NextSingleFile ==
  ASSUME \A s \in Steps : Len(Out[s]) <= 1
  PROVE  TypeOK /\ FrontierType /\ SingleFile /\ [Next]_vars => SingleFile'
<1> SUFFICES ASSUME TypeOK, FrontierType, SingleFile, [Next]_vars PROVE SingleFile'
  OBVIOUS
<1>1. ASSUME NEW r \in Requests, RequestAction(r) PROVE SingleFile'
  BY <1>1, SavesSingleFile, CopiesSingleFile, RefreshSingleFile DEF RequestAction
<1>2. ASSUME NEW r \in Requests,
             \/ CreateInstance(r) \/ RequestErrs(r)
             \/ \E x \in DOMAIN execs, d \in {"approved", "rejected"} : Decide(r, x, d)
      PROVE  SingleFile'
  BY <1>2, SavesSingleFile
<1>3. ASSUME NEW r \in Requests, ReadForPause(r) \/ ReadForTerminate(r) \/ ReadForResume(r)
      PROVE  SingleFile'
  BY <1>3, CopiesSingleFile
<1>4. ASSUME NEW r \in Requests, NEW s \in Steps, StepAction(r, s) \/ StepErrs(r, s)
      PROVE  SingleFile'
  <2>1. UNCHANGED <<row, my>>
    BY <1>4 DEF StepAction, StepErrs, BeginStep, CompleteStep, FailStep, RequestApproval, StoreReference,
                AwaitApproval
  <2>2. Task(r, s).is # "none"
    BY <1>4 DEF StepAction, StepErrs, BeginStep, CompleteStep, FailStep, RequestApproval, StoreReference,
                AwaitApproval, Executing
  <2>3. \A q \in Requests, u \in Steps : ~(q = r /\ u = s) => Task(q, u)' = Task(q, u)
    <3>1. CASE BeginStep(r, s)
      <4> DEFINE task == [is |-> "running", exec |-> Len(execs')]
      <4>1. batch' = [batch EXCEPT ![r] = [@ EXCEPT ![s] = task]]
        BY <3>1 DEF BeginStep
      <4> QED
        BY <4>1 DEF Task, TypeOK
    <3>2. CASE ~BeginStep(r, s)
      <4>1. PICK is : Becomes(r, s, is)
        BY <1>4, <3>2 DEF StepAction, StepErrs, CompleteStep, FailStep, RequestApproval, StoreReference,
                          AwaitApproval
      <4> QED
        BY <4>1, BecomesPointwise
    <3> QED
      BY <3>1, <3>2
  <2> QED
    BY <2>1, <2>2, <2>3, TaskSingleFile
<1>5. ASSUME NEW dead \in SUBSET Requests, Crash(dead) PROVE SingleFile'
  <2>1. UNCHANGED <<row, my>>
    BY <1>5 DEF Crash, records
  <2>2. \A q \in Requests, s \in Steps : Task(q, s)' = NoTask \/ Task(q, s)' = Task(q, s)
    BY <1>5 DEF Crash, Task
  <2> QED
    BY <2>1, <2>2, TaskSingleFile DEF NoTask
<1>6. CASE UNCHANGED vars
  BY <1>6 DEF vars, records, requests, SingleFile, Task
<1> QED
  BY <1>1, <1>2, <1>3, <1>4, <1>5, <1>6 DEF Next

LEMMA SettleRuns ==
  ASSUME TypeOK, NEW r \in Requests, ApproveStep(r) \/ RejectStep(r)
  PROVE  /\ DOMAIN execs' = DOMAIN execs
         /\ \A y \in DOMAIN execs :
              execs'[y].step = execs[y].step /\ (execs'[y].state = "running" => execs[y].state = "running")
<1> DEFINE x0 == my[r].step_exec
           state == IF answer[r] = "approved" THEN "completed" ELSE "failed"
<1>1. x0 \in DOMAIN execs \cup {0}
  BY DEF TypeOK, ApproveStep, RejectStep, Moves
<1>2. Settles(r, state)
  BY DEF ApproveStep, RejectStep
<1>3. CASE UNCHANGED execs
  BY <1>3
<1>4. CASE x0 \in DOMAIN execs /\ execs' = [execs EXCEPT ![x0].state = state]
  <2> HIDE DEF x0, state
  <2>1. /\ DOMAIN execs' = DOMAIN execs
        /\ \A y \in DOMAIN execs :
             /\ execs'[y].step = execs[y].step
             /\ execs'[y].state = IF y = x0 THEN state ELSE execs[y].state
    BY <1>4, StatePointwise
  <2>2. state # "running"
    BY DEF state
  <2> QED
    BY <2>1, <2>2
<1> QED
  BY <1>1, <1>2, <1>3, <1>4 DEF Settles

(* In a pause, what runs waits in front. *)
LEMMA NextWaitsInFront ==
  ASSUME Controls = {}
  PROVE  TypeOK /\ FrontierType /\ FrontierType' /\ Baton /\ GateInv /\ Owing /\ SingleFile'
         /\ WaitsInFront /\ [Next]_vars => WaitsInFront'
<1> SUFFICES ASSUME TypeOK, FrontierType, FrontierType', Baton, GateInv, Owing, SingleFile', WaitsInFront,
                    [Next]_vars, row'.status = "paused", NEW x \in DOMAIN execs', Running(x)'
             PROVE  execs'[x].step = Head(row'.frontier)
  BY DEF WaitsInFront
<1> DEFINE Still == UNCHANGED row /\ x \in DOMAIN execs /\ Running(x) /\ execs'[x].step = execs[x].step
<1>0. Still => execs'[x].step = Head(row'.frontier)
  BY DEF WaitsInFront
<1>1. UNCHANGED <<row, execs>> => Still
  BY DEF Running
<1>2. ASSUME NEW r \in Requests, NEW s \in Steps, Task(r, s).is \in Active, UNCHANGED row
      PROVE  FALSE
  <2>1. Works(r)
    BY <1>2 DEF Works
  <2>2. pc[r] \in {"resume", "settle", "save", "fail"}
    BY <1>2, <2>1 DEF Baton, AnswersOK
  <2>3. Task(r, s).is = "none"
    BY <1>2, <2>2 DEF Baton, TasksOK, TaskOK
  <2> QED
    BY <1>2, <2>3 DEF Active, Executing
<1>3. ASSUME NEW r \in Requests, Advance(r) PROVE execs'[x].step = Head(row'.frontier)
  <2>1. PICK s \in Steps : Task(r, s).is \in Executing \cup {"awaiting"} /\ Task(r, s).exec = x
    BY <1>3 DEF Advance, GateInv, RunsOK, BatchRunsOK, Running
  <2>2. s \in ToSet(my[r].frontier)
    BY <1>3, <2>1 DEF Baton, TasksOK, TaskOK, Advance, Executing
  <2>3. Task(r, s).is = "awaiting"
    BY <1>3, <2>1, <2>2 DEF Advance, Executing
  <2>4. PICK holding \in SUBSET Conditional :
          row'.frontier = FlattenSeq(Continued(r, Distinct(my[r].frontier), holding))
    BY <1>3 DEF Advance, Save, Continued
  <2>5. Gathered(r)
    BY <1>3 DEF Advance, Gathered
  <2>6. s \in ToSet(Continuation(r, s, holding))
    BY <2>3 DEF Continuation, ToSet
  <2>7. s \in ToSet(row'.frontier)
    BY <2>2, <2>4, <2>5, <2>6, NextFrontier
  <2>8. row'.frontier \in Seq(Steps) /\ Len(row'.frontier) <= 1
    BY DEF FrontierType, SingleFile
  <2>9. execs'[x].step = s
    BY <1>3, <2>1, <2>3 DEF Advance, Owing, BatchOwes, EndOK
  <2> QED
    BY <2>7, <2>8, <2>9, ShortFacts
<1>4. ASSUME NEW r \in Requests, RequestAction(r) PROVE execs'[x].step = Head(row'.frontier)
  <2>1. ~Override(r)
    BY DEF Override, Moves, Baton, StatusOK
  <2>2. CASE ApproveStep(r) \/ RejectStep(r)
    <3>1. UNCHANGED row
      BY <2>2 DEF ApproveStep, RejectStep
    <3>2. Still
      BY <2>2, <3>1, SettleRuns DEF Running
    <3> QED
      BY <1>0, <3>2
  <2>3. CASE Start(r) \/ SaveFailed(r) \/ SaveCompleted(r) \/ SaveResumed(r)
    BY <2>3 DEF Start, SaveFailed, SaveCompleted, SaveResumed, SaveAndReport, Save
  <2>4. CASE Refresh(r) \/ BatchRaises(r) \/ ReadForCallback(r) \/ FindExecution(r) \/ NothingToResume(r)
    BY <1>0, <1>1, <2>4 DEF Refresh, BatchRaises, ReadForCallback, FindExecution, NothingToResume, records
  <2> QED
    BY <1>3, <1>4, <2>1, <2>2, <2>3, <2>4 DEF RequestAction
<1>5. ASSUME NEW r \in Requests, CreateInstance(r) PROVE FALSE
  BY <1>5 DEF CreateInstance, Save
<1>6. ASSUME NEW r \in Requests, NEW y \in DOMAIN execs, NEW d \in {"approved", "rejected"},
             Decide(r, y, d)
      PROVE  execs'[x].step = Head(row'.frontier)
  <2>1. Still
    BY <1>6, DecidePointwise DEF Decide, Running
  <2> QED
    BY <1>0, <2>1
<1>7. ASSUME NEW r \in Requests, NEW s \in Steps, StepAction(r, s) \/ StepErrs(r, s)
      PROVE  FALSE
  <2>1. Task(r, s).is \in Active /\ UNCHANGED row
    BY <1>7 DEF StepAction, StepErrs, BeginStep, CompleteStep, FailStep, RequestApproval, StoreReference,
                AwaitApproval, Executing, Active
  <2> QED
    BY <1>2, <2>1
<1>8. ASSUME \/ \E r \in Requests : RequestErrs(r)
             \/ \E dead \in SUBSET Requests : Crash(dead)
             \/ UNCHANGED vars
      PROVE  execs'[x].step = Head(row'.frontier)
  BY <1>0, <1>1, <1>8 DEF RequestErrs, Crash, records, vars
<1>9. ASSUME NEW r \in Requests, ReadForPause(r) \/ ReadForTerminate(r) \/ ReadForResume(r)
      PROVE  FALSE
  BY <1>9 DEF ReadForPause, ReadForTerminate, ReadForResume
<1> QED
  BY <1>4, <1>5, <1>6, <1>7, <1>8, <1>9 DEF Next

LEMMA AnsweredOnceFromBound ==
  ASSUME MaxAnswers <= 1
  PROVE  TypeOK /\ AnswersBounded => AnsweredOnce
<1> SUFFICES ASSUME TypeOK, AnswersBounded, NEW x \in DOMAIN execs PROVE Len(execs[x].answers) <= 1
  BY DEF AnsweredOnce
<1>1. execs[x].answers \in Seq({"approved", "rejected"})
  BY ExecutionType DEF TypeOK, Execution
<1>2. Len(execs[x].answers) \in Nat /\ Len(execs[x].answers) <= MaxAnswers
  BY <1>1, LenProperties DEF AnswersBounded
<1> QED
  BY <1>2, BoundsNatural

(* A workflow whose steps follow each other needs no hypothesis about its  *)
(* behaviour: however many of its steps ask for an approval, and whatever  *)
(* crashes, errors and replanned steps occur, the gate is respected, no    *)
(* step is executed twice at a time, no step is skipped and the instance    *)
(* follows its lifecycle, as long as no operator steps in and a callback   *)
(* is not repeated.                                                        *)
THEOREM SequentialWorkflows ==
  ASSUME Controls = {}, MaxAnswers <= 1, \A s \in Steps : Len(Out[s]) <= 1
  PROVE  Safety => /\ [](GateRespected /\ NoDoubleExecution /\ NothingSkipped)
                   /\ ImplementsLifecycle
<1>1. Init => SingleFile /\ WaitsInFront
  BY InitSingleFile
<1>2. SingleFile => OneWaits
  BY DEF SingleFile, OneWaits, Waits, Waiting
<1>3. TypeOK /\ FrontierType /\ SingleFile /\ [Next]_vars => SingleFile'
  BY NextSingleFile
<1>4. Init => Baton /\ GateInv /\ FrontierType /\ Owing
  BY InitBaton, InitGate, InitFrontier, InitOwing
<1>5. TypeOK /\ Baton /\ OneWaits' /\ AnsweredOnce' /\ [Next]_vars => Baton'
  BY NextBaton
<1>6. TypeOK /\ Baton /\ GateInv /\ OneWaits /\ OneWaits' /\ AnsweredOnce' /\ WaitsInFront
      /\ [Next]_vars => GateInv'
  BY NextGate
<1>7. TypeOK /\ FrontierType /\ [Next]_vars => FrontierType'
  BY NextFrontierType
<1>8. TypeOK /\ FrontierType /\ FrontierType' /\ Baton /\ GateInv /\ Owing /\ SingleFile'
      /\ WaitsInFront /\ [Next]_vars => WaitsInFront'
  BY NextWaitsInFront
<1>9. TypeOK /\ FrontierType /\ Baton /\ GateInv /\ Owing /\ OneWaits
      /\ WaitsInFront /\ WaitsInFront' /\ [Next]_vars => Owing'
  BY NextOwing
<1>10. TypeOK /\ AnswersBounded => AnsweredOnce
  BY AnsweredOnceFromBound
<1>11. Safety => []OneWaits /\ []AnsweredOnce /\ []WaitsInFront
  BY <1>1, <1>2, <1>3, <1>4, <1>5, <1>6, <1>7, <1>8, <1>9, <1>10, BoundedAlways, TypeCorrect, PTL DEF Safety
<1>12. Safety /\ []OneWaits /\ []AnsweredOnce => []NoDoubleExecution
  BY NoDoubleExecutionHolds
<1>13. Safety /\ []OneWaits /\ []AnsweredOnce => ImplementsLifecycle
  BY ImplementsLifecycleHolds
<1>14. Safety /\ []OneWaits /\ []AnsweredOnce /\ []WaitsInFront => []GateRespected
  BY GateRespectedHolds
<1>15. Safety /\ []OneWaits /\ []AnsweredOnce /\ []WaitsInFront => []NothingSkipped
  BY NothingSkippedHolds
<1> QED
  BY <1>11, <1>12, <1>13, <1>14, <1>15, PTL

=============================================================================
