------------------------- MODULE EventOutboxProofs -------------------------
(***************************************************************************)
(* The safety of the event outbox for every set of instances, every finite *)
(* set of relay workers and every max_attempts.                            *)
(*                                                                         *)
(* OutboxInv is inductive.  Type correctness is proved first, then each of *)
(* its other parts is shown to be kept by every step, with a lemma for     *)
(* what a step does to the two sets whose size the parts speak of.         *)
(***************************************************************************)
EXTENDS EventOutbox, FiniteSetTheorems, TLAPS

USE InstancesFinite, WorkersFinite, MaxAttemptsPositive, MaxFaultsNatural, NoEventIsNone

LEMMA WorkerSetsFinite ==
  /\ Cardinality(Workers) \in Nat \ {0}
  /\ IsFiniteSet(Claiming) /\ Cardinality(Claiming) \in Nat
  /\ \A e : IsFiniteSet(Publishing(e)) /\ Cardinality(Publishing(e)) \in Nat
<1>1. Cardinality(Workers) \in Nat /\ Cardinality(Workers) # 0
  BY FS_CardinalityType, FS_EmptySet
<1>2. ASSUME NEW S \in SUBSET Workers PROVE IsFiniteSet(S) /\ Cardinality(S) \in Nat
  BY FS_Subset, FS_CardinalityType
<1>3. Claiming \in SUBSET Workers
  BY DEF Claiming
<1>4. \A e : Publishing(e) \in SUBSET Workers
  BY DEF Publishing
<1> QED
  BY <1>1, <1>2, <1>3, <1>4

-----------------------------------------------------------------------------
(* Type correctness.                                                       *)

LEMMA InitType == Init => TypeOK
  BY DEF Init, TypeOK, Phases

LEMMA NextRankNatural == TypeOK => NextRank \in Nat
<1>1. IsFiniteSet({"started", "completed", "failed"})
  <2>1. IsFiniteSet({"started"} \cup {"completed"})
    BY FS_Singleton, FS_AddElement
  <2>2. IsFiniteSet(({"started"} \cup {"completed"}) \cup {"failed"})
    BY <2>1, FS_AddElement
  <2>3. {"started", "completed", "failed"} = ({"started"} \cup {"completed"}) \cup {"failed"}
    OBVIOUS
  <2> QED
    BY <2>2, <2>3
<1>2. IsFiniteSet(Events)
  BY <1>1, FS_Product DEF Events
<1>3. {e \in Events : status[e] # "absent"} \in SUBSET Events
  OBVIOUS
<1>4. Cardinality({e \in Events : status[e] # "absent"}) \in Nat
  BY <1>2, <1>3, FS_Subset, FS_CardinalityType
<1> QED
  BY <1>4 DEF NextRank

LEMMA DeliveredType ==
  ASSUME TypeOK, NEW e
  PROVE  [delivered EXCEPT ![e] = @ + 1] \in [Events -> Nat]
<1>1. ASSUME NEW f \in Events PROVE [delivered EXCEPT ![e] = @ + 1][f] \in Nat
  BY <1>1 DEF TypeOK
<1> QED
  BY <1>1 DEF TypeOK

LEMMA NextType == TypeOK /\ [Next]_vars => TypeOK'
<1> SUFFICES ASSUME TypeOK, [Next]_vars PROVE TypeOK'
  OBVIOUS
<1> USE DEF TypeOK, Phases
<1>1. ASSUME NEW e \in Events, EnqueueEvent(e)
      PROVE /\ status' \in [Events -> {"absent", "pending", "published", "failed"}]
            /\ created' \in [Events -> Nat]
            /\ UNCHANGED <<attempts, lease>>
  BY <1>1, NextRankNatural DEF EnqueueEvent
<1>2. ASSUME NEW i \in Instances, CreateInstance(i) PROVE TypeOK'
  BY <1>2 DEF CreateInstance, rows, workers, environment
<1>3. ASSUME NEW i \in Instances, StartInstance(i) PROVE TypeOK'
  <2>1. <<i, "started">> \in Events
    BY DEF Events
  <2> QED
    BY <1>1, <1>3, <2>1 DEF StartInstance, workers, environment
<1>4. ASSUME NEW i \in Instances, NEW o \in {"completed", "failed"}, FinishInstance(i, o)
      PROVE TypeOK'
  <2>1. <<i, o>> \in Events
    BY DEF Events
  <2> QED
    BY <1>1, <1>4, <2>1 DEF FinishInstance, workers, environment
<1>5. ASSUME NEW w \in Workers, Boot(w) PROVE TypeOK'
  BY <1>5 DEF Boot, Moves, environment
<1>6. ASSUME NEW w \in Workers, FailExhausted(w) PROVE TypeOK'
  BY <1>6 DEF FailExhausted, Moves, environment
<1>7. ASSUME NEW w \in Workers, Claim(w) PROVE TypeOK'
  BY <1>7 DEF Claim, Moves, Lets, environment
<1>8. ASSUME NEW w \in Workers, NothingToClaim(w) PROVE TypeOK'
  BY <1>8 DEF NothingToClaim, Moves, rows, environment
<1>9. ASSUME NEW w \in Workers, PublishSucceeds(w) PROVE TypeOK'
  <2>1. delivered' \in [Events -> Nat]
    BY <1>9, DeliveredType DEF PublishSucceeds
  <2> QED
    BY <1>9, <2>1 DEF PublishSucceeds, Moves, rows
<1>10. ASSUME NEW w \in Workers, PublishFails(w) PROVE TypeOK'
  BY <1>10 DEF PublishFails, Moves, rows
<1>11. ASSUME NEW w \in Workers, PublishUnanswered(w) PROVE TypeOK'
  <2>1. delivered' \in [Events -> Nat]
    BY <1>11, DeliveredType DEF PublishUnanswered
  <2> QED
    BY <1>11, <2>1 DEF PublishUnanswered, Moves, rows
<1>12. ASSUME NEW w \in Workers, MarkPublished(w) PROVE TypeOK'
  BY <1>12 DEF MarkPublished, Moves, Lets, environment
<1>13. ASSUME NEW w \in Workers, Requeue(w) PROVE TypeOK'
  BY <1>13 DEF Requeue, Moves, Lets, environment
<1>14. ASSUME NEW w \in Workers, QueryFails(w) PROVE TypeOK'
  BY <1>14 DEF QueryFails, Moves, Lets, Fault, rows
<1>15. ASSUME NEW w \in Workers, Crash(w) PROVE TypeOK'
  BY <1>15 DEF Crash, Lets, Fault, rows
<1>16. ASSUME NEW e \in Events, LeaseRunsOut(e) PROVE TypeOK'
  BY <1>16 DEF LeaseRunsOut, workers, environment
<1>17. ASSUME BrokerGoesDown \/ BrokerComesUp PROVE TypeOK'
  BY <1>17 DEF BrokerGoesDown, BrokerComesUp, Fault, rows, workers
<1>18. CASE UNCHANGED vars
  BY <1>18 DEF vars, rows, workers, environment
<1> QED
  BY <1>2, <1>3, <1>4, <1>5, <1>6, <1>7, <1>8, <1>9, <1>10, <1>11, <1>12, <1>13,
     <1>14, <1>15, <1>16, <1>17, <1>18 DEF Next, PollStep

-----------------------------------------------------------------------------
(* The sizes of the sets of workers that the invariant counts.             *)

LEMMA Shrinks ==
  ASSUME NEW S \in SUBSET Workers, NEW T \in SUBSET S
  PROVE  Cardinality(T) <= Cardinality(S)
<1>1. IsFiniteSet(S)
  BY FS_Subset
<1> QED
  BY <1>1, FS_Subset

LEMMA Loses ==
  ASSUME NEW S \in SUBSET Workers, NEW w \in S, NEW T \in SUBSET (S \ {w})
  PROVE  Cardinality(T) <= Cardinality(S) - 1
<1>1. IsFiniteSet(S)
  BY FS_Subset
<1>2. IsFiniteSet(S \ {w}) /\ Cardinality(S \ {w}) = Cardinality(S) - 1
  BY <1>1, FS_RemoveElement
<1> QED
  BY <1>2, FS_Subset

LEMMA Gains ==
  ASSUME NEW S \in SUBSET Workers, NEW w, NEW T \in SUBSET (S \cup {w})
  PROVE  Cardinality(T) <= Cardinality(S) + 1
<1>1. IsFiniteSet(S)
  BY FS_Subset
<1>2. Cardinality(S) \in Nat
  BY <1>1, FS_CardinalityType
<1>3. /\ IsFiniteSet(S \cup {w})
      /\ Cardinality(S \cup {w}) = IF w \in S THEN Cardinality(S) ELSE Cardinality(S) + 1
  BY <1>1, FS_AddElement
<1>4. Cardinality(T) <= Cardinality(S \cup {w}) /\ Cardinality(T) \in Nat
  BY <1>3, FS_Subset, FS_CardinalityType
<1> QED
  BY <1>2, <1>3, <1>4

-----------------------------------------------------------------------------
(* What a worker holds is a row.                                           *)

LEMMA HeldRowsStep ==
  ASSUME OutboxInv, [Next]_vars
  PROVE  HeldRowsExist'
<1> USE DEF OutboxInv, HeldRowsExist, TypeOK, Phases, Holding
<1>0. TypeOK'
  BY NextType
<1>2. ASSUME NEW i \in Instances, CreateInstance(i) PROVE HeldRowsExist'
  BY <1>2 DEF CreateInstance, rows, workers, environment
<1>3. ASSUME NEW i \in Instances, StartInstance(i) PROVE HeldRowsExist'
  BY <1>3 DEF StartInstance, EnqueueEvent, workers, environment
<1>4. ASSUME NEW i \in Instances, NEW o \in {"completed", "failed"}, FinishInstance(i, o)
      PROVE HeldRowsExist'
  BY <1>4 DEF FinishInstance, EnqueueEvent, workers, environment
<1>5. ASSUME NEW w \in Workers, Boot(w) PROVE HeldRowsExist'
  BY <1>5, <1>0 DEF Boot, Moves, environment
<1>6. ASSUME NEW w \in Workers, FailExhausted(w) PROVE HeldRowsExist'
  BY <1>6, <1>0 DEF FailExhausted, Moves, environment
<1>7. ASSUME NEW w \in Workers, Claim(w) PROVE HeldRowsExist'
  BY <1>7, <1>0 DEF Claim, Claimable, Moves, Lets, environment
<1>8. ASSUME NEW w \in Workers, NothingToClaim(w) PROVE HeldRowsExist'
  BY <1>8, <1>0 DEF NothingToClaim, Moves, rows, environment
<1>9. ASSUME NEW w \in Workers, PublishSucceeds(w) PROVE HeldRowsExist'
  BY <1>9, <1>0 DEF PublishSucceeds, Moves, rows
<1>10. ASSUME NEW w \in Workers, PublishFails(w) PROVE HeldRowsExist'
  BY <1>10, <1>0 DEF PublishFails, Moves, rows
<1>11. ASSUME NEW w \in Workers, PublishUnanswered(w) PROVE HeldRowsExist'
  BY <1>11, <1>0 DEF PublishUnanswered, Moves, rows
<1>12. ASSUME NEW w \in Workers, MarkPublished(w) PROVE HeldRowsExist'
  BY <1>12, <1>0 DEF MarkPublished, Moves, Lets, environment
<1>13. ASSUME NEW w \in Workers, Requeue(w) PROVE HeldRowsExist'
  BY <1>13, <1>0 DEF Requeue, Moves, Lets, environment
<1>14. ASSUME NEW w \in Workers, QueryFails(w) PROVE HeldRowsExist'
  BY <1>14, <1>0 DEF QueryFails, Moves, Lets, Fault, rows
<1>15. ASSUME NEW w \in Workers, Crash(w) PROVE HeldRowsExist'
  BY <1>15, <1>0 DEF Crash, Lets, Fault, rows
<1>16. ASSUME NEW e \in Events, LeaseRunsOut(e) PROVE HeldRowsExist'
  BY <1>16 DEF LeaseRunsOut, workers, environment
<1>17. ASSUME BrokerGoesDown \/ BrokerComesUp PROVE HeldRowsExist'
  BY <1>17 DEF BrokerGoesDown, BrokerComesUp, Fault, rows, workers
<1>18. CASE UNCHANGED vars
  BY <1>18 DEF vars, rows, workers, environment
<1> QED
  BY <1>2, <1>3, <1>4, <1>5, <1>6, <1>7, <1>8, <1>9, <1>10, <1>11, <1>12, <1>13, <1>14, <1>15, <1>16, <1>17, <1>18 DEF Next, PollStep

-----------------------------------------------------------------------------
(* The row and its transition are committed together.                      *)

LEMMA NoDualWriteStep ==
  ASSUME OutboxInv, [Next]_vars
  PROVE  NoDualWrite'
<1> USE DEF OutboxInv, NoDualWrite, TypeOK, Phases, Holding
<1>1. \A e \in Events : /\ e[1] \in Instances /\ e[2] \in {"started", "completed", "failed"}
                        /\ e = <<e[1], e[2]>>
  BY DEF Events
<1>2. ASSUME NEW i \in Instances, CreateInstance(i) PROVE NoDualWrite'
  <2>1. ASSUME NEW e \in Events PROVE Reported(e)' <=> Reported(e)
    BY <1>1, <1>2, <2>1 DEF CreateInstance, Reported
  <2> QED
    BY <1>2, <2>1 DEF CreateInstance, rows, environment
<1>3. ASSUME NEW i \in Instances, StartInstance(i) PROVE NoDualWrite'
  <2>1. ASSUME NEW e \in Events PROVE e = <<i, "started">> <=> e[1] = i /\ e[2] = "started"
    BY <1>1, <2>1
  <2>2. ASSUME NEW e \in Events, e # <<i, "started">>
        PROVE  status'[e] = status[e] /\ (Reported(e)' <=> Reported(e))
    BY <1>1, <1>3, <2>1, <2>2 DEF StartInstance, EnqueueEvent, Reported
  <2>3. ASSUME NEW e \in Events, e = <<i, "started">>
        PROVE  status'[e] = "pending" /\ Reported(e)'
    BY <1>1, <1>3, <2>1, <2>3 DEF StartInstance, EnqueueEvent, Reported
  <2> QED
    BY <1>3, <2>2, <2>3 DEF StartInstance, environment
<1>4. ASSUME NEW i \in Instances, NEW o \in {"completed", "failed"}, FinishInstance(i, o)
      PROVE NoDualWrite'
  <2>1. ASSUME NEW e \in Events PROVE e = <<i, o>> <=> e[1] = i /\ e[2] = o
    BY <1>1, <2>1
  <2>2. ASSUME NEW e \in Events, e # <<i, o>>
        PROVE  status'[e] = status[e] /\ (Reported(e)' <=> Reported(e))
    BY <1>1, <1>4, <2>1, <2>2 DEF FinishInstance, EnqueueEvent, Reported
  <2>3. ASSUME NEW e \in Events, e = <<i, o>>
        PROVE  status'[e] = "pending" /\ Reported(e)'
    BY <1>1, <1>4, <2>1, <2>3 DEF FinishInstance, EnqueueEvent, Reported
  <2> QED
    BY <1>4, <2>2, <2>3 DEF FinishInstance, environment
<1>5. ASSUME NEW w \in Workers, Boot(w) PROVE NoDualWrite'
  BY <1>5 DEF Boot, environment, Reported
<1>6. ASSUME NEW w \in Workers, FailExhausted(w) PROVE NoDualWrite'
  BY <1>6 DEF FailExhausted, environment, Reported
<1>7. ASSUME NEW w \in Workers, Claim(w) PROVE NoDualWrite'
  BY <1>7 DEF Claim, environment, Reported
<1>8. ASSUME NEW w \in Workers, NothingToClaim(w) PROVE NoDualWrite'
  BY <1>8 DEF NothingToClaim, rows, environment, Reported
<1>9. ASSUME NEW w \in Workers, PublishSucceeds(w) PROVE NoDualWrite'
  BY <1>9 DEF PublishSucceeds, rows, Reported, HeldRowsExist, Moves
<1>10. ASSUME NEW w \in Workers, PublishFails(w) PROVE NoDualWrite'
  BY <1>10 DEF PublishFails, rows, Reported
<1>11. ASSUME NEW w \in Workers, PublishUnanswered(w) PROVE NoDualWrite'
  BY <1>11 DEF PublishUnanswered, rows, Reported, HeldRowsExist, Moves
<1>12. ASSUME NEW w \in Workers, MarkPublished(w) PROVE NoDualWrite'
  BY <1>12 DEF MarkPublished, environment, Reported, HeldRowsExist, Moves
<1>13. ASSUME NEW w \in Workers, Requeue(w) PROVE NoDualWrite'
  BY <1>13 DEF Requeue, environment, Reported
<1>14. ASSUME NEW w \in Workers, QueryFails(w) PROVE NoDualWrite'
  BY <1>14 DEF QueryFails, Fault, rows, Reported
<1>15. ASSUME NEW w \in Workers, Crash(w) PROVE NoDualWrite'
  BY <1>15 DEF Crash, Fault, rows, Reported
<1>16. ASSUME NEW e \in Events, LeaseRunsOut(e) PROVE NoDualWrite'
  BY <1>16 DEF LeaseRunsOut, Reported, environment
<1>17. ASSUME BrokerGoesDown \/ BrokerComesUp PROVE NoDualWrite'
  BY <1>17 DEF BrokerGoesDown, BrokerComesUp, Reported, rows
<1>18. CASE UNCHANGED vars
  BY <1>18 DEF vars, Reported, rows, environment
<1> QED
  BY <1>2, <1>3, <1>4, <1>5, <1>6, <1>7, <1>8, <1>9, <1>10, <1>11, <1>12, <1>13, <1>14, <1>15, <1>16, <1>17, <1>18 DEF Next, PollStep

-----------------------------------------------------------------------------
(* Deliveries and publishes under way are covered by claims.               *)

LEMMA DeliveriesKept ==
  ASSUME OutboxInv, UNCHANGED <<attempts, delivered>>,
         \A e \in Events :
           status'[e] = "published" => status[e] = "published" \/ delivered[e] > 0,
         \A w \in Workers :
           phase'[w] = "publish" => phase[w] = "publish" /\ claimed'[w] = claimed[w]
  PROVE  DeliveriesHaveClaims'
<1>1. SUFFICES ASSUME NEW e \in Events
               PROVE  /\ status'[e] = "published" => delivered'[e] > 0
                      /\ delivered'[e] + Cardinality(Publishing(e)') <= attempts'[e]
  BY DEF DeliveriesHaveClaims
<1>2. Publishing(e) \in SUBSET Workers /\ Publishing(e)' \in SUBSET Publishing(e)
  BY DEF Publishing
<1>3. Cardinality(Publishing(e)') <= Cardinality(Publishing(e))
  BY <1>2, Shrinks
<1>4. Cardinality(Publishing(e)) \in Nat /\ Cardinality(Publishing(e)') \in Nat
  BY <1>2, WorkersFinite, FS_Subset, FS_CardinalityType
<1> QED
  BY <1>3, <1>4 DEF OutboxInv, DeliveriesHaveClaims, TypeOK

LEMMA DeliveryCounted ==
  ASSUME OutboxInv, UNCHANGED <<status, attempts>>, NEW w \in Workers,
         phase[w] = "publish", phase'[w] # "publish",
         \A v \in Workers \ {w} : phase'[v] = phase[v], UNCHANGED claimed,
         delivered' = [delivered EXCEPT ![claimed[w]] = @ + 1]
  PROVE  DeliveriesHaveClaims'
<1>1. SUFFICES ASSUME NEW e \in Events
               PROVE  /\ status'[e] = "published" => delivered'[e] > 0
                      /\ delivered'[e] + Cardinality(Publishing(e)') <= attempts'[e]
  BY DEF DeliveriesHaveClaims
<1>2. Publishing(e) \in SUBSET Workers /\ Publishing(e)' \in SUBSET (Publishing(e) \ {w})
  BY DEF Publishing
<1>3. Cardinality(Publishing(e)) \in Nat /\ Cardinality(Publishing(e)') \in Nat
  BY <1>2, WorkersFinite, FS_Subset, FS_CardinalityType
<1>4. CASE claimed[w] = e
  <2>1. w \in Publishing(e)
    BY <1>4 DEF Publishing
  <2>2. Cardinality(Publishing(e)') <= Cardinality(Publishing(e)) - 1
    BY <1>2, <2>1, Loses
  <2>3. delivered'[e] = delivered[e] + 1
    BY <1>4 DEF OutboxInv, TypeOK
  <2> QED
    BY <1>3, <2>2, <2>3 DEF OutboxInv, DeliveriesHaveClaims, TypeOK
<1>5. CASE claimed[w] # e
  <2>1. Cardinality(Publishing(e)') <= Cardinality(Publishing(e))
    BY <1>2, Shrinks
  <2>2. delivered'[e] = delivered[e]
    BY <1>5 DEF OutboxInv, TypeOK
  <2> QED
    BY <1>3, <2>1, <2>2 DEF OutboxInv, DeliveriesHaveClaims, TypeOK
<1> QED
  BY <1>4, <1>5

LEMMA DeliveriesStep ==
  ASSUME OutboxInv, [Next]_vars
  PROVE  DeliveriesHaveClaims'
<1> USE DEF OutboxInv, TypeOK, Phases
<1>1. ASSUME NEW i \in Instances, CreateInstance(i) PROVE DeliveriesHaveClaims'
  BY <1>1, DeliveriesKept DEF CreateInstance, rows, workers, environment
<1>2. ASSUME NEW i \in Instances, StartInstance(i) PROVE DeliveriesHaveClaims'
  BY <1>2, DeliveriesKept DEF StartInstance, EnqueueEvent, workers, environment
<1>3. ASSUME NEW i \in Instances, NEW o \in {"completed", "failed"}, FinishInstance(i, o)
      PROVE DeliveriesHaveClaims'
  BY <1>3, DeliveriesKept DEF FinishInstance, EnqueueEvent, workers, environment
<1>4. ASSUME NEW w \in Workers, Boot(w) PROVE DeliveriesHaveClaims'
  BY <1>4, DeliveriesKept DEF Boot, Moves, environment
<1>5. ASSUME NEW w \in Workers, FailExhausted(w) PROVE DeliveriesHaveClaims'
  BY <1>5, DeliveriesKept DEF FailExhausted, Moves, environment
<1>6. ASSUME NEW w \in Workers, NothingToClaim(w) PROVE DeliveriesHaveClaims'
  BY <1>6, DeliveriesKept DEF NothingToClaim, Moves, rows, environment
<1>7. ASSUME NEW w \in Workers, PublishFails(w) PROVE DeliveriesHaveClaims'
  BY <1>7, DeliveriesKept DEF PublishFails, Moves, rows
<1>8. ASSUME NEW w \in Workers, MarkPublished(w) PROVE DeliveriesHaveClaims'
  BY <1>8, DeliveriesKept DEF MarkPublished, HeldRowsExist, Holding, Moves, Lets, environment
<1>9. ASSUME NEW w \in Workers, Requeue(w) PROVE DeliveriesHaveClaims'
  BY <1>9, DeliveriesKept DEF Requeue, Moves, Lets, environment
<1>10. ASSUME NEW w \in Workers, QueryFails(w) PROVE DeliveriesHaveClaims'
  BY <1>10, DeliveriesKept DEF QueryFails, Moves, Lets, Fault, rows
<1>11. ASSUME NEW w \in Workers, Crash(w) PROVE DeliveriesHaveClaims'
  BY <1>11, DeliveriesKept DEF Crash, Lets, Fault, rows
<1>12. ASSUME NEW w \in Workers, PublishSucceeds(w) PROVE DeliveriesHaveClaims'
  BY <1>12, DeliveryCounted DEF PublishSucceeds, Moves, rows
<1>13. ASSUME NEW w \in Workers, PublishUnanswered(w) PROVE DeliveriesHaveClaims'
  BY <1>13, DeliveryCounted DEF PublishUnanswered, Moves, rows
<1>14. ASSUME NEW w \in Workers, Claim(w) PROVE DeliveriesHaveClaims'
  <2>1. PICK c \in Events : /\ Claimable(c)
                            /\ claimed' = [claimed EXCEPT ![w] = c]
                            /\ attempts' = [attempts EXCEPT ![c] = @ + 1]
    BY <1>14 DEF Claim, Lets
  <2>2. SUFFICES ASSUME NEW e \in Events
                 PROVE  /\ status'[e] = "published" => delivered'[e] > 0
                        /\ delivered'[e] + Cardinality(Publishing(e)') <= attempts'[e]
    BY DEF DeliveriesHaveClaims
  <2>3. /\ Publishing(e) \in SUBSET Workers
        /\ Publishing(e)' \in SUBSET (Publishing(e) \cup {w})
        /\ e # c => Publishing(e)' \in SUBSET Publishing(e)
    BY <1>14, <2>1 DEF Claim, Moves, Publishing
  <2>4. Cardinality(Publishing(e)) \in Nat /\ Cardinality(Publishing(e)') \in Nat
    <3>1. Publishing(e)' \in SUBSET Workers
      BY DEF Publishing
    <3> QED
      BY <2>3, <3>1, FS_Subset, FS_CardinalityType
  <2>5. Cardinality(Publishing(e)') <= Cardinality(Publishing(e)) + 1
    BY <2>3, Gains
  <2>6. e # c => Cardinality(Publishing(e)') <= Cardinality(Publishing(e))
    BY <2>3, Shrinks
  <2>7. attempts'[e] = IF e = c THEN attempts[e] + 1 ELSE attempts[e]
    BY <2>1
  <2> QED
    BY <1>14, <2>4, <2>5, <2>6, <2>7 DEF Claim, DeliveriesHaveClaims, environment
<1>15. ASSUME NEW e \in Events, LeaseRunsOut(e) PROVE DeliveriesHaveClaims'
  BY <1>15, DeliveriesKept DEF LeaseRunsOut, workers, environment
<1>16. ASSUME BrokerGoesDown \/ BrokerComesUp PROVE DeliveriesHaveClaims'
  BY <1>16, DeliveriesKept DEF BrokerGoesDown, BrokerComesUp, rows, workers
<1>17. CASE UNCHANGED vars
  BY <1>17, DeliveriesKept DEF vars, rows, workers, environment
<1> QED
  BY <1>1, <1>2, <1>3, <1>4, <1>5, <1>6, <1>7, <1>8, <1>9, <1>10, <1>11, <1>12, <1>13, <1>14, <1>15, <1>16, <1>17 DEF Next, PollStep

-----------------------------------------------------------------------------
(* The bound on retries.                                                   *)

LEMMA RetriesKept ==
  ASSUME OutboxInv, UNCHANGED attempts,
         \A e \in Events : status'[e] = "pending" =>
                              status[e] = "pending" \/ attempts[e] < MaxAttempts,
         \A w \in Workers : phase'[w] = "claim" =>
                              phase[w] = "claim" \/ \A e \in Events :
                                  status'[e] = "pending" => attempts[e] < MaxAttempts
  PROVE  RetriesBounded' /\ LateClaimsBounded'
<1>1. RetriesBounded'
  BY DEF OutboxInv, RetriesBounded
<1>2. ASSUME NEW e \in Events, status'[e] = "pending", attempts'[e] >= MaxAttempts
      PROVE  attempts'[e] + Cardinality(Claiming') <= MaxAttempts + Cardinality(Workers) - 1
  <2>1. status[e] = "pending" /\ attempts[e] >= MaxAttempts /\ attempts[e] \in Nat
    BY <1>2 DEF OutboxInv, TypeOK
  <2>2. Claiming \in SUBSET Workers /\ Claiming' \in SUBSET Claiming
    BY <1>2, <2>1 DEF Claiming
  <2>3. Cardinality(Claiming') <= Cardinality(Claiming) /\ Cardinality(Claiming') \in Nat
    <3>1. IsFiniteSet(Claiming')
      BY <2>2, FS_Subset
    <3> QED
      BY <2>2, <3>1, Shrinks, FS_CardinalityType
  <2>4. attempts[e] + Cardinality(Claiming) <= MaxAttempts + Cardinality(Workers) - 1
    BY <2>1 DEF OutboxInv, LateClaimsBounded
  <2> QED
    BY <2>1, <2>3, <2>4, WorkerSetsFinite
<1> QED
  BY <1>1, <1>2 DEF LateClaimsBounded

LEMMA RetryCounted ==
  ASSUME OutboxInv, NEW w \in Workers, Claim(w)
  PROVE  RetriesBounded' /\ LateClaimsBounded'
<1>1. PICK c \in Events : Claimable(c) /\ attempts' = [attempts EXCEPT ![c] = @ + 1]
  BY DEF Claim
<1>2. /\ Claiming \in SUBSET Workers
      /\ w \in Claiming
      /\ Claiming' \in SUBSET (Claiming \ {w})
  BY DEF Claim, Moves, Claiming, OutboxInv, TypeOK
<1>3. Cardinality(Claiming') <= Cardinality(Claiming) - 1
  BY <1>2, Loses
<1>4. Cardinality(Claiming) <= Cardinality(Workers)
  BY <1>2, Shrinks
<1>5. Cardinality(Claiming') \in Nat
  BY <1>2, FS_Subset, FS_CardinalityType
<1>6. ASSUME NEW e \in Events, status[e] = "pending", attempts'[e] >= MaxAttempts
      PROVE  attempts'[e] + Cardinality(Claiming') <= MaxAttempts + Cardinality(Workers) - 1
  <2>1. attempts[e] \in Nat /\ attempts'[e] = IF e = c THEN attempts[e] + 1 ELSE attempts[e]
    BY <1>1 DEF OutboxInv, TypeOK
  <2>2. CASE attempts[e] >= MaxAttempts
    <3>1. attempts[e] + Cardinality(Claiming) <= MaxAttempts + Cardinality(Workers) - 1
      BY <1>6, <2>2 DEF OutboxInv, LateClaimsBounded
    <3> QED
      BY <1>3, <1>5, <2>1, <3>1, WorkerSetsFinite
  <2>3. CASE attempts[e] < MaxAttempts
    <3>1. attempts'[e] = MaxAttempts
      BY <1>6, <2>1, <2>3
    <3> QED
      BY <1>3, <1>4, <1>5, <3>1, WorkerSetsFinite
  <2> QED
    BY <2>1, <2>2, <2>3
<1>7. ASSUME NEW e \in Events PROVE attempts'[e] <= MaxAttempts + Cardinality(Workers) - 1
  <2>1. attempts[e] \in Nat /\ attempts'[e] = IF e = c THEN attempts[e] + 1 ELSE attempts[e]
    BY <1>1 DEF OutboxInv, TypeOK
  <2>2. CASE e = c /\ attempts'[e] >= MaxAttempts
    BY <1>1, <1>5, <1>6, <2>1, <2>2, WorkerSetsFinite DEF Claimable
  <2>3. CASE e # c \/ attempts'[e] < MaxAttempts
    BY <2>1, <2>3, WorkerSetsFinite DEF OutboxInv, RetriesBounded
  <2> QED
    BY <2>1, <2>2, <2>3
<1> QED
  BY <1>6, <1>7 DEF Claim, LateClaimsBounded, RetriesBounded

LEMMA RetriesStep ==
  ASSUME OutboxInv, [Next]_vars
  PROVE  RetriesBounded' /\ LateClaimsBounded'
<1> USE DEF OutboxInv, TypeOK, Phases
<1>1. ASSUME NEW i \in Instances, CreateInstance(i) PROVE RetriesBounded' /\ LateClaimsBounded'
  BY <1>1, RetriesKept DEF CreateInstance, rows, workers, environment
<1>2. ASSUME NEW i \in Instances, StartInstance(i) PROVE RetriesBounded' /\ LateClaimsBounded'
  <2>1. <<i, "started">> \in Events /\ ~Reported(<<i, "started">>)
    BY <1>2 DEF Events, StartInstance, Reported
  <2>2. attempts[<<i, "started">>] = 0
    BY <2>1 DEF NoDualWrite, HeldRowsExist
  <2> QED
    BY <1>2, <2>1, <2>2, RetriesKept, SMTT(30) DEF StartInstance, EnqueueEvent, workers
<1>3. ASSUME NEW i \in Instances, NEW o \in {"completed", "failed"}, FinishInstance(i, o)
      PROVE RetriesBounded' /\ LateClaimsBounded'
  <2>1. <<i, o>> \in Events /\ ~Reported(<<i, o>>)
    BY <1>3 DEF Events, FinishInstance, Reported
  <2>2. attempts[<<i, o>>] = 0
    BY <2>1 DEF NoDualWrite, HeldRowsExist
  <2> QED
    BY <1>3, <2>1, <2>2, RetriesKept DEF FinishInstance, EnqueueEvent, workers
<1>4. ASSUME NEW w \in Workers, Boot(w) PROVE RetriesBounded' /\ LateClaimsBounded'
  BY <1>4, RetriesKept DEF Boot, Moves, environment
<1>5. ASSUME NEW w \in Workers, FailExhausted(w) PROVE RetriesBounded' /\ LateClaimsBounded'
  BY <1>5, RetriesKept DEF FailExhausted, Moves, environment
<1>6. ASSUME NEW w \in Workers, NothingToClaim(w) PROVE RetriesBounded' /\ LateClaimsBounded'
  BY <1>6, RetriesKept DEF NothingToClaim, Moves, rows
<1>7. ASSUME NEW w \in Workers, PublishSucceeds(w) PROVE RetriesBounded' /\ LateClaimsBounded'
  BY <1>7, RetriesKept DEF PublishSucceeds, Moves, rows
<1>8. ASSUME NEW w \in Workers, PublishFails(w) PROVE RetriesBounded' /\ LateClaimsBounded'
  BY <1>8, RetriesKept DEF PublishFails, Moves, rows
<1>9. ASSUME NEW w \in Workers, PublishUnanswered(w) PROVE RetriesBounded' /\ LateClaimsBounded'
  BY <1>9, RetriesKept DEF PublishUnanswered, Moves, rows
<1>10. ASSUME NEW w \in Workers, MarkPublished(w) PROVE RetriesBounded' /\ LateClaimsBounded'
  BY <1>10, RetriesKept DEF MarkPublished, Moves, environment
<1>11. ASSUME NEW w \in Workers, Requeue(w) PROVE RetriesBounded' /\ LateClaimsBounded'
  BY <1>11, RetriesKept DEF Requeue, Moves, environment
<1>12. ASSUME NEW w \in Workers, QueryFails(w) PROVE RetriesBounded' /\ LateClaimsBounded'
  BY <1>12, RetriesKept DEF QueryFails, Moves, rows
<1>13. ASSUME NEW w \in Workers, Crash(w) PROVE RetriesBounded' /\ LateClaimsBounded'
  BY <1>13, RetriesKept DEF Crash, rows
<1>14. ASSUME NEW w \in Workers, Claim(w) PROVE RetriesBounded' /\ LateClaimsBounded'
  BY <1>14, RetryCounted
<1>15. ASSUME NEW e \in Events, LeaseRunsOut(e) PROVE RetriesBounded' /\ LateClaimsBounded'
  BY <1>15, RetriesKept DEF LeaseRunsOut, workers
<1>16. ASSUME BrokerGoesDown \/ BrokerComesUp PROVE RetriesBounded' /\ LateClaimsBounded'
  BY <1>16, RetriesKept DEF BrokerGoesDown, BrokerComesUp, rows, workers
<1>17. CASE UNCHANGED vars
  BY <1>17, RetriesKept DEF vars, rows, workers
<1> QED
  BY <1>1, <1>2, <1>3, <1>4, <1>5, <1>6, <1>7, <1>8, <1>9, <1>10, <1>11, <1>12, <1>13, <1>14, <1>15, <1>16, <1>17 DEF Next, PollStep

-----------------------------------------------------------------------------
(* The inductive invariant.                                                *)

LEMMA InitInv == Init => OutboxInv
<1> SUFFICES ASSUME Init PROVE OutboxInv
  OBVIOUS
<1>1. TypeOK
  BY InitType
<1>2. HeldRowsExist
  BY DEF Init, HeldRowsExist, Holding
<1>3. NoDualWrite
  BY DEF Init, NoDualWrite, Reported, Events
<1>4. DeliveriesHaveClaims
  <2>1. ASSUME NEW e \in Events PROVE Publishing(e) = {}
    BY DEF Init, Publishing
  <2> QED
    BY <2>1, FS_EmptySet DEF Init, DeliveriesHaveClaims
<1>5. RetriesBounded /\ LateClaimsBounded
  BY WorkerSetsFinite DEF Init, RetriesBounded, LateClaimsBounded
<1> QED
  BY <1>1, <1>2, <1>3, <1>4, <1>5 DEF OutboxInv

LEMMA NextInv == OutboxInv /\ [Next]_vars => OutboxInv'
<1> SUFFICES ASSUME OutboxInv, [Next]_vars PROVE OutboxInv'
  OBVIOUS
<1>1. TypeOK'
  BY NextType DEF OutboxInv
<1> QED
  BY <1>1, HeldRowsStep, NoDualWriteStep, DeliveriesStep, RetriesStep DEF OutboxInv

(* The invariant holds throughout every behaviour of the outbox: of        *)
(* update_instance_and_enqueue_event and the relay workers of              *)
(* outbox_worker.py, whatever crashes, lease expiries and database errors  *)
(* happen.                                                                 *)
THEOREM InvariantHolds == Safety => []OutboxInv
<1>1. Safety => Init /\ [][Next]_vars
  BY DEF Safety
<1> QED
  BY <1>1, InitInv, NextInv, PTL

(* update_instance_and_enqueue_event: an event row exists exactly when its *)
(* transition is committed, and nothing else reaches the broker.           *)
THEOREM NoDualWriteHolds == Safety => []NoDualWrite
<1>1. OutboxInv => NoDualWrite
  BY DEF OutboxInv
<1> QED
  BY <1>1, InvariantHolds, PTL

(* poll_once: published rows were delivered, and the deliveries of an      *)
(* event never outnumber its claims.                                       *)
THEOREM DeliveriesHaveClaimsHolds == Safety => []DeliveriesHaveClaims
<1>1. OutboxInv => DeliveriesHaveClaims
  BY DEF OutboxInv
<1> QED
  BY <1>1, InvariantHolds, PTL

(* fail_exhausted_outbox_events with any number of workers: at most one    *)
(* claim per further worker beyond max_attempts.                           *)
THEOREM RetriesBoundedHolds == Safety => []RetriesBounded
<1>1. OutboxInv => RetriesBounded
  BY DEF OutboxInv
<1> QED
  BY <1>1, InvariantHolds, PTL

-----------------------------------------------------------------------------
(* What may become of a row's status.                                      *)

LEMMA NewRow ==
  ASSUME OutboxInv, NEW i \in Instances,
         NEW k \in {"started", "completed", "failed"}, ~Reported(<<i, k>>)
  PROVE  <<i, k>> \in Events /\ status[<<i, k>>] = "absent" /\ delivered[<<i, k>>] = 0
<1>1. <<i, k>> \in Events
  BY DEF Events
<1>2. status[<<i, k>>] = "absent"
  BY <1>1 DEF OutboxInv, NoDualWrite
<1>3. delivered[<<i, k>>] \in Nat /\ ~(delivered[<<i, k>>] > 0)
  BY <1>1, <1>2 DEF OutboxInv, NoDualWrite, TypeOK
<1> QED
  BY <1>1, <1>2, <1>3

LEMMA StatusStepHolds ==
  ASSUME OutboxInv, [Next]_vars
  PROVE  StatusStep
<1> USE DEF OutboxInv, TypeOK, StatusStep
<1>1. ASSUME NEW i \in Instances, CreateInstance(i) PROVE StatusStep
  BY <1>1 DEF CreateInstance, rows
<1>2. ASSUME NEW i \in Instances, StartInstance(i) PROVE StatusStep
  <2>1. ~Reported(<<i, "started">>)
    BY <1>2 DEF StartInstance, Reported
  <2>2. status[<<i, "started">>] = "absent"
    BY <2>1, NewRow
  <2> QED
    BY <1>2, <2>2 DEF StartInstance, EnqueueEvent
<1>3. ASSUME NEW i \in Instances, NEW o \in {"completed", "failed"}, FinishInstance(i, o)
      PROVE StatusStep
  <2>1. ~Reported(<<i, o>>)
    BY <1>3 DEF FinishInstance, Reported
  <2>2. status[<<i, o>>] = "absent"
    BY <2>1, NewRow
  <2> QED
    BY <1>3, <2>2 DEF FinishInstance, EnqueueEvent
<1>4. ASSUME NEW w \in Workers, Boot(w) PROVE StatusStep
  BY <1>4 DEF Boot
<1>5. ASSUME NEW w \in Workers, FailExhausted(w) PROVE StatusStep
  BY <1>5 DEF FailExhausted
<1>6. ASSUME NEW w \in Workers, Claim(w) PROVE StatusStep
  BY <1>6 DEF Claim
<1>7. ASSUME NEW w \in Workers, NothingToClaim(w) PROVE StatusStep
  BY <1>7 DEF NothingToClaim, rows
<1>8. ASSUME NEW w \in Workers, PublishSucceeds(w) PROVE StatusStep
  BY <1>8 DEF PublishSucceeds, rows
<1>9. ASSUME NEW w \in Workers, PublishFails(w) PROVE StatusStep
  BY <1>9 DEF PublishFails, rows
<1>10. ASSUME NEW w \in Workers, PublishUnanswered(w) PROVE StatusStep
  BY <1>10 DEF PublishUnanswered, rows
<1>11. ASSUME NEW w \in Workers, MarkPublished(w) PROVE StatusStep
  BY <1>11 DEF MarkPublished, Moves, HeldRowsExist, Holding
<1>12. ASSUME NEW w \in Workers, Requeue(w) PROVE StatusStep
  BY <1>12 DEF Requeue
<1>13. ASSUME NEW w \in Workers, QueryFails(w) PROVE StatusStep
  BY <1>13 DEF QueryFails, rows
<1>14. ASSUME NEW w \in Workers, Crash(w) PROVE StatusStep
  BY <1>14 DEF Crash, rows
<1>15. ASSUME NEW e \in Events, LeaseRunsOut(e) PROVE StatusStep
  BY <1>15 DEF LeaseRunsOut
<1>16. ASSUME BrokerGoesDown \/ BrokerComesUp PROVE StatusStep
  BY <1>16 DEF BrokerGoesDown, BrokerComesUp, rows
<1>17. CASE UNCHANGED vars
  BY <1>17 DEF vars, rows
<1> QED
  BY <1>1, <1>2, <1>3, <1>4, <1>5, <1>6, <1>7, <1>8, <1>9, <1>10, <1>11, <1>12, <1>13, <1>14, <1>15, <1>16, <1>17 DEF Next, PollStep

(* fail_exhausted_outbox_events and mark_outbox_event_published: an event  *)
(* is given up only when its attempts are used up, a row that was given up *)
(* changes only to published after a real delivery, and published is final.*)
THEOREM GivingUpIsEarnedHolds == Safety => GivingUpIsEarned
<1>1. OutboxInv /\ [Next]_vars => [StatusStep]_vars
  BY StatusStepHolds
<1>2. Safety => [][Next]_vars
  BY DEF Safety
<1> QED
  BY <1>1, <1>2, InvariantHolds, PTL DEF GivingUpIsEarned

-----------------------------------------------------------------------------
(* The outbox implements the safety part of EventDelivery.                 *)

LEMMA FateInit == Init => Delivery!Init
  BY DEF Init, Delivery!Init, Fate

LEMMA FateKept ==
  ASSUME OutboxInv, UNCHANGED delivered,
         \A e \in Events : status'[e] = status[e] \/ delivered[e] > 0
  PROVE  [Delivery!Next]_(Delivery!vars)
<1>1. ASSUME NEW e \in Events PROVE Fate(e)' = Fate(e)
  BY <1>1 DEF Fate
<1>2. [e \in Events |-> Fate(e)]' = [e \in Events |-> Fate(e)]
  BY <1>1
<1> QED
  BY <1>2 DEF Delivery!vars

LEMMA FateAnnounced ==
  ASSUME OutboxInv, UNCHANGED delivered, NEW e \in Events,
         status[e] = "absent", delivered[e] = 0,
         status' = [status EXCEPT ![e] = "pending"]
  PROVE  Delivery!Announce(e)
<1>1. Fate(e) = "unannounced" /\ Fate(e)' = "queued"
  BY DEF Fate, OutboxInv, TypeOK
<1>2. ASSUME NEW f \in Events, f # e PROVE Fate(f)' = Fate(f)
  BY <1>2 DEF Fate, OutboxInv, TypeOK
<1> QED
  BY <1>1, <1>2 DEF Delivery!Announce

LEMMA FateDelivered ==
  ASSUME OutboxInv, UNCHANGED status, NEW w \in Workers,
         phase[w] = "publish", delivered' = [delivered EXCEPT ![claimed[w]] = @ + 1]
  PROVE  [Delivery!Next]_(Delivery!vars)
<1>1. PICK e \in Events : e = claimed[w] /\ status[e] # "absent"
  BY DEF OutboxInv, HeldRowsExist, Holding
<1>2. delivered'[e] > 0 /\ delivered[e] \in Nat
  BY <1>1 DEF OutboxInv, TypeOK
<1>3. ASSUME NEW f \in Events, f # e PROVE Fate(f)' = Fate(f)
  BY <1>1, <1>3 DEF Fate, OutboxInv, TypeOK
<1>4. CASE delivered[e] > 0
  <2>1. Fate(e)' = Fate(e)
    BY <1>2, <1>4 DEF Fate
  <2>2. [f \in Events |-> Fate(f)]' = [f \in Events |-> Fate(f)]
    BY <1>3, <2>1
  <2> QED
    BY <2>2 DEF Delivery!vars
<1>5. CASE delivered[e] = 0
  <2>1. Fate(e) \in {"queued", "abandoned"} /\ Fate(e)' = "delivered"
    BY <1>1, <1>2, <1>5 DEF Fate, OutboxInv, TypeOK
  <2>2. Delivery!Deliver(e)
    BY <1>3, <2>1 DEF Delivery!Deliver
  <2> QED
    BY <2>2 DEF Delivery!Next
<1> QED
  BY <1>2, <1>4, <1>5

LEMMA FateAbandoned ==
  ASSUME OutboxInv, NEW w \in Workers, FailExhausted(w)
  PROVE  Delivery!Next
<1> DEFINE S == {e \in Events : /\ status[e] = "pending" /\ attempts[e] >= MaxAttempts
                               /\ ~(delivered[e] > 0)}
<1>1. ASSUME NEW e \in S PROVE Fate(e) = "queued" /\ Fate(e)' = "abandoned"
  BY <1>1 DEF Fate, FailExhausted, environment
<1>2. ASSUME NEW e \in Events \ S PROVE Fate(e)' = Fate(e)
  BY <1>2 DEF Fate, FailExhausted, environment
<1>3. Delivery!Abandon(S)
  BY <1>1, <1>2 DEF Delivery!Abandon
<1> QED
  BY <1>3 DEF Delivery!Next

LEMMA FateStep ==
  ASSUME OutboxInv, [Next]_vars
  PROVE  [Delivery!Next]_(Delivery!vars)
<1>1. ASSUME NEW i \in Instances, CreateInstance(i) PROVE [Delivery!Next]_(Delivery!vars)
  BY <1>1, FateKept DEF CreateInstance, rows, environment
<1>2. ASSUME NEW i \in Instances, StartInstance(i) PROVE Delivery!Next
  <2>1. ~Reported(<<i, "started">>)
    BY <1>2 DEF StartInstance, Reported
  <2> QED
    BY <1>2, <2>1, NewRow, FateAnnounced DEF StartInstance, EnqueueEvent, environment, Delivery!Next
<1>3. ASSUME NEW i \in Instances, NEW o \in {"completed", "failed"}, FinishInstance(i, o)
      PROVE Delivery!Next
  <2>1. ~Reported(<<i, o>>)
    BY <1>3 DEF FinishInstance, Reported
  <2> QED
    BY <1>3, <2>1, NewRow, FateAnnounced DEF FinishInstance, EnqueueEvent, environment, Delivery!Next
<1>4. ASSUME NEW w \in Workers, FailExhausted(w) PROVE Delivery!Next
  BY <1>4, FateAbandoned
<1>5. ASSUME NEW w \in Workers, PublishSucceeds(w) PROVE [Delivery!Next]_(Delivery!vars)
  BY <1>5, FateDelivered DEF PublishSucceeds, Moves, rows
<1>6. ASSUME NEW w \in Workers, PublishUnanswered(w) PROVE [Delivery!Next]_(Delivery!vars)
  BY <1>6, FateDelivered DEF PublishUnanswered, Moves, rows
<1>7. ASSUME NEW w \in Workers, Boot(w) PROVE [Delivery!Next]_(Delivery!vars)
  BY <1>7, FateKept DEF Boot, environment
<1>8. ASSUME NEW w \in Workers, Claim(w) PROVE [Delivery!Next]_(Delivery!vars)
  BY <1>8, FateKept DEF Claim, environment
<1>9. ASSUME NEW w \in Workers, NothingToClaim(w) PROVE [Delivery!Next]_(Delivery!vars)
  BY <1>9, FateKept DEF NothingToClaim, rows, environment
<1>10. ASSUME NEW w \in Workers, PublishFails(w) PROVE [Delivery!Next]_(Delivery!vars)
  BY <1>10, FateKept DEF PublishFails, rows
<1>11. ASSUME NEW w \in Workers, MarkPublished(w) PROVE [Delivery!Next]_(Delivery!vars)
  BY <1>11, FateKept DEF MarkPublished, Moves, HeldRowsExist, Holding, environment, OutboxInv, TypeOK
<1>12. ASSUME NEW w \in Workers, Requeue(w) PROVE [Delivery!Next]_(Delivery!vars)
  BY <1>12, FateKept DEF Requeue, environment
<1>13. ASSUME NEW w \in Workers, QueryFails(w) PROVE [Delivery!Next]_(Delivery!vars)
  BY <1>13, FateKept DEF QueryFails, rows
<1>14. ASSUME NEW w \in Workers, Crash(w) PROVE [Delivery!Next]_(Delivery!vars)
  BY <1>14, FateKept DEF Crash, rows
<1>15. ASSUME NEW e \in Events, LeaseRunsOut(e) PROVE [Delivery!Next]_(Delivery!vars)
  BY <1>15, FateKept DEF LeaseRunsOut, environment
<1>16. ASSUME BrokerGoesDown \/ BrokerComesUp PROVE [Delivery!Next]_(Delivery!vars)
  BY <1>16, FateKept DEF BrokerGoesDown, BrokerComesUp, rows
<1>17. CASE UNCHANGED vars
  BY <1>17, FateKept DEF vars, rows, environment
<1> QED
  BY <1>1, <1>2, <1>3, <1>4, <1>5, <1>6, <1>7, <1>8, <1>9, <1>10, <1>11, <1>12, <1>13, <1>14, <1>15, <1>16, <1>17 DEF Next, PollStep

(* Every step of the outbox is a step of EventDelivery or changes no       *)
(* event's fate; that queued events do settle is left to the model checker.*)
THEOREM ImplementsDeliverySafety == Safety => Delivery!Safety
<1>1. Safety => Init /\ [][Next]_vars
  BY DEF Safety
<1>2. OutboxInv /\ [Next]_vars => [Delivery!Next]_(Delivery!vars)
  BY FateStep
<1> QED
  BY <1>1, <1>2, FateInit, InvariantHolds, PTL DEF Delivery!Safety

=============================================================================
