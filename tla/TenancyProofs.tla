--------------------------- MODULE TenancyProofs ----------------------------
(***************************************************************************)
(* Proofs about the services that govern tenants, each for any number of   *)
(* callers and any values of its constants: resource allocations, quotas,  *)
(* invoices and the hierarchy of workspaces and environments. A section    *)
(* names its module and says what it proves.                               *)
(***************************************************************************)
EXTENDS ResourceAllocation, QuotaCounter, InvoiceService, TenantHierarchy,
        FoldLemmas

-----------------------------------------------------------------------------
(***************************************************************************)
(* ResourceAllocation: an allocation is decided once, and the policy       *)
(* approves nothing before a reviewer has.                                 *)
(***************************************************************************)

(* The inductive invariant.                                                *)

Requesting == {"absent", "approved", "compared"}
AllocationRows ==
  [status : Requesting \cup {"requested", "active", "rejected"},
   capacity : Capacities \cup {0}, by : {"none", "policy", "reviewer"}, version : Nat]
ReviewCalls ==
  [at : {"idle", "read", "swap", "refused", "conflict", "done"},
   on : Allocations \cup {"none"}, verdict : {"active", "rejected"}, expected : Nat]

AllocationTyped ==
  /\ allocation \in [Allocations -> AllocationRows]
  /\ activations \in Seq(Allocations)
  /\ review \in [Reviews -> ReviewCalls]
  /\ \A r \in Reviews : review[r].at # "idle" => review[r].on \in Allocations

VersionedWhenCreated ==
  \A a \in Allocations : allocation[a].version > 0 <=> allocation[a].status \notin Requesting

(* The version that a reviewer has seen is not ahead of the row's, and     *)
(* where it still is the row's, so is the status that was read.            *)
ReviewsBehind ==
  \A r \in Reviews :
    /\ review[r].at \in {"read", "swap"} =>
         /\ review[r].expected > 0
         /\ allocation[review[r].on].version >= review[r].expected
    /\ review[r].at = "swap" /\ allocation[review[r].on].version = review[r].expected =>
         allocation[review[r].on].status = "requested"

OneDecides ==
  \A q, r \in Reviews :
    review[r].at = "done" =>
      /\ allocation[review[r].on].status = review[r].verdict
      /\ review[q].at = "done" /\ review[q].on = review[r].on => q = r

FirstByReviewer ==
  activations # <<>> =>
    allocation[Head(activations)].status = "active" /\ allocation[Head(activations)].by = "reviewer"

ApprovedAfterFirst ==
  \A a \in Allocations : allocation[a].status = "approved" => activations # <<>>

AllocationInv ==
  /\ AllocationTyped /\ VersionedWhenCreated /\ ReviewsBehind
  /\ OneDecides /\ FirstByReviewer /\ ApprovedAfterFirst

-----------------------------------------------------------------------------

LEMMA AllocationInitially == AllocationInit => AllocationInv
  <1> SUFFICES ASSUME AllocationInit
               PROVE  AllocationInv
    OBVIOUS
  <1>1. AllocationTyped
    BY DEF AllocationInit, AllocationTyped, AllocationRows, ReviewCalls, Requesting
  <1> QED
    BY <1>1 DEF AllocationInit, AllocationInv, VersionedWhenCreated, ReviewsBehind, OneDecides,
                FirstByReviewer, ApprovedAfterFirst, Requesting

(* Appending does not change what comes first.                             *)
LEMMA HeadStays ==
  ASSUME NEW s \in Seq(Allocations), NEW a \in Allocations
  PROVE  /\ Append(s, a) \in Seq(Allocations) /\ Append(s, a) # <<>>
         /\ s # <<>> => Head(Append(s, a)) = Head(s)
         /\ s = <<>> => Head(Append(s, a)) = a
         /\ s # <<>> => Head(s) \in Allocations
  <1> DEFINE t == Append(s, a)
  <1>1. t \in Seq(Allocations) /\ Len(t) = Len(s) + 1 /\ Len(s) \in Nat
    OBVIOUS
  <1>2. t # <<>>
    BY <1>1
  <1>3. s # <<>> => Len(s) > 0 /\ t[1] = s[1] /\ Head(s) = s[1] /\ Head(s) \in Allocations
    OBVIOUS
  <1>4. Head(t) = t[1]
    BY <1>1, <1>2
  <1>5. s = <<>> => t[1] = a
    OBVIOUS
  <1> QED
    BY <1>1, <1>2, <1>3, <1>4, <1>5

LEMMA RequestChangeKeeps ==
  ASSUME AllocationInv, NEW a \in Allocations, NEW capacity \in Capacities,
         RequestChange(a, capacity)
  PROVE  AllocationInv'
  <1>1. AllocationTyped /\ VersionedWhenCreated
    BY DEF AllocationInv
  <1>2. allocation[a].status = "absent" /\ activations' = activations /\ review' = review
    BY DEF RequestChange
  <1>3. PICK status \in {"approved", "compared"} :
          /\ allocation' = [allocation EXCEPT ![a] =
               [status |-> status, capacity |-> capacity, by |-> "none", version |-> 0]]
          /\ status = "approved" => activations # <<>>
    BY DEF RequestChange, WithinThreshold
  <1>4. AllocationTyped'
    BY <1>1, <1>2, <1>3 DEF AllocationTyped, AllocationRows, Requesting
  <1>5. \A b \in Allocations \ {a} : allocation'[b] = allocation[b]
    BY <1>1, <1>3 DEF AllocationTyped
  <1>6. /\ allocation'[a].status \in {"approved", "compared"} /\ allocation'[a].version = 0
        /\ allocation'[a].status = "approved" => activations # <<>>
    BY <1>1, <1>3 DEF AllocationTyped
  <1>7. allocation[a].version = 0
    BY <1>1, <1>2 DEF AllocationTyped, AllocationRows, VersionedWhenCreated, Requesting
  <1>8. VersionedWhenCreated' /\ ApprovedAfterFirst'
    BY <1>1, <1>2, <1>5, <1>6
    DEF AllocationInv, VersionedWhenCreated, ApprovedAfterFirst, Requesting
  <1>9. ReviewsBehind'
    <2>1. \A r \in Reviews : review[r].at \in {"read", "swap"} =>
            review[r].on \in Allocations /\ review[r].on # a
      BY <1>1, <1>7 DEF AllocationInv, AllocationTyped, ReviewsBehind, ReviewCalls
    <2> QED
      BY <1>2, <1>5, <2>1 DEF AllocationInv, ReviewsBehind
  <1>10. OneDecides'
    <2>1. \A r \in Reviews : review[r].at = "done" => review[r].on \in Allocations /\ review[r].on # a
      BY <1>1, <1>2 DEF AllocationInv, AllocationTyped, OneDecides, ReviewCalls
    <2> QED
      BY <1>2, <1>5, <2>1 DEF AllocationInv, OneDecides
  <1>11. FirstByReviewer'
    BY <1>1, <1>2, <1>5, HeadStays DEF AllocationInv, AllocationTyped, FirstByReviewer
  <1> QED
    BY <1>4, <1>8, <1>9, <1>10, <1>11 DEF AllocationInv

LEMMA CreateAllocationKeeps ==
  ASSUME AllocationInv, NEW a \in Allocations, CreateAllocation(a)
  PROVE  AllocationInv'
  <1>1. AllocationTyped /\ VersionedWhenCreated
    BY DEF AllocationInv
  <1>2. allocation[a].status \in {"approved", "compared"} /\ review' = review
    BY DEF CreateAllocation
  <1>3. /\ activations' \in {activations, Append(activations, a)}
        /\ allocation[a].status = "compared" => activations' = activations
    BY <1>2 DEF CreateAllocation
  <1>4. PICK status \in {"active", "requested"}, by \in {"policy", "none"} :
          allocation' = [allocation EXCEPT ![a] =
            [status |-> status, capacity |-> allocation[a].capacity, by |-> by, version |-> 1]]
    <2>1. CASE allocation[a].status = "approved"
      BY <1>1, <2>1 DEF CreateAllocation, AllocationTyped, AllocationRows
    <2>2. CASE allocation[a].status = "compared"
      BY <1>1, <2>2 DEF CreateAllocation, AllocationTyped, AllocationRows
    <2> QED
      BY <1>2, <2>1, <2>2
  <1>5. AllocationTyped'
    <2>1. activations' \in Seq(Allocations)
      BY <1>1, <1>3, HeadStays DEF AllocationTyped
    <2>2. allocation' \in [Allocations -> AllocationRows]
      BY <1>1, <1>4 DEF AllocationTyped, AllocationRows
    <2> QED
      BY <1>1, <1>2, <2>1, <2>2 DEF AllocationTyped
  <1>6. \A b \in Allocations \ {a} : allocation'[b] = allocation[b]
    BY <1>1, <1>4 DEF AllocationTyped
  <1>7. allocation'[a].status \in {"active", "requested"} /\ allocation'[a].version = 1
    BY <1>1, <1>4 DEF AllocationTyped
  <1>8. allocation[a].version = 0
    BY <1>1, <1>2 DEF AllocationTyped, AllocationRows, VersionedWhenCreated, Requesting
  <1>9. activations # <<>> => activations' # <<>>
    BY <1>1, <1>3 DEF AllocationTyped
  <1>10. VersionedWhenCreated' /\ ApprovedAfterFirst'
    BY <1>1, <1>6, <1>7, <1>9
    DEF AllocationInv, VersionedWhenCreated, ApprovedAfterFirst, Requesting
  <1>11. ReviewsBehind'
    <2>1. \A r \in Reviews : review[r].at \in {"read", "swap"} =>
            review[r].on \in Allocations /\ review[r].on # a
      BY <1>1, <1>8 DEF AllocationInv, AllocationTyped, ReviewsBehind, ReviewCalls
    <2> QED
      BY <1>2, <1>6, <2>1 DEF AllocationInv, ReviewsBehind
  <1>12. OneDecides'
    <2>1. \A r \in Reviews : review[r].at = "done" => review[r].on \in Allocations /\ review[r].on # a
      BY <1>1, <1>2 DEF AllocationInv, AllocationTyped, OneDecides, ReviewCalls
    <2> QED
      BY <1>2, <1>6, <2>1 DEF AllocationInv, OneDecides
  <1>13. FirstByReviewer'
    <2>1. CASE activations # <<>>
      <3>1. Head(activations') = Head(activations) /\ Head(activations) \in Allocations
        BY <1>1, <1>3, <2>1, HeadStays DEF AllocationTyped
      <3>2. Head(activations) # a
        BY <1>2, <2>1 DEF AllocationInv, FirstByReviewer
      <3> QED
        BY <1>6, <2>1, <3>1, <3>2 DEF AllocationInv, FirstByReviewer
    <2>2. CASE activations = <<>>
      BY <1>2, <1>3, <2>2 DEF AllocationInv, ApprovedAfterFirst, FirstByReviewer
    <2> QED
      BY <2>1, <2>2
  <1> QED
    BY <1>5, <1>10, <1>11, <1>12, <1>13 DEF AllocationInv

LEMMA AskReviewKeeps ==
  ASSUME AllocationInv, NEW r \in Reviews, NEW a \in Allocations,
         NEW verdict \in {"active", "rejected"}, AskReview(r, a, verdict)
  PROVE  AllocationInv'
  <1>1. AllocationTyped
    BY DEF AllocationInv
  <1>2. /\ allocation' = allocation /\ activations' = activations
        /\ review[r].at = "idle" /\ allocation[a].version > 0
    BY DEF AskReview
  <1>3. /\ review'[r] = [at |-> "read", on |-> a, verdict |-> verdict,
                         expected |-> allocation[a].version]
        /\ \A q \in Reviews \ {r} : review'[q] = review[q]
    BY <1>1 DEF AskReview, AllocationTyped
  <1>4. AllocationTyped'
    BY <1>1, <1>2 DEF AskReview, AllocationTyped, AllocationRows, ReviewCalls
  <1>5. ReviewsBehind'
    BY <1>1, <1>2, <1>3 DEF AllocationInv, AllocationTyped, AllocationRows, ReviewsBehind
  <1>6. OneDecides'
    BY <1>2, <1>3 DEF AllocationInv, OneDecides
  <1> QED
    BY <1>2, <1>4, <1>5, <1>6
    DEF AllocationInv, VersionedWhenCreated, ApprovedAfterFirst, FirstByReviewer

LEMMA ReadForReviewKeeps ==
  ASSUME AllocationInv, NEW r \in Reviews, ReadForReview(r)
  PROVE  AllocationInv'
  <1>1. AllocationTyped
    BY DEF AllocationInv
  <1>2. /\ allocation' = allocation /\ activations' = activations
        /\ review[r].at = "read"
    BY DEF ReadForReview
  <1>3. PICK at \in {"swap", "refused"} :
          /\ review' = [review EXCEPT ![r].at = at]
          /\ at = "swap" => allocation[review[r].on].status = "requested"
    BY DEF ReadForReview
  <1>4. AllocationTyped'
    BY <1>1, <1>2, <1>3, ZenonT(60) DEF AllocationTyped, ReviewCalls
  <1>5. /\ review'[r].at = at /\ review'[r].on = review[r].on
        /\ review'[r].expected = review[r].expected
        /\ \A q \in Reviews \ {r} : review'[q] = review[q]
    BY <1>1, <1>3 DEF AllocationTyped, ReviewCalls
  <1>6. ReviewsBehind'
    BY <1>2, <1>3, <1>5 DEF AllocationInv, ReviewsBehind
  <1>7. OneDecides'
    BY <1>2, <1>5 DEF AllocationInv, OneDecides
  <1> QED
    BY <1>2, <1>4, <1>6, <1>7
    DEF AllocationInv, VersionedWhenCreated, ApprovedAfterFirst, FirstByReviewer

LEMMA SwapReviewKeeps ==
  ASSUME AllocationInv, NEW r \in Reviews, SwapReview(r)
  PROVE  AllocationInv'
  <1>1. AllocationTyped /\ review[r].at = "swap"
    BY DEF AllocationInv, SwapReview
  <1>2. PICK a \in Allocations : a = review[r].on
    BY <1>1 DEF AllocationTyped
  <1>3. CASE allocation[a].version # review[r].expected
    <2>1. /\ review' = [review EXCEPT ![r].at = "conflict"]
          /\ allocation' = allocation /\ activations' = activations
      BY <1>2, <1>3 DEF SwapReview
    <2>2. AllocationTyped'
      BY <1>1, <2>1 DEF AllocationTyped, ReviewCalls
    <2>3. /\ review'[r].at = "conflict"
          /\ \A q \in Reviews \ {r} : review'[q] = review[q]
      BY <1>1, <2>1 DEF AllocationTyped, ReviewCalls
    <2>4. ReviewsBehind' /\ OneDecides'
      BY <2>1, <2>3 DEF AllocationInv, ReviewsBehind, OneDecides
    <2> QED
      BY <2>1, <2>2, <2>4
      DEF AllocationInv, VersionedWhenCreated, ApprovedAfterFirst, FirstByReviewer
  <1>4. CASE allocation[a].version = review[r].expected
    <2> DEFINE verdict == review[r].verdict
    <2>1. allocation[a].status = "requested" /\ allocation[a].version > 0
      BY <1>1, <1>2, <1>4 DEF AllocationInv, ReviewsBehind
    <2>2. verdict \in {"active", "rejected"}
      BY <1>1 DEF AllocationTyped, ReviewCalls
    <2>3. allocation' = [allocation EXCEPT
               ![a].version = @ + 1, ![a].status = verdict,
               ![a].by = IF verdict = "active" THEN "reviewer" ELSE @]
      BY <1>2, <1>4 DEF SwapReview
    <2>4. /\ verdict = "active" => activations' = Append(activations, a)
          /\ verdict # "active" => activations' = activations
          /\ review' = [review EXCEPT ![r].at = "done"]
      BY <1>2, <1>4 DEF SwapReview
    <2> HIDE DEF verdict
    <2>5. /\ allocation'[a].status = verdict
          /\ verdict = "active" => allocation'[a].by = "reviewer"
          /\ allocation'[a].version = allocation[a].version + 1
          /\ \A b \in Allocations \ {a} : allocation'[b] = allocation[b]
      BY <1>1, <2>3 DEF AllocationTyped, AllocationRows
    <2> USE DEF verdict
    <2>6. /\ review'[r].at = "done" /\ review'[r].on = a /\ review'[r].verdict = verdict
          /\ \A q \in Reviews \ {r} : review'[q] = review[q]
      BY <1>1, <1>2, <2>4 DEF AllocationTyped, ReviewCalls
    <2>7. allocation[a].version \in Nat
      BY <1>1 DEF AllocationTyped, AllocationRows
    <2>8. AllocationTyped'
      <3>1. allocation' \in [Allocations -> AllocationRows]
        <4>1. allocation \in [Allocations -> AllocationRows]
          BY <1>1 DEF AllocationTyped
        <4> DEFINE next == [allocation[a] EXCEPT
              !.version = @ + 1, !.status = verdict,
              !.by = IF verdict = "active" THEN "reviewer" ELSE @]
        <4>2. allocation' = [allocation EXCEPT ![a] = next]
          BY <2>3, <4>1
        <4> HIDE DEF verdict
        <4>3. next \in AllocationRows
          <5>1. PICK row \in AllocationRows : allocation[a] = row
            BY <4>1
          <5>2. verdict \in Requesting \cup {"requested", "active", "rejected"}
            BY <2>2
          <5>3. [row EXCEPT !.version = @ + 1] \in AllocationRows
            BY DEF AllocationRows
          <5>4. [row EXCEPT !.version = @ + 1, !.status = verdict] \in AllocationRows
            BY <5>2, <5>3 DEF AllocationRows
          <5> QED
            BY <5>1, <5>4, ZenonT(40) DEF AllocationRows
        <4> HIDE DEF next
        <4> QED
          BY <4>1, <4>2, <4>3
      <3>2. activations' \in Seq(Allocations)
        BY <1>1, <2>4, HeadStays DEF AllocationTyped
      <3>3. review' \in [Reviews -> ReviewCalls]
        BY <1>1, <2>4, ZenonT(60) DEF AllocationTyped, ReviewCalls
      <3> QED
        BY <1>1, <2>6, <3>1, <3>2, <3>3 DEF AllocationTyped
    <2> HIDE DEF verdict
    <2>9. VersionedWhenCreated'
      BY <2>2, <2>5, <2>7 DEF AllocationInv, VersionedWhenCreated, Requesting
    <2>10. ReviewsBehind'
      <3> SUFFICES ASSUME NEW q \in Reviews, review'[q].at \in {"read", "swap"}
                   PROVE  /\ review'[q].expected > 0
                          /\ allocation'[review'[q].on].version >= review'[q].expected
                          /\ review'[q].at = "swap"
                             /\ allocation'[review'[q].on].version = review'[q].expected =>
                               allocation'[review'[q].on].status = "requested"
        BY DEF ReviewsBehind
      <3>1. review'[q] = review[q] /\ review[q].on \in Allocations /\ review[q].expected \in Nat
        BY <1>1, <2>6 DEF AllocationTyped, ReviewCalls
      <3>2. CASE review[q].on = a
        BY <2>5, <2>7, <3>1, <3>2 DEF AllocationInv, ReviewsBehind
      <3>3. CASE review[q].on # a
        BY <2>5, <3>1, <3>3 DEF AllocationInv, ReviewsBehind
      <3> QED
        BY <3>2, <3>3
    <2>11. OneDecides'
      <3>1. \A q \in Reviews : review[q].at = "done" => review[q].on # a
        <4>1. \A q \in Reviews : review[q].verdict # "requested"
          BY <1>1 DEF AllocationTyped, ReviewCalls
        <4> QED
          BY <2>1, <4>1 DEF AllocationInv, OneDecides
      <3>2. \A q \in Reviews : review[q].at = "done" => review[q].on \in Allocations
        BY <1>1 DEF AllocationTyped
      <3> QED
        BY <2>5, <2>6, <3>1, <3>2 DEF AllocationInv, OneDecides
    <2>12. FirstByReviewer'
      <3>1. CASE activations # <<>>
        <4>1. Head(activations') = Head(activations) /\ Head(activations) \in Allocations
          BY <1>1, <2>4, <3>1, HeadStays DEF AllocationTyped
        <4>2. Head(activations) # a
          BY <2>1, <3>1 DEF AllocationInv, FirstByReviewer
        <4> QED
          BY <2>5, <3>1, <4>1, <4>2 DEF AllocationInv, FirstByReviewer
      <3>2. CASE activations = <<>> /\ verdict = "active"
        <4>1. Head(activations') = a
          BY <1>1, <2>4, <3>2, HeadStays DEF AllocationTyped
        <4> QED
          BY <2>5, <3>2, <4>1 DEF FirstByReviewer
      <3>3. CASE activations = <<>> /\ verdict # "active"
        BY <2>4, <3>3 DEF FirstByReviewer
      <3> QED
        BY <3>1, <3>2, <3>3
    <2>13. ApprovedAfterFirst'
      <3>1. activations # <<>> => activations' # <<>>
        BY <1>1, <2>4, HeadStays DEF AllocationTyped
      <3> QED
        BY <2>2, <2>5, <3>1 DEF AllocationInv, ApprovedAfterFirst
    <2> QED
      BY <2>8, <2>9, <2>10, <2>11, <2>12, <2>13 DEF AllocationInv
  <1> QED
    BY <1>3, <1>4

-----------------------------------------------------------------------------

LEMMA AllocationStep == AllocationInv /\ [AllocationNext]_allocationVars => AllocationInv'
  <1>1. CASE UNCHANGED allocationVars
    BY <1>1 DEF allocationVars, AllocationInv, AllocationTyped, VersionedWhenCreated,
                ReviewsBehind, OneDecides, FirstByReviewer, ApprovedAfterFirst
  <1> QED
    BY <1>1, RequestChangeKeeps, CreateAllocationKeeps, AskReviewKeeps, ReadForReviewKeeps,
       SwapReviewKeeps
    DEF AllocationNext

LEMMA AllocationSafe == AllocationSpec => []AllocationInv
  BY AllocationInitially, AllocationStep, PTL DEF AllocationSpec

(* Of any number of reviewers that decide one allocation, exactly one wins *)
(* and what is stored is its verdict (ResourceAllocationService.approve).  *)
THEOREM AllocationDecidedOnceHolds ==
  AllocationSpec => []AllocationDecidedOnce
  <1>1. AllocationInv => AllocationDecidedOnce
    BY DEF AllocationInv, OneDecides, AllocationDecidedOnce
  <1> QED
    BY <1>1, AllocationSafe, PTL

(* The policy never makes the first allocation of an environment active,   *)
(* whatever the capacities, the ratio and the races                        *)
(* (ResourceAllocationService._within_auto_approve_threshold).             *)
THEOREM PolicyFollowsReviewerHolds ==
  AllocationSpec => []PolicyFollowsReviewer
  <1>1. AllocationInv => PolicyFollowsReviewer
    BY DEF AllocationInv, FirstByReviewer, PolicyFollowsReviewer
  <1> QED
    BY <1>1, AllocationSafe, PTL

-----------------------------------------------------------------------------
(***************************************************************************)
(* QuotaCounter, wherever limits and windows move: what the callers of a   *)
(* window are allowed together is within the highest limit of theirs.      *)
(***************************************************************************)

(* The inductive invariant.                                                *)

QuotaRows ==
  [at : {"idle", "unlimited", "consume", "allowed", "denied"},
   amount : Nat, limit : Nat, window : QuotaWindows]

QuotaTyped ==
  /\ quotaLimit \in Nat
  /\ window \in QuotaWindows
  /\ counter \in [QuotaWindows -> Nat]
  /\ quotaCall \in [QuotaCalls -> QuotaRows]

Amounts == [c \in QuotaCalls |-> quotaCall[c].amount]
AllowedIn(v) == {c \in QuotaCalls : quotaCall[c].at = "allowed" /\ quotaCall[c].window = v}

(* The counter of a window holds at least what its callers were allowed.   *)
AllowedIsCounted == \A v \in QuotaWindows : SumOf(Amounts, AllowedIn(v)) <= counter[v]

(* The last of them was let in by a limit that covers them all.            *)
LimitCoversAll ==
  \A v \in QuotaWindows : AllowedIn(v) # {} =>
    \E c \in AllowedIn(v) : SumOf(Amounts, AllowedIn(v)) <= quotaCall[c].limit

QuotaInv == QuotaTyped /\ AllowedIsCounted /\ LimitCoversAll

-----------------------------------------------------------------------------

(* The sum in the property is the sum of the lemmas. *)
LEMMA AmountsAreSummed ==
  ASSUME NEW S \in SUBSET QuotaCalls
  PROVE  MapThenSumSet(LAMBDA c : quotaCall[c].amount, S) = SumOf(Amounts, S)
<1> DEFINE A(g) == [s \in SUBSET S |-> IF s = {} THEN 0 ELSE quotaCall[Some(s)].amount + g[s \ {Some(s)}]]
           B(g) == [s \in SUBSET S |-> IF s = {} THEN 0 ELSE Amounts[Some(s)] + g[s \ {Some(s)}]]
<1>1. \A s \in SUBSET S : s # {} => Amounts[Some(s)] = quotaCall[Some(s)].amount
  BY SomeIsIn DEF Amounts
<1>2. ASSUME NEW g PROVE A(g) = B(g)
  BY <1>1
<1>3. MapThenSumSet(LAMBDA c : quotaCall[c].amount, S) = (CHOOSE g : g = A(g))[S]
  BY DEF MapThenSumSet, MapThenFoldSet, Some
<1>4. SumOf(Amounts, S) = (CHOOSE g : g = B(g))[S]
  BY DEF SumOf, Sums
<1> HIDE DEF A, B
<1>5. (CHOOSE g : g = A(g)) = (CHOOSE g : g = B(g))
  BY <1>2
<1> QED
  BY <1>3, <1>4, <1>5

LEMMA AmountsAreNumbers ==
  ASSUME QuotaTyped, NEW S \in SUBSET QuotaCalls
  PROVE  /\ IsFiniteSet(S)
         /\ \A c \in S : Amounts[c] \in Nat
         /\ SumOf(Amounts, S) \in Nat
<1>1. IsFiniteSet(S)
  BY QuotaAssumption, FS_Subset
<1>2. \A c \in S : Amounts[c] \in Nat
  BY DEF QuotaTyped, QuotaRows, Amounts
<1> QED
  BY <1>1, <1>2, SumOfType

LEMMA QuotaInitially == QuotaInit => QuotaInv
<1> SUFFICES ASSUME QuotaInit PROVE QuotaInv
  OBVIOUS
<1> USE QuotaAssumption DEF QuotaInit, NoQuota
<1>1. QuotaTyped
  BY DEF QuotaTyped, QuotaRows
<1>2. \A v \in QuotaWindows : AllowedIn(v) = {}
  BY DEF AllowedIn
<1>3. SumOf(Amounts, {}) = 0
  BY SumOfChosen, FS_EmptySet
<1>4. AllowedIsCounted /\ LimitCoversAll
  BY <1>2, <1>3 DEF AllowedIsCounted, LimitCoversAll
<1> QED
  BY <1>1, <1>4 DEF QuotaInv

(* A step that allows nobody and takes nothing from the counters. *)
LEMMA NobodyAllowed ==
  ASSUME QuotaInv, QuotaTyped',
         \A v \in QuotaWindows : counter[v] <= counter'[v],
         \A c \in QuotaCalls :
           (quotaCall[c].at = "allowed" \/ quotaCall'[c].at = "allowed") => quotaCall'[c] = quotaCall[c]
  PROVE  QuotaInv'
<1> SUFFICES ASSUME NEW v \in QuotaWindows
             PROVE  /\ SumOf(Amounts', AllowedIn(v)') <= counter'[v]
                    /\ AllowedIn(v)' # {} =>
                         \E c \in AllowedIn(v)' : SumOf(Amounts', AllowedIn(v)') <= quotaCall'[c].limit
  BY DEF QuotaInv, AllowedIsCounted, LimitCoversAll
<1>1. AllowedIn(v)' = AllowedIn(v)
  BY DEF AllowedIn
<1>2. PICK S \in SUBSET QuotaCalls : S = AllowedIn(v)
  BY DEF AllowedIn
<1>3. IsFiniteSet(S) /\ SumOf(Amounts, S) \in Nat
  BY AmountsAreNumbers DEF QuotaInv
<1>4. \A c \in S : quotaCall'[c] = quotaCall[c]
  BY <1>2 DEF AllowedIn
<1>5. \A c \in S : Amounts'[c] = Amounts[c]
  BY <1>4 DEF Amounts
<1>6. SumOf(Amounts', S) = SumOf(Amounts, S)
  BY <1>3, <1>5, SumOfSame
<1>7. SumOf(Amounts, S) <= counter[v] /\ counter[v] \in Nat /\ counter'[v] \in Nat
  BY <1>2 DEF QuotaInv, AllowedIsCounted, QuotaTyped
<1>8. SumOf(Amounts, S) <= counter'[v]
  <2>1. \A i, j, k \in Nat : i <= j /\ j <= k => i <= k
    OBVIOUS
  <2> QED
    BY <1>3, <1>7, <2>1
<1>9. S # {} => \E c \in S : SumOf(Amounts, S) <= quotaCall[c].limit
  BY <1>2 DEF QuotaInv, LimitCoversAll
<1> QED
  BY <1>1, <1>2, <1>4, <1>6, <1>8, <1>9

LEMMA ConsumeKeeps ==
  ASSUME QuotaInv, NEW c \in QuotaCalls, Consume(c)
  PROVE  QuotaInv'
<1> DEFINE w == quotaCall[c].window
           a == quotaCall[c].amount
           at == IF counter'[w] <= quotaCall[c].limit THEN "allowed" ELSE "denied"
           k == [quotaCall[c] EXCEPT !.at = at]
<1>1. /\ QuotaTyped /\ w \in QuotaWindows /\ a \in Nat /\ quotaCall[c].limit \in Nat
      /\ quotaCall[c].at = "consume"
  BY DEF QuotaInv, QuotaTyped, QuotaRows, Consume
<1>2. /\ k \in QuotaRows
      /\ k.at = at /\ k.amount = a /\ k.window = w /\ k.limit = quotaCall[c].limit
  BY <1>1 DEF QuotaTyped, QuotaRows
<1>3. quotaCall' = [quotaCall EXCEPT ![c] = k]
  BY DEF Consume
<1>4. /\ counter' = [counter EXCEPT ![w] = @ + a]
      /\ counter'[w] = counter[w] + a /\ counter[w] \in Nat
      /\ UNCHANGED <<quotaLimit, window>>
  BY <1>1 DEF Consume, QuotaTyped
<1> HIDE DEF k
<1>5. QuotaTyped'
  BY <1>1, <1>2, <1>3, <1>4 DEF QuotaTyped
<1>6. \A v \in QuotaWindows : counter[v] \in Nat /\ counter[v] <= counter'[v]
  BY <1>1, <1>4 DEF QuotaTyped
<1>7. quotaCall'[c] = k /\ \A d \in QuotaCalls : d # c => quotaCall'[d] = quotaCall[d]
  BY <1>1, <1>3 DEF QuotaTyped
<1>8. CASE at = "denied"
  BY <1>1, <1>2, <1>5, <1>6, <1>7, <1>8, NobodyAllowed
<1>9. CASE at # "denied"
  <2>1. at = "allowed" /\ counter'[w] <= quotaCall[c].limit
    BY <1>9
  <2>2. \A v \in QuotaWindows \ {w} : AllowedIn(v)' = AllowedIn(v)
    BY <1>1, <1>2, <1>7 DEF AllowedIn
  <2>3. AllowedIn(w)' = AllowedIn(w) \cup {c} /\ c \notin AllowedIn(w)
    BY <1>1, <1>2, <1>7, <2>1 DEF AllowedIn
  <2>4. \A d \in QuotaCalls : Amounts'[d] = Amounts[d]
    BY <1>2, <1>7 DEF Amounts
  <2>5. \A S \in SUBSET QuotaCalls : SumOf(Amounts', S) = SumOf(Amounts, S) /\ SumOf(Amounts, S) \in Nat
    BY <1>1, <2>4, AmountsAreNumbers, SumOfSame
  <2>6. PICK S \in SUBSET QuotaCalls : S = AllowedIn(w)
    BY DEF AllowedIn
  <2>7. SumOf(Amounts, S \cup {c}) = a + SumOf(Amounts, S)
    <3>1. S \cup {c} \in SUBSET QuotaCalls /\ c \in S \cup {c} /\ (S \cup {c}) \ {c} = S
      BY <2>3, <2>6
    <3>2. Amounts[c] = a
      BY DEF Amounts
    <3>3. IsFiniteSet(S \cup {c}) /\ \A d \in S \cup {c} : Amounts[d] \in Nat
      BY <1>1, <3>1, AmountsAreNumbers
    <3> QED
      BY <3>1, <3>2, <3>3, SumOfSplit
  <2>8. SumOf(Amounts, S) <= counter[w] /\ SumOf(Amounts, S) \in Nat
    BY <1>1, <2>5, <2>6 DEF QuotaInv, AllowedIsCounted
  <2>9. SumOf(Amounts, S \cup {c}) <= counter'[w] /\ SumOf(Amounts, S \cup {c}) <= quotaCall[c].limit
    <3>1. \A i, j, l, m \in Nat : i <= l /\ l + m <= j => m + i <= l + m /\ m + i <= j
      OBVIOUS
    <3> QED
      BY <1>1, <1>4, <2>1, <2>7, <2>8, <3>1
  <2> SUFFICES ASSUME NEW v \in QuotaWindows
               PROVE  /\ SumOf(Amounts', AllowedIn(v)') <= counter'[v]
                      /\ AllowedIn(v)' # {} =>
                           \E d \in AllowedIn(v)' : SumOf(Amounts', AllowedIn(v)') <= quotaCall'[d].limit
    BY <1>5 DEF QuotaInv, AllowedIsCounted, LimitCoversAll
  <2>10. CASE v = w
    <3>1. S \cup {c} \in SUBSET QuotaCalls
      OBVIOUS
    <3>2. AllowedIn(v)' = S \cup {c} /\ quotaCall'[c].limit = quotaCall[c].limit
      BY <1>2, <1>7, <2>3, <2>6, <2>10
    <3>3. SumOf(Amounts', S \cup {c}) = SumOf(Amounts, S \cup {c})
      BY <2>5, <3>1
    <3> QED
      BY <2>9, <2>10, <3>2, <3>3
  <2>11. CASE v # w
    <3>1. PICK R \in SUBSET QuotaCalls : R = AllowedIn(v)
      BY DEF AllowedIn
    <3>2. AllowedIn(v)' = R /\ c \notin R
      BY <1>1, <2>2, <2>11, <3>1 DEF AllowedIn
    <3>3. SumOf(Amounts', R) = SumOf(Amounts, R)
      BY <2>5
    <3>4. counter'[v] = counter[v]
      BY <1>1, <1>4, <2>11 DEF QuotaTyped
    <3>5. /\ SumOf(Amounts, R) <= counter[v]
          /\ R # {} => \E d \in R : SumOf(Amounts, R) <= quotaCall[d].limit
      BY <3>1 DEF QuotaInv, AllowedIsCounted, LimitCoversAll
    <3>6. \A d \in R : quotaCall'[d] = quotaCall[d]
      BY <1>7, <3>2
    <3> QED
      BY <3>2, <3>3, <3>4, <3>5, <3>6
  <2> QED
    BY <2>10, <2>11
<1> QED
  BY <1>8, <1>9

LEMMA QuotaNextInv == QuotaInv /\ [QuotaNext]_quotaVars => QuotaInv'
<1> SUFFICES ASSUME QuotaInv, [QuotaNext]_quotaVars PROVE QuotaInv'
  OBVIOUS
<1>1. QuotaTyped /\ \A v \in QuotaWindows : counter[v] \in Nat /\ counter[v] <= counter[v]
  BY DEF QuotaInv, QuotaTyped
<1>2. ASSUME NEW limit \in QuotaLimits, SetLimits(limit) PROVE QuotaInv'
  <2>1. QuotaTyped'
    BY <1>1, <1>2, QuotaAssumption DEF QuotaTyped, SetLimits
  <2> QED
    BY <1>1, <1>2, <2>1, NobodyAllowed DEF SetLimits
<1>3. CASE WindowMoves
  <2>1. QuotaTyped'
    BY <1>1, <1>3 DEF QuotaTyped, WindowMoves
  <2> QED
    BY <1>1, <1>3, <2>1, NobodyAllowed DEF WindowMoves
<1>4. ASSUME NEW c \in QuotaCalls, NEW amount \in QuotaAmounts, ReadQuota(c, amount) PROVE QuotaInv'
  <2> DEFINE at == IF quotaLimit = NoQuota THEN "unlimited" ELSE "consume"
             k == [at |-> at, amount |-> amount, limit |-> quotaLimit, window |-> window]
  <2>1. k \in QuotaRows /\ k.at \in {"unlimited", "consume"}
    BY <1>1, QuotaAssumption DEF QuotaRows, QuotaTyped
  <2>2. /\ quotaCall' = [quotaCall EXCEPT ![c] = k] /\ quotaCall[c].at = "idle"
        /\ UNCHANGED <<quotaLimit, window, counter>>
    BY <1>4 DEF ReadQuota
  <2> HIDE DEF k
  <2>3. QuotaTyped'
    BY <1>1, <2>1, <2>2 DEF QuotaTyped
  <2>4. \A d \in QuotaCalls : (quotaCall[d].at = "allowed" \/ quotaCall'[d].at = "allowed") =>
                                 quotaCall'[d] = quotaCall[d]
    BY <1>1, <2>1, <2>2 DEF QuotaTyped
  <2> QED
    BY <1>1, <2>2, <2>3, <2>4, NobodyAllowed
<1>5. ASSUME NEW c \in QuotaCalls, Consume(c) PROVE QuotaInv'
  BY <1>5, ConsumeKeeps
<1>6. CASE UNCHANGED quotaVars
  <2>1. QuotaTyped'
    BY <1>1, <1>6 DEF QuotaTyped, quotaVars
  <2> QED
    BY <1>1, <1>6, <2>1, NobodyAllowed DEF quotaVars
<1> QED
  BY <1>2, <1>3, <1>4, <1>5, <1>6 DEF QuotaNext

LEMMA LimitCoversImplies == QuotaInv => AllowedWithinLimit
<1> SUFFICES ASSUME QuotaInv, NEW v \in QuotaWindows, AllowedIn(v) # {}
             PROVE  MapThenSumSet(LAMBDA c : quotaCall[c].amount, AllowedIn(v))
                      <= Max({quotaCall[c].limit : c \in AllowedIn(v)})
  BY DEF AllowedWithinLimit, AllowedIn
<1>1. PICK S \in SUBSET QuotaCalls : S = AllowedIn(v) /\ S # {}
  BY DEF AllowedIn
<1>2. PICK c \in S : SumOf(Amounts, S) <= quotaCall[c].limit
  BY <1>1 DEF QuotaInv, LimitCoversAll
<1> DEFINE L == {quotaCall[d].limit : d \in S}
<1>3. L \in SUBSET Nat /\ quotaCall[c].limit \in L
  BY DEF QuotaInv, QuotaTyped, QuotaRows
<1>4. IsFiniteSet(S) /\ SumOf(Amounts, S) \in Nat
  BY AmountsAreNumbers DEF QuotaInv
<1>5. IsFiniteSet(L)
  <2>1. [d \in S |-> quotaCall[d].limit] \in Surjection(S, L)
    BY DEF Surjection
  <2> QED
    BY <1>4, <2>1, FS_Surjection
<1>6. Max(L) \in Nat /\ quotaCall[c].limit <= Max(L)
  BY <1>3, <1>5, MaxIsGreatest
<1>7. SumOf(Amounts, S) <= Max(L)
  <2>1. \A i, j, l \in Nat : i <= j /\ j <= l => i <= l
    OBVIOUS
  <2> HIDE DEF L
  <2> QED
    BY <1>2, <1>3, <1>4, <1>6, <2>1
<1> QED
  BY <1>1, <1>7, AmountsAreSummed

(* AllowedWithinLimit for any number of callers, amounts, limits and       *)
(* windows: a window's counter is at least the sum that was allowed in it, *)
(* and the caller allowed last has compared that counter with its limit.   *)
THEOREM AllowedWithinLimitHolds == QuotaSpec => []AllowedWithinLimit
<1>1. QuotaInit => QuotaInv
  BY QuotaInitially
<1>2. QuotaInv /\ [QuotaNext]_quotaVars => QuotaInv'
  BY QuotaNextInv
<1>3. QuotaInv => AllowedWithinLimit
  BY LimitCoversImplies
<1> QED
  BY <1>1, <1>2, <1>3, PTL DEF QuotaSpec

-----------------------------------------------------------------------------
(***************************************************************************)
(* InvoiceService, for calls that race or die: an invoice comes of one     *)
(* metering unless two saves have crossed, when each column still comes of *)
(* one, and a generation that ran alone leaves lines that add up.          *)
(***************************************************************************)

(* The inductive invariant.                                                *)

UsageLines == [of : BillingCalls, resource : Resources, quantity : Nat]
Totals == {Total(r) : r \in SUBSET UsageLines} \cup {0}
InvoiceRows == [status : {"absent", "draft", "finalized"}, total : Totals, complete : BOOLEAN]
BillingRows ==
  [at : BillingOver \cup {"meter", "regenerate", "delete", "insert", "finalize", "close"},
   copy : InvoiceRows, selected : InvoiceRows, metered : Nat,
   records : SUBSET UsageLines, complete : BOOLEAN, deleted : SUBSET UsageLines, alone : BOOLEAN]

InvoiceTyped ==
  /\ usage \in [Resources -> Nat]
  /\ invoice \in InvoiceRows
  /\ lines \in SUBSET UsageLines
  /\ billing \in [BillingCalls -> BillingRows]
  /\ savesCrossed \in BOOLEAN

(* What calls have metered to the end: a total, a flag, or both.           *)
TotalOf(calls, c, row) ==
  calls[c].metered = Len(UnitPrices) /\ row.total = Total(calls[c].records)

FlagOf(calls, c, row) ==
  calls[c].metered = Len(UnitPrices) /\ row.complete = calls[c].complete

OneMetering(calls, row) ==
  \E c \in BillingCalls : TotalOf(calls, c, row) /\ FlagOf(calls, c, row)

SomeMeterings(calls, row) ==
  \E c, d \in BillingCalls : TotalOf(calls, c, row) /\ FlagOf(calls, d, row)

(* Each column of the invoice, and of every copy of it, is what some call  *)
(* has metered, and all are of one call as long as no two saves cross.     *)
Sourced(calls, crossed, row) ==
  row.status # "absent" =>
    SomeMeterings(calls, row) /\ (~crossed => OneMetering(calls, row))

RowsSourced ==
  /\ Sourced(billing, savesCrossed, invoice)
  /\ \A c \in BillingCalls :
       /\ Sourced(billing, savesCrossed, billing[c].copy)
       /\ billing[c].copy.status # "absent" => invoice.status # "absent"
       /\ billing[c].at \in {"regenerate", "finalize", "close"} =>
            billing[c].copy.status # "absent"

(* Until two saves cross, only one is under way, and the row is still the  *)
(* one it has selected.                                                    *)
OneSaves ==
  ~savesCrossed =>
    \A c \in BillingCalls : Saving(c) =>
      /\ billing[c].selected = invoice
      /\ \A d \in BillingCalls : Saving(d) => d = c

(* What a call that is alone knows of the rows, step by step. *)
AloneKnows(c) ==
  billing[c].alone =>
    /\ \A d \in BillingCalls \ {c} : billing[d].at \in BillingOver
    /\ billing[c].at = "meter" => billing[c].copy = invoice
    /\ billing[c].at = "regenerate" =>
         /\ billing[c].selected = invoice
         /\ billing[c].copy.total = Total(billing[c].records)
         /\ billing[c].copy.complete = billing[c].complete
    /\ billing[c].at \in {"delete", "insert", "done"} =>
         /\ invoice.total = Total(billing[c].records)
         /\ invoice.complete = billing[c].complete
    /\ billing[c].at = "insert" => billing[c].deleted = lines
    /\ billing[c].at = "done" => lines = billing[c].records

InvoiceInv ==
  InvoiceTyped /\ RowsSourced /\ OneSaves /\ \A c \in BillingCalls : AloneKnows(c)

-----------------------------------------------------------------------------

LEMMA InvoiceInitially == InvoiceInit => InvoiceInv
<1> SUFFICES ASSUME InvoiceInit PROVE InvoiceInv
  OBVIOUS
<1>1. NoInvoice \in InvoiceRows /\ NoInvoice.status = "absent"
  BY DEF NoInvoice, InvoiceRows, Totals
<1>2. \A c \in BillingCalls : billing[c] \in BillingRows /\ ~billing[c].alone
                              /\ billing[c].copy = NoInvoice /\ billing[c].at = "idle"
  BY <1>1 DEF InvoiceInit, BillingRows, BillingOver
<1>3. InvoiceTyped
  BY <1>1, <1>2 DEF InvoiceInit, InvoiceTyped
<1>4. RowsSourced
  BY <1>1, <1>2 DEF InvoiceInit, RowsSourced, Sourced
<1>5. OneSaves
  BY <1>2 DEF OneSaves, Saving
<1>6. \A c \in BillingCalls : AloneKnows(c)
  BY <1>2 DEF AloneKnows
<1> QED
  BY <1>3, <1>4, <1>5, <1>6 DEF InvoiceInv

(* No call changes a metering that is complete.                            *)
MeteringsKept ==
  \A c \in BillingCalls : billing[c].metered = Len(UnitPrices) =>
    /\ billing'[c].metered = Len(UnitPrices)
    /\ billing'[c].records = billing[c].records
    /\ billing'[c].complete = billing[c].complete

LEMMA StaysSourced ==
  ASSUME MeteringsKept, savesCrossed => savesCrossed',
         NEW row, Sourced(billing, savesCrossed, row)
  PROVE  Sourced(billing', savesCrossed', row)
<1>1. ASSUME NEW c \in BillingCalls
      PROVE  /\ TotalOf(billing, c, row) => TotalOf(billing', c, row)
             /\ FlagOf(billing, c, row) => FlagOf(billing', c, row)
  BY DEF MeteringsKept, TotalOf, FlagOf
<1>2. SomeMeterings(billing, row) => SomeMeterings(billing', row)
  BY <1>1 DEF SomeMeterings
<1>3. OneMetering(billing, row) => OneMetering(billing', row)
  BY <1>1 DEF OneMetering
<1> QED
  BY <1>2, <1>3 DEF Sourced

LEMMA OneIsSome ==
  ASSUME NEW calls, NEW crossed, NEW row, OneMetering(calls, row)
  PROVE  Sourced(calls, crossed, row)
BY DEF OneMetering, SomeMeterings, Sourced

(* RowsSourced', with the primes inside. *)
LEMMA SourcedNext ==
  ASSUME Sourced(billing', savesCrossed', invoice'),
         \A c \in BillingCalls :
           /\ Sourced(billing', savesCrossed', billing'[c].copy)
           /\ billing'[c].copy.status # "absent" => invoice'.status # "absent"
           /\ billing'[c].at \in {"regenerate", "finalize", "close"} =>
                billing'[c].copy.status # "absent"
  PROVE  RowsSourced'
BY DEF RowsSourced, Sourced, SomeMeterings, OneMetering, TotalOf, FlagOf

(* Call c, which is not over, gets the row k: what a metering that is      *)
(* complete keeps, what saves must leave, and what c knows if it is alone. *)
RowMeters(c, k) ==
  billing[c].metered = Len(UnitPrices) =>
    /\ k.metered = Len(UnitPrices)
    /\ k.records = billing[c].records
    /\ k.complete = billing[c].complete

RowSaves(c, k) ==
  ~savesCrossed' =>
    /\ invoice' = invoice \/ \A d \in BillingCalls \ {c} : ~Saving(d)
    /\ k.at \in {"regenerate", "close"} =>
         k.selected = invoice' /\ \A d \in BillingCalls \ {c} : ~Saving(d)

RowAlone(c, k) ==
  billing[c].alone =>
    /\ k.at = "meter" => k.copy = invoice'
    /\ k.at = "regenerate" =>
         k.selected = invoice' /\ k.copy.total = Total(k.records) /\ k.copy.complete = k.complete
    /\ k.at \in {"delete", "insert", "done"} =>
         invoice'.total = Total(k.records) /\ invoice'.complete = k.complete
    /\ k.at = "insert" => k.deleted = lines'
    /\ k.at = "done" => lines' = k.records

LEMMA RowSteps ==
  ASSUME InvoiceInv, NEW c \in BillingCalls, NEW k \in BillingRows,
         billing[c].at \notin BillingOver,
         billing' = [billing EXCEPT ![c] = k],
         k.alone = billing[c].alone,
         RowMeters(c, k),
         usage' \in [Resources -> Nat], invoice' \in InvoiceRows, lines' \in SUBSET UsageLines,
         savesCrossed' \in BOOLEAN, savesCrossed => savesCrossed',
         \/ invoice' = invoice
         \/ invoice'.status # "absent" /\ Sourced(billing, savesCrossed, invoice'),
         \/ k.copy.status = "absent" \/ k.copy = billing[c].copy
         \/ invoice'.status # "absent" /\ Sourced(billing, savesCrossed, k.copy),
         k.at \in {"regenerate", "finalize", "close"} => k.copy.status # "absent",
         RowSaves(c, k),
         RowAlone(c, k)
  PROVE  InvoiceInv'
<1>1. billing \in [BillingCalls -> BillingRows] /\ RowsSourced /\ OneSaves
  BY DEF InvoiceInv, InvoiceTyped
<1>2. billing'[c] = k /\ \A d \in BillingCalls : d # c => billing'[d] = billing[d]
  BY <1>1
<1>3. InvoiceTyped'
  BY <1>1 DEF InvoiceTyped
<1>4. MeteringsKept
  BY <1>2 DEF MeteringsKept, RowMeters
<1>5. /\ invoice.status # "absent" => invoice'.status # "absent"
      /\ Sourced(billing', savesCrossed', invoice')
  BY <1>1, <1>4, StaysSourced DEF RowsSourced
<1>6. ASSUME NEW d \in BillingCalls
      PROVE  /\ Sourced(billing', savesCrossed', billing'[d].copy)
             /\ billing'[d].copy.status # "absent" => invoice'.status # "absent"
             /\ billing'[d].at \in {"regenerate", "finalize", "close"} =>
                  billing'[d].copy.status # "absent"
  <2>1. CASE billing'[d].copy = billing[d].copy
    <3>1. Sourced(billing', savesCrossed', billing'[d].copy)
      BY <1>1, <1>4, <2>1, StaysSourced DEF RowsSourced
    <3>2. billing'[d].copy.status # "absent" => invoice'.status # "absent"
      BY <1>1, <1>5, <2>1 DEF RowsSourced
    <3>3. billing'[d].at \in {"regenerate", "finalize", "close"} =>
            billing'[d].copy.status # "absent"
      BY <1>1, <1>2 DEF RowsSourced
    <3> QED
      BY <3>1, <3>2, <3>3
  <2>2. CASE billing'[d].copy # billing[d].copy
    <3>1. d = c /\ billing'[d] = k
      BY <1>2, <2>2
    <3>2. Sourced(billing', savesCrossed', k.copy)
      BY <1>2, <1>4, <2>2, <3>1, StaysSourced DEF Sourced
    <3> QED
      BY <1>2, <2>2, <3>1, <3>2
  <2> QED
    BY <2>1, <2>2
<1>7. RowsSourced'
  BY <1>5, <1>6, SourcedNext
<1>8. OneSaves'
  <2> SUFFICES ASSUME ~savesCrossed', NEW d \in BillingCalls, Saving(d)'
               PROVE  /\ billing'[d].selected = invoice'
                      /\ \A e \in BillingCalls : Saving(e)' => e = d
    BY DEF OneSaves
  <2>1. Saving(c)' => /\ k.selected = invoice'
                      /\ \A e \in BillingCalls \ {c} : ~Saving(e)
    BY <1>2 DEF RowSaves, Saving
  <2>2. \A e \in BillingCalls \ {c} : Saving(e)' <=> Saving(e)
    BY <1>2 DEF Saving
  <2>3. CASE d = c
    BY <1>2, <2>1, <2>2, <2>3
  <2>4. CASE d # c
    <3>1. Saving(d) /\ ~Saving(c)'
      BY <2>1, <2>2, <2>4
    <3>2. invoice' = invoice /\ ~savesCrossed
      BY <2>4, <3>1 DEF RowSaves
    <3>3. billing[d].selected = invoice /\ \A e \in BillingCalls : Saving(e) => e = d
      BY <1>1, <3>1, <3>2 DEF OneSaves
    <3> QED
      BY <1>2, <2>2, <2>4, <3>1, <3>2, <3>3
  <2> QED
    BY <2>3, <2>4
<1>9. ASSUME NEW d \in BillingCalls PROVE AloneKnows(d)'
  <2>1. CASE d = c
    BY <1>2, <2>1, ZenonT(40) DEF InvoiceInv, AloneKnows, RowAlone
  <2>2. CASE d # c
    BY <1>2, <2>2 DEF InvoiceInv, AloneKnows
  <2> QED
    BY <2>1, <2>2
<1> QED
  BY <1>3, <1>7, <1>8, <1>9 DEF InvoiceInv

(* The same for a call that leaves the invoice alone and saves nothing.    *)
LEMMA RowStays ==
  ASSUME InvoiceInv, NEW c \in BillingCalls, NEW k \in BillingRows,
         billing[c].at \notin BillingOver,
         billing' = [billing EXCEPT ![c] = k],
         k.alone = billing[c].alone,
         RowMeters(c, k),
         usage' \in [Resources -> Nat], lines' \in SUBSET UsageLines,
         UNCHANGED <<invoice, savesCrossed>>,
         k.copy.status = "absent" \/ k.copy = billing[c].copy,
         k.at \notin {"regenerate", "finalize", "close"},
         RowAlone(c, k)
  PROVE  InvoiceInv'
<1>1. invoice' \in InvoiceRows /\ savesCrossed' \in BOOLEAN /\ (savesCrossed => savesCrossed')
  BY DEF InvoiceInv, InvoiceTyped
<1>2. RowSaves(c, k)
  BY DEF RowSaves
<1> QED
  BY <1>1, <1>2, RowSteps

LEMMA UsageKeeps ==
  ASSUME InvoiceInv, usage' \in [Resources -> Nat],
         UNCHANGED <<invoice, lines, billing, savesCrossed>>
  PROVE  InvoiceInv'
<1>1. InvoiceTyped'
  BY DEF InvoiceInv, InvoiceTyped
<1>2. RowsSourced'
  BY DEF InvoiceInv, RowsSourced, Sourced, SomeMeterings, OneMetering, TotalOf, FlagOf
<1>3. OneSaves' /\ \A c \in BillingCalls : AloneKnows(c)'
  BY DEF InvoiceInv, OneSaves, Saving, AloneKnows
<1> QED
  BY <1>1, <1>2, <1>3 DEF InvoiceInv

LEMMA BeginsKeeps ==
  ASSUME InvoiceInv, NEW c \in BillingCalls, NEW at,
         at \in {"returned", "meter", "finalize", "refused"},
         at = "finalize" => invoice.status # "absent",
         BillingBegins(c, at),
         UNCHANGED <<usage, usageRecords, invoice, lines, savesCrossed>>
  PROVE  InvoiceInv'
<1> DEFINE alone == \A d \in BillingCalls \ {c} : billing[d].at \in BillingOver
           k == [billing[c] EXCEPT !.at = at, !.copy = invoice, !.alone = alone]
           k2(d) == [billing[d] EXCEPT !.alone = FALSE]
<1>1. /\ InvoiceTyped /\ billing \in [BillingCalls -> BillingRows] /\ RowsSourced /\ OneSaves
      /\ invoice \in InvoiceRows
  BY DEF InvoiceInv, InvoiceTyped
<1>2. alone \in BOOLEAN
  OBVIOUS
<1>3. billing' = [d \in BillingCalls |-> IF d = c THEN k ELSE k2(d)]
  BY DEF BillingBegins
<1> HIDE DEF alone
<1>4. /\ k \in BillingRows /\ k.at = at /\ k.copy = invoice /\ k.alone = alone
      /\ k.metered = billing[c].metered /\ k.records = billing[c].records
      /\ k.complete = billing[c].complete
  <2>1. billing[c] \in BillingRows
    BY <1>1
  <2>2. k \in BillingRows
    BY <1>1, <1>2, <2>1 DEF BillingRows, BillingOver
  <2>3. k.at = at /\ k.copy = invoice /\ k.alone = alone
    BY <2>1 DEF BillingRows
  <2>4. k.metered = billing[c].metered /\ k.records = billing[c].records
        /\ k.complete = billing[c].complete
    BY <2>1 DEF BillingRows
  <2> QED BY <2>2, <2>3, <2>4
<1>5. \A d \in BillingCalls :
        /\ k2(d) \in BillingRows /\ ~k2(d).alone /\ k2(d).at = billing[d].at
        /\ k2(d).copy = billing[d].copy /\ k2(d).selected = billing[d].selected
        /\ k2(d).metered = billing[d].metered /\ k2(d).records = billing[d].records
        /\ k2(d).complete = billing[d].complete
  <2> SUFFICES ASSUME NEW d \in BillingCalls
               PROVE  /\ k2(d) \in BillingRows /\ ~k2(d).alone /\ k2(d).at = billing[d].at
                      /\ k2(d).copy = billing[d].copy /\ k2(d).selected = billing[d].selected
                      /\ k2(d).metered = billing[d].metered
                      /\ k2(d).records = billing[d].records
                      /\ k2(d).complete = billing[d].complete
    OBVIOUS
  <2>1. billing[d] \in BillingRows
    BY <1>1
  <2>2. k2(d) \in BillingRows
    BY <2>1 DEF BillingRows
  <2>3. ~k2(d).alone /\ k2(d).at = billing[d].at
    BY <2>1 DEF BillingRows
  <2>4. k2(d).copy = billing[d].copy /\ k2(d).selected = billing[d].selected
        /\ k2(d).metered = billing[d].metered
    BY <2>1 DEF BillingRows
  <2>5. k2(d).records = billing[d].records /\ k2(d).complete = billing[d].complete
    BY <2>1 DEF BillingRows
  <2> QED BY <2>2, <2>3, <2>4, <2>5
<1> HIDE DEF k, k2
<1>6. /\ billing' \in [BillingCalls -> BillingRows]
      /\ billing'[c] = k /\ \A d \in BillingCalls : d # c => billing'[d] = k2(d)
  BY <1>3, <1>4, <1>5
<1>7. InvoiceTyped'
  BY <1>1, <1>6 DEF InvoiceTyped
<1>8. MeteringsKept
  BY <1>4, <1>5, <1>6 DEF MeteringsKept
<1>9. Sourced(billing', savesCrossed', invoice')
  BY <1>1, <1>8, StaysSourced DEF RowsSourced
<1>10. ASSUME NEW d \in BillingCalls
       PROVE  /\ Sourced(billing', savesCrossed', billing'[d].copy)
              /\ billing'[d].copy.status # "absent" => invoice'.status # "absent"
              /\ billing'[d].at \in {"regenerate", "finalize", "close"} =>
                   billing'[d].copy.status # "absent"
  <2>1. CASE d = c
    BY <1>4, <1>6, <1>9, <2>1
  <2>2. CASE d # c
    <3>1. billing'[d].copy = billing[d].copy /\ billing'[d].at = billing[d].at
      BY <1>5, <1>6, <2>2
    <3>2. Sourced(billing', savesCrossed', billing'[d].copy)
      BY <1>1, <1>8, <3>1, StaysSourced DEF RowsSourced
    <3> QED
      BY <1>1, <3>1, <3>2 DEF RowsSourced
  <2> QED
    BY <2>1, <2>2
<1>11. RowsSourced'
  BY <1>9, <1>10, SourcedNext
<1>12. OneSaves'
  <2>1. ~Saving(c)' /\ \A d \in BillingCalls : d # c =>
          (Saving(d)' <=> Saving(d)) /\ billing'[d].selected = billing[d].selected
    BY <1>4, <1>5, <1>6 DEF Saving
  <2> QED
    BY <1>1, <2>1 DEF OneSaves
<1>13. ASSUME NEW d \in BillingCalls PROVE AloneKnows(d)'
  <2>1. CASE d # c
    BY <1>5, <1>6, <2>1 DEF AloneKnows
  <2>2. CASE d = c
    <3>1. alone => \A e \in BillingCalls \ {c} : billing'[e].at \in BillingOver
      BY <1>5, <1>6 DEF alone
    <3> QED
      BY <1>4, <1>6, <2>2, <3>1 DEF AloneKnows
  <2> QED
    BY <2>1, <2>2
<1> QED
  BY <1>7, <1>11, <1>12, <1>13 DEF InvoiceInv

LEMMA ForgetKeeps ==
  ASSUME NEW row \in BillingRows, NEW at, at \in BillingOver \cup {"delete"}
  PROVE  LET k == Forget(row, at) IN
         /\ k \in BillingRows /\ k.at = at /\ k.copy.status = "absent" /\ k.alone = row.alone
         /\ k.metered = row.metered /\ k.records = row.records /\ k.complete = row.complete
<1>1. NoInvoice \in InvoiceRows /\ NoInvoice.status = "absent"
  BY DEF NoInvoice, InvoiceRows, Totals
<1>2. {} \in SUBSET UsageLines
  OBVIOUS
<1> QED
  BY <1>1, <1>2 DEF Forget, BillingRows

(* A call selects the row, to save a copy that is sourced.                 *)
LEMMA SelectKeeps ==
  ASSUME InvoiceInv, NEW c \in BillingCalls, NEW from, NEW to, NEW copy \in InvoiceRows,
         from \in {"meter", "finalize"}, to \in {"regenerate", "close"},
         Select(c, from, to, copy),
         copy.status # "absent", invoice.status # "absent",
         Sourced(billing, savesCrossed, copy),
         to = "regenerate" => copy.total = Total(billing[c].records)
                              /\ copy.complete = billing[c].complete
  PROVE  InvoiceInv'
<1> DEFINE k == [billing[c] EXCEPT !.at = to, !.copy = copy, !.selected = invoice]
<1>1. /\ InvoiceTyped /\ invoice \in InvoiceRows /\ billing \in [BillingCalls -> BillingRows]
      /\ usage \in [Resources -> Nat] /\ lines \in SUBSET UsageLines /\ savesCrossed \in BOOLEAN
  BY DEF InvoiceInv, InvoiceTyped
<1>2. /\ billing[c].at = from
      /\ billing' = [billing EXCEPT ![c].at = to, ![c].copy = copy, ![c].selected = invoice]
      /\ savesCrossed' = (savesCrossed \/ \E d \in BillingCalls : Saving(d))
      /\ UNCHANGED <<usage, usageRecords, invoice, lines>>
  BY DEF Select
<1>3. billing' = [billing EXCEPT ![c] = k] /\ billing[c].at \notin BillingOver
  BY <1>1, <1>2 DEF BillingOver
<1>4. /\ k \in BillingRows /\ k.at = to /\ k.copy = copy /\ k.selected = invoice
      /\ k.alone = billing[c].alone /\ k.metered = billing[c].metered
      /\ k.records = billing[c].records /\ k.complete = billing[c].complete
  <2>1. billing[c] \in BillingRows
    BY <1>1
  <2>2. k \in BillingRows
    BY <1>1, <2>1 DEF BillingRows
  <2>3. k.at = to /\ k.copy = copy /\ k.selected = invoice /\ k.alone = billing[c].alone
    BY <2>1 DEF BillingRows
  <2>4. k.metered = billing[c].metered /\ k.records = billing[c].records
        /\ k.complete = billing[c].complete
    BY <2>1 DEF BillingRows
  <2> QED BY <2>2, <2>3, <2>4
<1> HIDE DEF k
<1>5. /\ savesCrossed' \in BOOLEAN /\ (savesCrossed => savesCrossed')
      /\ ~savesCrossed' => \A d \in BillingCalls : ~Saving(d)
  BY <1>2, ZenonT(20)
<1>6. invoice' = invoice /\ invoice'.status # "absent" /\ Sourced(billing, savesCrossed, k.copy)
  BY <1>2, <1>4
<1>7. usage' \in [Resources -> Nat] /\ invoice' \in InvoiceRows /\ lines' \in SUBSET UsageLines
  BY <1>1, <1>2
<1>8. RowSaves(c, k)
  BY <1>4, <1>5, <1>6 DEF RowSaves
<1>9. RowMeters(c, k) /\ RowAlone(c, k) /\ k.copy.status # "absent"
  BY <1>4, <1>6 DEF RowMeters, RowAlone
<1> QED
  BY <1>3, <1>4, <1>5, <1>6, <1>7, <1>8, <1>9, RowSteps

(* A call updates the columns in which its copy differs.                   *)
LEMMA UpdateKeeps ==
  ASSUME InvoiceInv, NEW c \in BillingCalls, NEW from, NEW to,
         \/ from = "regenerate" /\ to = "delete"
         \/ from = "close" /\ to = "returned",
         UpdateInvoice(c, from, to)
  PROVE  InvoiceInv'
<1> DEFINE k == Forget(billing[c], to)
           copy == billing[c].copy
           selected == billing[c].selected
<1>1. /\ InvoiceTyped /\ invoice \in InvoiceRows /\ billing \in [BillingCalls -> BillingRows]
      /\ usage \in [Resources -> Nat] /\ lines \in SUBSET UsageLines /\ savesCrossed \in BOOLEAN
      /\ RowsSourced /\ OneSaves /\ AloneKnows(c)
  BY DEF InvoiceInv, InvoiceTyped
<1>2. /\ billing[c].at = from
      /\ invoice' = [status |-> Column(copy.status, selected.status, invoice.status),
                     total |-> Column(copy.total, selected.total, invoice.total),
                     complete |-> Column(copy.complete, selected.complete, invoice.complete)]
      /\ billing' = [billing EXCEPT ![c] = k]
      /\ UNCHANGED <<usage, usageRecords, lines, savesCrossed>>
  BY DEF UpdateInvoice
<1>3. /\ billing[c].at \notin BillingOver /\ copy \in InvoiceRows /\ Saving(c)
      /\ copy.status # "absent" /\ invoice.status # "absent"
  BY <1>1, <1>2 DEF BillingOver, Saving, RowsSourced, BillingRows
<1>4. /\ k \in BillingRows /\ k.at = to /\ k.copy.status = "absent"
      /\ k.alone = billing[c].alone /\ k.metered = billing[c].metered
      /\ k.records = billing[c].records /\ k.complete = billing[c].complete
  BY <1>1, ForgetKeeps DEF BillingOver
<1> HIDE DEF k
<1>5. /\ invoice'.status \in {copy.status, invoice.status}
      /\ invoice'.total \in {copy.total, invoice.total}
      /\ invoice'.complete \in {copy.complete, invoice.complete}
  BY <1>2 DEF Column
<1>6. invoice' \in InvoiceRows
  BY <1>1, <1>2, <1>3, <1>5 DEF InvoiceRows
<1>7. selected = invoice => invoice'.total = copy.total /\ invoice'.complete = copy.complete
  BY <1>2 DEF Column
<1>8. Sourced(billing, savesCrossed, invoice) /\ Sourced(billing, savesCrossed, copy)
  BY <1>1 DEF RowsSourced
<1>9. SomeMeterings(billing, invoice')
  BY <1>3, <1>5, <1>8 DEF Sourced, SomeMeterings, TotalOf, FlagOf
<1>10. ~savesCrossed => OneMetering(billing, invoice')
  <2> SUFFICES ASSUME ~savesCrossed PROVE OneMetering(billing, invoice')
    OBVIOUS
  <2>1. selected = invoice
    BY <1>1, <1>3 DEF OneSaves
  <2>2. OneMetering(billing, copy)
    BY <1>3, <1>8 DEF Sourced
  <2> QED
    BY <1>7, <2>1, <2>2 DEF OneMetering, TotalOf, FlagOf
<1>11. invoice'.status # "absent" /\ Sourced(billing, savesCrossed, invoice')
  BY <1>3, <1>5, <1>9, <1>10 DEF Sourced
<1>12. RowSaves(c, k)
  BY <1>1, <1>2, <1>3, <1>4 DEF OneSaves, RowSaves
<1>13. RowAlone(c, k)
  BY <1>1, <1>2, <1>4, <1>7 DEF AloneKnows, RowAlone
<1>14. RowMeters(c, k)
  BY <1>4 DEF RowMeters
<1>15. /\ usage' \in [Resources -> Nat] /\ lines' \in SUBSET UsageLines
       /\ savesCrossed' \in BOOLEAN /\ (savesCrossed => savesCrossed')
       /\ k.at \notin {"regenerate", "finalize", "close"}
  BY <1>1, <1>2, <1>4
<1> QED
  BY <1>2, <1>3, <1>4, <1>6, <1>11, <1>12, <1>13, <1>14, <1>15, RowSteps

LEMMA InvoiceNextInv == InvoiceInv /\ [InvoiceNext]_invoiceVars => InvoiceInv'
<1> SUFFICES ASSUME InvoiceInv, [InvoiceNext]_invoiceVars PROVE InvoiceInv'
  OBVIOUS
<1>1. /\ InvoiceTyped /\ RowsSourced /\ OneSaves
      /\ usage \in [Resources -> Nat] /\ invoice \in InvoiceRows /\ lines \in SUBSET UsageLines
      /\ billing \in [BillingCalls -> BillingRows] /\ savesCrossed \in BOOLEAN
  BY DEF InvoiceInv, InvoiceTyped
<1>2. ASSUME NEW c \in BillingCalls
      PROVE  /\ billing[c] \in BillingRows /\ AloneKnows(c)
             /\ billing[c].metered \in Nat /\ billing[c].copy \in InvoiceRows
             /\ billing[c].records \in SUBSET UsageLines /\ billing[c].deleted \in SUBSET UsageLines
             /\ billing[c].complete \in BOOLEAN
  BY <1>1 DEF InvoiceInv, BillingRows
<1>3. ASSUME NEW x \in Resources, UseMore(x) PROVE InvoiceInv'
  <2>1. usage' \in [Resources -> Nat]
    BY <1>1, <1>3 DEF UseMore
  <2> QED
    BY <1>3, <2>1, UsageKeeps DEF UseMore
<1>4. ASSUME NEW c \in BillingCalls, ReadForInvoice(c) PROVE InvoiceInv'
  BY <1>4, BeginsKeeps DEF ReadForInvoice
<1>5. ASSUME NEW c \in BillingCalls, MeterResource(c) PROVE InvoiceInv'
  <2> DEFINE x == UnitPrices[billing[c].metered + 1]
             new == [of |-> c, resource |-> x, quantity |-> usage[x]]
             k == [billing[c] EXCEPT !.metered = @ + 1, !.records = @ \cup {new}]
  <2>1. billing[c].at = "meter" /\ billing[c].metered < Len(UnitPrices)
    BY <1>5 DEF MeterResource, Metering
  <2>2. x \in Resources /\ Len(UnitPrices) \in Nat
    <3>1. DOMAIN UnitPrices = 1..Len(UnitPrices) /\ Len(UnitPrices) \in Nat
      BY PricesAssumption, LenProperties
    <3>2. billing[c].metered + 1 \in 1..Len(UnitPrices)
      BY <1>2, <2>1, <3>1
    <3> QED
      BY <3>1, <3>2 DEF Resources
  <2>3. new \in UsageLines
    BY <1>1, <2>2 DEF UsageLines
  <2>4. billing' = [billing EXCEPT ![c].metered = @ + 1, ![c].records = @ \cup {new}]
    BY <1>5 DEF MeterResource
  <2> HIDE DEF new, x
  <2>5. k \in BillingRows /\ k.at = "meter" /\ k.copy = billing[c].copy /\ k.alone = billing[c].alone
    <3>1. PICK r : r = [billing[c] EXCEPT !.metered = @ + 1]
      OBVIOUS
    <3>2. /\ r \in BillingRows /\ r.at = "meter" /\ r.copy = billing[c].copy
          /\ r.alone = billing[c].alone /\ r.records = billing[c].records
      BY <1>2, <2>1, <3>1 DEF BillingRows
    <3>3. LET m == [r EXCEPT !.records = @ \cup {new}]
          IN  m \in BillingRows /\ m.at = r.at /\ m.copy = r.copy /\ m.alone = r.alone
      BY <2>3, <3>2 DEF BillingRows
    <3>4. k = [r EXCEPT !.records = @ \cup {new}]
      BY <3>1, <3>2
    <3> QED
      BY <3>2, <3>3, <3>4
  <2>6. billing' = [billing EXCEPT ![c] = k]
    BY <1>1, <2>4
  <2> HIDE DEF k
  <2>7. UNCHANGED <<usage, invoice, lines, savesCrossed>> /\ billing[c].at \notin BillingOver
    BY <1>5, <2>1 DEF MeterResource, BillingOver
  <2>8. RowAlone(c, k)
    BY <1>2, <2>1, <2>5, <2>7 DEF AloneKnows, RowAlone
  <2>9. RowMeters(c, k)
    BY <1>2, <2>1, <2>2 DEF RowMeters
  <2>10. usage' \in [Resources -> Nat] /\ lines' \in SUBSET UsageLines
    BY <1>1, <2>7
  <2> QED
    BY <2>5, <2>6, <2>7, <2>8, <2>9, <2>10, RowStays
<1>6. ASSUME NEW c \in BillingCalls, NEW unreachable \in BOOLEAN, SkipResource(c, unreachable) PROVE InvoiceInv'
  <2>0. PICK found \in BOOLEAN : found = (billing[c].complete /\ ~unreachable)
    OBVIOUS
  <2> DEFINE k == [billing[c] EXCEPT !.metered = @ + 1, !.complete = found]
  <2>1. billing[c].at = "meter" /\ billing[c].metered < Len(UnitPrices)
    BY <1>6 DEF SkipResource, Metering
  <2>2. Len(UnitPrices) \in Nat
    BY PricesAssumption, LenProperties
  <2>3. billing' = [billing EXCEPT ![c].metered = @ + 1, ![c].complete = found]
    BY <1>1, <1>6, <2>0, ZenonT(20) DEF SkipResource
  <2>4. k \in BillingRows /\ k.at = "meter" /\ k.copy = billing[c].copy /\ k.alone = billing[c].alone
    <3>1. PICK r : r = [billing[c] EXCEPT !.metered = @ + 1]
      OBVIOUS
    <3>2. r \in BillingRows /\ r.at = "meter" /\ r.copy = billing[c].copy /\ r.alone = billing[c].alone
      BY <1>2, <2>1, <3>1 DEF BillingRows
    <3>3. found \in BOOLEAN
      BY <2>0
    <3>4. LET m == [r EXCEPT !.complete = found]
          IN  m \in BillingRows /\ m.at = r.at /\ m.copy = r.copy /\ m.alone = r.alone
      BY <3>2, <3>3 DEF BillingRows
    <3>5. k = [r EXCEPT !.complete = found]
      BY <3>1
    <3> QED
      BY <3>2, <3>4, <3>5
  <2>5. billing' = [billing EXCEPT ![c] = k]
    BY <1>1, <2>3
  <2> HIDE DEF k
  <2>6. UNCHANGED <<usage, invoice, lines, savesCrossed>> /\ billing[c].at \notin BillingOver
    BY <1>6, <2>1 DEF SkipResource, BillingOver
  <2>7. RowAlone(c, k)
    BY <1>2, <2>1, <2>4, <2>6 DEF AloneKnows, RowAlone
  <2>8. RowMeters(c, k)
    BY <1>2, <2>1, <2>2 DEF RowMeters
  <2>9. usage' \in [Resources -> Nat] /\ lines' \in SUBSET UsageLines
    BY <1>1, <2>6
  <2> QED
    BY <2>4, <2>5, <2>6, <2>7, <2>8, <2>9, RowStays
<1>7. ASSUME NEW c \in BillingCalls, CreateInvoice(c) PROVE InvoiceInv'
  <2> DEFINE k == Forget(billing[c], "delete")
             new == [status |-> "draft", total |-> Total(billing[c].records), complete |-> billing[c].complete]
  <2>1. /\ billing[c].at = "meter" /\ billing[c].metered = Len(UnitPrices)
        /\ billing[c].copy.status = "absent"
        /\ billing' = [billing EXCEPT ![c] = k]
        /\ invoice' = IF invoice.status = "absent" THEN new ELSE invoice
        /\ UNCHANGED <<usage, lines, savesCrossed>> /\ billing[c].at \notin BillingOver
    BY <1>7 DEF CreateInvoice, Metered, BillingOver
  <2>2. /\ k \in BillingRows /\ k.at = "delete" /\ k.copy.status = "absent" /\ k.alone = billing[c].alone
        /\ k.metered = billing[c].metered /\ k.records = billing[c].records
        /\ k.complete = billing[c].complete
    BY <1>2, ForgetKeeps
  <2>3. /\ new \in InvoiceRows /\ new.status # "absent"
        /\ new.total = Total(billing[c].records) /\ new.complete = billing[c].complete
    BY <1>2 DEF InvoiceRows, Totals
  <2> HIDE DEF k, new
  <2>4. Sourced(billing, savesCrossed, new)
    BY <2>1, <2>3, OneIsSome DEF OneMetering, TotalOf, FlagOf
  <2>5. RowSaves(c, k)
    <3>1. invoice' = invoice \/ \A d \in BillingCalls : ~Saving(d)
      BY <1>1, <2>1 DEF RowsSourced, Saving
    <3> QED
      BY <2>2, <3>1 DEF RowSaves
  <2>6. RowAlone(c, k)
    BY <1>2, <2>1, <2>2, <2>3 DEF AloneKnows, RowAlone
  <2>7. RowMeters(c, k)
    BY <2>2 DEF RowMeters
  <2>8. /\ invoice' \in InvoiceRows
        /\ \/ invoice' = invoice
           \/ invoice'.status # "absent" /\ Sourced(billing, savesCrossed, invoice')
    BY <1>1, <2>1, <2>3, <2>4
  <2>9. /\ usage' \in [Resources -> Nat] /\ lines' \in SUBSET UsageLines
        /\ savesCrossed' \in BOOLEAN /\ (savesCrossed => savesCrossed')
        /\ k.at \notin {"regenerate", "finalize", "close"}
    BY <1>1, <2>1, <2>2
  <2> QED
    BY <2>1, <2>2, <2>5, <2>6, <2>7, <2>8, <2>9, RowSteps
<1>8. ASSUME NEW c \in BillingCalls, SelectForDraft(c) PROVE InvoiceInv'
  <2>1. PICK copy : copy = [billing[c].copy EXCEPT !.total = Total(billing[c].records),
                                                   !.complete = billing[c].complete]
    OBVIOUS
  <2>2. /\ billing[c].metered = Len(UnitPrices) /\ billing[c].copy.status # "absent"
        /\ Select(c, "meter", "regenerate", copy)
    BY <1>8, <2>1 DEF SelectForDraft, Metered
  <2>3. /\ copy \in InvoiceRows /\ copy.status = billing[c].copy.status
        /\ copy.total = Total(billing[c].records) /\ copy.complete = billing[c].complete
    BY <1>2, <2>1 DEF InvoiceRows, Totals
  <2>4. Sourced(billing, savesCrossed, copy)
    BY <2>2, <2>3, OneIsSome DEF OneMetering, TotalOf, FlagOf
  <2>5. invoice.status # "absent"
    BY <1>1, <2>2 DEF RowsSourced
  <2> QED
    BY <2>2, <2>3, <2>4, <2>5, SelectKeeps
<1>9. ASSUME NEW c \in BillingCalls, UpdateInvoice(c, "regenerate", "delete") PROVE InvoiceInv'
  BY <1>9, UpdateKeeps
<1>10. ASSUME NEW c \in BillingCalls, DeleteLines(c) PROVE InvoiceInv'
  <2> DEFINE k == [billing[c] EXCEPT !.at = "insert", !.deleted = lines]
  <2>1. /\ billing[c].at = "delete"
        /\ billing' = [billing EXCEPT ![c].at = "insert", ![c].deleted = lines]
        /\ usage' = usage /\ invoice' = invoice /\ lines' = lines /\ savesCrossed' = savesCrossed
        /\ billing[c].at \notin BillingOver
    BY <1>10 DEF DeleteLines, BillingOver
  <2>2. /\ k \in BillingRows /\ k.at = "insert" /\ k.copy = billing[c].copy /\ k.alone = billing[c].alone
        /\ k.metered = billing[c].metered /\ k.records = billing[c].records
        /\ k.complete = billing[c].complete /\ k.deleted = lines
    BY <1>1, <1>2, <2>1 DEF BillingRows
  <2>3. billing' = [billing EXCEPT ![c] = k]
    BY <1>1, <2>1
  <2> HIDE DEF k
  <2>4. RowAlone(c, k) /\ RowMeters(c, k)
    BY <1>2, <2>1, <2>2 DEF AloneKnows, RowAlone, RowMeters
  <2>5. usage' \in [Resources -> Nat] /\ lines' \in SUBSET UsageLines
    BY <1>1, <2>1
  <2> QED
    BY <2>1, <2>2, <2>3, <2>4, <2>5, RowStays
<1>11. ASSUME NEW c \in BillingCalls, InsertLines(c) PROVE InvoiceInv'
  <2> DEFINE k == Forget(billing[c], "done")
  <2>1. /\ billing[c].at = "insert"
        /\ billing' = [billing EXCEPT ![c] = k]
        /\ lines' = (lines \ billing[c].deleted) \cup billing[c].records
        /\ UNCHANGED <<usage, invoice, savesCrossed>> /\ billing[c].at \notin BillingOver
    BY <1>11 DEF InsertLines, BillingOver
  <2>2. /\ k \in BillingRows /\ k.at = "done" /\ k.copy.status = "absent" /\ k.alone = billing[c].alone
        /\ k.metered = billing[c].metered /\ k.records = billing[c].records
        /\ k.complete = billing[c].complete
    BY <1>2, ForgetKeeps DEF BillingOver
  <2> HIDE DEF k
  <2>3. usage' \in [Resources -> Nat] /\ lines' \in SUBSET UsageLines
    BY <1>1, <1>2, <2>1
  <2>4. RowAlone(c, k) /\ RowMeters(c, k)
    BY <1>2, <2>1, <2>2 DEF AloneKnows, RowAlone, RowMeters
  <2> QED
    BY <2>1, <2>2, <2>3, <2>4, RowStays
<1>12. ASSUME NEW c \in BillingCalls, ReadForFinalize(c) PROVE InvoiceInv'
  BY <1>12, BeginsKeeps DEF ReadForFinalize
<1>13. ASSUME NEW c \in BillingCalls, SelectForFinalize(c) PROVE InvoiceInv'
  <2>1. PICK copy : copy = [billing[c].copy EXCEPT !.status = "finalized"]
    OBVIOUS
  <2>2. billing[c].at = "finalize" /\ Select(c, "finalize", "close", copy)
    BY <1>13, <2>1 DEF SelectForFinalize, Select
  <2>3. /\ copy \in InvoiceRows /\ copy.status = "finalized"
        /\ copy.total = billing[c].copy.total /\ copy.complete = billing[c].copy.complete
    BY <1>2, <2>1 DEF InvoiceRows
  <2>4. /\ billing[c].copy.status # "absent" /\ invoice.status # "absent"
        /\ Sourced(billing, savesCrossed, billing[c].copy)
    BY <1>1, <2>2 DEF RowsSourced
  <2>5. Sourced(billing, savesCrossed, copy)
    BY <2>3, <2>4 DEF Sourced, SomeMeterings, OneMetering, TotalOf, FlagOf
  <2> QED
    BY <2>2, <2>3, <2>4, <2>5, SelectKeeps
<1>14. ASSUME NEW c \in BillingCalls, UpdateInvoice(c, "close", "returned") PROVE InvoiceInv'
  BY <1>14, UpdateKeeps
<1>15. ASSUME NEW c \in BillingCalls, BillingDies(c) PROVE InvoiceInv'
  <2> DEFINE k == Forget(billing[c], "died")
  <2>1. /\ billing[c].at \notin BillingOver
        /\ billing' = [billing EXCEPT ![c] = k]
        /\ UNCHANGED <<usage, invoice, lines, savesCrossed>>
    BY <1>15 DEF BillingDies
  <2>2. /\ k \in BillingRows /\ k.at = "died" /\ k.copy.status = "absent" /\ k.alone = billing[c].alone
        /\ k.metered = billing[c].metered /\ k.records = billing[c].records
        /\ k.complete = billing[c].complete
    BY <1>2, ForgetKeeps DEF BillingOver
  <2> HIDE DEF k
  <2>3. RowAlone(c, k) /\ RowMeters(c, k)
    BY <2>2 DEF RowAlone, RowMeters
  <2>4. usage' \in [Resources -> Nat] /\ lines' \in SUBSET UsageLines
    BY <1>1, <2>1
  <2> QED
    BY <2>1, <2>2, <2>3, <2>4, RowStays
<1>16. CASE UNCHANGED invoiceVars
  BY <1>1, <1>16, UsageKeeps DEF invoiceVars
<1> QED
  BY <1>3, <1>4, <1>5, <1>6, <1>7, <1>8, <1>9, <1>10, <1>11, <1>12, <1>13, <1>14, <1>15, <1>16
     DEF InvoiceNext

(* InvoiceIsOneMetering for any calls and any price list: a metering that  *)
(* is complete never changes, each column of the row comes of one, and     *)
(* while saves do not cross the row is still the one a save has selected,  *)
(* so that it gets all the columns of the copy saved.                      *)
THEOREM InvoiceIsOneMeteringHolds == InvoiceSpec => []InvoiceIsOneMetering
<1>1. ASSUME InvoiceInv PROVE InvoiceIsOneMetering
  <2>1. Sourced(billing, savesCrossed, invoice)
    BY <1>1 DEF InvoiceInv, RowsSourced
  <2> QED
    BY <2>1 DEF Sourced, SomeMeterings, OneMetering, TotalOf, FlagOf, InvoiceIsOneMetering
<1> QED
  BY <1>1, InvoiceInitially, InvoiceNextInv, PTL DEF InvoiceSpec

(* LinesAddUp for any calls and any price list: what a call that is alone  *)
(* has read, saved and deleted is still so at its next step.               *)
THEOREM LinesAddUpHolds == InvoiceSpec => []LinesAddUp
<1>1. InvoiceInv => LinesAddUp
  BY DEF InvoiceInv, AloneKnows, LinesAddUp
<1> QED
  BY <1>1, InvoiceInitially, InvoiceNextInv, PTL DEF InvoiceSpec

-----------------------------------------------------------------------------
(***************************************************************************)
(* TenantHierarchy, for requests that race or die: what is deleted stays   *)
(* deleted.                                                                *)
(***************************************************************************)

(* The inductive invariant.                                                *)

Parents == Workspaces \cup {Tenant}
TodoRows ==
  [do : {"read", "save", "get", "swap", "count", "rows"}, on : Nodes \cup {Tenant},
   number : Nat, total : Nat]

(* What a request that moves nodes to a status may have left to do: a node *)
(* was listed with a version that it has or had, and where it still has it *)
(* the check that came before the swap is still true.                      *)
Fine(rows, to) ==
  {t \in TodoRows :
     /\ t.do \in {"count", "rows"} => t.on \in Parents
     /\ t.do \in {"get", "swap"} => t.on \in Nodes /\ t.number <= rows[t.on].version
     /\ t.do = "swap" /\ t.number = rows[t.on].version => IsLegal(rows[t.on].status, to)}

Targets == {"active", "suspended", "deleted"}
NodeRows == [status : Targets \cup {"absent"}, version : Nat]
RequestRows ==
  [at : {"idle", "busy", "done", "refused", "failed"}, on : Nodes \cup {Tenant},
   to : Targets, todo : Seq(TodoRows), covers : SUBSET Nodes]

HierarchyTyped ==
  /\ node \in [Nodes -> NodeRows]
  /\ hreq \in [HierarchyRequests -> RequestRows]

HierarchyInv ==
  /\ HierarchyTyped
  /\ \A n \in Nodes : node[n].status = "absent" => node[n].version = 0
  /\ \A r \in HierarchyRequests :
       /\ hreq[r].todo \in Seq(Fine(node, hreq[r].to))
       /\ hreq[r].at = "busy" => hreq[r].todo # <<>>

-----------------------------------------------------------------------------
(* What a cascade lists are nodes.                                         *)

LEMMA ChildrenCounted ==
  ASSUME NEW D, NEW n \in Nat, NEW f \in Injection(D, 1..n)
  PROVE  Cardinality(D) \in Nat /\ Cardinality(D) <= n
<1>1. IsFiniteSet(1..n) /\ Cardinality(1..n) = n
  BY FS_Interval
<1> QED
  BY <1>1, FS_Injection, FS_CardinalityType

LEMMA ListedAreNodes ==
  ASSUME NEW p \in Parents
  PROVE  Listed(p) \in Seq(Nodes)
<1> DEFINE D == {n \in Nodes : Exists(n) /\ Front(n) = p}
           size == Cardinality(D)
<1>1. ASSUME NEW w \in Nat, NEW e \in Nat
      PROVE  Front(<<w, e>>)[1] = w /\ Len(Front(<<w, e>>)) = 1 /\ Len(Front(<<w>>)) = 0
  <2>1. <<w, e>> \in Seq(Nat) /\ Len(<<w, e>>) - 1 = 1 /\ <<w, e>>[1] = w
    OBVIOUS
  <2>2. \A i \in 1..1 : <<w, e>>[i] \in Nat
    BY <2>1
  <2>3. SubSeq(<<w, e>>, 1, 1)[1] = w /\ Len(SubSeq(<<w, e>>, 1, 1)) = 1
    <3>1. PICK s : s = <<w, e>>
      OBVIOUS
    <3>2. /\ Len(SubSeq(s, 1, 1)) = IF 1 <= 1 THEN 1 - 1 + 1 ELSE 0
          /\ \A i \in 1..(1 - 1 + 1) : SubSeq(s, 1, 1)[i] = s[1 + i - 1]
      BY <2>2, <3>1, SubSeqProperties
    <3> QED
      BY <2>1, <3>1, <3>2
  <2>4. Len(<<w>>) - 1 = 0 /\ SubSeq(<<w>>, 1, 0) = <<>>
    BY SubSeqEmpty
  <2> QED
    BY <2>1, <2>3, <2>4 DEF Front
<1>2. CASE p = Tenant
  <2>1. \A n \in D : \E w \in 1..MaxWorkspaces : n = <<w>>
    <3> SUFFICES ASSUME NEW n \in D PROVE n \in Workspaces
      BY DEF Workspaces
    <3>1. CASE n \in Environments
      <4>1. PICK w \in 1..MaxWorkspaces, e \in 1..MaxEnvironments : n = <<w, e>>
        BY <3>1 DEF Environments
      <4>2. w \in Nat /\ e \in Nat
        BY HierarchyAssumption
      <4>3. Len(Front(n)) = 1 /\ Front(n) = <<>>
        BY <1>1, <1>2, <4>1, <4>2 DEF Tenant
      <4> QED
        BY <4>3
    <3> QED
      BY <3>1 DEF Nodes
  <2>2. [n \in D |-> n[1]] \in Injection(D, 1..MaxWorkspaces)
    BY <2>1 DEF Injection, IsInjective
  <2> HIDE DEF D
  <2>3. size \in Nat /\ size <= MaxWorkspaces
    BY <2>2, ChildrenCounted, HierarchyAssumption
  <2>4. \A i \in 1..size : size + 1 - i \in 1..MaxWorkspaces
    BY <2>3, HierarchyAssumption
  <2>5. \A k \in 1..MaxWorkspaces : Append(p, k) \in Nodes
    BY <1>2 DEF Tenant, Nodes, Workspaces
  <2>6. \A i \in 1..size : Append(p, size + 1 - i) \in Nodes
    BY <2>4, <2>5
  <2>7. Listed(p) = [i \in 1..size |-> Append(p, size + 1 - i)]
    BY DEF Listed, D
  <2>8. PICK m \in Nat : m = size
    BY <2>3
  <2>9. Listed(p) \in [1..m -> Nodes]
    BY <2>6, <2>7, <2>8
  <2> HIDE DEF size
  <2> QED
    BY <2>9
<1>3. CASE p \in Workspaces
  <2>0. PICK v \in 1..MaxWorkspaces : p = <<v>>
    BY <1>3 DEF Workspaces
  <2>1. \A n \in D : \E e \in 1..MaxEnvironments : n = <<v, e>>
    <3> SUFFICES ASSUME NEW n \in D PROVE \E e \in 1..MaxEnvironments : n = <<v, e>>
      OBVIOUS
    <3>1. CASE n \in Workspaces
      <4>1. PICK w \in 1..MaxWorkspaces : n = <<w>>
        BY <3>1 DEF Workspaces
      <4>2. w \in Nat
        BY HierarchyAssumption
      <4>3. Len(Front(n)) = 0 /\ Front(n) = <<v>>
        BY <1>1, <2>0, <4>1, <4>2
      <4> QED
        BY <4>3
    <3>2. CASE n \in Environments
      <4>1. PICK w \in 1..MaxWorkspaces, e \in 1..MaxEnvironments : n = <<w, e>>
        BY <3>2 DEF Environments
      <4>2. Front(<<w, e>>)[1] = w /\ Front(n) = <<v>>
        <5>1. w \in Nat /\ e \in Nat
          BY HierarchyAssumption
        <5> QED
          BY <1>1, <2>0, <4>1, <5>1
      <4>3. w = v
        BY <4>1, <4>2
      <4> QED
        BY <4>1, <4>3
    <3> QED
      BY <3>1, <3>2 DEF Nodes
  <2>2. [n \in D |-> n[2]] \in Injection(D, 1..MaxEnvironments)
    BY <2>1 DEF Injection, IsInjective
  <2> HIDE DEF D
  <2>3. size \in Nat /\ size <= MaxEnvironments
    BY <2>2, ChildrenCounted, HierarchyAssumption
  <2>4. \A i \in 1..size : size + 1 - i \in 1..MaxEnvironments
    BY <2>3, HierarchyAssumption
  <2>5. \A k \in 1..MaxEnvironments : Append(p, k) \in Nodes
    <3>1. ASSUME NEW k \in 1..MaxEnvironments PROVE Append(<<v>>, k) = <<v, k>>
      <4>1. <<v>> \in Seq(Nat) /\ k \in Nat /\ v \in Nat
        BY HierarchyAssumption
      <4>2. PICK s \in Seq(Nat) : s = <<v>> /\ Len(s) = 1 /\ s[1] = v
        BY <4>1
      <4>3. /\ Append(s, k) \in Seq(Nat) /\ Len(Append(s, k)) = 2
            /\ Append(s, k)[1] = v /\ Append(s, k)[2] = k
        BY <4>1, <4>2
      <4>4. <<v, k>> \in Seq(Nat) /\ Len(<<v, k>>) = 2 /\ <<v, k>>[1] = v /\ <<v, k>>[2] = k
        BY <4>1
      <4>5. \A i \in 1..2 : i = 1 \/ i = 2
        OBVIOUS
      <4> QED
        BY <4>2, <4>3, <4>4, <4>5, SeqEqual
    <3>2. \A k \in 1..MaxEnvironments : <<v, k>> \in Environments
      BY DEF Environments
    <3> QED
      BY <2>0, <3>1, <3>2 DEF Nodes
  <2>6. \A i \in 1..size : Append(p, size + 1 - i) \in Nodes
    BY <2>4, <2>5
  <2>7. Listed(p) = [i \in 1..size |-> Append(p, size + 1 - i)]
    BY DEF Listed, D
  <2>8. PICK m \in Nat : m = size
    BY <2>3
  <2>9. Listed(p) \in [1..m -> Nodes]
    BY <2>6, <2>7, <2>8
  <2> HIDE DEF size
  <2> QED
    BY <2>9
<1> QED
  BY <1>2, <1>3 DEF Parents

LEMMA PageIsOfNodes ==
  ASSUME NEW p \in Parents, NEW offset \in Nat
  PROVE  Page(p, offset) \in Seq(Nodes)
<1>1. PICK rows \in Seq(Nodes) : rows = Listed(p)
  BY ListedAreNodes
<1>2. PICK end : end = IF offset + PageSize < Len(rows) THEN offset + PageSize ELSE Len(rows)
  OBVIOUS
<1>3. Len(rows) \in Nat /\ end \in Nat /\ end <= Len(rows)
  BY <1>2, HierarchyAssumption, LenProperties
<1>4. \A i \in (offset + 1)..end : rows[i] \in Nodes
  <2> SUFFICES ASSUME NEW i \in (offset + 1)..end PROVE i \in 1..Len(rows)
    BY ElementOfSeq
  <2> QED
    BY <1>3
<1>5. SubSeq(rows, offset + 1, end) \in Seq(Nodes)
  BY <1>3, <1>4, SubSeqProperties
<1> QED
  BY <1>1, <1>2, <1>5 DEF Page

-----------------------------------------------------------------------------
(* Steps that leave the nodes alone.                                       *)

LEMMA HierarchyInitially == HierarchyInit => HierarchyInv
<1> SUFFICES ASSUME HierarchyInit PROVE HierarchyInv
  OBVIOUS
<1>1. \A S : <<>> \in Seq(S)
  OBVIOUS
<1>2. \A r \in HierarchyRequests : hreq[r].todo = <<>> /\ hreq[r].at = "idle"
  BY DEF HierarchyInit
<1>3. HierarchyTyped
  BY <1>1 DEF HierarchyInit, HierarchyTyped, RequestRows, NodeRows, Targets
<1>4. \A n \in Nodes : node[n].version = 0
  BY DEF HierarchyInit
<1> QED
  BY <1>1, <1>2, <1>3, <1>4 DEF HierarchyInv

(* A request gets the row k, whose to-do list is fine. *)
LEMMA RowFine ==
  ASSUME HierarchyInv, NEW r \in HierarchyRequests, NEW k \in RequestRows,
         hreq' = [hreq EXCEPT ![r] = k], node' = node,
         k.todo \in Seq(Fine(node, k.to)), k.at = "busy" => k.todo # <<>>
  PROVE  HierarchyInv'
<1>1. hreq \in [HierarchyRequests -> RequestRows]
  BY DEF HierarchyInv, HierarchyTyped
<1>2. HierarchyTyped'
  BY <1>1 DEF HierarchyInv, HierarchyTyped
<1>3. hreq'[r] = k /\ \A q \in HierarchyRequests : q # r => hreq'[q] = hreq[q]
  BY <1>1
<1> QED
  BY <1>2, <1>3 DEF HierarchyInv

LEMMA RequestSteps ==
  ASSUME HierarchyInv, NEW r \in HierarchyRequests,
         NEW at \in {"busy", "done", "refused", "failed"}, NEW left \in Seq(Fine(node, hreq[r].to)),
         NEW covers \in SUBSET Nodes, at = "busy" => left # <<>>,
         hreq' = [hreq EXCEPT ![r].todo = left, ![r].covers = covers, ![r].at = at],
         node' = node
  PROVE  HierarchyInv'
<1> DEFINE k == [hreq[r] EXCEPT !.todo = left, !.covers = covers, !.at = at]
<1>1. hreq' = [hreq EXCEPT ![r] = k]
  BY DEF HierarchyInv, HierarchyTyped
<1>2. left \in Seq(TodoRows)
  BY SeqMonotonic DEF Fine
<1>3. k \in RequestRows /\ k.at = at /\ k.todo = left /\ k.to = hreq[r].to
  <2>1. hreq[r] \in RequestRows
    BY DEF HierarchyInv, HierarchyTyped
  <2>2. PICK todos : todos = Seq(TodoRows)
    OBVIOUS
  <2> QED
    BY <1>2, <2>1, <2>2 DEF RequestRows
<1> HIDE DEF k
<1> QED
  BY <1>1, <1>3, RowFine

(* The first thing to do of a busy request is fine, and so is the rest.    *)
LEMMA FirstIsFine ==
  ASSUME HierarchyInv, NEW r \in HierarchyRequests, NEW do, Does(r, do)
  PROVE  /\ hreq[r].todo \in Seq(Fine(node, hreq[r].to))
         /\ Next1(r) \in Fine(node, hreq[r].to) /\ Next1(r) \in TodoRows /\ Next1(r).do = do
         /\ Tail(hreq[r].todo) \in Seq(Fine(node, hreq[r].to))
         /\ hreq[r].to \in Targets /\ hreq[r].covers \in SUBSET Nodes
<1>1. hreq[r].todo \in Seq(Fine(node, hreq[r].to)) /\ hreq[r].todo # <<>> /\ Next1(r).do = do
  BY DEF HierarchyInv, Does
<1>2. Head(hreq[r].todo) \in Fine(node, hreq[r].to) /\ Tail(hreq[r].todo) \in Seq(Fine(node, hreq[r].to))
  BY <1>1, HeadTailProperties
<1>3. hreq[r].to \in Targets /\ hreq[r].covers \in SUBSET Nodes
  BY DEF HierarchyInv, HierarchyTyped, RequestRows
<1> QED
  BY <1>1, <1>2, <1>3 DEF Next1, Fine

LEMMA ContinueKeeps ==
  ASSUME HierarchyInv, NEW r \in HierarchyRequests, NEW do, Does(r, do),
         NEW others \in Seq(Fine(node, hreq[r].to)), Continue(r, others), node' = node
  PROVE  HierarchyInv'
<1>1. PICK left : left = others \o Tail(hreq[r].todo)
  OBVIOUS
<1>2. left \in Seq(Fine(node, hreq[r].to))
  BY <1>1, FirstIsFine, ConcatProperties
<1>3. PICK at : at = IF left = <<>> THEN "done" ELSE "busy"
  OBVIOUS
<1>4. hreq' = [hreq EXCEPT ![r].todo = left, ![r].at = at]
  BY <1>1, <1>3 DEF Continue
<1>5. hreq' = [hreq EXCEPT ![r].todo = left, ![r].covers = hreq[r].covers, ![r].at = at]
  BY <1>4 DEF HierarchyInv, HierarchyTyped, RequestRows
<1>6. hreq[r].covers \in SUBSET Nodes
  BY FirstIsFine
<1> QED
  BY <1>2, <1>3, <1>5, <1>6, RequestSteps

LEMMA EndKeeps ==
  ASSUME HierarchyInv, NEW r \in HierarchyRequests, NEW how \in {"refused", "failed"},
         End(r, how), node' = node
  PROVE  HierarchyInv'
<1>1. hreq' = [hreq EXCEPT ![r].todo = <<>>, ![r].covers = hreq[r].covers, ![r].at = how]
  BY DEF End, HierarchyInv, HierarchyTyped, RequestRows
<1>2. hreq[r].covers \in SUBSET Nodes /\ <<>> \in Seq(Fine(node, hreq[r].to))
  BY DEF HierarchyInv, HierarchyTyped, RequestRows
<1> QED
  BY <1>1, <1>2, RequestSteps

-----------------------------------------------------------------------------
(* What a request adds to what it has to do is fine.                       *)

LEMMA CascadeIsFine ==
  ASSUME NEW r \in HierarchyRequests, NEW n \in Nodes \cup {Tenant}, NEW to
  PROVE  Cascade(r, n) \in Seq(Fine(node, to))
<1>1. n \notin Environments => Todo("count", n, 0) \in Fine(node, to)
  BY DEF Todo, Fine, TodoRows, Parents, Nodes
<1> QED
  BY <1>1 DEF Cascade

LEMMA HandleIsFine ==
  ASSUME HierarchyInv, NEW r \in HierarchyRequests, NEW n \in Nodes, NEW to
  PROVE  Handle(r, n) \in Seq(Fine(node, to))
<1>1. node[n].version \in Nat
  BY DEF HierarchyInv, HierarchyTyped, NodeRows
<1>2. Todo("get", n, node[n].version) \in Fine(node, to)
  BY <1>1 DEF Todo, Fine, TodoRows
<1>3. PICK p : p = Cascade(r, n)
  OBVIOUS
<1>4. PICK q : q = IF IsLegal(node[n].status, hreq[r].to) THEN <<Todo("get", n, node[n].version)>> ELSE <<>>
  OBVIOUS
<1>5. p \in Seq(Fine(node, to)) /\ q \in Seq(Fine(node, to))
  BY <1>2, <1>3, <1>4, CascadeIsFine
<1>6. Handle(r, n) = p \o q
  BY <1>3, <1>4 DEF Handle
<1> QED
  BY <1>5, <1>6, ConcatProperties

LEMMA ListedIsFine ==
  ASSUME HierarchyInv, NEW r \in HierarchyRequests, NEW page \in Seq(Nodes), NEW to
  PROVE  FlattenSeq([i \in DOMAIN page |-> Handle(r, page[i])]) \in Seq(Fine(node, to))
<1>1. DOMAIN page = 1..Len(page) /\ Len(page) \in Nat
  BY LenProperties
<1>2. PICK seqs : seqs = [i \in 1..Len(page) |-> Handle(r, page[i])]
  OBVIOUS
<1>3. \A i \in 1..Len(page) : page[i] \in Nodes
  BY ElementOfSeq
<1>4. \A i \in 1..Len(page) : Handle(r, page[i]) \in Seq(Fine(node, to))
  BY <1>3, HandleIsFine
<1>5. seqs \in [1..Len(page) -> Seq(Fine(node, to))]
  BY <1>2, <1>4
<1>6. FlattenSeq(seqs) \in Seq(Fine(node, to))
  BY <1>1, <1>5, FlattenFacts
<1> QED
  BY <1>1, <1>2, <1>6

-----------------------------------------------------------------------------
(* Steps that write a node: its version grows, so that what was fine with  *)
(* the version before is fine with the new one.                            *)

LEMMA WriteStaysFine ==
  ASSUME HierarchyInv, NEW n \in Nodes, NEW row \in NodeRows, row.version > node[n].version,
         NEW to, NEW s \in Seq(Fine(node, to))
  PROVE  s \in Seq(Fine([node EXCEPT ![n] = row], to))
<1>1. PICK rows : rows = [node EXCEPT ![n] = row]
  OBVIOUS
<1>2. /\ rows[n] = row /\ \A m \in Nodes : m # n => rows[m] = node[m]
      /\ node \in [Nodes -> NodeRows]
  BY <1>1 DEF HierarchyInv, HierarchyTyped
<1>3. \A m \in Nodes : node[m].version \in Nat /\ rows[m].version \in Nat
  BY <1>2 DEF NodeRows
<1>4. ASSUME NEW t \in Fine(node, to) PROVE t \in Fine(rows, to)
  <2>1. t \in TodoRows /\ t.number \in Nat
    BY DEF Fine, TodoRows
  <2>2. ASSUME t.do \in {"get", "swap"}
        PROVE  /\ t.on \in Nodes /\ t.number <= rows[t.on].version
               /\ t.number = rows[t.on].version => t.number = node[t.on].version /\ rows[t.on] = node[t.on]
    <3>1. t.on \in Nodes /\ t.number <= node[t.on].version
      BY <2>2 DEF Fine
    <3>2. CASE t.on = n
      <4>1. \A i, j, k \in Nat : i <= j /\ k > j => i <= k /\ i # k
        OBVIOUS
      <4> QED
        BY <1>2, <1>3, <2>1, <3>1, <3>2, <4>1
    <3>3. CASE t.on # n
      BY <1>2, <3>1, <3>3
    <3> QED
      BY <3>2, <3>3
  <2> QED
    BY <2>1, <2>2 DEF Fine
<1> QED
  BY <1>1, <1>4, SeqMonotonic

LEMMA WriteKeeps ==
  ASSUME HierarchyInv, NEW n \in Nodes, NEW row \in NodeRows, row.version > node[n].version,
         row.status # "absent", node' = [node EXCEPT ![n] = row],
         hreq' \in [HierarchyRequests -> RequestRows],
         \A r \in HierarchyRequests :
           /\ hreq'[r].todo \in Seq(Fine(node, hreq'[r].to))
           /\ hreq'[r].at = "busy" => hreq'[r].todo # <<>>
  PROVE  HierarchyInv'
<1>1. node \in [Nodes -> NodeRows]
  BY DEF HierarchyInv, HierarchyTyped
<1>2. HierarchyTyped'
  BY <1>1 DEF HierarchyTyped
<1>3. \A m \in Nodes : node'[m].status = "absent" => node'[m].version = 0
  BY <1>1 DEF HierarchyInv
<1>4. ASSUME NEW r \in HierarchyRequests
      PROVE  hreq'[r].todo \in Seq(Fine(node', hreq'[r].to))
  <2>1. PICK to, s : to = hreq'[r].to /\ s = hreq'[r].todo
    OBVIOUS
  <2>2. s \in Seq(Fine([node EXCEPT ![n] = row], to))
    BY <2>1, WriteStaysFine
  <2> QED
    BY <2>1, <2>2
<1> QED
  BY <1>2, <1>3, <1>4 DEF HierarchyInv

LEMMA RegisterKeeps ==
  ASSUME HierarchyInv, NEW n \in Nodes, RegisterNode(n)
  PROVE  HierarchyInv'
<1>1. PICK row : row = [status |-> "active", version |-> 1]
  OBVIOUS
<1>2. node' = [node EXCEPT ![n] = row] /\ hreq' = hreq
  BY <1>1 DEF RegisterNode
<1>3. row \in NodeRows /\ row.version = 1 /\ row.status # "absent"
  BY <1>1 DEF NodeRows, Targets
<1>4. Tenant \notin Nodes
  BY DEF Tenant, Nodes, Workspaces, Environments
<1>5. node[n].version = 0
  BY <1>4 DEF RegisterNode, Exists, HierarchyInv
<1>6. row.version > node[n].version
  BY <1>3, <1>5
<1>7. hreq' \in [HierarchyRequests -> RequestRows]
  BY <1>2 DEF HierarchyInv, HierarchyTyped
<1>8. \A r \in HierarchyRequests :
        /\ hreq'[r].todo \in Seq(Fine(node, hreq'[r].to))
        /\ hreq'[r].at = "busy" => hreq'[r].todo # <<>>
  BY <1>2 DEF HierarchyInv
<1> QED
  BY <1>2, <1>3, <1>6, <1>7, <1>8, WriteKeeps

LEMMA CoversAreNodes ==
  ASSUME NEW r \in HierarchyRequests, NEW n, hreq[r].covers \in SUBSET Nodes
  PROVE  Covers(r, n) \in SUBSET Nodes
BY DEF Covers

LEMMA SwapKeeps ==
  ASSUME HierarchyInv, NEW r \in HierarchyRequests, SwapNode(r)
  PROVE  /\ HierarchyInv'
         /\ \A m \in Nodes : node[m].status = "deleted" => node'[m].status = "deleted"
<1>1. PICK t : t = Next1(r)
  OBVIOUS
<1>2. PICK n : n = t.on
  OBVIOUS
<1>3. PICK to : to = hreq[r].to
  OBVIOUS
<1>4. PICK left : left = Cascade(r, n) \o Tail(hreq[r].todo)
  OBVIOUS
<1>5. PICK covers : covers = Covers(r, n)
  OBVIOUS
<1>6. PICK at : at = IF left = <<>> THEN "done" ELSE "busy"
  OBVIOUS
<1>7. /\ t \in Fine(node, to) /\ t.do = "swap" /\ to \in Targets
      /\ Tail(hreq[r].todo) \in Seq(Fine(node, to)) /\ hreq[r].covers \in SUBSET Nodes
  BY <1>1, <1>3, FirstIsFine DEF SwapNode
<1>8. /\ n \in Nodes
      /\ t.number = node[n].version => IsLegal(node[n].status, to)
  BY <1>2, <1>7 DEF Fine
<1>9. left \in Seq(Fine(node, to)) /\ covers \in SUBSET Nodes
  <2>1. Cascade(r, n) \in Seq(Fine(node, to))
    BY <1>8, CascadeIsFine
  <2> QED
    BY <1>4, <1>5, <1>7, <2>1, ConcatProperties, CoversAreNodes
<1>10. CASE t.number = node[n].version
  <2>1. PICK row : row = [status |-> to, version |-> node[n].version + 1]
    OBVIOUS
  <2>2. /\ node' = [node EXCEPT ![n] = row]
        /\ hreq' = [hreq EXCEPT ![r].todo = left, ![r].covers = covers, ![r].at = at]
    BY <1>1, <1>2, <1>3, <1>4, <1>5, <1>6, <1>10, <2>1 DEF SwapNode
  <2>3. node \in [Nodes -> NodeRows] /\ node[n].version \in Nat
    BY <1>8 DEF HierarchyInv, HierarchyTyped, NodeRows
  <2>4. row \in NodeRows /\ row.version > node[n].version /\ row.status = to /\ to # "absent"
    BY <1>7, <2>1, <2>3 DEF NodeRows, Targets
  <2>5. /\ hreq' \in [HierarchyRequests -> RequestRows]
        /\ hreq'[r].todo = left /\ hreq'[r].to = to /\ hreq'[r].at = at
        /\ \A q \in HierarchyRequests : q # r => hreq'[q] = hreq[q]
    <3>1. PICK k : k = [hreq[r] EXCEPT !.todo = left, !.covers = covers, !.at = at]
      OBVIOUS
    <3>2. hreq \in [HierarchyRequests -> RequestRows]
      BY DEF HierarchyInv, HierarchyTyped
    <3>3. hreq' = [hreq EXCEPT ![r] = k]
      BY <2>2, <3>1, <3>2
    <3>4. left \in Seq(TodoRows)
      BY <1>9, SeqMonotonic DEF Fine
    <3>5. PICK todos : todos = Seq(TodoRows)
      OBVIOUS
    <3>6. k \in RequestRows /\ k.todo = left /\ k.to = to /\ k.at = at
      BY <1>3, <1>6, <1>9, <3>1, <3>2, <3>4, <3>5 DEF RequestRows
    <3> QED
      BY <3>2, <3>3, <3>6
  <2>6. \A q \in HierarchyRequests :
          /\ hreq'[q].todo \in Seq(Fine(node, hreq'[q].to))
          /\ hreq'[q].at = "busy" => hreq'[q].todo # <<>>
    BY <1>6, <1>9, <2>5 DEF HierarchyInv
  <2>7. HierarchyInv'
    BY <1>8, <2>2, <2>4, <2>5, <2>6, WriteKeeps
  <2>8. node[n].status # "deleted"
    BY <1>8, <1>10 DEF IsLegal
  <2> QED
    BY <2>2, <2>3, <2>7, <2>8
<1>11. CASE t.number # node[n].version
  <2>1. End(r, "failed") /\ node' = node
    BY <1>1, <1>2, <1>11 DEF SwapNode
  <2> QED
    BY <2>1, EndKeeps
<1> QED
  BY <1>10, <1>11

LEMMA AskKeeps ==
  ASSUME HierarchyInv, NEW r \in HierarchyRequests, NEW n \in Nodes \cup {Tenant}, NEW to \in Targets,
         AskTransition(r, n, to)
  PROVE  HierarchyInv'
<1>1. PICK t : t = IF n = Tenant THEN Todo("read", n, 0) ELSE Todo("get", n, node[n].version)
  OBVIOUS
<1>2. PICK k : k = [at |-> "busy", on |-> n, to |-> to, covers |-> {}, todo |-> <<t>>]
  OBVIOUS
<1>3. hreq' = [hreq EXCEPT ![r] = k] /\ node' = node
  BY <1>1, <1>2 DEF AskTransition
<1>4. t \in Fine(node, to)
  <2>1. CASE n = Tenant
    BY <1>1, <2>1 DEF Todo, Fine, TodoRows
  <2>2. CASE n # Tenant
    <3>1. n \in Nodes /\ node[n].version \in Nat
      BY <2>2 DEF HierarchyInv, HierarchyTyped, NodeRows
    <3> QED
      BY <1>1, <2>2, <3>1 DEF Todo, Fine, TodoRows
  <2> QED
    BY <2>1, <2>2
<1>5. t \in TodoRows
  BY <1>4 DEF Fine
<1>6. <<t>> \in Seq(Fine(node, to)) /\ <<t>> \in Seq(TodoRows) /\ <<t>> # <<>>
  BY <1>4, <1>5
<1>7. PICK todos, todo : todos = Seq(TodoRows) /\ todo = <<t>>
  OBVIOUS
<1>8. k \in RequestRows /\ k.todo = <<t>> /\ k.to = to /\ k.at = "busy"
  BY <1>2, <1>6, <1>7 DEF RequestRows
<1> QED
  BY <1>3, <1>6, <1>8, RowFine

LEMMA HierarchyStep ==
  ASSUME HierarchyInv, [HierarchyNext]_hierarchyVars
  PROVE  /\ HierarchyInv'
         /\ \A n \in Nodes : node[n].status = "deleted" => node'[n].status = "deleted"
<1>1. ASSUME NEW n \in Nodes, RegisterNode(n)
      PROVE  /\ HierarchyInv'
             /\ \A m \in Nodes : node[m].status = "deleted" => node'[m].status = "deleted"
  <2>1. Tenant \notin Nodes
    BY DEF Tenant, Nodes, Workspaces, Environments
  <2>2. node[n].status = "absent" /\ \A m \in Nodes : m # n => node'[m] = node[m]
    BY <1>1, <2>1 DEF RegisterNode, Exists, HierarchyInv, HierarchyTyped
  <2> QED
    BY <1>1, <2>2, RegisterKeeps
<1>2. ASSUME NEW r \in HierarchyRequests, SwapNode(r)
      PROVE  /\ HierarchyInv'
             /\ \A m \in Nodes : node[m].status = "deleted" => node'[m].status = "deleted"
  BY <1>2, SwapKeeps
<1>3. ASSUME NEW r \in HierarchyRequests, NEW n \in Nodes \cup {Tenant},
             NEW to \in {"active", "suspended", "deleted"}, AskTransition(r, n, to)
      PROVE  HierarchyInv' /\ node' = node
  BY <1>3, AskKeeps DEF AskTransition, Targets
<1>4. ASSUME NEW r \in HierarchyRequests, ReadTenant(r)
      PROVE  HierarchyInv' /\ node' = node
  <2>1. Todo("save", Tenant, 0) \in Fine(node, hreq[r].to)
    BY DEF Todo, Fine, TodoRows
  <2>2. <<Todo("save", Tenant, 0)>> \in Seq(Fine(node, hreq[r].to))
    BY <2>1
  <2> QED
    BY <1>4, <2>2, ContinueKeeps, EndKeeps DEF ReadTenant
<1>5. ASSUME NEW r \in HierarchyRequests, SaveTenant(r)
      PROVE  HierarchyInv' /\ node' = node
  <2>1. PICK left : left = Cascade(r, Tenant)
    OBVIOUS
  <2>2. PICK covers : covers = Covers(r, Tenant)
    OBVIOUS
  <2>3. PICK at : at = IF left = <<>> THEN "done" ELSE "busy"
    OBVIOUS
  <2>4. left \in Seq(Fine(node, hreq[r].to)) /\ covers \in SUBSET Nodes
    BY <1>5, <2>1, <2>2, CascadeIsFine, CoversAreNodes, FirstIsFine DEF SaveTenant
  <2>5. hreq' = [hreq EXCEPT ![r].todo = left, ![r].covers = covers, ![r].at = at] /\ node' = node
    BY <1>5, <2>1, <2>2, <2>3 DEF SaveTenant
  <2> QED
    BY <2>3, <2>4, <2>5, RequestSteps
<1>6. ASSUME NEW r \in HierarchyRequests, GetNode(r)
      PROVE  HierarchyInv' /\ node' = node
  <2>1. PICK t : t = Next1(r)
    OBVIOUS
  <2>2. t \in Fine(node, hreq[r].to) /\ t \in TodoRows /\ t.do = "get" /\ Does(r, "get") /\ node' = node
    BY <1>6, <2>1, FirstIsFine DEF GetNode
  <2>3. t.on \in Nodes
    BY <2>2 DEF Fine
  <2>4. CASE IsLegal(node[t.on].status, hreq[r].to)
    <3>1. PICK u : u = [t EXCEPT !.do = "swap"]
      OBVIOUS
    <3>2. u \in TodoRows /\ u.do = "swap" /\ u.on = t.on /\ u.number = t.number
      BY <2>2, <3>1 DEF TodoRows
    <3>3. u \in Fine(node, hreq[r].to)
      BY <2>2, <2>4, <3>2 DEF Fine
    <3>4. Continue(r, <<u>>)
      BY <1>6, <2>1, <2>4, <3>1 DEF GetNode
    <3>5. <<u>> \in Seq(Fine(node, hreq[r].to))
      BY <3>3
    <3> QED
      BY <2>2, <3>4, <3>5, ContinueKeeps
  <2>5. CASE ~IsLegal(node[t.on].status, hreq[r].to)
    <3>1. PICK how \in {"refused", "failed"} : End(r, how)
      BY <1>6, <2>1, <2>5 DEF GetNode
    <3> QED
      BY <2>2, <3>1, EndKeeps
  <2> QED
    BY <2>4, <2>5
<1>7. ASSUME NEW r \in HierarchyRequests, CountRows(r)
      PROVE  HierarchyInv' /\ node' = node
  <2>1. PICK t : t = Next1(r)
    OBVIOUS
  <2>2. t \in Fine(node, hreq[r].to) /\ t \in TodoRows /\ t.do = "count" /\ Does(r, "count") /\ node' = node
    BY <1>7, <2>1, FirstIsFine DEF CountRows
  <2>3. t.on \in Parents
    BY <2>2 DEF Fine
  <2>4. PICK n : n = Len(Listed(t.on))
    OBVIOUS
  <2>5. n \in Nat
    BY <2>3, <2>4, ListedAreNodes, LenProperties
  <2>6. PICK u : u = [t EXCEPT !.do = "rows", !.total = n]
    OBVIOUS
  <2>7. u \in TodoRows /\ u.do = "rows" /\ u.on = t.on
    BY <2>2, <2>5, <2>6 DEF TodoRows
  <2>8. u \in Fine(node, hreq[r].to)
    BY <2>3, <2>7 DEF Fine
  <2>9. Continue(r, <<u>>)
    BY <1>7, <2>1, <2>4, <2>6 DEF CountRows
  <2>10. <<u>> \in Seq(Fine(node, hreq[r].to))
    BY <2>8
  <2> QED
    BY <2>2, <2>9, <2>10, ContinueKeeps
<1>8. ASSUME NEW r \in HierarchyRequests, ListRows(r)
      PROVE  HierarchyInv' /\ node' = node
  <2>1. PICK t : t = Next1(r)
    OBVIOUS
  <2>2. t \in Fine(node, hreq[r].to) /\ t \in TodoRows /\ t.do = "rows" /\ Does(r, "rows") /\ node' = node
    BY <1>8, <2>1, FirstIsFine DEF ListRows
  <2>3. t.on \in Parents /\ t.number \in Nat /\ t.on \in Nodes \cup {Tenant}
    BY <2>2 DEF Fine, TodoRows
  <2>4. PICK page \in Seq(Nodes) : page = Page(t.on, t.number)
    BY <2>3, PageIsOfNodes
  <2>5. PICK seen : seen = t.number + Len(page)
    OBVIOUS
  <2>6. seen \in Nat
    BY <2>3, <2>5, LenProperties
  <2>7. PICK p, q : /\ p = FlattenSeq([i \in DOMAIN page |-> Handle(r, page[i])])
                    /\ q = NextPage(r, page, seen)
    OBVIOUS
  <2>8. Todo("count", t.on, seen) \in Fine(node, hreq[r].to)
    BY <2>3, <2>6 DEF Todo, Fine, TodoRows
  <2>9. p \in Seq(Fine(node, hreq[r].to)) /\ q \in Seq(Fine(node, hreq[r].to))
    <3>1. p \in Seq(Fine(node, hreq[r].to))
      BY <2>7, ListedIsFine
    <3>2. q \in {<<Todo("count", t.on, seen)>>, <<>>}
      BY <2>1, <2>7 DEF NextPage
    <3>3. \A S, x : x \in S => <<x>> \in Seq(S) /\ <<>> \in Seq(S)
      OBVIOUS
    <3> QED
      BY <2>8, <3>1, <3>2, <3>3
  <2>10. p \o q \in Seq(Fine(node, hreq[r].to))
    BY <2>9, ConcatProperties
  <2>11. Continue(r, p \o q)
    BY <1>8, <2>1, <2>4, <2>5, <2>7 DEF ListRows
  <2> QED
    BY <2>2, <2>10, <2>11, ContinueKeeps
<1>9. ASSUME NEW r \in HierarchyRequests, RequestDies(r)
      PROVE  HierarchyInv' /\ node' = node
  BY <1>9, EndKeeps DEF RequestDies
<1>10. CASE UNCHANGED hierarchyVars
  BY <1>10 DEF hierarchyVars, HierarchyInv, HierarchyTyped
<1> QED
  BY <1>1, <1>2, <1>3, <1>4, <1>5, <1>6, <1>7, <1>8, <1>9, <1>10 DEF HierarchyNext, hierarchyVars

(* DeletedStaysDeleted for any tree, any page size and any requests that   *)
(* race: a swap that finds the version it expects finds the status that    *)
(* was checked.                                                            *)
THEOREM DeletedStaysDeletedHolds == HierarchySpec => DeletedStaysDeleted
<1>1. HierarchyInv /\ [HierarchyNext]_hierarchyVars =>
        HierarchyInv' /\ [\A n \in Nodes : node[n].status = "deleted" => node'[n].status = "deleted"]_hierarchyVars
  BY HierarchyStep
<1> QED
  BY <1>1, HierarchyInitially, PTL DEF HierarchySpec, DeletedStaysDeleted

-----------------------------------------------------------------------------
(***************************************************************************)
(* TenantHierarchy: a deletion that was answered with success has reached  *)
(* all that was under its node, unless a registration shifted the pages.   *)
(***************************************************************************)

(* Nodes as children of their parents.                                     *)

Kids(p) == IF p = Tenant THEN 1..MaxWorkspaces ELSE 1..MaxEnvironments

LEMMA FrontOfAppend ==
  ASSUME NEW p \in Seq(Nat), NEW k \in Nat
  PROVE  /\ Append(p, k) \in Seq(Nat) /\ Len(Append(p, k)) = Len(p) + 1 /\ Len(p) \in Nat
         /\ Front(Append(p, k)) = p /\ Last(Append(p, k)) = k
         /\ SubSeq(Append(p, k), 1, Len(p)) = p
<1>1. PICK s \in Seq(Nat) : s = Append(p, k)
  BY AppendProperties
<1>2. PICK n \in Nat : n = Len(p)
  BY LenProperties
<1>3. /\ Len(s) = n + 1 /\ s[n + 1] = k /\ DOMAIN p = 1..n /\ \A i \in 1..n : s[i] = p[i]
  BY <1>1, <1>2, AppendProperties, LenProperties
<1>4. SubSeq(s, 1, n) = p
  <2>1. \A i \in 1..n : s[i] \in Nat
    BY <1>2, <1>3, ElementOfSeq
  <2>2. PICK f : f = SubSeq(s, 1, n)
    OBVIOUS
  <2>3. /\ f \in Seq(Nat) /\ Len(f) = IF 1 <= n THEN n - 1 + 1 ELSE 0
        /\ \A i \in 1..(n - 1 + 1) : f[i] = s[1 + i - 1]
    BY <2>1, <2>2, SubSeqProperties
  <2>4. Len(f) = n /\ \A i \in 1..n : f[i] = p[i]
    BY <1>3, <2>3
  <2> QED
    BY <1>2, <2>2, <2>3, <2>4, SeqEqual
<1>5. Len(s) - 1 = n
  BY <1>3
<1> QED
  BY <1>1, <1>2, <1>3, <1>4, <1>5 DEF Front, Last

LEMMA NodeFacts ==
  /\ Tenant \notin Nodes /\ Parents \subseteq Nodes \cup {Tenant} /\ Tenant \in Parents
  /\ \A n \in Nodes : n \in Parents <=> n \notin Environments
  /\ \A p \in Parents : p \in Seq(Nat) /\ Kids(p) \subseteq Nat \ {0}
  /\ \A p \in Parents : \A k \in Kids(p) :
       /\ Append(p, k) \in Nodes
       /\ Append(p, k) \in Parents <=> p = Tenant
  /\ \A n \in Nodes : \E p \in Parents : \E k \in Kids(p) : n = Append(p, k)
<1>1. Workspaces \subseteq Seq(Nat) /\ \A w \in 1..MaxWorkspaces : w \in Nat \ {0}
  <2>1. \A w \in 1..MaxWorkspaces : w \in Nat \ {0}
    BY HierarchyAssumption
  <2>2. \A w \in Nat : <<w>> \in Seq(Nat)
    OBVIOUS
  <2> QED
    BY <2>1, <2>2 DEF Workspaces
<1>2. \A e \in 1..MaxEnvironments : e \in Nat \ {0}
  BY HierarchyAssumption
<1>3. \A w \in 1..MaxWorkspaces : Append(<<>>, w) = <<w>>
  OBVIOUS
<1>4. ASSUME NEW v \in 1..MaxWorkspaces, NEW k \in 1..MaxEnvironments PROVE Append(<<v>>, k) = <<v, k>>
  <2>1. <<v>> \in Seq(Nat) /\ k \in Nat /\ v \in Nat
    BY HierarchyAssumption
  <2>2. PICK s \in Seq(Nat) : s = <<v>> /\ Len(s) = 1 /\ s[1] = v
    BY <2>1
  <2>3. /\ Append(s, k) \in Seq(Nat) /\ Len(Append(s, k)) = 2
        /\ Append(s, k)[1] = v /\ Append(s, k)[2] = k
    BY <2>1, <2>2
  <2>4. <<v, k>> \in Seq(Nat) /\ Len(<<v, k>>) = 2 /\ <<v, k>>[1] = v /\ <<v, k>>[2] = k
    BY <2>1
  <2>5. \A i \in 1..2 : i = 1 \/ i = 2
    OBVIOUS
  <2> QED
    BY <2>2, <2>3, <2>4, <2>5, SeqEqual
<1>5. Tenant \notin Workspaces /\ Tenant \notin Environments /\ Workspaces \cap Environments = {}
  BY DEF Tenant, Workspaces, Environments
<1>6. \A p \in Parents : p \in Seq(Nat) /\ Kids(p) \subseteq Nat \ {0}
  <2>1. <<>> \in Seq(Nat)
    OBVIOUS
  <2> QED
    BY <1>1, <1>2, <2>1 DEF Parents, Kids, Tenant
<1>7. ASSUME NEW p \in Parents, NEW k \in Kids(p)
      PROVE  Append(p, k) \in Nodes /\ (Append(p, k) \in Parents <=> p = Tenant)
  <2>1. CASE p = Tenant
    <3>1. Append(p, k) \in Workspaces
      BY <1>3, <2>1 DEF Tenant, Kids, Workspaces
    <3> QED
      BY <2>1, <3>1 DEF Nodes, Parents
  <2>2. CASE p # Tenant
    <3>1. PICK v \in 1..MaxWorkspaces : p = <<v>>
      BY <2>2 DEF Parents, Workspaces
    <3>2. Append(p, k) \in Environments
      BY <1>4, <2>2, <3>1 DEF Kids, Environments
    <3> QED
      BY <1>5, <2>2, <3>2 DEF Nodes, Parents
  <2> QED
    BY <2>1, <2>2
<1>8. ASSUME NEW n \in Nodes
      PROVE  \E p \in Parents : \E k \in Kids(p) : n = Append(p, k)
  <2>1. CASE n \in Workspaces
    BY <1>3, <2>1 DEF Workspaces, Parents, Kids, Tenant
  <2>2. CASE n \in Environments
    <3>1. PICK w \in 1..MaxWorkspaces, e \in 1..MaxEnvironments : n = <<w, e>>
      BY <2>2 DEF Environments
    <3>2. <<w>> \in Workspaces /\ <<w>> # Tenant
      BY DEF Workspaces, Tenant
    <3>3. n = Append(<<w>>, e) /\ e \in Kids(<<w>>) /\ <<w>> \in Parents
      BY <1>4, <3>1, <3>2 DEF Kids, Parents
    <3> QED
      BY <3>3
  <2> QED
    BY <2>1, <2>2 DEF Nodes
<1> QED
  BY <1>5, <1>6, <1>7, <1>8 DEF Nodes, Parents

LEMMA ChildFacts ==
  ASSUME NEW p \in Parents, NEW k \in Kids(p)
  PROVE  /\ Front(Append(p, k)) = p /\ Last(Append(p, k)) = k
         /\ \A q \in Parents : \A j \in Kids(q) : Append(p, k) = Append(q, j) => p = q /\ k = j
<1>1. \A q \in Parents : \A j \in Kids(q) : Front(Append(q, j)) = q /\ Last(Append(q, j)) = j
  <2> TAKE q \in Parents
  <2> TAKE j \in Kids(q)
  <2>1. q \in Seq(Nat) /\ j \in Nat
    BY NodeFacts
  <2> QED
    BY <2>1, FrontOfAppend
<1>2. PICK n : n = Append(p, k)
  OBVIOUS
<1>3. \A q \in Parents : \A j \in Kids(q) : n = Append(q, j) => Front(n) = q /\ Last(n) = j
  BY <1>1, Zenon
<1> QED
  BY <1>1, <1>2, <1>3, Zenon

(* A node is under its parent and the tenant. *)
LEMMA UnderFacts ==
  ASSUME NEW q \in Parents, NEW k \in Kids(q), NEW p \in Nodes \cup {Tenant}
  PROVE  Under(Append(q, k), p) <=> p = q \/ p = Tenant
<1>1. PICK n : n = Append(q, k)
  OBVIOUS
<1>2. /\ q \in Seq(Nat) /\ k \in Nat /\ n \in Nodes /\ Tenant \notin Nodes
      /\ n \in Seq(Nat) /\ Len(n) = Len(q) + 1 /\ Len(q) \in Nat /\ SubSeq(n, 1, Len(q)) = q
  BY <1>1, NodeFacts, FrontOfAppend
<1>3. p \in Seq(Nat) /\ Len(p) \in Nat /\ (Len(p) = 0 <=> p = <<>>)
  <2>1. p \in Seq(Nat)
    <3>1. CASE p = Tenant
      BY <3>1 DEF Tenant
    <3>2. CASE p \in Nodes
      <4>1. PICK s \in Parents : \E j \in Kids(s) : p = Append(s, j)
        BY <3>2, NodeFacts
      <4> QED
        BY <4>1, NodeFacts, FrontOfAppend
    <3> QED
      BY <3>1, <3>2
  <2> QED
    BY <2>1, LenProperties, EmptySeq
<1>4. SubSeq(p, 1, Len(p)) = p /\ SubSeq(n, 1, Len(n)) = n
  BY <1>2, <1>3, SubSeqFull
<1>5. Under(n, p) <=> Len(p) <= Len(n) /\ p = SubSeq(n, 1, Len(p)) /\ p # n
  BY <1>4 DEF Under, IsStrictPrefix, IsPrefix
<1>6. Len(q) <= 1
  <2>1. CASE q = Tenant
    BY <2>1 DEF Tenant
  <2>2. CASE q \in Workspaces
    <3>1. PICK w : q = <<w>>
      BY <2>2 DEF Workspaces
    <3> QED
      BY <3>1
  <2> QED
    BY <2>1, <2>2 DEF Parents
<1>7. CASE p = Tenant
  <2>1. Len(p) = 0 /\ SubSeq(n, 1, 0) = <<>>
    BY <1>3, <1>7, SubSeqEmpty DEF Tenant
  <2>2. p # n /\ Len(p) <= Len(n)
    BY <1>2, <1>7, <2>1
  <2> QED
    BY <1>1, <1>5, <1>7, <2>1, <2>2 DEF Tenant
<1>8. CASE p = q
  <2>1. Len(q) <= Len(n) /\ q # n
    BY <1>2
  <2> QED
    BY <1>1, <1>2, <1>5, <1>8, <2>1
<1>9. CASE p # Tenant /\ p # q /\ Under(n, p)
  <2>1. Len(p) # 0
    BY <1>3, <1>9 DEF Tenant
  <2>2. Len(p) = Len(n) \/ Len(p) = Len(q)
    <3>1. Len(p) <= Len(n) /\ Len(n) = Len(q) + 1
      BY <1>2, <1>5, <1>9
    <3>2. \A i, j \in Nat : i <= j + 1 /\ j <= 1 /\ i # 0 => i = j + 1 \/ i = j
      OBVIOUS
    <3> QED
      BY <1>2, <1>3, <1>6, <2>1, <3>1, <3>2
  <2> QED
    BY <1>2, <1>4, <1>5, <1>9, <2>2
<1> QED
  BY <1>1, <1>7, <1>8, <1>9

-----------------------------------------------------------------------------
(* The inductive invariant, of a request that covers the nodes C when the  *)
(* nodes "here" exist and those of "gone" are deleted.                     *)

Here == {n \in Nodes : Exists(n)}
Gone == {n \in Nodes : node[n].status = "deleted"}

(* With a node come its parent and its older siblings. *)
Closed(C) ==
  \A p \in Parents : \A k \in Kids(p) : Append(p, k) \in C =>
    /\ p \in C \cup {Tenant}
    /\ \A j \in 1..k : Append(p, j) \in C

Size(C, p) == Cardinality({n \in C : Front(n) = p})
Newer(C, here, p) == \E n \in here \ C : Front(n) = p

(* What a request on a node may have left to do: the check and the write   *)
(* of that node, and nothing else, or work on what is under it, where a    *)
(* count is right unless a row has come since.                             *)
OwnRows(on) ==
  {t \in TodoRows :
     t.on = on /\ t.do \in (IF on = Tenant THEN {"read", "save"} ELSE {"get", "swap"})}
CascadeRows(on, C, here) ==
  {t \in TodoRows :
     \/ t.do \in {"get", "swap"} /\ t.on \in Nodes /\ Under(t.on, on)
     \/ /\ t.do \in {"count", "rows"} /\ t.on \in Parents /\ on \in {t.on, Tenant}
        /\ t.do = "rows" => t.total = Size(C, t.on) \/ Newer(C, here, t.on)}
Todos(on, C, here) == Seq(CascadeRows(on, C, here)) \cup {<<t>> : t \in OwnRows(on)}

(* The nodes that t is still to bring to their end. *)
Reaches(C, t, n) ==
  \/ t.do \in {"get", "swap"} /\ t.on = n
  \/ /\ t.do \in {"count", "rows"}
     /\ \E k \in Kids(t.on) : /\ k + t.number <= Size(C, t.on)
                              /\ n = Append(t.on, k) \/ Under(n, Append(t.on, k))

Excused(on, C, here, n) == \E m \in here \ C : Under(m, on) /\ Under(n, Front(m))

Covered(k, here, gone) ==
  /\ Closed(k.covers) /\ k.covers \subseteq here
  /\ k.todo \in Todos(k.on, k.covers, here)
  /\ k.at # "busy" => k.todo = <<>>
  /\ k.to = "deleted" /\ k.at \in {"busy", "done"} =>
       \A n \in k.covers : Under(n, k.on) =>
         \/ n \in gone \/ Excused(k.on, k.covers, here, n)
         \/ \E t \in ToSet(k.todo) : Reaches(k.covers, t, n)

CoverInv ==
  /\ Closed(Here)
  /\ \A r \in HierarchyRequests : Covered(hreq[r], Here, Gone)

-----------------------------------------------------------------------------
(* Counting.                                                               *)

(* The children in a closed set are numbered from 1 to its size.           *)
LEMMA ClosedSize ==
  ASSUME NEW C \in SUBSET Nodes, Closed(C), NEW p \in Parents
  PROVE  /\ Size(C, p) \in Nat
         /\ \A k \in Nat \ {0} : k <= Size(C, p) <=> k \in Kids(p) /\ Append(p, k) \in C
<1> DEFINE D == {k \in Kids(p) : Append(p, k) \in C}
           E == {n \in C : Front(n) = p}
<1>1. PICK b \in Nat : Kids(p) = 1..b
  BY HierarchyAssumption DEF Kids
<1>2. D \subseteq 1..b /\ \A k \in D : \A j \in 1..k : j \in D
  BY <1>1 DEF Closed
<1>3. PICK m \in Nat : D = 1..m
  <2>1. CASE D = {}
    <3>1. D = 1..0
      BY <2>1
    <3> QED
      BY <3>1
  <2>2. CASE D # {}
    <3>1. D \in SUBSET Nat /\ IsFiniteSet(D)
      <4>1. IsFiniteSet(1..b) /\ D \in SUBSET (1..b)
        BY <1>2, FS_Interval
      <4>2. 1..b \subseteq Nat
        OBVIOUS
      <4> QED
        BY <4>1, <4>2, FS_Subset
    <3>2. PICK m : m = Max(D)
      OBVIOUS
    <3>3. m \in D /\ \A k \in D : k <= m
      BY <2>2, <3>1, <3>2, MaxIsGreatest
    <3>4. \A k \in D : k \in 1..b
      BY <1>2
    <3> HIDE DEF D
    <3>5. m \in Nat /\ D \subseteq 1..m
      BY <3>3, <3>4
    <3>6. 1..m \subseteq D
      BY <1>2, <3>3
    <3> QED
      BY <3>5, <3>6
  <2> QED
    BY <2>1, <2>2
<1>4. \A k \in D : Append(p, k) \in E
  BY ChildFacts
<1>5. \A n \in E : \E k \in D : n = Append(p, k)
  <2> TAKE n \in E
  <2>1. PICK q \in Parents : \E k \in Kids(q) : n = Append(q, k)
    BY NodeFacts
  <2>2. PICK k \in Kids(q) : n = Append(q, k)
    BY <2>1
  <2>3. q = p
    BY <2>2, ChildFacts
  <2> QED
    BY <2>2, <2>3
<1>6. \A j, k \in D : Append(p, j) = Append(p, k) => j = k
  BY ChildFacts
<1> HIDE DEF D, E
<1>7. [k \in D |-> Append(p, k)] \in Bijection(D, E)
  BY <1>4, <1>5, <1>6 DEF Bijection, Injection, Surjection, IsInjective
<1>8. IsFiniteSet(D) /\ Cardinality(D) = m
  <2>1. \A i \in Nat : (IF 1 > i THEN 0 ELSE i - 1 + 1) = i
    OBVIOUS
  <2> QED
    BY <1>3, <2>1, FS_Interval
<1>9. Cardinality(E) = m
  BY <1>7, <1>8, FS_Bijection DEF ExistsBijection
<1>10. \A k \in Nat \ {0} : k <= m <=> k \in D
  BY <1>3
<1> QED
  BY <1>9, <1>10 DEF Size, D, E

(* What is under a child of p is under p too, and under anything p is under. *)
LEMMA UnderChild ==
  ASSUME NEW p \in Parents, NEW k \in Kids(p), NEW n \in Nodes,
         n = Append(p, k) \/ Under(n, Append(p, k)), NEW on \in {p, Tenant}
  PROVE  Under(n, on)
<1>1. PICK q \in Parents : \E j \in Kids(q) : n = Append(q, j)
  BY NodeFacts
<1>2. PICK j \in Kids(q) : n = Append(q, j)
  BY <1>1
<1>3. p \in Nodes \cup {Tenant} /\ Append(p, k) \in Nodes
  BY NodeFacts
<1>4. CASE n = Append(p, k)
  BY <1>3, <1>4, UnderFacts
<1>5. CASE Under(n, Append(p, k))
  <2>1. q = Append(p, k)
    BY <1>2, <1>3, <1>5, UnderFacts, NodeFacts
  <2>2. p = Tenant
    BY <2>1, NodeFacts
  <2> QED
    BY <1>2, <2>2, UnderFacts
<1> QED
  BY <1>4, <1>5

(* When a cascade begins, its count reaches all that it covers under p.    *)
LEMMA CountReachesAll ==
  ASSUME NEW C \in SUBSET Nodes, Closed(C), NEW p \in Parents, NEW n \in C, Under(n, p),
         NEW t, t.do = "count", t.on = p, t.number = 0
  PROVE  Reaches(C, t, n)
<1>1. PICK q \in Parents : \E j \in Kids(q) : n = Append(q, j)
  BY NodeFacts
<1>2. PICK j \in Kids(q) : n = Append(q, j)
  BY <1>1
<1>3. p \in Nodes \cup {Tenant} /\ j \in Nat \ {0} /\ Size(C, p) \in Nat
  BY NodeFacts, ClosedSize, ZenonT(40)
<1>4. p = q \/ p = Tenant
  BY <1>2, <1>3, UnderFacts
<1>5. CASE p = q
  <2>1. j <= Size(C, p)
    BY <1>2, <1>3, <1>5, ClosedSize
  <2>2. j + 0 <= Size(C, p)
    BY <1>3, <2>1
  <2> QED
    BY <1>2, <1>5, <2>2 DEF Reaches
<1>6. CASE p # q /\ p = Tenant
  <2>1. q \in Nodes /\ q \in C
    BY <1>2, <1>6, NodeFacts DEF Closed
  <2>2. PICK s \in Parents : \E k \in Kids(s) : q = Append(s, k)
    BY <2>1, NodeFacts
  <2>3. PICK k \in Kids(s) : q = Append(s, k)
    BY <2>2
  <2>4. s = p
    BY <1>6, <2>3, NodeFacts
  <2>5. k \in Nat \ {0} /\ k <= Size(C, p)
    BY <2>1, <2>3, <2>4, ClosedSize, NodeFacts
  <2>6. k + 0 <= Size(C, p)
    BY <1>3, <2>5
  <2>7. Under(n, q)
    BY <1>2, <2>1, UnderFacts
  <2> QED
    BY <2>3, <2>4, <2>6, <2>7 DEF Reaches
<1> QED
  BY <1>4, <1>5, <1>6

(* What Listed lists: the children of p, from the last to the first.       *)
LEMMA ListedRows ==
  ASSUME NEW p \in Parents, Closed(Here)
  PROVE  /\ Size(Here, p) \in Nat
         /\ Listed(p) = [i \in 1..Size(Here, p) |-> Append(p, Size(Here, p) + 1 - i)]
         /\ Listed(p) \in Seq(Nodes) /\ Len(Listed(p)) = Size(Here, p)
<1>1. Here \in SUBSET Nodes
  BY DEF Here
<1>2. {n \in Nodes : Exists(n) /\ Front(n) = p} = {n \in Here : Front(n) = p}
  BY DEF Here
<1>3. PICK m \in Nat : m = Size(Here, p)
  BY <1>1, ClosedSize
<1>4. Listed(p) = [i \in 1..m |-> Append(p, m + 1 - i)]
  BY <1>2, <1>3 DEF Listed, Size
<1>5. Listed(p) \in Seq(Nodes)
  BY ListedAreNodes
<1>6. PICK rows : rows = Listed(p)
  OBVIOUS
<1>7. DOMAIN rows = 1..m /\ rows \in Seq(Nodes)
  BY <1>4, <1>5, <1>6
<1>8. Len(rows) = m
  BY <1>3, <1>7, LenProperties
<1> QED
  BY <1>3, <1>4, <1>5, <1>6, <1>8

(* ... and what is in a page of it. *)
LEMMA SliceRows ==
  ASSUME NEW T, NEW rows \in Seq(T), NEW m \in Nat \ {0}, NEW end \in Nat, end <= Len(rows)
  PROVE  /\ SubSeq(rows, m, end) \in Seq(T)
         /\ Len(SubSeq(rows, m, end)) = IF m <= end THEN end - m + 1 ELSE 0
         /\ \A i \in 1..(end - m + 1) : SubSeq(rows, m, end)[i] = rows[m + i - 1]
<1>1. \A i \in m..end : rows[i] \in T
  <2> SUFFICES ASSUME NEW i \in m..end PROVE i \in 1..Len(rows)
    BY ElementOfSeq
  <2> QED
    BY LenProperties
<1> QED
  BY <1>1, SubSeqProperties

LEMMA PageRows ==
  ASSUME NEW p \in Parents, NEW offset \in Nat, NEW S \in Nat, NEW rows \in Seq(Nodes), Len(rows) = S,
         \A i \in 1..S : rows[i] = Append(p, S + 1 - i), rows = Listed(p)
  PROVE  /\ \A i \in DOMAIN Page(p, offset) : \E k \in 1..S : Page(p, offset)[i] = Append(p, k)
         /\ \A k \in 1..S : k + offset <= S =>
              \/ \E i \in DOMAIN Page(p, offset) : Page(p, offset)[i] = Append(p, k)
              \/ /\ Page(p, offset) # <<>> /\ offset + Len(Page(p, offset)) < S
                 /\ k + (offset + Len(Page(p, offset))) <= S
<1>1. PICK end : end = IF offset + PageSize < S THEN offset + PageSize ELSE S
  OBVIOUS
<1>2. PICK page : page = Page(p, offset)
  OBVIOUS
<1>3. end \in Nat /\ end <= S
  BY <1>1, HierarchyAssumption
<1>4. page = SubSeq(rows, offset + 1, end)
  BY <1>1, <1>2 DEF Page
<1>6. /\ page \in Seq(Nodes)
      /\ Len(page) = IF offset + 1 <= end THEN end - (offset + 1) + 1 ELSE 0
      /\ \A i \in 1..(end - (offset + 1) + 1) : page[i] = rows[(offset + 1) + i - 1]
  <2>1. PICK m \in Nat \ {0} : m = offset + 1
    <3>1. offset + 1 \in Nat \ {0}
      OBVIOUS
    <3> QED
      BY <3>1
  <2>2. /\ SubSeq(rows, m, end) \in Seq(Nodes)
        /\ Len(SubSeq(rows, m, end)) = IF m <= end THEN end - m + 1 ELSE 0
        /\ \A i \in 1..(end - m + 1) : SubSeq(rows, m, end)[i] = rows[m + i - 1]
    BY <1>3, SliceRows
  <2>3. page = SubSeq(rows, m, end)
    BY <1>4, <2>1
  <2> QED
    BY <2>1, <2>2, <2>3
<1>7. DOMAIN page = 1..Len(page) /\ Len(page) \in Nat
  BY <1>6, LenProperties
<1>8. PICK l \in Nat : l = Len(page)
  BY <1>7
<1>9. ASSUME NEW i \in 1..l
      PROVE  page[i] = Append(p, S + 1 - (offset + i)) /\ S + 1 - (offset + i) \in 1..S
  <2>1. offset + 1 <= end /\ l = end - offset
    BY <1>3, <1>6, <1>8, <1>9
  <2>2. /\ i \in 1..(end - (offset + 1) + 1) /\ (offset + 1) + i - 1 = offset + i
        /\ offset + i \in 1..S /\ S + 1 - (offset + i) \in 1..S
    BY <1>3, <2>1
  <2>3. page[i] = rows[offset + i]
    BY <1>6, <2>2
  <2> QED
    BY <2>2, <2>3
<1>10. ASSUME NEW k \in 1..S, k + offset <= S
       PROVE  \/ \E i \in 1..l : page[i] = Append(p, k)
              \/ page # <<>> /\ offset + l < S /\ k + (offset + l) <= S
  <2>1. PICK i \in Nat : i = S + 1 - k - offset /\ i >= 1
    <3>1. S + 1 - k - offset \in Nat /\ S + 1 - k - offset >= 1
      BY <1>10
    <3> QED
      BY <3>1
  <2>2. CASE i <= l
    <3>1. i \in 1..l /\ S + 1 - (offset + i) = k
      BY <1>8, <2>1, <2>2
    <3> QED
      BY <1>9, <3>1
  <2>3. CASE ~(i <= l)
    <3>1. offset + 1 <= S
      BY <1>10
    <3>2. end = offset + PageSize /\ PageSize \in Nat \ {0}
      <4>1. CASE offset + PageSize < S
        BY <1>1, <4>1, HierarchyAssumption
      <4>2. CASE ~(offset + PageSize < S)
        <5>1. end = S
          BY <1>1, <4>2
        <5>2. l = S - offset
          BY <1>6, <1>8, <3>1, <5>1
        <5> QED
          BY <1>10, <2>1, <2>3, <5>2
      <4> QED
        BY <4>1, <4>2
    <3>3. l = PageSize /\ l # 0
      BY <1>6, <1>8, <3>2
    <3>4. k + (offset + l) <= S
      BY <1>10, <2>1, <2>3, <3>3
    <3>5. offset + l < S
      BY <1>10, <3>4
    <3>6. page # <<>>
      BY <1>8, <3>3
    <3> QED
      BY <3>4, <3>5, <3>6
  <2> QED
    BY <2>2, <2>3
<1> QED
  BY <1>2, <1>7, <1>8, <1>9, <1>10

-----------------------------------------------------------------------------
(* Rows come and rows are deleted, and what is covered stays covered.      *)

LEMMA CoveredGrows ==
  ASSUME NEW k, NEW here, NEW here2, NEW gone, NEW gone2,
         Covered(k, here, gone), here \subseteq here2, gone \subseteq gone2
  PROVE  Covered(k, here2, gone2)
<1>1. \A p : Newer(k.covers, here, p) => Newer(k.covers, here2, p)
  BY DEF Newer
<1>2. CascadeRows(k.on, k.covers, here) \subseteq CascadeRows(k.on, k.covers, here2)
  BY <1>1 DEF CascadeRows
<1>3. k.todo \in Todos(k.on, k.covers, here2)
  BY <1>2, SeqMonotonic DEF Covered, Todos
<1>4. \A n : Excused(k.on, k.covers, here, n) => Excused(k.on, k.covers, here2, n)
  BY DEF Excused
<1> QED
  BY <1>3, <1>4 DEF Covered

LEMMA TodosSplit ==
  ASSUME NEW on, NEW C, NEW here, NEW s \in Todos(on, C, here), s # <<>>
  PROVE  /\ Tail(s) \in Seq(CascadeRows(on, C, here))
         /\ \/ Head(s) \in CascadeRows(on, C, here)
            \/ Head(s) \in OwnRows(on) /\ Tail(s) = <<>>
         /\ \A t \in ToSet(s) : t = Head(s) \/ t \in ToSet(Tail(s))
<1>1. CASE s \in Seq(CascadeRows(on, C, here))
  <2>1. /\ Tail(s) \in Seq(CascadeRows(on, C, here)) /\ Head(s) \in CascadeRows(on, C, here)
        /\ Head(s) = s[1] /\ Len(Tail(s)) = Len(s) - 1
        /\ \A i \in 1..Len(Tail(s)) : Tail(s)[i] = s[i + 1]
    BY <1>1, HeadTailProperties
  <2>2. DOMAIN s = 1..Len(s) /\ Len(s) \in Nat /\ DOMAIN Tail(s) = 1..Len(Tail(s))
    BY <1>1, <2>1, LenProperties
  <2>4. Len(s) # 0
    BY <1>1, EmptySeq
  <2>3. ASSUME NEW i \in DOMAIN s, i # 1 PROVE s[i] \in ToSet(Tail(s))
    <3>1. i - 1 \in 1..Len(Tail(s)) /\ (i - 1) + 1 = i
      BY <2>1, <2>2, <2>3
    <3>2. i - 1 \in DOMAIN Tail(s) /\ Tail(s)[i - 1] = s[i]
      BY <2>1, <2>2, <3>1
    <3> QED
      BY <3>2 DEF ToSet
  <2> QED
    BY <2>1, <2>3 DEF ToSet
<1>2. ASSUME NEW t \in OwnRows(on), s = <<t>>
      PROVE  /\ Tail(s) = <<>> /\ Head(s) = t
             /\ \A u \in ToSet(s) : u = Head(s)
  BY <1>2 DEF ToSet
<1>3. <<>> \in Seq(CascadeRows(on, C, here))
  OBVIOUS
<1> QED
  BY <1>1, <1>2, <1>3 DEF Todos

LEMMA ConcatToSet ==
  ASSUME NEW S, NEW p \in Seq(S), NEW e \in Seq(S), NEW s, s = p \o e
  PROVE  ToSet(p) \subseteq ToSet(s) /\ ToSet(e) \subseteq ToSet(s)
<1>1. /\ \A k \in DOMAIN p : k \in DOMAIN s /\ s[k] = p[k]
      /\ \A l \in DOMAIN e : Len(p) + l \in DOMAIN s /\ s[Len(p) + l] = e[l]
  BY ConcatFacts
<1> QED
  BY <1>1, ZenonT(40) DEF ToSet

(* The first thing to do is replaced by others.  What it was to reach is    *)
(* gone, excused or left to them.                                          *)
LEMMA ContinueCovers ==
  ASSUME NEW k \in RequestRows, NEW here, NEW gone, NEW gone2, NEW others \in Seq(TodoRows),
         Covered(k, here, gone), k.at = "busy", k.todo # <<>>, gone \subseteq gone2,
         NEW left, left = others \o Tail(k.todo), left \in Todos(k.on, k.covers, here),
         NEW at, at = IF left = <<>> THEN "done" ELSE "busy",
         k.to = "deleted" =>
           \A n \in k.covers : Under(n, k.on) /\ Reaches(k.covers, Head(k.todo), n) =>
             \/ n \in gone2 \/ Excused(k.on, k.covers, here, n)
             \/ \E t \in ToSet(others) : Reaches(k.covers, t, n),
         NEW k2, k2 = [k EXCEPT !.todo = left, !.at = at]
  PROVE  Covered(k2, here, gone2)
<1>1. /\ k2.todo = left /\ k2.at = at /\ k2.on = k.on /\ k2.to = k.to /\ k2.covers = k.covers
  BY DEF RequestRows
<1>2. /\ Tail(k.todo) \in Seq(CascadeRows(k.on, k.covers, here))
      /\ \A t \in ToSet(k.todo) : t = Head(k.todo) \/ t \in ToSet(Tail(k.todo))
  BY TodosSplit DEF Covered
<1>3. PICK tail : tail = Tail(k.todo)
  OBVIOUS
<1>4. tail \in Seq(TodoRows)
  BY <1>2, <1>3, SeqMonotonic DEF CascadeRows
<1>5. ToSet(others) \subseteq ToSet(left) /\ ToSet(tail) \subseteq ToSet(left)
  <2>1. left = others \o tail
    BY <1>3
  <2> QED
    BY <1>4, <2>1, ConcatToSet, Zenon
<1>6. ASSUME k.to = "deleted", NEW n \in k.covers, Under(n, k.on)
      PROVE  \/ n \in gone2 \/ Excused(k.on, k.covers, here, n)
             \/ \E t \in ToSet(left) : Reaches(k.covers, t, n)
  <2>1. \/ n \in gone \/ Excused(k.on, k.covers, here, n)
        \/ \E t \in ToSet(k.todo) : Reaches(k.covers, t, n)
    BY <1>6 DEF Covered
  <2>2. ASSUME NEW t \in ToSet(k.todo), Reaches(k.covers, t, n)
        PROVE  \/ n \in gone2 \/ Excused(k.on, k.covers, here, n)
               \/ \E u \in ToSet(left) : Reaches(k.covers, u, n)
    BY <1>2, <1>3, <1>5, <1>6, <2>2
  <2> QED
    BY <2>1, <2>2
<1>7. Closed(k.covers) /\ k.covers \subseteq here
  BY DEF Covered
<1>8. at # "busy" => left = <<>>
  OBVIOUS
<1> QED
  BY <1>1, <1>6, <1>7, <1>8 DEF Covered

(* A request writes its own node: it covers all that exists, and has a     *)
(* count to do if there is anything under the node.                        *)
LEMMA BeginCovers ==
  ASSUME NEW here \in SUBSET Nodes, Closed(here), NEW gone, NEW k,
         k.on \in Nodes \cup {Tenant}, k.covers = here,
         k.todo = IF k.to = "active" \/ k.on \in Environments THEN <<>> ELSE <<Todo("count", k.on, 0)>>,
         k.at = IF k.todo = <<>> THEN "done" ELSE "busy"
  PROVE  Covered(k, here, gone)
<1>1. PICK t : t = Todo("count", k.on, 0)
  OBVIOUS
<1>2. t.do = "count" /\ t.on = k.on /\ t.number = 0 /\ t \in TodoRows
  BY <1>1 DEF Todo, TodoRows
<1>3. k.on \notin Environments => k.on \in Parents
  BY DEF Parents, Nodes
<1>4. k.on \in Parents => t \in CascadeRows(k.on, k.covers, here)
  BY <1>2 DEF CascadeRows
<1>5. k.todo \in Todos(k.on, k.covers, here)
  <2>1. k.todo = <<>> \/ (k.on \in Parents /\ k.todo = <<t>>)
    BY <1>1, <1>3, Zenon
  <2>2. k.on \in Parents => <<t>> \in Seq(CascadeRows(k.on, k.covers, here))
    BY <1>4
  <2>3. <<>> \in Seq(CascadeRows(k.on, k.covers, here))
    OBVIOUS
  <2> QED
    BY <2>1, <2>2, <2>3 DEF Todos
<1>6. ASSUME k.to = "deleted", NEW n \in k.covers, Under(n, k.on)
      PROVE  \E u \in ToSet(k.todo) : Reaches(k.covers, u, n)
  <2>1. k.on \in Parents
    <3>1. PICK q \in Parents : \E j \in Kids(q) : n = Append(q, j)
      BY NodeFacts
    <3>2. PICK j \in Kids(q) : n = Append(q, j)
      BY <3>1
    <3>3. Under(Append(q, j), k.on)
      BY <1>6, <3>2
    <3>4. k.on = q \/ k.on = Tenant
      BY <3>3, UnderFacts
    <3> QED
      BY <3>4, NodeFacts
  <2>2. k.on \notin Environments
    BY <2>1, NodeFacts DEF Nodes
  <2>3. k.todo = <<t>>
    BY <1>1, <1>6, <2>2
  <2>4. t \in ToSet(k.todo)
    <3>1. PICK s : s = <<t>>
      OBVIOUS
    <3>2. 1 \in DOMAIN s /\ s[1] = t
      BY <3>1
    <3> QED
      BY <2>3, <3>1, <3>2 DEF ToSet
  <2>5. Reaches(k.covers, t, n)
    BY <1>2, <1>6, <2>1, CountReachesAll
  <2> QED
    BY <2>4, <2>5
<1> QED
  BY <1>5, <1>6 DEF Covered

-----------------------------------------------------------------------------
(* The steps of the specification.                                         *)

LEMMA HereIsKnown ==
  /\ Here \in SUBSET Nodes
  /\ \A n \in Nodes : n \in Here <=> node[n].status # "absent"
BY NodeFacts DEF Here, Exists

LEMMA CoverSteps ==
  ASSUME HierarchyInv, CoverInv, NEW r \in HierarchyRequests, NEW k, hreq' = [hreq EXCEPT ![r] = k],
         NEW here, here = Here', NEW gone, gone = Gone',
         Here \subseteq here, Gone \subseteq gone, Closed(here), Covered(k, here, gone)
  PROVE  CoverInv'
<1>1. hreq'[r] = k /\ \A q \in HierarchyRequests : q # r => hreq'[q] = hreq[q]
  BY DEF HierarchyInv, HierarchyTyped
<1>2. ASSUME NEW q \in HierarchyRequests PROVE Covered(hreq'[q], here, gone)
  <2>1. CASE q = r
    BY <1>1, <2>1
  <2>2. CASE q # r
    BY <1>1, <2>2, CoveredGrows DEF CoverInv
  <2> QED
    BY <2>1, <2>2
<1> QED
  BY <1>2 DEF CoverInv

LEMMA NodesStay ==
  ASSUME node' = node
  PROVE  Here' = Here /\ Gone' = Gone
BY DEF Here, Gone, Exists

LEMMA EndCovers ==
  ASSUME HierarchyInv, CoverInv, NEW r \in HierarchyRequests, NEW how \in {"refused", "failed"},
         End(r, how), node' = node
  PROVE  CoverInv'
<1>1. PICK k : k = [hreq[r] EXCEPT !.at = how, !.todo = <<>>]
  OBVIOUS
<1>2. hreq[r] \in RequestRows
  BY DEF HierarchyInv, HierarchyTyped
<1>3. hreq' = [hreq EXCEPT ![r] = k]
  BY <1>1 DEF End, HierarchyInv, HierarchyTyped
<1>4. /\ k.todo = <<>> /\ k.at = how /\ k.on = hreq[r].on /\ k.covers = hreq[r].covers
  BY <1>1, <1>2 DEF RequestRows
<1>5. <<>> \in Todos(k.on, k.covers, Here)
  BY DEF Todos
<1>6. Closed(k.covers) /\ k.covers \subseteq Here
  BY <1>4 DEF CoverInv, Covered
<1>7. Covered(k, Here, Gone)
  BY <1>4, <1>5, <1>6 DEF Covered
<1> QED
  BY <1>3, <1>7, CoverSteps, NodesStay DEF CoverInv

(* What is known of a request that goes on. *)
LEMMA NextIs ==
  ASSUME HierarchyInv, CoverInv, NEW r \in HierarchyRequests, NEW do, Does(r, do)
  PROVE  /\ hreq[r] \in RequestRows /\ hreq[r].at = "busy" /\ hreq[r].todo # <<>>
         /\ Next1(r) = Head(hreq[r].todo) /\ Next1(r) \in TodoRows /\ Next1(r).do = do
         /\ Tail(hreq[r].todo) \in Seq(CascadeRows(hreq[r].on, hreq[r].covers, Here))
         /\ \/ Next1(r) \in CascadeRows(hreq[r].on, hreq[r].covers, Here)
            \/ Next1(r) \in OwnRows(hreq[r].on) /\ Tail(hreq[r].todo) = <<>>
         /\ hreq[r].covers \in SUBSET Nodes /\ Closed(hreq[r].covers) /\ hreq[r].covers \subseteq Here
         /\ hreq[r].on \in Nodes \cup {Tenant}
<1>1. hreq[r] \in RequestRows
  BY DEF HierarchyInv, HierarchyTyped
<1>2. hreq[r].at = "busy" /\ hreq[r].todo # <<>> /\ Next1(r) = Head(hreq[r].todo)
  BY DEF HierarchyInv, Does, Next1
<1>3. Next1(r) \in TodoRows /\ Next1(r).do = do
  BY FirstIsFine
<1>4. hreq[r].covers \in SUBSET Nodes /\ hreq[r].on \in Nodes \cup {Tenant}
  BY <1>1 DEF RequestRows
<1>5. /\ hreq[r].todo \in Todos(hreq[r].on, hreq[r].covers, Here)
      /\ Closed(hreq[r].covers) /\ hreq[r].covers \subseteq Here
  BY DEF CoverInv, Covered
<1> QED
  BY <1>1, <1>2, <1>3, <1>4, <1>5, TodosSplit, ZenonT(40)

LEMMA ContinueCoverInv ==
  ASSUME HierarchyInv, CoverInv, NEW r \in HierarchyRequests, NEW do, Does(r, do),
         NEW others \in Seq(TodoRows), Continue(r, others), node' = node,
         others \o Tail(hreq[r].todo) \in Todos(hreq[r].on, hreq[r].covers, Here),
         hreq[r].to = "deleted" =>
           \A n \in hreq[r].covers : Under(n, hreq[r].on) /\ Reaches(hreq[r].covers, Next1(r), n) =>
             \/ n \in Gone \/ Excused(hreq[r].on, hreq[r].covers, Here, n)
             \/ \E t \in ToSet(others) : Reaches(hreq[r].covers, t, n)
  PROVE  CoverInv'
<1>1. PICK left : left = others \o Tail(hreq[r].todo)
  OBVIOUS
<1>2. PICK at : at = IF left = <<>> THEN "done" ELSE "busy"
  OBVIOUS
<1>3. PICK k : k = [hreq[r] EXCEPT !.todo = left, !.at = at]
  OBVIOUS
<1>4. hreq' = [hreq EXCEPT ![r] = k]
  BY <1>1, <1>2, <1>3 DEF Continue, HierarchyInv, HierarchyTyped
<1>5. /\ hreq[r] \in RequestRows /\ hreq[r].at = "busy" /\ hreq[r].todo # <<>>
      /\ Next1(r) = Head(hreq[r].todo) /\ Covered(hreq[r], Here, Gone)
  BY NextIs DEF CoverInv
<1>6. PICK h, here, gone : h = hreq[r] /\ here = Here /\ gone = Gone
  OBVIOUS
<1>7. h.to = "deleted" =>
        \A n \in h.covers : Under(n, h.on) /\ Reaches(h.covers, Head(h.todo), n) =>
          \/ n \in gone \/ Excused(h.on, h.covers, here, n)
          \/ \E t \in ToSet(others) : Reaches(h.covers, t, n)
  BY <1>5, <1>6
<1>8. /\ h \in RequestRows /\ h.at = "busy" /\ h.todo # <<>> /\ Covered(h, here, gone)
      /\ left = others \o Tail(h.todo) /\ left \in Todos(h.on, h.covers, here)
      /\ k = [h EXCEPT !.todo = left, !.at = at] /\ gone \subseteq gone
  BY <1>1, <1>3, <1>5, <1>6
<1>9. Covered(k, here, gone)
  BY <1>2, <1>7, <1>8, ContinueCovers
<1> QED
  BY <1>4, <1>6, <1>9, CoverSteps, NodesStay DEF CoverInv

LEMMA GetCovers ==
  ASSUME HierarchyInv, CoverInv, NEW r \in HierarchyRequests, GetNode(r)
  PROVE  CoverInv'
<1>1. PICK t, on, C, tail : t = Next1(r) /\ on = hreq[r].on /\ C = hreq[r].covers /\ tail = Tail(hreq[r].todo)
  OBVIOUS
<1>2. /\ t \in TodoRows /\ t.do = "get" /\ tail \in Seq(CascadeRows(on, C, Here))
      /\ \/ t \in CascadeRows(on, C, Here)
         \/ t \in OwnRows(on) /\ tail = <<>>
      /\ Does(r, "get") /\ node' = node
  BY <1>1, NextIs DEF GetNode
<1>3. CASE IsLegal(node[t.on].status, hreq[r].to)
  <2>1. PICK u : u = [t EXCEPT !.do = "swap"]
    OBVIOUS
  <2>2. u \in TodoRows /\ u.do = "swap" /\ u.on = t.on
    BY <1>2, <2>1 DEF TodoRows
  <2>3. <<u>> \in Seq(TodoRows) /\ Continue(r, <<u>>)
    BY <1>1, <1>3, <2>1, <2>2 DEF GetNode
  <2>4. <<u>> \o tail \in Todos(on, C, Here)
    <3>1. CASE t \in CascadeRows(on, C, Here)
      <4>1. u \in CascadeRows(on, C, Here)
        BY <1>2, <2>2, <3>1 DEF CascadeRows
      <4>2. <<u>> \in Seq(CascadeRows(on, C, Here))
        BY <4>1
      <4> QED
        BY <1>2, <4>2, ConcatProperties DEF Todos
    <3>2. CASE t \in OwnRows(on) /\ tail = <<>>
      <4>1. u \in OwnRows(on)
        BY <1>2, <2>2, <3>2 DEF OwnRows
      <4>2. <<u>> \o tail = <<u>>
        BY <2>3, <3>2, ConcatEmptySeq
      <4> QED
        BY <4>1, <4>2 DEF Todos
    <3> QED
      BY <1>2, <3>1, <3>2
  <2>5. u \in ToSet(<<u>>)
    <3>1. PICK s : s = <<u>>
      OBVIOUS
    <3>2. 1 \in DOMAIN s /\ s[1] = u
      BY <3>1
    <3> QED
      BY <3>1, <3>2 DEF ToSet
  <2>6. \A n : Reaches(C, t, n) => Reaches(C, u, n)
    BY <1>2, <2>2 DEF Reaches
  <2> QED
    BY <1>1, <1>2, <2>3, <2>4, <2>5, <2>6, ContinueCoverInv
<1>4. CASE ~IsLegal(node[t.on].status, hreq[r].to)
  <2>1. PICK how \in {"refused", "failed"} : End(r, how)
    BY <1>1, <1>4 DEF GetNode
  <2> QED
    BY <1>2, <2>1, EndCovers
<1> QED
  BY <1>3, <1>4

LEMMA CountCovers ==
  ASSUME HierarchyInv, CoverInv, NEW r \in HierarchyRequests, CountRows(r)
  PROVE  CoverInv'
<1>1. PICK t, on, C, tail : t = Next1(r) /\ on = hreq[r].on /\ C = hreq[r].covers /\ tail = Tail(hreq[r].todo)
  OBVIOUS
<1>2. /\ t \in TodoRows /\ t.do = "count" /\ tail \in Seq(CascadeRows(on, C, Here))
      /\ t \in CascadeRows(on, C, Here)
      /\ Does(r, "count") /\ node' = node /\ C \subseteq Here
  BY <1>1, NextIs, SMTT(30) DEF CountRows, OwnRows
<1>3. t.on \in Parents /\ on \in {t.on, Tenant}
  BY <1>2 DEF CascadeRows
<1>4. PICK size : size = Len(Listed(t.on))
  OBVIOUS
<1>5. size \in Nat /\ size = Size(Here, t.on)
  BY <1>3, <1>4, ListedRows DEF CoverInv
<1>6. size = Size(C, t.on) \/ Newer(C, Here, t.on)
  <2>1. CASE Newer(C, Here, t.on)
    BY <2>1
  <2>2. CASE ~Newer(C, Here, t.on)
    <3>1. {n \in C : Front(n) = t.on} = {n \in Here : Front(n) = t.on}
      BY <1>2, <2>2 DEF Newer
    <3> QED
      BY <1>5, <3>1 DEF Size
  <2> QED
    BY <2>1, <2>2
<1>7. PICK u : u = [t EXCEPT !.do = "rows", !.total = size]
  OBVIOUS
<1>8. /\ u \in TodoRows /\ u.do = "rows" /\ u.on = t.on /\ u.number = t.number /\ u.total = size
  BY <1>2, <1>5, <1>7 DEF TodoRows
<1>9. <<u>> \in Seq(TodoRows) /\ Continue(r, <<u>>)
  BY <1>1, <1>4, <1>7, <1>8 DEF CountRows
<1>10. u \in CascadeRows(on, C, Here)
  BY <1>3, <1>6, <1>8 DEF CascadeRows
<1>11. <<u>> \o tail \in Todos(on, C, Here)
  <2>1. <<u>> \in Seq(CascadeRows(on, C, Here))
    BY <1>10
  <2> QED
    BY <1>2, <2>1, ConcatProperties DEF Todos
<1>12. u \in ToSet(<<u>>)
  <2>1. PICK s : s = <<u>>
    OBVIOUS
  <2>2. 1 \in DOMAIN s /\ s[1] = u
    BY <2>1
  <2> QED
    BY <2>1, <2>2 DEF ToSet
<1>13. \A n : Reaches(C, t, n) => Reaches(C, u, n)
  BY <1>2, <1>8 DEF Reaches
<1> QED
  BY <1>1, <1>2, <1>9, <1>11, <1>12, <1>13, ContinueCoverInv

LEMMA OneInSeq ==
  ASSUME NEW S, NEW x \in S
  PROVE  <<x>> \in Seq(S) /\ <<>> \in Seq(S) /\ x \in ToSet(<<x>>)
<1>1. PICK s : s = <<x>>
  OBVIOUS
<1>2. 1 \in DOMAIN s /\ s[1] = x
  BY <1>1
<1>3. <<x>> \in Seq(S) /\ <<>> \in Seq(S)
  OBVIOUS
<1> QED
  BY <1>1, <1>2, <1>3 DEF ToSet

(* What a deletion adds for a row that it lists under p reaches the row,   *)
(* unless it is deleted, and all that is covered under it.                 *)
LEMMA HandleCovers ==
  ASSUME HierarchyInv, NEW r \in HierarchyRequests, NEW p \in Parents, NEW k \in Kids(p),
         NEW n, n = Append(p, k), NEW on \in {p, Tenant}, NEW C \in SUBSET Nodes, Closed(C), NEW here
  PROVE  /\ Handle(r, n) \in Seq(CascadeRows(on, C, here))
         /\ hreq[r].to = "deleted" /\ n \in Here =>
              /\ n \in Gone \/ \E u \in ToSet(Handle(r, n)) : Reaches(C, u, n)
              /\ \A m \in C : Under(m, n) => \E u \in ToSet(Handle(r, n)) : Reaches(C, u, m)
<1>1. PICK c, g : c = Todo("count", n, 0) /\ g = Todo("get", n, node[n].version)
  OBVIOUS
<1>2. n \in Nodes /\ (n \in Parents <=> n \notin Environments) /\ (n \in Parents <=> p = Tenant)
  BY NodeFacts
<1>3. node[n].version \in Nat /\ node[n].status \in Targets \cup {"absent"}
  BY <1>2 DEF HierarchyInv, HierarchyTyped, NodeRows
<1>4. /\ c.do = "count" /\ c.on = n /\ c.number = 0 /\ c \in TodoRows
      /\ g.do = "get" /\ g.on = n /\ g \in TodoRows
  BY <1>1, <1>2, <1>3 DEF Todo, TodoRows
<1>5. Under(n, on)
  BY UnderFacts, NodeFacts
<1>6. g \in CascadeRows(on, C, here)
  BY <1>2, <1>4, <1>5 DEF CascadeRows
<1>7. n \notin Environments => c \in CascadeRows(on, C, here)
  BY <1>2, <1>4 DEF CascadeRows
<1>8. PICK a, b : /\ a = Cascade(r, n)
                  /\ b = IF IsLegal(node[n].status, hreq[r].to) THEN <<g>> ELSE <<>>
  OBVIOUS
<1>9. Handle(r, n) = a \o b
  BY <1>1, <1>8 DEF Handle
<1>10. a = <<>> \/ (n \notin Environments /\ a = <<c>>)
  BY <1>1, <1>8 DEF Cascade
<1>11. a \in Seq(CascadeRows(on, C, here)) /\ b \in Seq(CascadeRows(on, C, here))
  BY <1>6, <1>7, <1>8, <1>10, OneInSeq
<1>12. Handle(r, n) \in Seq(CascadeRows(on, C, here))
  BY <1>9, <1>11, ConcatProperties
<1>13. ToSet(a) \subseteq ToSet(Handle(r, n)) /\ ToSet(b) \subseteq ToSet(Handle(r, n))
  BY <1>9, <1>11, ConcatToSet
<1>14. ASSUME hreq[r].to = "deleted", n \in Here
       PROVE  n \in Gone \/ \E u \in ToSet(Handle(r, n)) : Reaches(C, u, n)
  <2>1. node[n].status \in {"active", "suspended"} \/ node[n].status = "deleted"
    BY <1>2, <1>3, <1>14, HereIsKnown DEF Targets
  <2>2. CASE node[n].status = "deleted"
    BY <1>2, <2>2 DEF Gone
  <2>3. CASE node[n].status \in {"active", "suspended"}
    <3>1. b = <<g>>
      BY <1>8, <1>14, <2>3 DEF IsLegal
    <3>2. g \in ToSet(b)
      BY <3>1, OneInSeq
    <3>3. Reaches(C, g, n)
      BY <1>4 DEF Reaches
    <3> QED
      BY <1>13, <3>2, <3>3
  <2> QED
    BY <2>1, <2>2, <2>3
<1>15. ASSUME hreq[r].to = "deleted", NEW m \in C, Under(m, n)
       PROVE  \E u \in ToSet(Handle(r, n)) : Reaches(C, u, m)
  <2>1. n \in Parents
    <3>1. PICK q \in Parents : \E j \in Kids(q) : m = Append(q, j)
      BY NodeFacts
    <3>2. PICK j \in Kids(q) : m = Append(q, j)
      BY <3>1
    <3>3. Under(Append(q, j), n) /\ n \in Nodes \cup {Tenant}
      BY <1>2, <1>15, <3>2
    <3>4. n = q \/ n = Tenant
      BY <3>3, UnderFacts
    <3> QED
      BY <3>4, NodeFacts
  <2>2. a = <<c>>
    BY <1>1, <1>2, <1>8, <1>15, <2>1 DEF Cascade
  <2>3. c \in ToSet(a)
    BY <2>2, OneInSeq
  <2>4. Reaches(C, c, m)
    BY <1>4, <1>15, <2>1, CountReachesAll
  <2> QED
    BY <1>13, <2>3, <2>4
<1> QED
  BY <1>12, <1>14, <1>15

LEMMA ListCovers ==
  ASSUME HierarchyInv, CoverInv, NEW r \in HierarchyRequests, ListRows(r)
  PROVE  CoverInv'
<1>1. PICK t, on, C, tail : t = Next1(r) /\ on = hreq[r].on /\ C = hreq[r].covers /\ tail = Tail(hreq[r].todo)
  OBVIOUS
<1>2. /\ t \in TodoRows /\ t.do = "rows" /\ tail \in Seq(CascadeRows(on, C, Here))
      /\ t \in CascadeRows(on, C, Here) /\ C \in SUBSET Nodes /\ Closed(C)
      /\ Does(r, "rows") /\ node' = node /\ C \subseteq Here
  BY <1>1, NextIs DEF ListRows, OwnRows
<1>3. PICK p \in Parents : p = t.on /\ on \in {p, Tenant} /\ (t.total = Size(C, p) \/ Newer(C, Here, p))
  BY <1>2 DEF CascadeRows
<1>4. PICK offset \in Nat : offset = t.number
  BY <1>2 DEF TodoRows
<1>5. PICK rows, S : rows = Listed(p) /\ S = Size(Here, p)
  OBVIOUS
<1>6. /\ S \in Nat /\ rows = [i \in 1..S |-> Append(p, S + 1 - i)] /\ rows \in Seq(Nodes) /\ Len(rows) = S
  BY <1>5, ListedRows DEF CoverInv
<1>7. PICK page : page = Page(p, offset)
  OBVIOUS
<1>8. /\ page \in Seq(Nodes)
      /\ \A i \in DOMAIN page : \E k \in 1..S : page[i] = Append(p, k)
      /\ \A k \in 1..S : k + offset <= S =>
           \/ \E i \in DOMAIN page : page[i] = Append(p, k)
           \/ page # <<>> /\ offset + Len(page) < S /\ k + (offset + Len(page)) <= S
  <2>1. \A i \in 1..S : rows[i] = Append(p, S + 1 - i)
    BY <1>6
  <2> QED
    BY <1>5, <1>6, <1>7, <2>1, PageRows, PageIsOfNodes
<1>9. \A k \in 1..S : k \in Kids(p) /\ Append(p, k) \in Here
  <2>1. \A k \in 1..S : k \in Nat \ {0} /\ k <= S
    BY <1>6
  <2> QED
    BY <1>5, <2>1, ClosedSize, HereIsKnown DEF CoverInv
<1>10. PICK l \in Nat : l = Len(page) /\ DOMAIN page = 1..l
  BY <1>8, LenProperties
<1>11. PICK seqs : seqs = [i \in 1..l |-> Handle(r, page[i])]
  OBVIOUS
<1>12. seqs \in [1..l -> Seq(CascadeRows(on, C, Here))]
  <2>1. ASSUME NEW i \in 1..l PROVE Handle(r, page[i]) \in Seq(CascadeRows(on, C, Here))
    <3>1. PICK k \in 1..S : page[i] = Append(p, k)
      BY <1>8, <1>10
    <3> QED
      BY <1>2, <1>3, <1>9, <3>1, HandleCovers
  <2> QED
    BY <1>11, <2>1
<1>13. PICK flat : flat = FlattenSeq(seqs)
  OBVIOUS
<1>14. flat \in Seq(CascadeRows(on, C, Here)) /\ \A i \in 1..l : ToSet(seqs[i]) \subseteq ToSet(flat)
  BY <1>12, <1>13, FlattenFacts DEF Keeps
<1>15. PICK seen \in Nat : seen = offset + l
  <2>1. offset + l \in Nat
    OBVIOUS
  <2> QED
    BY <2>1
<1>16. PICK c : c = Todo("count", p, seen)
  OBVIOUS
<1>17. c.do = "count" /\ c.on = p /\ c.number = seen /\ c \in TodoRows /\ c \in CascadeRows(on, C, Here)
  BY <1>3, <1>16 DEF Todo, TodoRows, CascadeRows, Parents, Nodes
<1>18. PICK next : next = IF page # <<>> /\ seen < t.total THEN <<c>> ELSE <<>>
  OBVIOUS
<1>19. next \in Seq(CascadeRows(on, C, Here))
  BY <1>17, <1>18, OneInSeq
<1>20. PICK others : others = flat \o next
  OBVIOUS
<1>21. /\ others \in Seq(CascadeRows(on, C, Here)) /\ others \in Seq(TodoRows)
       /\ ToSet(flat) \subseteq ToSet(others) /\ ToSet(next) \subseteq ToSet(others)
  <2>1. others \in Seq(CascadeRows(on, C, Here))
    BY <1>14, <1>19, <1>20, ConcatProperties
  <2>2. others \in Seq(TodoRows)
    BY <2>1, SeqMonotonic DEF CascadeRows
  <2> QED
    BY <1>14, <1>19, <1>20, <2>1, <2>2, ConcatToSet
<1>22. Continue(r, others)
  <2>1. [i \in DOMAIN page |-> Handle(r, page[i])] = seqs
    BY <1>10, <1>11
  <2>2. NextPage(r, page, seen) = next
    BY <1>1, <1>3, <1>16, <1>18 DEF NextPage
  <2> QED
    BY <1>1, <1>3, <1>4, <1>7, <1>10, <1>13, <1>15, <1>20, <2>1, <2>2 DEF ListRows
<1>23. others \o tail \in Todos(on, C, Here)
  BY <1>2, <1>21, ConcatProperties DEF Todos
<1>24. ASSUME hreq[r].to = "deleted", NEW m \in C, Under(m, on), Reaches(C, t, m)
       PROVE  m \in Gone \/ Excused(on, C, Here, m) \/ \E u \in ToSet(others) : Reaches(C, u, m)
  <2>1. PICK k \in Kids(p) : /\ k + offset <= Size(C, p)
                             /\ m = Append(p, k) \/ Under(m, Append(p, k))
    BY <1>2, <1>3, <1>4, <1>24 DEF Reaches
  <2>2. k \in Nat \ {0} /\ m \in Nodes /\ Size(C, p) \in Nat
    BY <1>2, NodeFacts, ClosedSize
  <2>3. CASE Newer(C, Here, p)
    <3>1. PICK x \in Here \ C : Front(x) = p
      BY <2>3 DEF Newer
    <3>2. x \in Nodes
      BY HereIsKnown
    <3>3. PICK q \in Parents : \E j \in Kids(q) : x = Append(q, j)
      BY <3>2, NodeFacts
    <3>4. PICK j \in Kids(q) : x = Append(q, j)
      BY <3>3
    <3>5. q = p
      BY <3>1, <3>4, ChildFacts
    <3>6. Under(x, on)
      <4>1. on \in Nodes \cup {Tenant}
        BY <1>3, NodeFacts
      <4> QED
        BY <1>3, <3>4, <3>5, <4>1, UnderFacts
    <3>7. Under(m, p)
      BY <2>1, <2>2, UnderChild
    <3> QED
      BY <3>1, <3>6, <3>7 DEF Excused
  <2>4. CASE ~Newer(C, Here, p)
    <3>1. S = Size(C, p) /\ t.total = S
      <4>1. {n \in C : Front(n) = p} = {n \in Here : Front(n) = p}
        BY <1>2, <2>4 DEF Newer
      <4> QED
        BY <1>3, <1>5, <2>4, <4>1 DEF Size
    <3>2. k \in 1..S /\ k + offset <= S
      BY <1>6, <2>1, <2>2, <3>1
    <3>3. CASE \E i \in DOMAIN page : page[i] = Append(p, k)
      <4>1. PICK i \in 1..l : page[i] = Append(p, k)
        BY <1>10, <3>3
      <4>2. PICK y : y = Append(p, k)
        OBVIOUS
      <4>3. y \in Here
        BY <1>9, <3>2, <4>2
      <4>4. ToSet(Handle(r, y)) \subseteq ToSet(others)
        BY <1>11, <1>14, <1>21, <4>1, <4>2
      <4>5. \/ m = y /\ m \in Gone
            \/ \E u \in ToSet(Handle(r, y)) : Reaches(C, u, m)
        BY <1>2, <1>3, <1>24, <2>1, <4>2, <4>3, HandleCovers
      <4> QED
        BY <4>4, <4>5
    <3>4. CASE page # <<>> /\ offset + Len(page) < S /\ k + (offset + Len(page)) <= S
      <4>1. next = <<c>> /\ k + seen <= Size(C, p)
        BY <1>10, <1>15, <1>18, <3>1, <3>4
      <4>2. c \in ToSet(others)
        BY <1>17, <1>21, <4>1, OneInSeq
      <4>3. Reaches(C, c, m)
        BY <1>17, <2>1, <4>1 DEF Reaches
      <4> QED
        BY <4>2, <4>3
    <3> QED
      BY <1>8, <3>2, <3>3, <3>4
  <2> QED
    BY <2>3, <2>4
<1> QED
  BY <1>1, <1>2, <1>21, <1>22, <1>23, <1>24, ContinueCoverInv

LEMMA SaveCovers ==
  ASSUME HierarchyInv, CoverInv, NEW r \in HierarchyRequests, SaveTenant(r)
  PROVE  CoverInv'
<1>1. PICK left, at, k : /\ left = Cascade(r, Tenant)
                         /\ at = IF left = <<>> THEN "done" ELSE "busy"
                         /\ k = [hreq[r] EXCEPT !.todo = left, !.covers = Covers(r, Tenant), !.at = at]
  OBVIOUS
<1>2. /\ hreq[r] \in RequestRows /\ Next1(r) \in OwnRows(hreq[r].on) /\ Does(r, "save")
      /\ hreq[r].on \in Nodes \cup {Tenant} /\ node' = node
  <2>1. Does(r, "save") /\ node' = node
    BY DEF SaveTenant
  <2>2. \A on, C : Next1(r) \in CascadeRows(on, C, Here) => Next1(r).do # "save"
    BY DEF CascadeRows
  <2> QED
    BY <2>1, <2>2, NextIs
<1>3. hreq[r].on = Tenant
  BY <1>2 DEF OwnRows, Does
<1>4. Covers(r, Tenant) = Here
  BY <1>3 DEF Covers, Here
<1>5. hreq' = [hreq EXCEPT ![r] = k]
  BY <1>1 DEF SaveTenant, HierarchyInv, HierarchyTyped
<1>6. /\ k.on = Tenant /\ k.to = hreq[r].to /\ k.covers = Here /\ k.todo = left /\ k.at = at
  BY <1>1, <1>2, <1>3, <1>4 DEF RequestRows
<1>7. k.todo = IF k.to = "active" \/ k.on \in Environments THEN <<>> ELSE <<Todo("count", k.on, 0)>>
  BY <1>1, <1>6 DEF Cascade
<1>8. Covered(k, Here, Gone)
  BY <1>1, <1>6, <1>7, BeginCovers, HereIsKnown DEF CoverInv
<1> QED
  BY <1>2, <1>5, <1>8, CoverSteps, NodesStay DEF CoverInv

LEMMA SwapCovers ==
  ASSUME HierarchyInv, CoverInv, NEW r \in HierarchyRequests, SwapNode(r)
  PROVE  CoverInv'
<1>1. PICK t, n, on, to, C, tail, h :
        /\ t = Next1(r) /\ n = t.on /\ on = hreq[r].on /\ to = hreq[r].to
        /\ C = hreq[r].covers /\ tail = Tail(hreq[r].todo) /\ h = hreq[r]
  OBVIOUS
<1>2. /\ t \in TodoRows /\ t.do = "swap" /\ tail \in Seq(CascadeRows(on, C, Here))
      /\ \/ t \in CascadeRows(on, C, Here)
         \/ t \in OwnRows(on) /\ tail = <<>>
      /\ h \in RequestRows /\ h.at = "busy" /\ h.todo # <<>> /\ t = Head(h.todo)
      /\ C \in SUBSET Nodes /\ Closed(C) /\ C \subseteq Here /\ on \in Nodes \cup {Tenant}
      /\ Does(r, "swap") /\ t \in Fine(node, to)
  BY <1>1, NextIs, FirstIsFine DEF SwapNode
<1>3. n \in Nodes /\ (t.number = node[n].version => IsLegal(node[n].status, to))
  BY <1>1, <1>2 DEF Fine
<1>4. CASE t.number # node[n].version
  <2>1. End(r, "failed") /\ node' = node
    BY <1>1, <1>4 DEF SwapNode
  <2> QED
    BY <2>1, EndCovers
<1>5. CASE t.number = node[n].version
  <2>1. PICK new, left, at, k :
          /\ new = Cascade(r, n) /\ left = new \o tail /\ at = IF left = <<>> THEN "done" ELSE "busy"
          /\ k = [h EXCEPT !.todo = left, !.covers = Covers(r, n), !.at = at]
    OBVIOUS
  <2>2. /\ node' = [node EXCEPT ![n] = [status |-> to, version |-> @.version + 1]]
        /\ hreq' = [hreq EXCEPT ![r] = k]
    BY <1>1, <1>5, <2>1 DEF SwapNode, HierarchyInv, HierarchyTyped
  <2>3. node \in [Nodes -> NodeRows] /\ to \in Targets /\ to # "absent"
    BY <1>1, <1>2 DEF HierarchyInv, HierarchyTyped, RequestRows, Targets
  <2>4. node[n].status # "absent" /\ node[n].status # "deleted"
    BY <1>3, <1>5 DEF IsLegal
  <2>5. PICK here, gone : here = Here' /\ gone = Gone'
    OBVIOUS
  <2>6. /\ node'[n].status = to /\ \A m \in Nodes : m # n => node'[m] = node[m]
    BY <1>3, <2>2, <2>3
  <2>7. here = Here
    <3>1. here = {m \in Nodes : node'[m].status # "absent"}
      BY <2>5, NodeFacts DEF Here, Exists
    <3>2. Here = {m \in Nodes : node[m].status # "absent"}
      BY NodeFacts DEF Here, Exists
    <3> QED
      BY <2>3, <2>4, <2>6, <3>1, <3>2
  <2>8. Gone \subseteq gone /\ (to = "deleted" => n \in gone)
    BY <1>3, <2>4, <2>5, <2>6 DEF Gone
  <2>9. CASE n = on
    <3>1. t \notin CascadeRows(on, C, Here)
      <4>1. ~Under(n, n)
        BY DEF Under, IsStrictPrefix
      <4> QED
        BY <1>1, <1>2, <2>9, <4>1 DEF CascadeRows
    <3>2. tail = <<>> /\ Covers(r, n) = Here
      BY <1>1, <1>2, <2>9, <3>1 DEF Covers, Here
    <3>3. left = new
      <4>1. new \in Seq(Fine(node, to))
        BY <1>3, <2>1, CascadeIsFine
      <4> QED
        BY <2>1, <3>2, <4>1, ConcatEmptySeq
    <3>4. k.on = n /\ k.to = to /\ k.covers = Here /\ k.todo = new /\ k.at = at
      BY <1>1, <1>2, <2>1, <2>9, <3>2, <3>3 DEF RequestRows
    <3>5. k.todo = IF k.to = "active" \/ k.on \in Environments THEN <<>> ELSE <<Todo("count", k.on, 0)>>
      BY <1>1, <2>1, <3>4 DEF Cascade
    <3>6. Covered(k, here, gone)
      BY <1>3, <2>1, <2>7, <3>3, <3>4, <3>5, BeginCovers, HereIsKnown DEF CoverInv
    <3> QED
      BY <2>2, <2>5, <2>7, <2>8, <3>6, CoverSteps DEF CoverInv
  <2>10. CASE n # on
    <3>1. t \in CascadeRows(on, C, Here) /\ Under(n, on)
      BY <1>1, <1>2, <2>10 DEF CascadeRows, OwnRows
    <3>2. Covers(r, n) = C
      BY <1>1, <2>10 DEF Covers
    <3>3. k = [h EXCEPT !.todo = left, !.at = at]
      BY <1>1, <1>2, <2>1, <3>2 DEF RequestRows
    <3>4. PICK c : c = Todo("count", n, 0)
      OBVIOUS
    <3>5. c.do = "count" /\ c.on = n /\ c \in TodoRows
      BY <1>3, <3>4 DEF Todo, TodoRows
    <3>6. n \notin Environments => c \in CascadeRows(on, C, Here)
      <4> SUFFICES ASSUME n \in Parents PROVE c \in CascadeRows(on, C, Here)
        BY <1>3, NodeFacts
      <4>1. PICK q \in Parents : \E j \in Kids(q) : n = Append(q, j)
        BY <1>3, NodeFacts
      <4>2. PICK j \in Kids(q) : n = Append(q, j)
        BY <4>1
      <4>3. q = Tenant
        BY <4>2, NodeFacts
      <4>4. on = Tenant
        BY <1>2, <3>1, <4>2, <4>3, UnderFacts
      <4> QED
        BY <3>5, <4>4 DEF CascadeRows
    <3>7. new \in Seq(CascadeRows(on, C, Here)) /\ new \in Seq(TodoRows)
      <4>1. new = <<>> \/ (n \notin Environments /\ new = <<c>>)
        BY <2>1, <3>4 DEF Cascade
      <4>2. new \in Seq(CascadeRows(on, C, Here))
        <5>1. PICK allowed : allowed = CascadeRows(on, C, Here)
          OBVIOUS
        <5>2. CASE new = <<>>
          <6>1. <<>> \in Seq(allowed)
            OBVIOUS
          <6> QED
            BY <5>1, <5>2, <6>1
        <5>3. CASE n \notin Environments /\ new = <<c>>
          <6>1. c \in allowed
            BY <3>6, <5>1, <5>3
          <6>2. <<c>> \in Seq(allowed)
            BY <6>1
          <6> QED
            BY <5>1, <5>3, <6>2
        <5> QED
          BY <4>1, <5>2, <5>3
      <4>3. new \in Seq(TodoRows)
        <5>1. CascadeRows(on, C, Here) \subseteq TodoRows
          BY DEF CascadeRows
        <5> QED
          BY <4>2, <5>1, SeqMonotonic
      <4> QED
        BY <4>2, <4>3
    <3>8. left \in Todos(on, C, Here)
      BY <1>2, <2>1, <3>7, ConcatProperties DEF Todos
    <3>9. \A m : Reaches(C, t, m) => m = n
      BY <1>1, <1>2 DEF Reaches
    <3>10. Covered(h, Here, Gone)
      BY <1>1 DEF CoverInv
    <3>11. Covered(k, Here, gone)
      <4>1. /\ left = new \o Tail(h.todo) /\ left \in Todos(h.on, h.covers, Here)
            /\ Head(h.todo) = t /\ h.on = on /\ h.covers = C /\ h.to = to
        BY <1>1, <1>2, <2>1, <3>8
      <4>2. PICK old : old = Gone
        OBVIOUS
      <4>3. h.to = "deleted" =>
              \A m \in h.covers : Under(m, h.on) /\ Reaches(h.covers, Head(h.todo), m) =>
                \/ m \in gone \/ Excused(h.on, h.covers, here, m)
                \/ \E u \in ToSet(new) : Reaches(h.covers, u, m)
        BY <2>8, <3>9, <4>1
      <4>4. /\ h \in RequestRows /\ h.at = "busy" /\ h.todo # <<>> /\ Covered(h, here, old)
            /\ old \subseteq gone /\ left \in Todos(h.on, h.covers, here)
        BY <1>2, <2>7, <2>8, <3>10, <4>1, <4>2
      <4>5. /\ at = IF left = <<>> THEN "done" ELSE "busy"
            /\ k = [h EXCEPT !.todo = left, !.at = at] /\ left = new \o Tail(h.todo)
            /\ new \in Seq(TodoRows)
        BY <2>1, <3>3, <3>7, <4>1
      <4>6. Covered(k, here, gone)
        BY <4>3, <4>4, <4>5, ContinueCovers
      <4> QED
        BY <2>7, <4>6
    <3> QED
      BY <2>2, <2>5, <2>7, <2>8, <3>11, CoverSteps DEF CoverInv
  <2> QED
    BY <2>9, <2>10
<1> QED
  BY <1>4, <1>5

LEMMA RegisterCovers ==
  ASSUME HierarchyInv, CoverInv, NEW n \in Nodes, RegisterNode(n)
  PROVE  CoverInv'
<1>1. PICK here, gone : here = Here' /\ gone = Gone'
  OBVIOUS
<1>2. PICK q \in Parents : \E j \in Kids(q) : n = Append(q, j)
  BY NodeFacts
<1>3. PICK j \in Kids(q) : n = Append(q, j)
  BY <1>2
<1>4. Front(n) = q /\ Last(n) = j /\ j \in Nat \ {0}
  BY <1>3, ChildFacts, NodeFacts
<1>5. /\ node' = [node EXCEPT ![n] = [status |-> "active", version |-> 1]]
      /\ node[n].status = "absent" /\ Exists(q) /\ \A i \in 1..(j - 1) : Exists(Append(q, i))
      /\ hreq' = hreq
  BY <1>4, NodeFacts DEF RegisterNode, Exists
<1>6. node \in [Nodes -> NodeRows]
  BY DEF HierarchyInv, HierarchyTyped
<1>7. here = Here \cup {n}
  <2>1. here = {m \in Nodes : node'[m].status # "absent"}
    BY <1>1, NodeFacts, SMTT(30) DEF Here, Exists
  <2>2. Here = {m \in Nodes : node[m].status # "absent"}
    BY NodeFacts, SMTT(30) DEF Here, Exists
  <2>3. node'[n].status = "active" /\ \A m \in Nodes : m # n => node'[m] = node[m]
    BY <1>5, <1>6
  <2> QED
    BY <2>1, <2>2, <2>3
<1>8. Gone \subseteq gone
  <2>1. \A m \in Nodes : m # n => node'[m] = node[m]
    BY <1>5, <1>6
  <2> QED
    BY <1>1, <1>5, <2>1 DEF Gone
<1>9. Closed(here)
  <2> SUFFICES ASSUME NEW p \in Parents, NEW k \in Kids(p), Append(p, k) \in here
               PROVE  p \in here \cup {Tenant} /\ \A i \in 1..k : Append(p, i) \in here
    BY DEF Closed
  <2>1. CASE Append(p, k) \in Here
    BY <1>7, <2>1 DEF CoverInv, Closed
  <2>2. CASE Append(p, k) = n
    <3>1. p = q /\ k = j
      BY <1>3, <2>2, ChildFacts
    <3>2. p \in Here \cup {Tenant}
      BY <1>5, <3>1, NodeFacts DEF Here
    <3>3. ASSUME NEW i \in 1..k, i # k PROVE Append(p, i) \in Here
      <4>1. i \in 1..(j - 1) /\ i \in Kids(q)
        BY <1>4, <3>1, <3>3, HierarchyAssumption DEF Kids
      <4> QED
        BY <1>5, <3>1, <4>1, NodeFacts DEF Here
    <3> QED
      BY <1>7, <2>2, <3>2, <3>3
  <2> QED
    BY <1>7, <2>1, <2>2
<1>10. \A r \in HierarchyRequests : Covered(hreq[r], here, gone)
  BY <1>7, <1>8, CoveredGrows DEF CoverInv
<1> QED
  BY <1>1, <1>5, <1>9, <1>10 DEF CoverInv

LEMMA AskCovers ==
  ASSUME HierarchyInv, CoverInv, NEW r \in HierarchyRequests, NEW n \in Nodes \cup {Tenant}, NEW to \in Targets,
         AskTransition(r, n, to)
  PROVE  CoverInv'
<1>1. PICK t : t = IF n = Tenant THEN Todo("read", n, 0) ELSE Todo("get", n, node[n].version)
  OBVIOUS
<1>2. PICK k : k = [at |-> "busy", on |-> n, to |-> to, covers |-> {}, todo |-> <<t>>]
  OBVIOUS
<1>3. hreq' = [hreq EXCEPT ![r] = k] /\ node' = node
  BY <1>1, <1>2 DEF AskTransition
<1>4. k.at = "busy" /\ k.on = n /\ k.covers = {} /\ k.todo = <<t>>
  BY <1>2
<1>5. t \in OwnRows(n)
  <2>1. CASE n = Tenant
    BY <1>1, <2>1 DEF Todo, OwnRows, TodoRows
  <2>2. CASE n # Tenant
    <3>1. n \in Nodes /\ node[n].version \in Nat
      BY <2>2 DEF HierarchyInv, HierarchyTyped, NodeRows
    <3> QED
      BY <1>1, <2>2, <3>1 DEF Todo, OwnRows, TodoRows
  <2> QED
    BY <2>1, <2>2
<1>6. <<t>> \in Todos(n, {}, Here)
  BY <1>5 DEF Todos
<1>7. Closed({})
  BY DEF Closed
<1>8. Covered(k, Here, Gone)
  BY <1>4, <1>6, <1>7 DEF Covered
<1> QED
  BY <1>3, <1>8, CoverSteps, NodesStay DEF CoverInv

LEMMA ReadCovers ==
  ASSUME HierarchyInv, CoverInv, NEW r \in HierarchyRequests, ReadTenant(r)
  PROVE  CoverInv'
<1>1. /\ Next1(r) \in OwnRows(hreq[r].on) /\ Tail(hreq[r].todo) = <<>> /\ Next1(r).do = "read"
      /\ Does(r, "read") /\ node' = node
  <2>1. Does(r, "read") /\ node' = node
    BY DEF ReadTenant
  <2>2. \A on, C : Next1(r) \in CascadeRows(on, C, Here) => Next1(r).do # "read"
    BY DEF CascadeRows
  <2> QED
    BY <2>1, <2>2, NextIs
<1>2. hreq[r].on = Tenant
  BY <1>1 DEF OwnRows
<1>3. PICK u : u = Todo("save", Tenant, 0)
  OBVIOUS
<1>4. u \in TodoRows /\ u.do = "save" /\ u.on = Tenant
  BY <1>3 DEF Todo, TodoRows
<1>5. u \in OwnRows(hreq[r].on)
  BY <1>2, <1>4 DEF OwnRows
<1>6. <<u>> \in Seq(TodoRows)
  BY <1>4
<1>7. <<u>> \o Tail(hreq[r].todo) \in Todos(hreq[r].on, hreq[r].covers, Here)
  <2>1. <<u>> \o Tail(hreq[r].todo) = <<u>>
    BY <1>1, <1>6, ConcatEmptySeq
  <2> QED
    BY <1>5, <2>1 DEF Todos
<1>8. \A C, n : ~Reaches(C, Next1(r), n)
  BY <1>1 DEF Reaches
<1>9. CASE Continue(r, <<u>>)
  BY <1>1, <1>6, <1>7, <1>8, <1>9, ContinueCoverInv
<1>10. CASE End(r, "refused")
  BY <1>1, <1>10, EndCovers
<1> QED
  BY <1>3, <1>9, <1>10 DEF ReadTenant

LEMMA CoverStep ==
  ASSUME HierarchyInv, CoverInv, [HierarchyNext]_hierarchyVars
  PROVE  CoverInv'
<1>1. CASE UNCHANGED hierarchyVars
  BY <1>1, NodesStay DEF hierarchyVars, CoverInv
<1>2. ASSUME NEW r \in HierarchyRequests, RequestDies(r) PROVE CoverInv'
  BY <1>2, EndCovers DEF RequestDies
<1>3. \A to : to \in {"active", "suspended", "deleted"} => to \in Targets
  BY DEF Targets
<1> QED
  BY <1>1, <1>2, <1>3, RegisterCovers, AskCovers, ReadCovers, SaveCovers, GetCovers, SwapCovers,
     CountCovers, ListCovers DEF HierarchyNext

LEMMA CoverInitially == HierarchyInit => CoverInv
<1> SUFFICES ASSUME HierarchyInit PROVE CoverInv
  OBVIOUS
<1>1. Here = {}
  <2>1. \A n \in Nodes : node[n].status = "absent"
    BY DEF HierarchyInit
  <2> QED
    BY <2>1, NodeFacts DEF Here, Exists
<1>2. Closed({})
  BY DEF Closed
<1>3. ASSUME NEW r \in HierarchyRequests
      PROVE  hreq[r].at = "idle" /\ hreq[r].covers = {} /\ hreq[r].todo = <<>>
  BY DEF HierarchyInit
<1>4. \A on : <<>> \in Todos(on, {}, Here)
  BY DEF Todos
<1> QED
  BY <1>1, <1>2, <1>3, <1>4 DEF CoverInv, Covered

(* DeletionReachesAll for any tree, any page size, and any requests that    *)
(* register, race or die: what a request covers is deleted, shifted by a   *)
(* registration, or named by what the request has still to do.             *)
THEOREM DeletionReachesAllHolds == HierarchySpec => []DeletionReachesAll
<1>1. HierarchyInit => HierarchyInv /\ CoverInv
  BY HierarchyInitially, CoverInitially
<1>2. HierarchyInv /\ CoverInv /\ [HierarchyNext]_hierarchyVars => HierarchyInv' /\ CoverInv'
  BY HierarchyStep, CoverStep
<1>3. CoverInv => DeletionReachesAll
  <2> SUFFICES ASSUME CoverInv, NEW r \in HierarchyRequests, hreq[r].at = "done", hreq[r].to = "deleted",
                      NEW n \in hreq[r].covers, Under(n, hreq[r].on)
               PROVE  node[n].status = "deleted" \/ PagesShifted(r, n)
    BY DEF DeletionReachesAll
  <2>1. Covered(hreq[r], Here, Gone) /\ hreq[r].todo = <<>>
    BY DEF CoverInv, Covered
  <2>2. ToSet(hreq[r].todo) = {}
    BY <2>1 DEF ToSet
  <2>3. n \in Gone \/ Excused(hreq[r].on, hreq[r].covers, Here, n)
    BY <2>1, <2>2 DEF Covered
  <2> QED
    BY <2>3 DEF Gone, Excused, PagesShifted, Here
<1> QED
  BY <1>1, <1>2, <1>3, PTL DEF HierarchySpec

=============================================================================
