------------------------- MODULE ResourceAllocation -------------------------
(***************************************************************************)
(* Multi-tenancy: the resource allocations of one environment, requested,  *)
(* approved by policy or by a reviewer, or rejected                        *)
(* (core/resource_allocation_service.py).                                  *)
(*                                                                         *)
(* A request reads the active allocation and compares what it asks for     *)
(* with that; a second commit creates it, active or waiting.  A reviewer's *)
(* decision checks the status on a copy and is saved by compare-and-swap   *)
(* on the version the reviewer has seen.                                   *)
(*                                                                         *)
(* Abstracted: one resource class; audit events; who asks and decides.     *)
(***************************************************************************)
EXTENDS Naturals, Sequences, SequencesExt

CONSTANTS
    Allocations,    \* allocations that may be requested
    Reviews,        \* approve and reject calls
    Capacities,     \* what may be asked for
    AutoPercent     \* auto_approve_increase_ratio, in percent

VARIABLES
    allocation,     \* the rows
    activations,    \* the active ones, by updated_at
    review          \* the reviewers' calls

allocationVars == <<allocation, activations, review>>

AllocationInit ==
    /\ allocation = [a \in Allocations |->
         [status |-> "absent", capacity |-> 0, by |-> "none", version |-> 0]]
    /\ activations = <<>>
    /\ review = [r \in Reviews |->
         [at |-> "idle", on |-> "none", verdict |-> "active", expected |-> 0]]

(* Bug: nothing to compare with is nothing to exceed. *)
WithinThresholdOfNothing(capacity) ==
    activations = <<>>
    \/ LET current == allocation[Last(activations)].capacity IN
       (capacity - current) * 100 <= AutoPercent * current

(* _within_auto_approve_threshold, of the allocation that became active last. *)
WithinThreshold(capacity) ==
    /\ activations # <<>>
    /\ LET current == allocation[Last(activations)].capacity IN
       (capacity - current) * 100 <= AutoPercent * current

(* request_change: the comparison ... *)
RequestChange(a, capacity) ==
    /\ allocation[a].status = "absent"
    /\ allocation' = [allocation EXCEPT ![a] =
         [status |-> IF WithinThreshold(capacity) THEN "approved" ELSE "compared",
          capacity |-> capacity, by |-> "none", version |-> 0]]
    /\ UNCHANGED <<activations, review>>

(* ... and the row. *)
CreateAllocation(a) ==
    /\ allocation[a].status \in {"approved", "compared"}
    /\ allocation' = [allocation EXCEPT ![a].version = 1,
         ![a].status = IF @ = "approved" THEN "active" ELSE "requested",
         ![a].by = IF allocation[a].status = "approved" THEN "policy" ELSE "none"]
    /\ activations' = IF allocation[a].status = "approved" THEN Append(activations, a)
                      ELSE activations
    /\ UNCHANGED review

(* A reviewer who has seen the allocation decides. *)
AskReview(r, a, verdict) ==
    /\ review[r].at = "idle" /\ allocation[a].version > 0
    /\ review' = [review EXCEPT ![r] =
         [at |-> "read", on |-> a, verdict |-> verdict, expected |-> allocation[a].version]]
    /\ UNCHANGED <<allocation, activations>>

(* approve, reject: the status is checked on a copy, ... *)
ReadForReview(r) ==
    /\ review[r].at = "read"
    /\ review' = [review EXCEPT ![r].at =
         IF allocation[review[r].on].status = "requested" THEN "swap" ELSE "refused"]
    /\ UNCHANGED <<allocation, activations>>

(* Bug: the update does not compare the version. *)
SwapReviewBlindly(r) ==
    /\ review[r].at = "swap"
    /\ LET a == review[r].on IN
       /\ allocation' = [allocation EXCEPT ![a].version = @ + 1, ![a].status = review[r].verdict,
                           ![a].by = IF review[r].verdict = "active" THEN "reviewer" ELSE @]
       /\ activations' = IF review[r].verdict = "active" THEN Append(activations, a)
                         ELSE activations
       /\ review' = [review EXCEPT ![r].at = "done"]

(* ... and update_resource_allocation compares the version. *)
SwapReview(r) ==
    /\ review[r].at = "swap"
    /\ LET a == review[r].on IN
       IF allocation[a].version = review[r].expected
       THEN /\ allocation' = [allocation EXCEPT
                 ![a].version = @ + 1, ![a].status = review[r].verdict,
                 ![a].by = IF review[r].verdict = "active" THEN "reviewer" ELSE @]
            /\ activations' = IF review[r].verdict = "active" THEN Append(activations, a)
                              ELSE activations
            /\ review' = [review EXCEPT ![r].at = "done"]
       ELSE /\ review' = [review EXCEPT ![r].at = "conflict"]
            /\ UNCHANGED <<allocation, activations>>

AllocationNext ==
    \/ \E a \in Allocations :
         \/ \E capacity \in Capacities : RequestChange(a, capacity)
         \/ CreateAllocation(a)
         \/ \E r \in Reviews, verdict \in {"active", "rejected"} : AskReview(r, a, verdict)
    \/ \E r \in Reviews : ReadForReview(r) \/ SwapReview(r)

AllocationSpec == AllocationInit /\ [][AllocationNext]_allocationVars

-----------------------------------------------------------------------------
(* Properties.                                                             *)

(* Of two reviewers who decide at once one is told of a conflict, and the  *)
(* other's decision is what is stored                                      *)
(* (core/resource_allocation_service.py:106-112).                          *)
AllocationDecidedOnce ==
    \A a \in Allocations :
      LET decided == {r \in Reviews : review[r].at = "done" /\ review[r].on = a} IN
      \A r \in decided : decided = {r} /\ allocation[a].status = review[r].verdict

(* The policy approves nothing in an environment for which no reviewer     *)
(* ever has (core/resource_allocation_service.py:67-73), however requests  *)
(* and decisions interleave.                                               *)
PolicyFollowsReviewer ==
    activations # <<>> => allocation[Head(activations)].by = "reviewer"

=============================================================================
