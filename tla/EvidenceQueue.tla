--------------------------- MODULE EvidenceQueue ---------------------------
(***************************************************************************)
(* Regulatory and Compliance: the evidence_packs table as a job queue and  *)
(* the workers, one in each replica, that generate the packs               *)
(* (core/evidence_worker.py, core/evidence_generator.py).                  *)
(*                                                                         *)
(* Unlike the outbox of the Workflow Engine, a worker saves the outcome of *)
(* a pack whoever has claimed it since, a failed attempt is first saved as *)
(* failed and then requeued, and a starting replica ends the leases of all *)
(* the others.                                                             *)
(*                                                                         *)
(* Packs are numbered by created_at.  Abstracted: the document, coverage,  *)
(* error texts, the wait between polls of an empty queue.                  *)
(***************************************************************************)
EXTENDS Naturals, FiniteSets

CONSTANTS
    Packs,              \* the packs that may be asked for: 1..n
    PackWorkers,        \* replicas
    PackMaxAttempts,    \* worker_max_attempts
    MaxPackFaults,      \* bound: crashes and database errors
    MaxClaims           \* bound: claims of one pack

ASSUME PacksAreNumbered == Packs \subseteq Nat \ {0}

VARIABLES
    pack,               \* the evidence_packs rows
    packWorker,         \* the workers: where they are, and on which pack
    packFaults,         \* crashes and database errors so far
    overrun             \* history: packs whose lease has ended under a worker

evidenceVars == <<pack, packWorker, packFaults, overrun>>

NoPack == 0
PackSettled(p) == pack[p].status \in {"completed", "failed"}
WorkedOn(p) == {w \in PackWorkers : packWorker[w].on = p}

EvidenceInit ==
    /\ pack = [p \in Packs |-> [status |-> "absent", lease |-> "none", attempts |-> 0]]
    /\ packWorker = [w \in PackWorkers |-> [at |-> "down", on |-> NoPack]]
    /\ packFaults = 0
    /\ overrun = {}

Works(w, from, to, p) ==
    /\ packWorker[w].at = from
    /\ packWorker' = [packWorker EXCEPT ![w] = [at |-> to, on |-> p]]

(* POST /evidence-packs: the row is the queue's entry. *)
QueuePack(p) ==
    /\ pack[p].status = "absent"
    /\ pack' = [pack EXCEPT ![p].status = "generating"]
    /\ UNCHANGED <<packWorker, packFaults, overrun>>

(* Leases that end: those of the packs in ended. *)
LeasesEnd(ended) ==
    /\ pack' = [p \in Packs |-> IF p \in ended THEN [pack[p] EXCEPT !.lease = "over"]
                                ELSE pack[p]]
    /\ overrun' = overrun \cup {p \in ended : WorkedOn(p) # {}}

(* recover_stuck_packs, on start: every lease held is ended. *)
RecoverStuckPacks(w) ==
    /\ Works(w, "down", "poll", NoPack)
    /\ LeasesEnd({p \in Packs : pack[p].status = "generating" /\ pack[p].lease = "live"})
    /\ UNCHANGED packFaults

PackLeaseEnds(p) ==
    /\ pack[p].lease = "live"
    /\ LeasesEnd({p})
    /\ UNCHANGED <<packWorker, packFaults>>

(* fail_exhausted_evidence_packs, whoever works on them. *)
FailExhaustedPacks(w) ==
    /\ Works(w, "poll", "claim", NoPack)
    /\ pack' = [p \in Packs |->
         IF pack[p].status = "generating" /\ pack[p].attempts >= PackMaxAttempts
         THEN [pack[p] EXCEPT !.status = "failed"] ELSE pack[p]]
    /\ UNCHANGED <<packFaults, overrun>>

(* Bug: only a pack that was never claimed, or requeued, is found. *)
PackClaimableIfUnleased(p) == pack[p].status = "generating" /\ pack[p].lease = "none"

(* Bug: the lease is not looked at. *)
PackClaimableAnyway(p) == pack[p].status = "generating"

PackClaimable(p) == pack[p].status = "generating" /\ pack[p].lease # "live"

(* claim_next_evidence_pack: the oldest. *)
ClaimPack(w, p) ==
    /\ PackClaimable(p) /\ pack[p].attempts < MaxClaims
    /\ \A q \in Packs : PackClaimable(q) => p <= q
    /\ Works(w, "claim", "generate", p)
    /\ pack' = [pack EXCEPT ![p].lease = "live", ![p].attempts = @ + 1]
    /\ UNCHANGED <<packFaults, overrun>>

NoPackToClaim(w) ==
    /\ \A p \in Packs : ~PackClaimable(p)
    /\ Works(w, "claim", "poll", NoPack)
    /\ UNCHANGED <<pack, packFaults, overrun>>

(* Bug: an attempt that failed stays failed. *)
SavePackUnretried(w, status) ==
    /\ Works(w, "generate", "poll", NoPack)
    /\ pack' = [pack EXCEPT ![packWorker[w].on].status = status]
    /\ UNCHANGED <<packFaults, overrun>>

(* generate, to update_evidence_pack: the outcome is saved over whatever   *)
(* the row says.                                                           *)
SavePack(w, status) ==
    /\ IF status = "completed" THEN Works(w, "generate", "poll", NoPack)
       ELSE Works(w, "generate", "requeue", packWorker[w].on)
    /\ pack' = [pack EXCEPT ![packWorker[w].on].status = status]
    /\ UNCHANGED <<packFaults, overrun>>

(* requeue_evidence_pack_for_retry: a second commit. *)
RequeuePack(w) ==
    /\ Works(w, "requeue", "poll", NoPack)
    /\ pack' = [pack EXCEPT ![packWorker[w].on].status = "generating",
                            ![packWorker[w].on].lease = "none"]
    /\ UNCHANGED <<packFaults, overrun>>

PackFault ==
    /\ packFaults < MaxPackFaults
    /\ packFaults' = packFaults + 1
    /\ UNCHANGED <<pack, overrun>>

(* A database error ends the poll; the loop starts another. *)
PackErrs(w) ==
    /\ \E from \in {"poll", "claim", "generate", "requeue"} : Works(w, from, "poll", NoPack)
    /\ PackFault

PackWorkerDies(w) ==
    /\ \E from \in {"poll", "claim", "generate", "requeue"} : Works(w, from, "down", NoPack)
    /\ PackFault

PackWorkerStep(w) ==
    \/ RecoverStuckPacks(w) \/ FailExhaustedPacks(w) \/ NoPackToClaim(w)
    \/ \E p \in Packs : ClaimPack(w, p)
    \/ \E status \in {"completed", "failed"} : SavePack(w, status)
    \/ RequeuePack(w)

EvidenceNext ==
    \/ \E p \in Packs : QueuePack(p) \/ PackLeaseEnds(p)
    \/ \E w \in PackWorkers : PackWorkerStep(w) \/ PackErrs(w) \/ PackWorkerDies(w)

(* A replica is started again when it is down, its loop runs, time passes. *)
EvidenceFairness ==
    /\ \A w \in PackWorkers : WF_evidenceVars(PackWorkerStep(w))
    /\ \A p \in Packs : WF_evidenceVars(PackLeaseEnds(p))

EvidenceSpec == EvidenceInit /\ [][EvidenceNext]_evidenceVars /\ EvidenceFairness

-----------------------------------------------------------------------------
(* Properties.                                                             *)

(* As long as its lease has not ended under a worker, a pack is worked on  *)
(* by one worker at a time, and once completed it stays so: a lease is     *)
(* all that keeps two workers apart (core/evidence_worker.py:9-16).        *)
LeaseKeepsApart ==
    [][\A p \in Packs \ overrun' :
         /\ Cardinality(WorkedOn(p)') <= 1
         /\ pack[p].status = "completed" => pack'[p].status = "completed"]_evidenceVars

(* A pack that is failed, and not about to be requeued, has used all its   *)
(* attempts (core/evidence_worker.py:17-19), unless a crash or an error    *)
(* has come between a failed attempt and its requeue.                      *)
PackFailureIsEarned ==
    packFaults = 0 =>
      \A p \in Packs : pack[p].status = "failed" =>
        pack[p].attempts >= PackMaxAttempts \/ \E w \in WorkedOn(p) : packWorker[w].at = "requeue"

(* Whatever crashes, errors, overruns: every pack asked for is at last     *)
(* completed or failed for good, unless two workers go on handing it to    *)
(* each other, each requeueing its failed attempt when the other is past   *)
(* fail_exhausted: such a pack gets to any number of claims.               *)
EveryPackSettles ==
    \A p \in Packs :
      pack[p].status = "generating" ~> [](PackSettled(p) \/ pack[p].attempts = MaxClaims)

=============================================================================
