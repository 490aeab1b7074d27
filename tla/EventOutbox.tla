---------------------------- MODULE EventOutbox ----------------------------
(***************************************************************************)
(* The Workflow Engine's transactional outbox and the relay workers that   *)
(* drain it: update_instance_and_enqueue_event and the *_outbox_* queries  *)
(* of db/repository.py, core/outbox_worker.py, and the start-up of main.py.*)
(*                                                                         *)
(* Every query is one transaction at READ COMMITTED, so it is one action.  *)
(* Between two queries of a worker every other worker may run; a worker    *)
(* may lose its database connection or its process at any of those points. *)
(* Time appears only as what a lease compares to: "live" (in the future),  *)
(* "expired" (in the past) or "none" (NULL).  worker_id and last_error are *)
(* never read by the code and are left out.  The scheduler is reduced to   *)
(* one run per instance; WorkflowScheduler has the runs and their races.   *)
(*                                                                         *)
(* A definition whose comment begins with "Bug:" is not part of the model: *)
(* it is a mistake the properties below are shown to catch.                *)
(***************************************************************************)
EXTENDS Naturals, FiniteSets

CONSTANTS
    Instances,       \* workflow instances
    Workers,         \* relay workers, one per Workflow Engine process
    NoEvent,         \* what a worker holds between two claims
    MaxAttempts,     \* outbox_worker_max_attempts
    MaxFaults        \* bound: crashes, database errors, outages, failed sends

ASSUME InstancesFinite == IsFiniteSet(Instances)
ASSUME WorkersFinite == IsFiniteSet(Workers) /\ Workers # {}
ASSUME MaxAttemptsPositive == MaxAttempts \in Nat \ {0}
ASSUME MaxFaultsNatural == MaxFaults \in Nat
ASSUME NoEventIsNone == NoEvent \notin Instances \X {"started", "completed", "failed"}

(* An event is named by the instance it is about and the kind of envelope. *)
Events == Instances \X {"started", "completed", "failed"}

VARIABLES
    instance,    \* each instance row's status
    status,      \* event_outbox.status, "absent" while there is no row
    attempts,    \* event_outbox.attempts
    lease,       \* event_outbox.lease_expires_at, against the current time
    created,     \* event_outbox.created_at, as a rank (0: no row)
    phase,       \* where each worker is in poll_once
    claimed,     \* the event each worker is handling
    producer,    \* whether the worker's process has a started Kafka producer
    broker,      \* whether the Kafka broker can be reached
    delivered,   \* how often the broker has accepted each event
    faults       \* faults that have happened

rows == <<status, attempts, lease, created>>
workers == <<phase, claimed, producer>>
environment == <<broker, delivered, faults>>
vars == <<instance, rows, workers, environment>>

Phases == {"down", "poll", "claim", "publish", "mark", "requeue"}
Holding == {"publish", "mark", "requeue"}

TypeOK ==
    /\ instance \in [Instances -> {"absent", "created", "running", "completed", "failed"}]
    /\ status \in [Events -> {"absent", "pending", "published", "failed"}]
    /\ attempts \in [Events -> Nat]
    /\ lease \in [Events -> {"none", "live", "expired"}]
    /\ created \in [Events -> Nat]
    /\ phase \in [Workers -> Phases]
    /\ claimed \in [Workers -> Events \cup {NoEvent}]
    /\ producer \in [Workers -> {"none", "started"}]
    /\ broker \in {"up", "down"}
    /\ delivered \in [Events -> Nat]
    /\ faults \in Nat

Init ==
    /\ instance = [i \in Instances |-> "absent"]
    /\ status = [e \in Events |-> "absent"]
    /\ attempts = [e \in Events |-> 0]
    /\ lease = [e \in Events |-> "none"]
    /\ created = [e \in Events |-> 0]
    /\ phase = [w \in Workers |-> "down"]
    /\ claimed = [w \in Workers |-> NoEvent]
    /\ producer = [w \in Workers |-> "none"]
    /\ broker \in {"up", "down"}
    /\ delivered = [e \in Events |-> 0]
    /\ faults = 0

-----------------------------------------------------------------------------
(* The scheduler's side: instance rows and the events they enqueue.        *)

(* Bug: a row whose lease has run out is not taken up again. *)
ClaimableIfUnleased(e) == status[e] = "pending" /\ lease[e] = "none"

(* A row that waits for delivery and that no worker's lease protects. *)
Claimable(e) == status[e] = "pending" /\ lease[e] # "live"

(* The rank of the next row: every row so far is older. *)
NextRank == Cardinality({e \in Events : status[e] # "absent"}) + 1

(* update_instance_and_enqueue_event: the new row of event_outbox. *)
EnqueueEvent(e) ==
    /\ status' = [status EXCEPT ![e] = "pending"]
    /\ created' = [created EXCEPT ![e] = NextRank]
    /\ UNCHANGED <<attempts, lease>>

(* create_instance: its own commit, with no event. *)
CreateInstance(i) ==
    /\ instance[i] = "absent"
    /\ instance' = [instance EXCEPT ![i] = "created"]
    /\ UNCHANGED <<rows, workers, environment>>

(* ExecutionScheduler.start: the instance runs and workflow.started is     *)
(* queued, in one commit.                                                  *)
StartInstance(i) ==
    /\ instance[i] = "created"
    /\ instance' = [instance EXCEPT ![i] = "running"]
    /\ EnqueueEvent(<<i, "started">>)
    /\ UNCHANGED <<workers, environment>>

(* Bug: the final status is committed without its event. *)
FinishWithoutEvent(i, outcome) ==
    /\ instance[i] = "running"
    /\ instance' = [instance EXCEPT ![i] = outcome]
    /\ UNCHANGED <<rows, workers, environment>>

(* The end of _run, or _fail: the final status and its event, in one commit. *)
FinishInstance(i, outcome) ==
    /\ instance[i] = "running"
    /\ instance' = [instance EXCEPT ![i] = outcome]
    /\ EnqueueEvent(<<i, outcome>>)
    /\ UNCHANGED <<workers, environment>>

-----------------------------------------------------------------------------
(* The relay worker.                                                       *)

Moves(w, from, to) == phase[w] = from /\ phase' = [phase EXCEPT ![w] = to]

Lets(w, e) == claimed' = [claimed EXCEPT ![w] = e]

(* lifespan: the producer starts only if the broker answers now, and is    *)
(* not started again later; recover_stuck_events then expires every live   *)
(* lease, whoever holds it.                                                *)
Boot(w) ==
    /\ Moves(w, "down", "poll")
    /\ producer' = [producer EXCEPT ![w] = IF broker = "up" THEN "started" ELSE "none"]
    /\ lease' = [e \in Events |->
                   IF status[e] = "pending" /\ lease[e] = "live" THEN "expired" ELSE lease[e]]
    /\ UNCHANGED <<instance, status, attempts, created, claimed, environment>>

(* Bug: one attempt too many, ">" for ">=". *)
FailExhaustedLate(w) ==
    /\ Moves(w, "poll", "claim")
    /\ status' = [e \in Events |->
                    IF status[e] = "pending" /\ attempts[e] > MaxAttempts
                    THEN "failed" ELSE status[e]]
    /\ UNCHANGED <<instance, attempts, lease, created, claimed, producer, environment>>

(* fail_exhausted_outbox_events: every pending row that has used up its    *)
(* attempts, whether or not a worker holds a lease on it.                  *)
FailExhausted(w) ==
    /\ Moves(w, "poll", "claim")
    /\ status' = [e \in Events |->
                    IF status[e] = "pending" /\ attempts[e] >= MaxAttempts
                    THEN "failed" ELSE status[e]]
    /\ UNCHANGED <<instance, attempts, lease, created, claimed, producer, environment>>

(* Bug: the claim does not count as an attempt. *)
ClaimUncounted(w) ==
    /\ Moves(w, "claim", "publish")
    /\ \E e \in Events : Claimable(e) /\ Lets(w, e) /\ lease' = [lease EXCEPT ![e] = "live"]
    /\ UNCHANGED <<instance, status, attempts, created, producer, environment>>

(* claim_next_outbox_event: the oldest claimable row. *)
Claim(w) ==
    /\ Moves(w, "claim", "publish")
    /\ \E e \in Events :
         /\ Claimable(e)
         /\ \A f \in Events : Claimable(f) => created[e] <= created[f]
         /\ Lets(w, e)
         /\ attempts' = [attempts EXCEPT ![e] = @ + 1]
         /\ lease' = [lease EXCEPT ![e] = "live"]
    /\ UNCHANGED <<instance, status, created, producer, environment>>

(* claim_next_outbox_event finds nothing; the worker sleeps and polls again. *)
NothingToClaim(w) ==
    /\ Moves(w, "claim", "poll")
    /\ \A e \in Events : ~Claimable(e)
    /\ UNCHANGED <<instance, rows, claimed, producer, environment>>

(* publish has a started producer and a broker to send to. *)
CanPublish(w) == producer[w] = "started" /\ broker = "up"

(* publish returns: the broker has acknowledged the event. *)
PublishSucceeds(w) ==
    /\ Moves(w, "publish", "mark")
    /\ CanPublish(w)
    /\ delivered' = [delivered EXCEPT ![claimed[w]] = @ + 1]
    /\ UNCHANGED <<instance, rows, claimed, producer, broker, faults>>

(* Bug: a failed publish is taken for a successful one. *)
PublishFailsSilently(w) ==
    /\ Moves(w, "publish", "mark")
    /\ ~CanPublish(w)
    /\ UNCHANGED <<instance, rows, claimed, producer, environment>>

(* publish raises, because there is no producer or no broker, or because   *)
(* a send that could work is refused.                                      *)
PublishFails(w) ==
    /\ Moves(w, "publish", "requeue")
    /\ IF CanPublish(w)
       THEN faults < MaxFaults /\ faults' = faults + 1
       ELSE UNCHANGED faults
    /\ UNCHANGED <<instance, rows, claimed, producer, broker, delivered>>

(* publish raises although the broker took the event: the answer was lost. *)
PublishUnanswered(w) ==
    /\ Moves(w, "publish", "requeue")
    /\ CanPublish(w)
    /\ faults < MaxFaults
    /\ faults' = faults + 1
    /\ delivered' = [delivered EXCEPT ![claimed[w]] = @ + 1]
    /\ UNCHANGED <<instance, rows, claimed, producer, broker>>

(* mark_outbox_event_published: whatever the row's status or lease is now. *)
MarkPublished(w) ==
    /\ Moves(w, "mark", "poll")
    /\ status' = [status EXCEPT ![claimed[w]] = "published"]
    /\ lease' = [lease EXCEPT ![claimed[w]] = "none"]
    /\ Lets(w, NoEvent)
    /\ UNCHANGED <<instance, attempts, created, producer, environment>>

(* Bug: the row is reopened, whatever has become of it. *)
RequeueReopens(w) ==
    /\ Moves(w, "requeue", "poll")
    /\ status' = [status EXCEPT ![claimed[w]] = "pending"]
    /\ lease' = [lease EXCEPT ![claimed[w]] = "none"]
    /\ Lets(w, NoEvent)
    /\ UNCHANGED <<instance, attempts, created, producer, environment>>

(* requeue_outbox_event_for_retry: clears the lease, whoever holds it. *)
Requeue(w) ==
    /\ Moves(w, "requeue", "poll")
    /\ lease' = [lease EXCEPT ![claimed[w]] = "none"]
    /\ Lets(w, NoEvent)
    /\ UNCHANGED <<instance, status, attempts, created, producer, environment>>

-----------------------------------------------------------------------------
(* Faults and time.                                                        *)

Fault == faults < MaxFaults /\ faults' = faults + 1

(* A query fails: poll_once handles an error of mark_outbox_event_published *)
(* like one of publish, run_forever logs every other one and polls again.   *)
QueryFails(w) ==
    /\ Fault
    /\ \/ Moves(w, "mark", "requeue") /\ UNCHANGED claimed
       \/ \E from \in {"poll", "claim", "requeue"} : Moves(w, from, "poll") /\ Lets(w, NoEvent)
    /\ UNCHANGED <<instance, rows, producer, broker, delivered>>

(* The process dies; its leases stay in the table. *)
Crash(w) ==
    /\ Fault
    /\ phase[w] # "down"
    /\ phase' = [phase EXCEPT ![w] = "down"]
    /\ Lets(w, NoEvent)
    /\ producer' = [producer EXCEPT ![w] = "none"]
    /\ UNCHANGED <<instance, rows, broker, delivered>>

LeaseRunsOut(e) ==
    /\ lease[e] = "live"
    /\ lease' = [lease EXCEPT ![e] = "expired"]
    /\ UNCHANGED <<instance, status, attempts, created, workers, environment>>

BrokerGoesDown ==
    /\ Fault
    /\ broker = "up"
    /\ broker' = "down"
    /\ UNCHANGED <<instance, rows, workers, delivered>>

BrokerComesUp ==
    /\ broker = "down"
    /\ broker' = "up"
    /\ UNCHANGED <<instance, rows, workers, delivered, faults>>

-----------------------------------------------------------------------------
PollStep(w) ==
    \/ FailExhausted(w) \/ Claim(w) \/ NothingToClaim(w)
    \/ PublishSucceeds(w) \/ PublishFails(w)
    \/ MarkPublished(w) \/ Requeue(w)

Next ==
    \/ \E i \in Instances :
         \/ CreateInstance(i) \/ StartInstance(i)
         \/ \E outcome \in {"completed", "failed"} : FinishInstance(i, outcome)
    \/ \E w \in Workers :
         \/ Boot(w) \/ PollStep(w)
         \/ PublishUnanswered(w) \/ QueryFails(w) \/ Crash(w)
    \/ \E e \in Events : LeaseRunsOut(e)
    \/ BrokerGoesDown \/ BrokerComesUp

(* A process that is down is started again, a running worker keeps         *)
(* polling, and leases run out.  Nothing makes an instance start or end.   *)
Fairness ==
    /\ \A w \in Workers : WF_vars(Boot(w)) /\ WF_vars(PollStep(w))
    /\ \A e \in Events : WF_vars(LeaseRunsOut(e))
    /\ WF_vars(BrokerComesUp)

Safety == Init /\ [][Next]_vars

Spec == Safety /\ Fairness

-----------------------------------------------------------------------------
(* Properties.                                                             *)

(* The workers whose publish of event e is under way, and those that have  *)
(* passed fail_exhausted in this poll and are about to claim.              *)
Publishing(e) == {w \in Workers : phase[w] = "publish" /\ claimed[w] = e}

Claiming == {w \in Workers : phase[w] = "claim"}

(* The instance has made the transition that event e reports. *)
Reported(e) ==
    \/ instance[e[1]] = e[2]
    \/ e[2] = "started" /\ instance[e[1]] \in {"running", "completed", "failed"}

(* No dual-write window: an event's row exists exactly when the transition *)
(* it reports is committed, and only such an event ever reaches the broker *)
(* (EventOutboxRecord's docstring).                                        *)
NoDualWrite ==
    \A e \in Events :
      /\ status[e] # "absent" <=> Reported(e)
      /\ delivered[e] > 0 => status[e] # "absent"

(* At-least-once, and no more than once per claim: a row is published only *)
(* after the broker took it, and each delivery, like each worker still     *)
(* holding the event, has a claim of its own to account for it.            *)
DeliveriesHaveClaims ==
    \A e \in Events :
      /\ status[e] = "published" => delivered[e] > 0
      /\ delivered[e] + Cardinality(Publishing(e)) <= attempts[e]

(* The poison-pill bound the code really gives: each worker other than the *)
(* one that uses the last attempt may have passed fail_exhausted before    *)
(* and claim the event once more.                                          *)
RetriesBounded ==
    \A e \in Events : attempts[e] <= MaxAttempts + Cardinality(Workers) - 1

(* Why RetriesBounded holds: once a pending event has used its attempts,   *)
(* only workers already past fail_exhausted can still claim it, and each   *)
(* of them at most once.                                                   *)
LateClaimsBounded ==
    \A e \in Events :
      status[e] = "pending" /\ attempts[e] >= MaxAttempts =>
        attempts[e] + Cardinality(Claiming) <= MaxAttempts + Cardinality(Workers) - 1

(* What a worker holds is a row, one the broker has if it is to be marked, *)
(* and a row that is not there yet has never been claimed.                 *)
HeldRowsExist ==
    /\ \A w \in Workers :
         /\ phase[w] \in Holding => claimed[w] \in Events /\ status[claimed[w]] # "absent"
         /\ phase[w] = "mark" => delivered[claimed[w]] > 0
    /\ \A e \in Events : status[e] = "absent" => attempts[e] = 0

(* The inductive invariant of the safety proofs. *)
OutboxInv ==
    /\ TypeOK
    /\ HeldRowsExist
    /\ NoDualWrite
    /\ DeliveriesHaveClaims
    /\ RetriesBounded
    /\ LateClaimsBounded

(* An event is given up only after max_attempts claims.  From then on only *)
(* a worker that had the event published can still change its row, to      *)
(* published, never back to pending; and published is for good.            *)
StatusStep ==
    \A e \in Events :
      /\ status[e] = "pending" /\ status'[e] = "failed" => attempts[e] >= MaxAttempts
      /\ status[e] = "failed" /\ status'[e] # "failed" =>
           status'[e] = "published" /\ delivered[e] > 0
      /\ status[e] = "published" => status'[e] = "published"

GivingUpIsEarned == [][StatusStep]_vars

(* Every queued event is eventually published or given up. *)
EveryEventSettles ==
    \A e \in Events : status[e] = "pending" ~> status[e] \in {"published", "failed"}

(* The poison-pill guard as outbox_worker.py:19-22 words it: an event that *)
(* has failed max_attempts times is not tried again.                       *)
ExhaustedIsNotRetried == \A e \in Events : attempts[e] <= MaxAttempts

(* main.py:107-112: an unreachable broker only delays events, "a broker    *)
(* that comes back later drains the backlog".                              *)
BacklogDrains ==
    <>[](broker = "up") => \A e \in Events : status[e] = "pending" ~> delivered[e] > 0

-----------------------------------------------------------------------------
(* EventOutbox implements EventDelivery: the fate of an event is what the  *)
(* broker has seen of it and, before that, what its row says.              *)
Fate(e) ==
    IF delivered[e] > 0 THEN "delivered"
    ELSE CASE status[e] = "absent" -> "unannounced"
           [] status[e] = "failed" -> "abandoned"
           [] OTHER -> "queued"

Delivery == INSTANCE EventDelivery WITH fate <- [e \in Events |-> Fate(e)]

ImplementsDelivery == Delivery!Spec

=============================================================================
