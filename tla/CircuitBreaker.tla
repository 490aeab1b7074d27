--------------------------- MODULE CircuitBreaker ---------------------------
(***************************************************************************)
(* Tool Orchestration: the circuit breaker of one tool, its reliability    *)
(* score and the calls that go through them                                *)
(* (core/orchestration_service.py invoke, core/circuit_breaker.py,         *)
(* core/retry_manager.py, core/reliability_scorer.py).                     *)
(*                                                                         *)
(* Nothing is locked: a call takes a copy of the breaker's state before it *)
(* goes to the tool and saves the state that follows from that copy when   *)
(* it is back, whatever other calls have saved since; the score is read    *)
(* and written back likewise.  A probe is "half open" in its copy only:    *)
(* what is stored is closed, open, or open with its retry time passed      *)
(* ("due").                                                                *)
(*                                                                         *)
(* Abstracted: the rolling success rate is a level that a success raises   *)
(* and a failure lowers by one (the source: by a fifth of what is missing);*)
(* windows that are open at one time end together; latency, metrics, the   *)
(* invocation record, the wait between the attempts of a call.             *)
(***************************************************************************)
EXTENDS Naturals

CONSTANTS
    Callers,        \* agents' calls under way at one time
    TopScore,       \* the score of a tool that has always answered
    TripBelow,      \* scores below this exceed failure_threshold
    MaxRetries,     \* default_max_retries
    MaxOutages      \* bound: times the tool goes down

VARIABLES
    breaker,        \* what the store says: "closed", "open" or "due"
    score,          \* the stored reliability score
    caller,         \* the calls
    toolUp,         \* whether the tool answers
    outages         \* times it has gone down

breakerVars == <<breaker, score, caller, toolUp, outages>>

(* A call: its copy of the breaker's state, the attempts it has made, the  *)
(* outcome, and its copy of the score.                                     *)
NoToolCall == [at |-> "idle", copy |-> "closed", tries |-> 0, success |-> FALSE, score |-> 0]

BreakerInit ==
    /\ breaker = "closed"
    /\ score = TopScore
    /\ caller = [c \in Callers |-> NoToolCall]
    /\ toolUp = TRUE
    /\ outages = 0

(* Bug: a probe goes on with the copy it has read. *)
MayCallAsIs(state) == [allowed |-> state # "open", state |-> state]

(* may_call: whether, and the state the call goes on with. *)
MayCall(state) ==
    [allowed |-> state # "open", state |-> IF state = "due" THEN "half_open" ELSE state]

ToolAsk(c) ==
    /\ caller[c].at = "idle"
    /\ LET may == MayCall(breaker) IN
       caller' = [caller EXCEPT ![c] =
         [NoToolCall EXCEPT !.at = IF may.allowed THEN "call" ELSE "refused", !.copy = may.state]]
    /\ UNCHANGED <<breaker, score, toolUp, outages>>

(* A refused call saves the state it has read. *)
SaveRefused(c) ==
    /\ caller[c].at = "refused"
    /\ breaker' = caller[c].copy
    /\ caller' = [caller EXCEPT ![c] = NoToolCall]
    /\ UNCHANGED <<score, toolUp, outages>>

(* call_with_retry: the outcome is that of the last attempt. *)
ToolAttempt(c) ==
    /\ caller[c].at = "call"
    /\ caller' = [caller EXCEPT ![c] =
         IF toolUp THEN [@ EXCEPT !.at = "score", !.success = TRUE]
         ELSE IF @.tries < MaxRetries THEN [@ EXCEPT !.tries = @ + 1]
         ELSE [@ EXCEPT !.at = "score"]]
    /\ UNCHANGED <<breaker, score, toolUp, outages>>

(* The new score is computed from the one that is read ... *)
ReadScore(c) ==
    /\ caller[c].at = "score"
    /\ caller' = [caller EXCEPT ![c].at = "rate",
         ![c].score = IF caller[c].success THEN (IF score < TopScore THEN score + 1 ELSE score)
                      ELSE (IF score > 0 THEN score - 1 ELSE score)]
    /\ UNCHANGED <<breaker, score, toolUp, outages>>

(* ... and saved. *)
SaveScore(c) ==
    /\ caller[c].at = "rate"
    /\ score' = caller[c].score
    /\ caller' = [caller EXCEPT ![c].at = "record"]
    /\ UNCHANGED <<breaker, toolUp, outages>>

(* record_result, on the copies: a probe decides by its outcome, any other *)
(* call by the score, so that a success may trip the breaker, too.         *)
Result(c) ==
    CASE caller[c].copy = "half_open" -> IF caller[c].success THEN "closed" ELSE "open"
      [] caller[c].copy = "closed" -> IF caller[c].score < TripBelow THEN "open" ELSE "closed"
      [] OTHER -> IF caller[c].success THEN caller[c].copy ELSE "open"

RecordResult(c) ==
    /\ caller[c].at = "record"
    /\ breaker' = Result(c)
    /\ caller' = [caller EXCEPT ![c] = NoToolCall]
    /\ UNCHANGED <<score, toolUp, outages>>

(* open_duration_seconds have passed. *)
WindowEnds ==
    /\ breaker = "open" \/ \E c \in Callers : caller[c].copy = "open"
    /\ breaker' = IF breaker = "open" THEN "due" ELSE breaker
    /\ caller' = [c \in Callers |->
         IF caller[c].copy = "open" THEN [caller[c] EXCEPT !.copy = "due"] ELSE caller[c]]
    /\ UNCHANGED <<score, toolUp, outages>>

ToolGoesDown ==
    /\ toolUp /\ outages < MaxOutages
    /\ toolUp' = FALSE
    /\ outages' = outages + 1
    /\ UNCHANGED <<breaker, score, caller>>

ToolComesUp ==
    /\ ~toolUp
    /\ toolUp' = TRUE
    /\ UNCHANGED <<breaker, score, caller, outages>>

CallerStep(c) ==
    \/ ToolAsk(c) \/ SaveRefused(c) \/ ToolAttempt(c)
    \/ ReadScore(c) \/ SaveScore(c) \/ RecordResult(c)

BreakerNext ==
    \/ \E c \in Callers : CallerStep(c)
    \/ WindowEnds \/ ToolGoesDown \/ ToolComesUp

(* Agents go on calling, calls go on, time passes. *)
BreakerFairness ==
    /\ \A c \in Callers : WF_breakerVars(CallerStep(c))
    /\ WF_breakerVars(WindowEnds)

BreakerSpec == BreakerInit /\ [][BreakerNext]_breakerVars /\ BreakerFairness

-----------------------------------------------------------------------------
(* Properties.                                                             *)

(* The breaker of a tool that works again, and goes on working, is at last *)
(* closed for good, although refused and late calls write stale states     *)
(* over it, and successes trip it while the score recovers                 *)
(* (core/circuit_breaker.py:63-65).                                        *)
BreakerRecovers == <>[]toolUp => <>[](breaker = "closed")

=============================================================================
