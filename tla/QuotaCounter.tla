---------------------------- MODULE QuotaCounter ----------------------------
(***************************************************************************)
(* Multi-tenancy: the quota of one tenant for one rate-shaped resource     *)
(* class, as QuotaEnforcementService.check_and_consume enforces it         *)
(* (core/quota_service.py).                                                *)
(*                                                                         *)
(* A call reads the limit, and in a second commit adds its amount to the   *)
(* counter of the window it falls in and learns the new count; the limit   *)
(* and the window may move in between.  A denied call is counted too.      *)
(*                                                                         *)
(* Abstracted: other tenants and classes, which have counters of their     *)
(* own; capacity-shaped classes, which keep no state; wall-clock time.     *)
(***************************************************************************)
EXTENDS Naturals, FiniteSetsExt

CONSTANTS
    QuotaCalls,     \* check_and_consume calls
    QuotaAmounts,   \* what a call may ask for
    QuotaLimits,    \* limits that may be set; 0 stands for none configured
    QuotaWindows    \* bound: the windows, 1..n

ASSUME QuotaAssumption ==
    /\ IsFiniteSet(QuotaCalls)
    /\ QuotaAmounts \subseteq Nat /\ QuotaLimits \subseteq Nat
    /\ QuotaWindows \subseteq Nat /\ 1 \in QuotaWindows

VARIABLES
    quotaLimit,     \* the tenant's quota set
    window,         \* the window the clock is in
    counter,        \* the quota_counters rows, by window
    quotaCall       \* the calls

quotaVars == <<quotaLimit, window, counter, quotaCall>>

NoQuota == 0

QuotaInit ==
    /\ quotaLimit = NoQuota
    /\ window = 1
    /\ counter = [v \in QuotaWindows |-> 0]
    /\ quotaCall = [c \in QuotaCalls |->
         [at |-> "idle", amount |-> 0, limit |-> NoQuota, window |-> 1]]

SetLimits(limit) ==
    /\ quotaLimit' = limit
    /\ UNCHANGED <<window, counter, quotaCall>>

WindowMoves ==
    /\ window + 1 \in QuotaWindows
    /\ window' = window + 1
    /\ UNCHANGED <<quotaLimit, counter, quotaCall>>

(* Without a limit the call is allowed, and counts nothing; otherwise the  *)
(* window is that of the time at which the counter is asked for.           *)
ReadQuota(c, amount) ==
    /\ quotaCall[c].at = "idle"
    /\ quotaCall' = [quotaCall EXCEPT ![c] =
         [at |-> IF quotaLimit = NoQuota THEN "unlimited" ELSE "consume",
          amount |-> amount, limit |-> quotaLimit, window |-> window]]
    /\ UNCHANGED <<quotaLimit, window, counter>>

(* Bug: the counter is set to the amount of the call that comes last.      *)
ConsumeOverwriting(c) ==
    /\ quotaCall[c].at = "consume"
    /\ counter' = [counter EXCEPT ![quotaCall[c].window] = quotaCall[c].amount]
    /\ quotaCall' = [quotaCall EXCEPT ![c].at =
         IF counter'[quotaCall[c].window] <= quotaCall[c].limit THEN "allowed" ELSE "denied"]
    /\ UNCHANGED <<quotaLimit, window>>

(* increment_quota_counter, one atomic upsert, and the decision. *)
Consume(c) ==
    /\ quotaCall[c].at = "consume"
    /\ counter' = [counter EXCEPT ![quotaCall[c].window] = @ + quotaCall[c].amount]
    /\ quotaCall' = [quotaCall EXCEPT ![c].at =
         IF counter'[quotaCall[c].window] <= quotaCall[c].limit THEN "allowed" ELSE "denied"]
    /\ UNCHANGED <<quotaLimit, window>>

QuotaNext ==
    \/ \E limit \in QuotaLimits : SetLimits(limit)
    \/ WindowMoves
    \/ \E c \in QuotaCalls :
         \/ \E amount \in QuotaAmounts : ReadQuota(c, amount)
         \/ Consume(c)

QuotaSpec == QuotaInit /\ [][QuotaNext]_quotaVars

-----------------------------------------------------------------------------
(* Properties.                                                             *)

(* Concurrent callers never get more out of a window than the highest      *)
(* limit one of them was allowed by, wherever limits and windows move      *)
(* between the two commits of a call (core/quota_service.py:41-44).        *)
AllowedWithinLimit ==
    \A v \in QuotaWindows :
      LET allowed == {c \in QuotaCalls : quotaCall[c].at = "allowed" /\ quotaCall[c].window = v}
      IN  allowed # {} =>
            MapThenSumSet(LAMBDA c : quotaCall[c].amount, allowed)
              <= Max({quotaCall[c].limit : c \in allowed})

=============================================================================
