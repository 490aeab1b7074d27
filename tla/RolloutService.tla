--------------------------- MODULE RolloutService ---------------------------
(***************************************************************************)
(* Deployment Strategy: the deployments of one service to one target, and  *)
(* the calls that deploy, promote and roll back (core/rollout_service.py). *)
(*                                                                         *)
(* A promotion reads the deployment, asks for its health, looks for the    *)
(* active one, supersedes that and saves its own copy as active: every     *)
(* repository method is one commit, nothing is locked, and no constraint   *)
(* keeps the active deployment to one.                                     *)
(*                                                                         *)
(* Abstracted: the health verdict (Evaluation Framework's and FinOps's     *)
(* numbers) is any; times and reasons; other services and targets.         *)
(***************************************************************************)
EXTENDS Naturals, FiniteSets

CONSTANTS
    Deployments,    \* deployments that may be made
    RolloutCalls,   \* promote and rollback calls
    NoDeployment    \* what is found when none is active

ASSUME NoDeploymentIsNone == NoDeployment \notin Deployments

VARIABLES
    stage,          \* the deployments rows
    rollout,        \* the calls: where they are, on which deployment, which was active
    overlapped      \* history: two promotions have run at a time

rolloutVars == <<stage, rollout, overlapped>>

RolloutOver == {"idle", "done", "refused", "died"}
Promoting == {"health", "find", "supersede", "activate"}
Active == {d \in Deployments : stage[d] = "active"}

IsLegalStage(from, to) == <<from, to>> \in
    {<<"canary", "active">>, <<"canary", "rolled_back">>,
     <<"active", "rolled_back">>, <<"active", "superseded">>}

RolloutInit ==
    /\ stage = [d \in Deployments |-> "absent"]
    /\ rollout = [c \in RolloutCalls |->
                    [at |-> "idle", on |-> NoDeployment, previous |-> NoDeployment]]
    /\ overlapped = FALSE

Deploy(d) ==
    /\ stage[d] = "absent"
    /\ stage' = [stage EXCEPT ![d] = "canary"]
    /\ UNCHANGED <<rollout, overlapped>>

RolloutProceeds(c, from, to) ==
    /\ rollout[c].at = from
    /\ rollout' = [rollout EXCEPT ![c].at = to]

(* promote and rollback begin with the check of a copy. *)
ReadDeployment(c, d, to, next) ==
    /\ rollout[c].at = "idle" /\ stage[d] # "absent"
    /\ rollout' = [rollout EXCEPT ![c].on = d,
                     ![c].at = IF IsLegalStage(stage[d], to) THEN next ELSE "refused"]
    /\ UNCHANGED stage

ReadForPromote(c, d) ==
    /\ ReadDeployment(c, d, "active", "health")
    /\ overlapped' = (overlapped \/ \E b \in RolloutCalls : rollout[b].at \in Promoting)

ReadForRollback(c, d) ==
    /\ ReadDeployment(c, d, "rolled_back", "roll back")
    /\ UNCHANGED overlapped

CheckHealth(c, passed) ==
    /\ RolloutProceeds(c, "health", IF passed THEN "find" ELSE "refused")
    /\ UNCHANGED <<stage, overlapped>>

(* get_active_deployment: the first, if there are more. *)
FindActive(c, found) ==
    /\ rollout[c].at = "find"
    /\ IF Active = {} THEN found = NoDeployment ELSE found \in Active
    /\ rollout' = [rollout EXCEPT ![c].previous = found,
         ![c].at = IF found \in {NoDeployment, rollout[c].on} THEN "activate" ELSE "supersede"]
    /\ UNCHANGED <<stage, overlapped>>

(* Bug: the copy is changed and not saved. *)
SupersedeUnsaved(c) ==
    /\ RolloutProceeds(c, "supersede", "activate")
    /\ UNCHANGED <<stage, overlapped>>

Supersede(c) ==
    /\ RolloutProceeds(c, "supersede", "activate")
    /\ stage' = [stage EXCEPT ![rollout[c].previous] = "superseded"]
    /\ UNCHANGED overlapped

SaveActive(c) ==
    /\ RolloutProceeds(c, "activate", "done")
    /\ stage' = [stage EXCEPT ![rollout[c].on] = "active"]
    /\ UNCHANGED overlapped

SaveRolledBack(c) ==
    /\ RolloutProceeds(c, "roll back", "done")
    /\ stage' = [stage EXCEPT ![rollout[c].on] = "rolled_back"]
    /\ UNCHANGED overlapped

RolloutDies(c) ==
    /\ rollout[c].at \notin RolloutOver
    /\ rollout' = [rollout EXCEPT ![c].at = "died"]
    /\ UNCHANGED <<stage, overlapped>>

RolloutNext ==
    \/ \E d \in Deployments : Deploy(d)
    \/ \E c \in RolloutCalls :
         \/ \E d \in Deployments : ReadForPromote(c, d) \/ ReadForRollback(c, d)
         \/ \E passed \in BOOLEAN : CheckHealth(c, passed)
         \/ \E found \in Deployments \cup {NoDeployment} : FindActive(c, found)
         \/ Supersede(c) \/ SaveActive(c) \/ SaveRolledBack(c) \/ RolloutDies(c)

RolloutSpec == RolloutInit /\ [][RolloutNext]_rolloutVars

-----------------------------------------------------------------------------
(* Properties.                                                             *)

(* Promotions that die half-way, and rollbacks that run beside them, never *)
(* leave two deployments active: "superseding the previous active          *)
(* deployment for the same target is automatic"                            *)
(* (core/rollout_service.py:1-6).  Two promotions at a time may.           *)
OneActive == ~overlapped => Cardinality(Active) <= 1

=============================================================================
