-------------------------- MODULE SecretLifecycle --------------------------
(***************************************************************************)
(* Secrets and Credential Management: one secret, its stored versions, and *)
(* the calls that create, rotate and revoke it                             *)
(* (core/secret_registry_service.py, core/rotation_service.py).            *)
(*                                                                         *)
(* Creation and rotation are two commits each, the secret's row and the    *)
(* version; nothing locks the row, which is saved as the caller has read   *)
(* it, and nothing keeps two versions from having one number.              *)
(*                                                                         *)
(* A version is the call that stored it and its number: values and their   *)
(* encryption are abstracted, and rotation dates, access records, metrics. *)
(***************************************************************************)
EXTENDS Naturals, FiniteSetsExt

CONSTANTS
    SecretCalls,    \* rotate and revoke calls
    Creator         \* the call that creates the secret

VARIABLES
    secret,         \* the secret's row
    versions,       \* the secret_versions rows
    secretCall,     \* the calls
    undisturbed     \* history: no call has died, or run beside another

secretVars == <<secret, versions, secretCall, undisturbed>>

SecretOver == {"idle", "done", "refused", "died"}

SecretInit ==
    /\ secret = [status |-> "absent", current |-> 0]
    /\ versions = {}
    /\ secretCall = [c \in SecretCalls \cup {Creator} |->
                       [at |-> "idle", copy |-> [status |-> "absent", current |-> 0]]]
    /\ undisturbed = TRUE

SecretProceeds(c, from, to) ==
    /\ secretCall[c].at = from
    /\ secretCall' = [secretCall EXCEPT ![c].at = to]

(* create_secret: the row says version 1 ... *)
CreateSecret ==
    /\ SecretProceeds(Creator, "idle", "version")
    /\ secret' = [status |-> "active", current |-> 1]
    /\ UNCHANGED <<versions, undisturbed>>

(* ... before it is stored. *)
StoreFirstVersion ==
    /\ SecretProceeds(Creator, "version", "done")
    /\ versions' = versions \cup {[by |-> Creator, number |-> 1]}
    /\ UNCHANGED <<secret, undisturbed>>

(* rotate, revoke_secret: the row is read, and its status is checked. *)
ReadSecret(c, what) ==
    /\ secretCall[c].at = "idle" /\ secret.status # "absent"
    /\ secretCall' = [secretCall EXCEPT ![c] =
         [at |-> IF secret.status = "active" THEN what ELSE "refused", copy |-> secret]]
    /\ undisturbed' = (undisturbed /\ \A d \in DOMAIN secretCall : secretCall[d].at \in SecretOver)
    /\ UNCHANGED <<secret, versions>>

(* Bug: the version is not committed. *)
StoreVersionUncommitted(c) ==
    /\ SecretProceeds(c, "rotate", "save")
    /\ UNCHANGED <<secret, versions, undisturbed>>

(* Bug: the number of the version that is current is used again. *)
StoreVersionAgain(c) ==
    /\ SecretProceeds(c, "rotate", "save")
    /\ versions' = versions \cup {[by |-> c, number |-> secretCall[c].copy.current]}
    /\ UNCHANGED <<secret, undisturbed>>

StoreVersion(c) ==
    /\ SecretProceeds(c, "rotate", "save")
    /\ versions' = versions \cup {[by |-> c, number |-> secretCall[c].copy.current + 1]}
    /\ UNCHANGED <<secret, undisturbed>>

(* update_secret, with the new number and the status that was read. *)
SaveRotated(c) ==
    /\ SecretProceeds(c, "save", "done")
    /\ secret' = [secretCall[c].copy EXCEPT !.current = @ + 1]
    /\ UNCHANGED <<versions, undisturbed>>

SaveRevoked(c) ==
    /\ SecretProceeds(c, "revoke", "done")
    /\ secret' = [secretCall[c].copy EXCEPT !.status = "revoked"]
    /\ UNCHANGED <<versions, undisturbed>>

(* The process dies, or the key management provider refuses to encrypt. *)
SecretCallDies(c) ==
    /\ \E from \in {"version", "rotate", "save", "revoke"} : SecretProceeds(c, from, "died")
    /\ undisturbed' = FALSE
    /\ UNCHANGED <<secret, versions>>

SecretNext ==
    \/ CreateSecret \/ StoreFirstVersion
    \/ \E c \in SecretCalls :
         \/ \E what \in {"rotate", "revoke"} : ReadSecret(c, what)
         \/ StoreVersion(c) \/ SaveRotated(c) \/ SaveRevoked(c)
    \/ \E c \in SecretCalls \cup {Creator} : SecretCallDies(c)

SecretSpec == SecretInit /\ [][SecretNext]_secretVars

-----------------------------------------------------------------------------
(* What get_latest_version may return: one of those with the highest number. *)
Latest == {v \in versions : \A u \in versions : u.number <= v.number}

-----------------------------------------------------------------------------
(* Properties.                                                             *)

(* Rotations and revocations that race or die never leave a row that       *)
(* points at a version nobody has stored, unless it is the first, whose    *)
(* row comes before it (core/rotation_service.py:47-58).                   *)
CurrentIsStored ==
    secret.current > 1 => \E v \in versions : v.number = secret.current

(* As long as no call has died or run beside another, the version with the *)
(* highest number, which is the one that is served, is the one and only    *)
(* that the last rotation has stored (core/secret_access_service.py:86).   *)
LastRotationServed ==
    undisturbed =>
      /\ Cardinality({v \in versions : v.number = secret.current}) <= 1
      /\ (\A c \in DOMAIN secretCall : secretCall[c].at \in SecretOver) =>
           Latest = {v \in versions : v.number = secret.current}

=============================================================================
