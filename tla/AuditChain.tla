----------------------------- MODULE AuditChain -----------------------------
(***************************************************************************)
(* Auditability: one tenant's chain of audit events, the transactions that *)
(* append to it and its verification (db/repository.py append_event,       *)
(* core/hash_chain.py, core/chain_verifier.py).                            *)
(*                                                                         *)
(* A writer takes the tenant's advisory lock, reads the last row and       *)
(* inserts the next one; the commit, or the death of the process, releases *)
(* the lock.  SHA-256 is taken to be injective: the hash of an entry is    *)
(* the tuple of what it covers.                                            *)
(*                                                                         *)
(* Damage is what verification is for: a row changed, lost or exchanged    *)
(* with another in the table, from outside.                                *)
(*                                                                         *)
(* Abstracted: source_module, event_type and occurred_at, which the hash   *)
(* covers as it does the payload; other tenants, each with its own chain.  *)
(***************************************************************************)
EXTENDS Naturals, Sequences, FiniteSetsExt

CONSTANTS
    Payloads,       \* what events may say
    ChainWriters,   \* transactions that append
    MaxDamages      \* bound: rows damaged

VARIABLES
    chain,          \* the tenant's audit_events, by sequence_number
    chainWriter,    \* the transactions: where they are, the last row they have read
    damages,        \* damage done so far
    brokenAt        \* history: the row at which the last damage done shows, 0 if at none

chainVars == <<chain, chainWriter, damages, brokenAt>>

NoHash == <<>>

(* Bug: the payload is left out. *)
EntryHashOfHeader(number, payload, prev) == <<number, prev>>

(* compute_entry_hash *)
EntryHash(number, payload, prev) == <<number, payload, prev>>

Entry(number, payload, prev) ==
    [number |-> number, payload |-> payload, prev |-> prev,
     hash |-> EntryHash(number, payload, prev)]

ChainInit ==
    /\ chain = <<>>
    /\ chainWriter = [w \in ChainWriters |->
                        [at |-> "idle", number |-> 1, prev |-> NoHash]]
    /\ damages = 0
    /\ brokenAt = 0

(* Bug: no lock is taken. *)
ReadLastUnlocked(w) ==
    /\ chainWriter[w].at = "idle"
    /\ chainWriter' = [chainWriter EXCEPT ![w] =
         IF chain = <<>> THEN [at |-> "insert", number |-> 1, prev |-> NoHash]
         ELSE [at |-> "insert", number |-> chain[Len(chain)].number + 1,
               prev |-> chain[Len(chain)].hash]]
    /\ UNCHANGED <<chain, damages, brokenAt>>

(* append_event: pg_advisory_xact_lock, then the last row is read. *)
LockAndReadLast(w) ==
    /\ chainWriter[w].at = "idle"
    /\ \A v \in ChainWriters : chainWriter[v].at # "insert"
    /\ chainWriter' = [chainWriter EXCEPT ![w] =
         IF chain = <<>> THEN [at |-> "insert", number |-> 1, prev |-> NoHash]
         ELSE [at |-> "insert", number |-> chain[Len(chain)].number + 1,
               prev |-> chain[Len(chain)].hash]]
    /\ UNCHANGED <<chain, damages, brokenAt>>

(* Bug: the entry does not carry the hash of the one before it. *)
InsertUnchained(w, payload) ==
    /\ chainWriter[w].at = "insert"
    /\ chain' = Append(chain, Entry(chainWriter[w].number, payload, NoHash))
    /\ chainWriter' = [chainWriter EXCEPT ![w].at = "appended"]
    /\ UNCHANGED <<damages, brokenAt>>

(* The insert and the commit, which the unique constraint on the sequence  *)
(* number refuses if there is such a row.                                  *)
InsertEvent(w, payload) ==
    /\ chainWriter[w].at = "insert"
    /\ IF \E i \in DOMAIN chain : chain[i].number = chainWriter[w].number
       THEN /\ chainWriter' = [chainWriter EXCEPT ![w].at = "refused"]
            /\ UNCHANGED chain
       ELSE /\ chain' = Append(chain, Entry(chainWriter[w].number, payload, chainWriter[w].prev))
            /\ chainWriter' = [chainWriter EXCEPT ![w].at = "appended"]
    /\ UNCHANGED <<damages, brokenAt>>

(* The process dies: its transaction is rolled back, the lock released. *)
ChainWriterDies(w) ==
    /\ chainWriter[w].at = "insert"
    /\ chainWriter' = [chainWriter EXCEPT ![w].at = "died"]
    /\ UNCHANGED <<chain, damages, brokenAt>>

(* Damage that shows at the row with this number and before it nowhere, or *)
(* at no row if this is 0.  FOR UPDATE keeps it off the last row while a   *)
(* writer has read that.                                                   *)
Damages(number) ==
    /\ damages < MaxDamages
    /\ \A w \in ChainWriters : chainWriter[w].at # "insert"
    /\ damages' = damages + 1
    /\ brokenAt' = number
    /\ UNCHANGED chainWriter

PayloadChanged(i, payload) ==
    /\ payload # chain[i].payload
    /\ Damages(chain[i].number)
    /\ chain' = [chain EXCEPT ![i].payload = payload]

(* The row after the one lost does not follow what is now before it.  After *)
(* the last row there is none: the rows left are the chain as it once was. *)
RowLost(i) ==
    /\ Damages(IF i < Len(chain) THEN chain[i + 1].number ELSE 0)
    /\ chain' = [k \in 1..(Len(chain) - 1) |-> IF k < i THEN chain[k] ELSE chain[k + 1]]

(* Two rows exchange their sequence numbers. *)
RowsExchanged(i, k) ==
    /\ i < k
    /\ Damages(chain[i].number)
    /\ chain' = [chain EXCEPT ![i] = [chain[k] EXCEPT !.number = chain[i].number],
                              ![k] = [chain[i] EXCEPT !.number = chain[k].number]]

ChainNext ==
    \/ \E w \in ChainWriters :
         \/ LockAndReadLast(w) \/ ChainWriterDies(w)
         \/ \E payload \in Payloads : InsertEvent(w, payload)
    \/ \E i \in DOMAIN chain :
         \/ \E payload \in Payloads : PayloadChanged(i, payload)
         \/ RowLost(i)
         \/ \E k \in DOMAIN chain : RowsExchanged(i, k)

ChainSpec == ChainInit /\ [][ChainNext]_chainVars

-----------------------------------------------------------------------------
(* verify_chain: the row is not what its hash says, or does not follow the *)
(* row before it.                                                          *)
PrevHash(i) == IF i = 1 THEN NoHash ELSE chain[i - 1].hash

BreaksAt(i) ==
    \/ chain[i].hash # EntryHash(chain[i].number, chain[i].payload, PrevHash(i))
    \/ chain[i].prev # PrevHash(i)

ChainBreaks == {i \in DOMAIN chain : BreaksAt(i)}

(* break_at_sequence *)
FirstBreak == chain[Min(ChainBreaks)].number

-----------------------------------------------------------------------------
(* Properties.                                                             *)

(* Whatever writers race or die, an undamaged chain has no gap and         *)
(* verification finds it valid (core/hash_chain.py:5-11).                  *)
ChainVerifies ==
    damages = 0 =>
      /\ ChainBreaks = {}
      /\ \A i \in DOMAIN chain : chain[i].number = i

(* The lock does its work: no append is ever refused by the constraint on  *)
(* the sequence number (db/repository.py:54-67).                           *)
NoAppendRefused == \A w \in ChainWriters : chainWriter[w].at # "refused"

(* "Altering, deleting or reordering any entry breaks every subsequent     *)
(* hash" (core/hash_chain.py:9-11), and "verify_chain proves it"           *)
(* (docs/module-20-auditability.md:15): verification fails, at the first   *)
(* row concerned, however many events are appended afterwards.  This is so *)
(* of every damage but one, which contradicts it: of the loss of the last  *)
(* row nothing shows, then or ever, because no length and no head of the   *)
(* chain is kept to compare with, and the next event takes the lost one's  *)
(* number.                                                                 *)
DamageShows ==
    damages = 1 =>
      IF brokenAt = 0 THEN ChainBreaks = {}
      ELSE ChainBreaks # {} /\ FirstBreak = brokenAt

=============================================================================
