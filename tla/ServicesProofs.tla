--------------------------- MODULE ServicesProofs ---------------------------
(***************************************************************************)
(* Proofs about the services beside the engine, each for any number of     *)
(* callers and any values of its constants: the chain of audit entries,    *)
(* conversations, promotions of deployments, secrets, and evidence packs.  *)
(* A section names its module and says what it proves.                     *)
(***************************************************************************)
EXTENDS AuditChain, ConversationSession, RolloutService, SecretLifecycle,
        EvidenceQueue, FoldLemmas

-----------------------------------------------------------------------------
(***************************************************************************)
(* AuditChain, for chains of any length and any number of damages: an      *)
(* undamaged chain verifies, the constraint on the sequence number never   *)
(* refuses an append, and of a first damage verification tells where it    *)
(* was done, unless it was the loss of the last row.                       *)
(***************************************************************************)

(* The inductive invariant.                                                *)

WriterStates == {"idle", "insert", "appended", "refused", "died"}
Row(P, H) == [number : Nat \ {0}, payload : P, prev : H, hash : H]
Writer(H) == [at : WriterStates, number : Nat \ {0}, prev : H]

(* Hashes nest without end: what is in the table is of some set of hashes. *)
ChainTypes(P, H) ==
  /\ chain \in Seq(Row(P, H))
  /\ chainWriter \in [ChainWriters -> Writer(H)]

ChainTyped == (\E P, H : ChainTypes(P, H)) /\ damages \in Nat

Ordered == \A i, k \in DOMAIN chain : i < k => chain[i].number < chain[k].number

OneInserts ==
  \A v, w \in ChainWriters :
    chainWriter[v].at = "insert" /\ chainWriter[w].at = "insert" => v = w

(* What the writer that inserts has read is still the last row. *)
ReadIsLast ==
  \A w \in ChainWriters : chainWriter[w].at = "insert" =>
    IF chain = <<>> THEN chainWriter[w].number = 1 /\ chainWriter[w].prev = NoHash
    ELSE /\ chainWriter[w].number = chain[Len(chain)].number + 1
         /\ chainWriter[w].prev = chain[Len(chain)].hash

(* No damage, or the loss of a last row only. *)
NoneShows == damages = 0 \/ (damages = 1 /\ brokenAt = 0)

Whole ==
  /\ damages = 0 => brokenAt = 0
  /\ NoneShows => \A i \in DOMAIN chain : chain[i].number = i /\ ~BreaksAt(i)

BrokenFirstAt(b) ==
  /\ BreaksAt(b) /\ chain[b].number = brokenAt
  /\ \A i \in DOMAIN chain : i < b => ~BreaksAt(i)

Shown == damages = 1 /\ brokenAt # 0 => \E b \in DOMAIN chain : BrokenFirstAt(b)

ChainInv ==
  ChainTyped /\ Ordered /\ OneInserts /\ ReadIsLast /\ NoAppendRefused /\ Whole /\ Shown

-----------------------------------------------------------------------------
(* Lemmas about entries.                                                   *)

LEMMA HashInjective ==
  ASSUME NEW m, NEW p, NEW g, NEW n, NEW q, NEW h, EntryHash(m, p, g) = EntryHash(n, q, h)
  PROVE  m = n /\ p = q /\ g = h
  BY DEF EntryHash

LEMMA HashIsSome ==
  ASSUME NEW n, NEW p, NEW h
  PROVE  EntryHash(n, p, h) # NoHash
  BY DEF EntryHash, NoHash

(* In an undamaged chain each row hashes what it says. *)
LEMMA WholeRow ==
  ASSUME Whole, damages = 0, NEW i \in DOMAIN chain
  PROVE  /\ chain[i].number = i /\ ~BreaksAt(i)
         /\ chain[i].hash = EntryHash(i, chain[i].payload, PrevHash(i))
         /\ chain[i].prev = PrevHash(i)
  BY DEF Whole, NoneShows, BreaksAt

LEMMA RowType ==
  ASSUME NEW P, NEW H, ChainTypes(P, H)
  PROVE  /\ Len(chain) \in Nat /\ DOMAIN chain = 1..Len(chain)
         /\ \A i \in DOMAIN chain : chain[i] \in Row(P, H)
         /\ chain = <<>> <=> Len(chain) = 0
  BY DEF ChainTypes

LEMMA Initially == ChainInit => ChainInv
<1> SUFFICES ASSUME ChainInit PROVE ChainInv
  OBVIOUS
<1>1. ChainTypes({}, {NoHash})
  BY DEF ChainInit, ChainTypes, Row, Writer, WriterStates
<1>2. ChainTyped
  BY <1>1 DEF ChainTyped, ChainInit
<1>3. Ordered /\ OneInserts /\ ReadIsLast /\ NoAppendRefused /\ Whole /\ Shown
  BY DEF ChainInit, Ordered, OneInserts, ReadIsLast, NoAppendRefused, Whole, NoneShows, Shown
<1> QED
  BY <1>2, <1>3 DEF ChainInv

-----------------------------------------------------------------------------
(* The steps of a writer.                                                  *)

(* A writer's step that leaves the table alone. *)
LEMMA TableKept ==
  ASSUME ChainInv, UNCHANGED <<chain, damages, brokenAt>>
  PROVE  Ordered' /\ Whole' /\ Shown'
  BY DEF ChainInv, Ordered, Whole, NoneShows, Shown, BrokenFirstAt, BreaksAt, PrevHash

LEMMA ReadStep ==
  ASSUME ChainInv, NEW w \in ChainWriters, LockAndReadLast(w)
  PROVE  ChainInv'
<1>1. PICK P, H : ChainTypes(P, H)
  BY DEF ChainInv, ChainTyped
<1>2. Len(chain) \in Nat /\ DOMAIN chain = 1..Len(chain)
      /\ (chain = <<>> <=> Len(chain) = 0)
  BY <1>1, RowType
<1> DEFINE read == IF chain = <<>> THEN [at |-> "insert", number |-> 1, prev |-> NoHash]
                   ELSE [at |-> "insert", number |-> chain[Len(chain)].number + 1,
                         prev |-> chain[Len(chain)].hash]
<1>3. chainWriter' = [chainWriter EXCEPT ![w] = read]
  BY DEF LockAndReadLast
<1>4. read \in Writer(H \cup {NoHash})
  <2>1. CASE chain = <<>>
    BY <2>1 DEF Writer, WriterStates
  <2>2. CASE chain # <<>>
    <3>1. chain[Len(chain)] \in Row(P, H)
      BY <1>1, <1>2, <2>2, RowType
    <3> QED
      BY <2>2, <3>1 DEF Writer, WriterStates, Row
  <2> QED
    BY <2>1, <2>2
<1>5. Row(P, H) \subseteq Row(P, H \cup {NoHash}) /\ Writer(H) \subseteq Writer(H \cup {NoHash})
  BY DEF Row, Writer
<1>6. chainWriter' \in [ChainWriters -> Writer(H \cup {NoHash})]
  BY <1>1, <1>3, <1>4, <1>5 DEF ChainTypes
<1>7. ChainTyped'
  <2>1. chain' \in Seq(Row(P, H \cup {NoHash}))
    BY <1>1, <1>5, SeqMonotonic DEF ChainTypes, LockAndReadLast
  <2>2. damages' \in Nat
    BY DEF LockAndReadLast, ChainInv, ChainTyped
  <2> QED
    BY <1>6, <2>1, <2>2 DEF ChainTyped, ChainTypes
<1>8. /\ chainWriter'[w] = read
      /\ \A v \in ChainWriters \ {w} : chainWriter'[v] = chainWriter[v]
  BY <1>1, <1>3 DEF ChainTypes
<1>9. OneInserts'
  BY <1>8 DEF OneInserts, LockAndReadLast
<1>10. ReadIsLast'
  BY <1>8 DEF ReadIsLast, LockAndReadLast
<1>11. NoAppendRefused'
  BY <1>8 DEF ChainInv, NoAppendRefused
<1>12. Ordered' /\ Whole' /\ Shown'
  BY TableKept DEF LockAndReadLast
<1> QED
  BY <1>7, <1>9, <1>10, <1>11, <1>12 DEF ChainInv

LEMMA DeathStep ==
  ASSUME ChainInv, NEW w \in ChainWriters, ChainWriterDies(w)
  PROVE  ChainInv'
<1>1. PICK P, H : ChainTypes(P, H)
  BY DEF ChainInv, ChainTyped
<1>2. /\ chainWriter' \in [ChainWriters -> Writer(H)]
      /\ chainWriter'[w].at = "died"
      /\ \A v \in ChainWriters \ {w} : chainWriter'[v] = chainWriter[v]
  BY <1>1 DEF ChainTypes, ChainWriterDies, Writer, WriterStates
<1>3. ChainTyped'
  BY <1>1, <1>2 DEF ChainTyped, ChainTypes, ChainInv, ChainWriterDies
<1>4. OneInserts' /\ ReadIsLast' /\ NoAppendRefused'
  BY <1>2 DEF ChainInv, OneInserts, ReadIsLast, NoAppendRefused, ChainWriterDies
<1>5. Ordered' /\ Whole' /\ Shown'
  BY TableKept DEF ChainWriterDies
<1> QED
  BY <1>3, <1>4, <1>5 DEF ChainInv

(* The number read is past all the numbers in the table. *)
LEMMA NumberIsNext ==
  ASSUME ChainInv, NEW w \in ChainWriters, chainWriter[w].at = "insert",
         NEW i \in DOMAIN chain
  PROVE  chain[i].number < chainWriter[w].number
<1>1. PICK P, H : ChainTypes(P, H)
  BY DEF ChainInv, ChainTyped
<1>2. /\ Len(chain) \in Nat /\ DOMAIN chain = 1..Len(chain) /\ chain # <<>>
      /\ chain[i].number \in Nat /\ chain[Len(chain)].number \in Nat
  BY <1>1, RowType DEF Row
<1>3. chain[i].number <= chain[Len(chain)].number
  BY <1>2 DEF ChainInv, Ordered
<1>4. chainWriter[w].number = chain[Len(chain)].number + 1
  BY <1>2 DEF ChainInv, ReadIsLast
<1> QED
  BY <1>2, <1>3, <1>4

(* Rows that stay where they are break as they did. *)
LEMMA BreaksKept ==
  ASSUME NEW i \in Nat \ {0}, chain'[i] = chain[i], i # 1 => chain'[i - 1] = chain[i - 1]
  PROVE  PrevHash(i)' = PrevHash(i) /\ BreaksAt(i)' = BreaksAt(i)
  BY DEF BreaksAt, PrevHash

LEMMA InsertStep ==
  ASSUME ChainInv, NEW w \in ChainWriters, NEW payload, InsertEvent(w, payload)
  PROVE  ChainInv'
<1>1. PICK P, H : ChainTypes(P, H)
  BY DEF ChainInv, ChainTyped
<1> DEFINE n == Len(chain)
           prev == chainWriter[w].prev
           e == Entry(chainWriter[w].number, payload, prev)
           Q == P \cup {payload}
           G == H \cup {prev, e.hash}
<1>2. n \in Nat /\ DOMAIN chain = 1..n /\ (chain = <<>> <=> n = 0)
  BY <1>1, RowType
<1>3. chainWriter[w].at = "insert" /\ chainWriter[w].number \in Nat \ {0}
  BY <1>1 DEF ChainTypes, Writer, InsertEvent
<1>4. ~\E i \in DOMAIN chain : chain[i].number = chainWriter[w].number
  <2> SUFFICES ASSUME NEW i \in DOMAIN chain PROVE chain[i].number # chainWriter[w].number
    OBVIOUS
  <2>1. chain[i].number < chainWriter[w].number
    BY <1>3, NumberIsNext
  <2>2. chain[i].number \in Nat
    BY <1>1, RowType DEF Row
  <2> QED
    BY <1>3, <2>1, <2>2
<1>5. /\ chain' = Append(chain, e)
      /\ chainWriter' = [chainWriter EXCEPT ![w].at = "appended"]
      /\ UNCHANGED <<damages, brokenAt>>
  BY <1>4 DEF InsertEvent
<1>6. /\ e \in Row(Q, G) /\ chain \in Seq(Row(Q, G))
      /\ e.number = chainWriter[w].number /\ e.payload = payload /\ e.prev = prev
      /\ e.hash = EntryHash(e.number, payload, prev)
  <2>1. Row(P, H) \subseteq Row(Q, G)
    BY DEF Row
  <2>2. chain \in Seq(Row(Q, G))
    BY <1>1, <2>1, SeqMonotonic DEF ChainTypes
  <2> QED
    BY <1>3, <2>2 DEF Entry, Row
<1>7. /\ chain' \in Seq(Row(Q, G)) /\ Len(chain') = n + 1 /\ DOMAIN chain' = 1..(n + 1)
      /\ chain'[n + 1] = e /\ \A i \in 1..n : chain'[i] = chain[i]
  BY <1>2, <1>5, <1>6
<1>8. /\ chainWriter' \in [ChainWriters -> Writer(G)]
      /\ chainWriter'[w].at = "appended"
      /\ \A v \in ChainWriters \ {w} : chainWriter'[v] = chainWriter[v]
  <2>1. Writer(H) \subseteq Writer(G)
    BY DEF Writer
  <2> QED
    BY <1>1, <1>5, <2>1 DEF ChainTypes, Writer, WriterStates
<1>9. ChainTyped'
  BY <1>5, <1>7, <1>8 DEF ChainTyped, ChainTypes, ChainInv
<1>10. Ordered'
  <2> SUFFICES ASSUME NEW i \in 1..(n + 1), NEW k \in 1..(n + 1), i < k
               PROVE  chain'[i].number < chain'[k].number
    BY <1>7 DEF Ordered
  <2>1. CASE k \in 1..n
    BY <1>2, <1>7, <2>1 DEF ChainInv, Ordered
  <2>2. CASE k = n + 1
    BY <1>2, <1>3, <1>6, <1>7, <2>2, NumberIsNext
  <2> QED
    BY <1>2, <2>1, <2>2
<1>11. OneInserts' /\ ReadIsLast' /\ NoAppendRefused'
  BY <1>3, <1>8 DEF ChainInv, OneInserts, ReadIsLast, NoAppendRefused
<1>12. \A i \in 1..n : BreaksAt(i)' = BreaksAt(i)
  BY <1>2, <1>7, BreaksKept
<1>13. Whole'
  <2>1. Whole
    BY DEF ChainInv
  <2> SUFFICES ASSUME NoneShows, NEW i \in 1..(n + 1)
               PROVE  chain'[i].number = i /\ ~BreaksAt(i)'
    BY <1>5, <1>7, <2>1 DEF Whole, NoneShows
  <2>2. CASE i \in 1..n
    BY <1>2, <1>7, <1>12, <2>1, <2>2 DEF Whole
  <2>3. CASE i = n + 1
    <3>1. e.number = n + 1 /\ prev = IF n = 0 THEN NoHash ELSE chain[n].hash
      BY <1>2, <1>3, <1>6, <2>1 DEF ChainInv, ReadIsLast, Whole
    <3>2. PrevHash(i)' = prev
      BY <1>2, <1>7, <2>3, <3>1 DEF PrevHash
    <3> QED
      BY <1>6, <1>7, <2>1, <2>3, <3>1, <3>2 DEF BreaksAt, Whole
  <2> QED
    BY <1>2, <2>2, <2>3
<1>14. Shown'
  <2> SUFFICES ASSUME damages = 1, brokenAt # 0
               PROVE  \E b \in DOMAIN chain' : BrokenFirstAt(b)'
    BY <1>5 DEF Shown
  <2>1. PICK b \in 1..n : BrokenFirstAt(b)
    BY <1>2 DEF ChainInv, Shown
  <2>2. BrokenFirstAt(b)'
    BY <1>2, <1>5, <1>7, <1>12, <2>1 DEF BrokenFirstAt
  <2> QED
    BY <1>2, <1>7, <2>2
<1> QED
  BY <1>9, <1>10, <1>11, <1>13, <1>14 DEF ChainInv

-----------------------------------------------------------------------------
(* Damage.                                                                 *)

(* No writer has read, so only the table matters. *)
LEMMA DamageDone ==
  ASSUME ChainInv, NEW number, Damages(number), Ordered',
         NEW P, NEW H, ChainTypes(P, H), NEW Q, chain' \in Seq(Row(Q, H)),
         damages = 0 /\ brokenAt' = number =>
           IF number = 0 THEN \A k \in DOMAIN chain' : chain'[k].number = k /\ ~BreaksAt(k)'
           ELSE \E b \in DOMAIN chain' : BrokenFirstAt(b)'
  PROVE  ChainInv'
<1>1. damages \in Nat /\ damages' = damages + 1 /\ chainWriter' = chainWriter
      /\ brokenAt' = number
  BY DEF ChainInv, ChainTyped, Damages
<1>2. ChainTyped'
  BY <1>1 DEF ChainTyped, ChainTypes
<1>3. OneInserts' /\ ReadIsLast' /\ NoAppendRefused'
  BY <1>1 DEF ChainInv, OneInserts, ReadIsLast, NoAppendRefused, Damages
<1>4. Whole' /\ Shown'
  BY <1>1 DEF Whole, NoneShows, Shown
<1> QED
  BY <1>2, <1>3, <1>4 DEF ChainInv

LEMMA PayloadStep ==
  ASSUME ChainInv, NEW i \in DOMAIN chain, NEW payload, PayloadChanged(i, payload)
  PROVE  ChainInv'
<1>1. PICK P, H : ChainTypes(P, H)
  BY DEF ChainInv, ChainTyped
<1>2. /\ Len(chain) \in Nat /\ DOMAIN chain = 1..Len(chain)
      /\ \A k \in DOMAIN chain : chain[k] \in Row(P, H)
  BY <1>1, RowType
<1> DEFINE row == [chain[i] EXCEPT !.payload = payload]
           Q == P \cup {payload}
<1>3. row \in Row(Q, H) /\ row.payload = payload
      /\ row.number = chain[i].number /\ row.hash = chain[i].hash /\ row.prev = chain[i].prev
  BY <1>2 DEF Row
<1>4. chain' = [chain EXCEPT ![i] = row]
  BY DEF PayloadChanged
<1>5. /\ chain' \in Seq(Row(Q, H)) /\ DOMAIN chain' = DOMAIN chain
      /\ chain'[i] = row /\ \A k \in DOMAIN chain \ {i} : chain'[k] = chain[k]
  <2>1. Row(P, H) \subseteq Row(Q, H)
    BY DEF Row
  <2>2. chain \in Seq(Row(Q, H))
    BY <1>1, <2>1, SeqMonotonic DEF ChainTypes
  <2> QED
    BY <1>2, <1>3, <1>4, <2>2, ExceptSeq
<1>6. Ordered'
  BY <1>3, <1>5, ZenonT(60) DEF ChainInv, Ordered
<1>7. ASSUME damages = 0, brokenAt' = chain[i].number
      PROVE  \E b \in DOMAIN chain' : BrokenFirstAt(b)'
  <2>1. chain[i].number = i /\ chain[i].hash = EntryHash(i, chain[i].payload, PrevHash(i))
    BY <1>7, WholeRow DEF ChainInv
  <2>2. PrevHash(i)' = PrevHash(i)
    BY <1>2, <1>5 DEF PrevHash
  <2>3. EntryHash(i, payload, PrevHash(i)) # chain[i].hash
    BY <2>1, HashInjective DEF PayloadChanged
  <2>4. BreaksAt(i)'
    BY <1>3, <1>5, <2>1, <2>2, <2>3 DEF BreaksAt
  <2>5. \A k \in DOMAIN chain' : k < i => ~BreaksAt(k)'
    <3> SUFFICES ASSUME NEW k \in DOMAIN chain, k < i PROVE ~BreaksAt(k)'
      BY <1>5
    <3>1. BreaksAt(k)' = BreaksAt(k)
      BY <1>2, <1>5, BreaksKept
    <3> QED
      BY <1>7, <3>1, WholeRow DEF ChainInv
  <2> QED
    BY <1>3, <1>5, <1>7, <2>4, <2>5 DEF BrokenFirstAt
<1>8. chain[i].number # 0
  BY <1>2 DEF Row
<1> QED
  BY <1>1, <1>5, <1>6, <1>7, <1>8, DamageDone DEF PayloadChanged

LEMMA LossStep ==
  ASSUME ChainInv, NEW i \in DOMAIN chain, RowLost(i)
  PROVE  ChainInv'
<1>1. PICK P, H : ChainTypes(P, H)
  BY DEF ChainInv, ChainTyped
<1> DEFINE n == Len(chain)
<1>2. /\ n \in Nat /\ DOMAIN chain = 1..n
      /\ \A k \in DOMAIN chain : chain[k] \in Row(P, H)
  BY <1>1, RowType
<1>3. i \in 1..n /\ n # 0
  BY <1>2
<1>4. chain' = [k \in 1..(n - 1) |-> IF k < i THEN chain[k] ELSE chain[k + 1]]
  BY DEF RowLost
<1>5. chain' \in Seq(Row(P, H)) /\ DOMAIN chain' = 1..(n - 1)
      /\ \A k \in 1..(n - 1) : chain'[k] = IF k < i THEN chain[k] ELSE chain[k + 1]
  <2>1. chain' \in [1..(n - 1) -> Row(P, H)]
    BY <1>2, <1>4
  <2>2. n - 1 \in Nat
    BY <1>2, <1>3
  <2> QED
    BY <1>4, <2>1, <2>2, SeqDef
<1>6. Ordered'
  <2> SUFFICES ASSUME NEW j \in 1..(n - 1), NEW k \in 1..(n - 1), j < k
               PROVE  chain'[j].number < chain'[k].number
    BY <1>5 DEF Ordered
  <2>1. \A x, y \in 1..n : x < y => chain[x].number < chain[y].number
    BY <1>2 DEF ChainInv, Ordered
  <2>2. /\ j \in 1..n /\ j + 1 \in 1..n /\ k \in 1..n /\ k + 1 \in 1..n
        /\ j < k + 1 /\ j + 1 < k + 1
    BY <1>2
  <2>3. ~(j >= i /\ k < i)
    BY <1>2, <1>3
  <2> QED
    BY <1>2, <1>3, <1>5, <2>1, <2>2, <2>3
<1>7. ASSUME damages = 0, i < n, brokenAt' = chain[i + 1].number
      PROVE  \E b \in DOMAIN chain' : BrokenFirstAt(b)'
  <2>0. i \in 1..(n - 1)
    BY <1>2, <1>3, <1>7
  <2>1. /\ chain[i].hash = EntryHash(i, chain[i].payload, PrevHash(i))
        /\ chain[i + 1].prev = chain[i].hash
        /\ i # 1 => chain[i - 1].hash = EntryHash(i - 1, chain[i - 1].payload, PrevHash(i - 1))
    <3>1. i \in 1..n /\ i + 1 \in 1..n /\ (i # 1 => i - 1 \in 1..n)
      BY <1>2, <2>0
    <3>2. Whole
      BY DEF ChainInv
    <3>3. PrevHash(i + 1) = chain[i].hash
      BY <1>2, <2>0 DEF PrevHash
    <3> QED
      BY <1>2, <1>7, <3>1, <3>2, <3>3, WholeRow
  <2>2. PrevHash(i)' = IF i = 1 THEN NoHash ELSE chain[i - 1].hash
    BY <1>2, <2>0, <1>5 DEF PrevHash
  <2>3. chain[i].hash # PrevHash(i)'
    <3>1. CASE i = 1
      BY <2>1, <2>2, <3>1, HashIsSome
    <3>2. CASE i # 1
      <4>1. i # i - 1
        BY <2>0
      <4> QED
        BY <2>1, <2>2, <3>2, <4>1, HashInjective
    <3> QED
      BY <3>1, <3>2
  <2>4. BreaksAt(i)'
    BY <2>0, <1>5, <2>1, <2>3 DEF BreaksAt
  <2>5. \A k \in DOMAIN chain' : k < i => ~BreaksAt(k)'
    <3> SUFFICES ASSUME NEW k \in 1..(n - 1), k < i PROVE ~BreaksAt(k)'
      BY <1>5
    <3>1. BreaksAt(k)' = BreaksAt(k)
      BY <1>2, <2>0, <1>5, BreaksKept
    <3> QED
      BY <1>2, <1>3, <1>7, <3>1, WholeRow DEF ChainInv
  <2> QED
    BY <2>0, <1>5, <1>7, <2>4, <2>5 DEF BrokenFirstAt
(* Without its last row the chain is what it was before that. *)
<1>8. ASSUME damages = 0, i = n, NEW k \in 1..(n - 1)
      PROVE  chain'[k].number = k /\ ~BreaksAt(k)'
  <2>1. k \in 1..n /\ (k # 1 => k - 1 \in 1..(n - 1) /\ k - 1 < i) /\ k < i
    BY <1>2, <1>8
  <2>2. chain[k].number = k /\ ~BreaksAt(k)
    BY <1>2, <1>8, <2>1, WholeRow DEF ChainInv
  <2>3. chain'[k] = chain[k] /\ (k # 1 => chain'[k - 1] = chain[k - 1])
    BY <1>5, <2>1
  <2> QED
    BY <2>2, <2>3, BreaksKept
<1>9. i < n => chain[i + 1].number # 0
  BY <1>2, <1>3 DEF Row
<1> DEFINE number == IF i < n THEN chain[i + 1].number ELSE 0
<1>10. ASSUME damages = 0, brokenAt' = number
       PROVE  IF number = 0 THEN \A k \in DOMAIN chain' : chain'[k].number = k /\ ~BreaksAt(k)'
              ELSE \E b \in DOMAIN chain' : BrokenFirstAt(b)'
  <2>1. CASE i < n
    BY <1>7, <1>9, <1>10, <2>1
  <2>2. CASE ~(i < n)
    <3>1. i = n
      BY <1>2, <1>3, <2>2
    <3>2. \A k \in DOMAIN chain' : chain'[k].number = k /\ ~BreaksAt(k)'
      BY <1>5, <1>8, <1>10, <3>1
    <3> QED
      BY <2>2, <3>2
  <2> QED
    BY <2>1, <2>2
<1>11. Damages(number)
  BY DEF RowLost
<1> HIDE DEF number
<1> QED
  BY <1>1, <1>5, <1>6, <1>10, <1>11, DamageDone

LEMMA ExchangeStep ==
  ASSUME ChainInv, NEW i \in DOMAIN chain, NEW k \in DOMAIN chain, RowsExchanged(i, k)
  PROVE  ChainInv'
<1>1. PICK P, H : ChainTypes(P, H)
  BY DEF ChainInv, ChainTyped
<1>2. /\ Len(chain) \in Nat /\ DOMAIN chain = 1..Len(chain)
      /\ \A x \in DOMAIN chain : chain[x] \in Row(P, H)
  BY <1>1, RowType
<1> DEFINE first == [chain[k] EXCEPT !.number = chain[i].number]
           second == [chain[i] EXCEPT !.number = chain[k].number]
<1>3. /\ first \in Row(P, H) /\ first.number = chain[i].number /\ first.hash = chain[k].hash
      /\ second \in Row(P, H) /\ second.number = chain[k].number
  BY <1>2 DEF Row
<1>4. i < k /\ chain' = [chain EXCEPT ![i] = first, ![k] = second]
  BY DEF RowsExchanged
<1>5. /\ chain' \in Seq(Row(P, H)) /\ DOMAIN chain' = DOMAIN chain
      /\ chain'[i] = first /\ chain'[k] = second
      /\ \A x \in DOMAIN chain \ {i, k} : chain'[x] = chain[x]
  <2>1. chain' \in [1..Len(chain) -> Row(P, H)]
    BY <1>1, <1>2, <1>3, <1>4, LenProperties DEF ChainTypes
  <2>2. chain' \in Seq(Row(P, H))
    BY <1>2, <2>1, SeqDef
  <2> QED
    BY <1>2, <1>4, <2>1, <2>2
<1>6. \A x \in DOMAIN chain : chain'[x].number = chain[x].number
  BY <1>3, <1>5
<1>7. Ordered'
  BY <1>5, <1>6 DEF ChainInv, Ordered
<1>8. ASSUME damages = 0, brokenAt' = chain[i].number
      PROVE  \E b \in DOMAIN chain' : BrokenFirstAt(b)'
  <2>1. chain[i].number = i /\ chain[k].hash = EntryHash(k, chain[k].payload, PrevHash(k))
    BY <1>8, WholeRow DEF ChainInv
  <2>2. i # k
    BY <1>2, <1>4
  <2>3. chain[k].hash # EntryHash(i, first.payload, PrevHash(i)')
    BY <2>1, <2>2, HashInjective
  <2>4. BreaksAt(i)'
    BY <1>3, <1>5, <2>1, <2>3 DEF BreaksAt
  <2>5. \A x \in DOMAIN chain' : x < i => ~BreaksAt(x)'
    <3> SUFFICES ASSUME NEW x \in DOMAIN chain, x < i PROVE ~BreaksAt(x)'
      BY <1>5
    <3>1. BreaksAt(x)' = BreaksAt(x)
      BY <1>2, <1>4, <1>5, BreaksKept, SMTT(30)
    <3> QED
      BY <1>8, <3>1, WholeRow DEF ChainInv
  <2> QED
    BY <1>3, <1>5, <1>8, <2>4, <2>5 DEF BrokenFirstAt
<1>9. chain[i].number # 0
  BY <1>2 DEF Row
<1> QED
  BY <1>1, <1>5, <1>7, <1>8, <1>9, DamageDone DEF RowsExchanged

-----------------------------------------------------------------------------
(* The theorems.                                                           *)

LEMMA Inductive == ChainInv /\ [ChainNext]_chainVars => ChainInv'
<1> SUFFICES ASSUME ChainInv, [ChainNext]_chainVars PROVE ChainInv'
  OBVIOUS
<1>1. CASE UNCHANGED chainVars
  BY <1>1 DEF chainVars, ChainInv, ChainTyped, ChainTypes, Ordered, OneInserts, ReadIsLast,
              NoAppendRefused, Whole, NoneShows, Shown, BrokenFirstAt, BreaksAt, PrevHash
<1>2. ASSUME NEW w \in ChainWriters, LockAndReadLast(w) PROVE ChainInv'
  BY <1>2, ReadStep
<1>3. ASSUME NEW w \in ChainWriters, ChainWriterDies(w) PROVE ChainInv'
  BY <1>3, DeathStep
<1>4. ASSUME NEW w \in ChainWriters, NEW payload \in Payloads, InsertEvent(w, payload)
      PROVE  ChainInv'
  BY <1>4, InsertStep
<1>5. ASSUME NEW i \in DOMAIN chain, NEW payload \in Payloads, PayloadChanged(i, payload)
      PROVE  ChainInv'
  BY <1>5, PayloadStep
<1>6. ASSUME NEW i \in DOMAIN chain, RowLost(i) PROVE ChainInv'
  BY <1>6, LossStep
<1>7. ASSUME NEW i \in DOMAIN chain, NEW k \in DOMAIN chain, RowsExchanged(i, k)
      PROVE  ChainInv'
  BY <1>7, ExchangeStep
<1> QED
  BY <1>1, <1>2, <1>3, <1>4, <1>5, <1>6, <1>7 DEF ChainNext

LEMMA AlwaysInv == ChainSpec => []ChainInv
  BY Initially, Inductive, PTL DEF ChainSpec

(* Any number of processes may append, and die while they do: an undamaged *)
(* chain is numbered without a gap and verifies (hash_chain.py).           *)
THEOREM ChainAlwaysVerifies == ChainSpec => []ChainVerifies
<1>1. ChainInv => ChainVerifies
  BY WholeRow DEF ChainInv, ChainVerifies, ChainBreaks
<1> QED
  BY <1>1, AlwaysInv, PTL

(* No append is refused by the unique constraint, damaged chain or not: the *)
(* advisory lock alone keeps the writers apart (append_event).             *)
THEOREM AppendsNeverRefused == ChainSpec => []NoAppendRefused
<1>1. ChainInv => NoAppendRefused
  BY DEF ChainInv
<1> QED
  BY <1>1, AlwaysInv, PTL

(* One damage, in a chain of any length and whatever is appended after it, *)
(* is found by verify_chain at the row it was done to, unless it is the    *)
(* loss of the last row: that is never found.                              *)
THEOREM DamageAlwaysShows == ChainSpec => []DamageShows
<1>1. ASSUME ChainInv, damages = 1, brokenAt = 0 PROVE ChainBreaks = {}
  BY <1>1 DEF ChainInv, Whole, NoneShows, ChainBreaks
<1>2. ASSUME ChainInv, damages = 1, brokenAt # 0
      PROVE  ChainBreaks # {} /\ FirstBreak = brokenAt
  <2>1. PICK b \in DOMAIN chain : BrokenFirstAt(b)
    BY <1>2 DEF ChainInv, Shown
  <2>2. DOMAIN chain \subseteq Nat
    BY <1>2, RowType DEF ChainInv, ChainTyped
  <2>3. b \in ChainBreaks /\ \A y \in ChainBreaks : b <= y
    BY <2>1, <2>2 DEF BrokenFirstAt, ChainBreaks
  <2>4. Min(ChainBreaks) = b
    <3>1. \A x \in ChainBreaks : (\A y \in ChainBreaks : x <= y) => x = b
      BY <2>2, <2>3 DEF ChainBreaks
    <3> QED
      BY <2>3, <3>1 DEF Min
  <2> QED
    BY <2>1, <2>3, <2>4 DEF BrokenFirstAt, FirstBreak
<1>3. ChainInv => DamageShows
  BY <1>1, <1>2 DEF DamageShows
<1> QED
  BY <1>3, AlwaysInv, PTL

-----------------------------------------------------------------------------
(***************************************************************************)
(* ConversationSession, for any requests that race or die: a conversation  *)
(* that says it is handed off has the event of its handoff.                *)
(***************************************************************************)

(* The inductive invariant.                                                *)

ChatPlaces == ChatOver \cup {"inbound", "count", "reply", "escalate", "hand off", "remember",
                             "route", "await", "event", "poll", "relay", "save"}
Statuses == {"active", "handed_off", "closed"}
Targets == ChatCalls \cup {"human"}
Chats == [at : ChatPlaces, status : Statuses, refusals : Nat, event : Targets]

ChatTyped ==
  /\ session \in Statuses
  /\ handoffs \in Seq(Targets)
  /\ refusals \in Nat
  /\ chat \in [ChatCalls -> Chats]

(* Not only the row: also every copy of it that may yet be saved.          *)
CopiesHaveEvents ==
  \A c \in ChatCalls : chat[c].status = "handed_off" => handoffs # <<>>

ChatInv == ChatTyped /\ HandedOffHasEvent /\ CopiesHaveEvents

-----------------------------------------------------------------------------

LEMMA ChatInitially == ChatInit => ChatInv
  BY DEF ChatInit, ChatInv, ChatTyped, CopiesHaveEvents, HandedOffHasEvent,
         ChatPlaces, ChatOver, Statuses, Targets, Chats

(* A step in which one request moves, keeps its copy's status or takes it  *)
(* from the row or makes it another than handed_off, and the row stays.    *)
LEMMA ChatMoves ==
  ASSUME ChatInv, NEW c \in ChatCalls, NEW x \in Chats,
         chat' = [chat EXCEPT ![c] = x],
         x.status \in {chat[c].status, session, "active", "closed"},
         session' = session, handoffs' = handoffs, refusals' \in Nat
  PROVE  ChatInv'
  BY DEF ChatInv, ChatTyped, CopiesHaveEvents, HandedOffHasEvent

(* A step in which an event is recorded, and the copy says handed_off.     *)
LEMMA ChatHandsOff ==
  ASSUME ChatInv, NEW c \in ChatCalls, NEW x \in Chats, NEW t \in Targets,
         chat' = [chat EXCEPT ![c] = x], handoffs' = Append(handoffs, t),
         session' = session, refusals' = refusals
  PROVE  ChatInv'
  <1>1. handoffs' \in Seq(Targets) /\ handoffs' # <<>>
    BY DEF ChatInv, ChatTyped
  <1> QED
    BY <1>1 DEF ChatInv, ChatTyped, CopiesHaveEvents, HandedOffHasEvent

(* A step in which a request moves on and changes nothing of its copy.     *)
LEMMA ChatGoes ==
  ASSUME ChatInv, NEW c \in ChatCalls, NEW from, NEW to \in ChatPlaces, Goes(c, from, to),
         session' = session, handoffs' = handoffs, refusals' \in Nat
  PROVE  ChatInv'
  <1> DEFINE x == [chat[c] EXCEPT !.at = to]
  <1>1. x \in Chats /\ x.status = chat[c].status
    BY DEF ChatInv, ChatTyped, Chats
  <1>2. chat' = [chat EXCEPT ![c] = x]
    BY DEF Goes, ChatInv, ChatTyped
  <1> HIDE DEF x
  <1> QED
    BY <1>1, <1>2, ChatMoves

-----------------------------------------------------------------------------

LEMMA ReadSessionKeeps ==
  ASSUME ChatInv, NEW c \in ChatCalls, NEW admitted, NEW to \in ChatPlaces,
         ReadSession(c, admitted, to)
  PROVE  ChatInv'
  <1> DEFINE x == [chat[c] EXCEPT !.at = IF session \in admitted THEN to ELSE "refused",
                                  !.status = session]
  <1>1. x \in Chats /\ x.status = session
    BY DEF ChatInv, ChatTyped, Chats, ChatPlaces, ChatOver
  <1>2. chat' = [chat EXCEPT ![c] = x]
    BY DEF ReadSession, ChatInv, ChatTyped
  <1>3. session' = session /\ handoffs' = handoffs /\ refusals' \in Nat
    BY DEF ReadSession, ChatInv, ChatTyped
  <1> HIDE DEF x
  <1> QED
    BY <1>1, <1>2, <1>3, ChatMoves

LEMMA CloseSessionKeeps ==
  ASSUME ChatInv, NEW c \in ChatCalls, CloseSession(c)
  PROVE  ChatInv'
  <1> DEFINE x == [chat[c] EXCEPT !.at = "save", !.status = "closed"]
  <1>1. x \in Chats /\ x.status = "closed"
    BY DEF ChatInv, ChatTyped, Chats, ChatPlaces, Statuses
  <1>2. chat' = [chat EXCEPT ![c] = x]
    BY DEF CloseSession, ChatInv, ChatTyped
  <1>3. session' = session /\ handoffs' = handoffs /\ refusals' \in Nat
    BY DEF CloseSession, ChatInv, ChatTyped
  <1> HIDE DEF x
  <1> QED
    BY <1>1, <1>2, <1>3, ChatMoves

LEMMA ReadRefusalsKeeps ==
  ASSUME ChatInv, NEW c \in ChatCalls, ReadRefusals(c)
  PROVE  ChatInv'
  <1> DEFINE x == [chat[c] EXCEPT !.at = "reply", !.refusals = refusals]
  <1>1. x \in Chats /\ x.status = chat[c].status
    BY DEF ChatInv, ChatTyped, Chats, ChatPlaces
  <1>2. chat' = [chat EXCEPT ![c] = x]
    BY DEF ReadRefusals, ChatInv, ChatTyped
  <1>3. session' = session /\ handoffs' = handoffs /\ refusals' \in Nat
    BY DEF ReadRefusals, ChatInv, ChatTyped
  <1> HIDE DEF x
  <1> QED
    BY <1>1, <1>2, <1>3, ChatMoves

LEMMA ReplyKeeps ==
  ASSUME ChatInv, NEW c \in ChatCalls, NEW kind, NEW asked \in BOOLEAN, Reply(c, kind, asked)
  PROVE  ChatInv'
  <1> DEFINE n == IF kind = "refusal" THEN chat[c].refusals + 1 ELSE 0
             to == IF asked \/ n >= MaxRefusals THEN "escalate" ELSE "remember"
             x == [chat[c] EXCEPT !.refusals = n, !.at = to]
  <1>1. n \in Nat
    BY DEF ChatInv, ChatTyped, Chats
  <1>2. x \in Chats /\ x.status = chat[c].status
    BY <1>1 DEF ChatInv, ChatTyped, Chats, ChatPlaces
  <1>3. chat' = [chat EXCEPT ![c] = x]
    BY DEF Reply, ChatInv, ChatTyped
  <1>4. session' = session /\ handoffs' = handoffs /\ refusals' \in Nat
    BY DEF Reply, ChatInv, ChatTyped
  <1> HIDE DEF x
  <1> QED
    BY <1>2, <1>3, <1>4, ChatMoves

LEMMA HandOffKeeps ==
  ASSUME ChatInv, NEW c \in ChatCalls, HandOff(c)
  PROVE  ChatInv'
  <1>1. PICK to \in {"save", "remember"} :
          chat' = [chat EXCEPT ![c].status = "handed_off", ![c].at = to]
    BY DEF HandOff, ChatInv, ChatTyped, Chats
  <1> DEFINE x == [chat[c] EXCEPT !.status = "handed_off", !.at = to]
  <1>2. x \in Chats
    BY <1>1 DEF ChatInv, ChatTyped, Chats, ChatPlaces, Statuses
  <1>3. chat' = [chat EXCEPT ![c] = x]
    BY <1>1 DEF ChatInv, ChatTyped
  <1>4. session' = session /\ refusals' = refusals /\ handoffs' = Append(handoffs, "human")
    BY DEF HandOff
  <1> HIDE DEF x
  <1> QED
    BY <1>2, <1>3, <1>4, ChatHandsOff DEF Targets

LEMMA EscalateKeeps ==
  ASSUME ChatInv, NEW c \in ChatCalls, Escalate(c)
  PROVE  ChatInv'
  <1> DEFINE x == [chat[c] EXCEPT !.at = "save", !.status = "handed_off"]
  <1>1. x \in Chats
    BY DEF ChatInv, ChatTyped, Chats, ChatPlaces, Statuses
  <1>2. chat' = [chat EXCEPT ![c] = x]
    BY DEF Escalate, ChatInv, ChatTyped
  <1>3. session' = session /\ refusals' = refusals /\ handoffs' = Append(handoffs, c)
    BY DEF Escalate
  <1> HIDE DEF x
  <1> QED
    BY <1>1, <1>2, <1>3, ChatHandsOff DEF Targets

LEMMA ReadEventKeeps ==
  ASSUME ChatInv, NEW c \in ChatCalls, ReadEvent(c)
  PROVE  ChatInv'
  <1>1. handoffs # <<>> => Last(handoffs) \in Targets
    BY DEF ChatInv, ChatTyped, Last
  <1>2. PICK to \in {"refused", "poll"}, t \in Targets :
          chat' = [chat EXCEPT ![c].at = to, ![c].event = t]
    BY <1>1 DEF ReadEvent, Targets
  <1> DEFINE x == [chat[c] EXCEPT !.at = to, !.event = t]
  <1>3. x \in Chats /\ x.status = chat[c].status
    BY <1>2 DEF ChatInv, ChatTyped, Chats, ChatPlaces, ChatOver
  <1>4. chat' = [chat EXCEPT ![c] = x]
    BY <1>2 DEF ChatInv, ChatTyped
  <1>5. session' = session /\ handoffs' = handoffs /\ refusals' \in Nat
    BY DEF ReadEvent, ChatInv, ChatTyped
  <1> HIDE DEF x
  <1> QED
    BY <1>3, <1>4, <1>5, ChatMoves

LEMMA RelayKeeps ==
  ASSUME ChatInv, NEW c \in ChatCalls, Relay(c)
  PROVE  ChatInv'
  <1> DEFINE x == [chat[c] EXCEPT !.at = "save", !.status = "active"]
  <1>1. x \in Chats /\ x.status = "active"
    BY DEF ChatInv, ChatTyped, Chats, ChatPlaces, Statuses
  <1>2. chat' = [chat EXCEPT ![c] = x]
    BY DEF Relay, ChatInv, ChatTyped
  <1>3. session' = session /\ handoffs' = handoffs /\ refusals' \in Nat
    BY DEF Relay, ChatInv, ChatTyped
  <1> HIDE DEF x
  <1> QED
    BY <1>1, <1>2, <1>3, ChatMoves

(* The row takes the status of a copy.                                     *)
LEMMA SaveSessionKeeps ==
  ASSUME ChatInv, NEW c \in ChatCalls, SaveSession(c)
  PROVE  ChatInv'
  <1> DEFINE x == [chat[c] EXCEPT !.at = "done"]
  <1>1. x \in Chats /\ x.status = chat[c].status
    BY DEF ChatInv, ChatTyped, Chats, ChatPlaces, ChatOver
  <1>2. chat' = [chat EXCEPT ![c] = x]
    BY DEF SaveSession, Goes, ChatInv, ChatTyped
  <1>3. session' = chat[c].status /\ handoffs' = handoffs /\ refusals' = refusals
    BY DEF SaveSession
  <1>4. chat[c].status \in Statuses
    BY DEF ChatInv, ChatTyped, Chats
  <1> HIDE DEF x
  <1> QED
    BY <1>1, <1>2, <1>3, <1>4 DEF ChatInv, ChatTyped, CopiesHaveEvents, HandedOffHasEvent

LEMMA ChatDiesKeeps ==
  ASSUME ChatInv, NEW c \in ChatCalls, ChatDies(c)
  PROVE  ChatInv'
  <1> DEFINE x == [chat[c] EXCEPT !.at = "died"]
  <1>1. x \in Chats /\ x.status = chat[c].status
    BY DEF ChatInv, ChatTyped, Chats, ChatPlaces, ChatOver
  <1>2. chat' = [chat EXCEPT ![c] = x]
    BY DEF ChatDies, ChatInv, ChatTyped
  <1>3. session' = session /\ handoffs' = handoffs /\ refusals' \in Nat
    BY DEF ChatDies, ChatInv, ChatTyped
  <1> HIDE DEF x
  <1> QED
    BY <1>1, <1>2, <1>3, ChatMoves

-----------------------------------------------------------------------------

LEMMA ChatStep == ChatInv /\ [ChatNext]_chatVars => ChatInv'
  <1> SUFFICES ASSUME ChatInv, [ChatNext]_chatVars
               PROVE  ChatInv'
    OBVIOUS
  <1>t. refusals \in Nat
    BY DEF ChatInv, ChatTyped
  <1>1. ASSUME NEW c \in ChatCalls, SendMessage(c) \/ Resume(c) \/ RequestHandoff(c)
        PROVE  ChatInv'
    <2>1. {"inbound", "event", "hand off"} \subseteq ChatPlaces
      BY DEF ChatPlaces
    <2> QED
      BY <1>1, <2>1, ReadSessionKeeps DEF SendMessage, Resume, RequestHandoff
  <1>2. ASSUME NEW c \in ChatCalls, Inbound(c)
        PROVE  ChatInv'
    <2>1. PICK to \in {"route", "count"} : Goes(c, "inbound", to)
      BY <1>2 DEF Inbound
    <2>2. session' = session /\ handoffs' = handoffs /\ refusals' = refusals
      BY <1>2 DEF Inbound
    <2> QED
      BY <1>t, <2>1, <2>2, ChatGoes DEF ChatPlaces
  <1>3. ASSUME NEW c \in ChatCalls, SaveRefusals(c)
        PROVE  ChatInv'
    <2>1. chat[c].refusals \in Nat
      BY DEF ChatInv, ChatTyped, Chats
    <2> QED
      BY <1>3, <2>1, ChatGoes DEF SaveRefusals, ChatPlaces
  <1>4. ASSUME NEW c \in ChatCalls, NEW ending, RouteTurn(c, ending)
        PROVE  ChatInv'
    <2>1. PICK to \in {"await", "save"} : Goes(c, "route", to)
      BY <1>4 DEF RouteTurn
    <2>2. session' = session /\ handoffs' = handoffs /\ refusals' = refusals
      BY <1>4 DEF RouteTurn
    <2> QED
      BY <1>t, <2>1, <2>2, ChatGoes DEF ChatPlaces
  <1>5. ASSUME NEW c \in ChatCalls, PollInstance(c)
        PROVE  ChatInv'
    <2>1. PICK to \in {"relay", "refused"} : Goes(c, "poll", to)
      BY <1>5 DEF PollInstance
    <2>2. session' = session /\ handoffs' = handoffs /\ refusals' = refusals
      BY <1>5 DEF PollInstance
    <2> QED
      BY <1>t, <2>1, <2>2, ChatGoes DEF ChatPlaces, ChatOver
  <1>6. ASSUME NEW c \in ChatCalls, NEW ending, InstanceEnds(c, ending)
        PROVE  ChatInv'
    BY <1>6 DEF InstanceEnds, ChatInv, ChatTyped, CopiesHaveEvents, HandedOffHasEvent
  <1>7. CASE StateExpires
    BY <1>7 DEF StateExpires, ChatInv, ChatTyped, CopiesHaveEvents, HandedOffHasEvent
  <1>8. CASE UNCHANGED chatVars
    BY <1>8 DEF chatVars, ChatInv, ChatTyped, CopiesHaveEvents, HandedOffHasEvent
  <1> QED
    BY <1>1, <1>2, <1>3, <1>4, <1>5, <1>6, <1>7, <1>8, CloseSessionKeeps, ReadRefusalsKeeps,
       ReplyKeeps, HandOffKeeps, EscalateKeeps, ReadEventKeeps, RelayKeeps, SaveSessionKeeps,
       ChatDiesKeeps
    DEF ChatNext

(* A conversation that says it is handed off has a handoff event, whatever *)
(* turns, handoffs, resumptions and closures race or die                   *)
(* (core/session_manager.py:337-345 has nothing else to resume from).      *)
THEOREM HandedOffHasEventHolds ==
  ChatSpec => []HandedOffHasEvent
  BY ChatInitially, ChatStep, PTL DEF ChatSpec, ChatInv

-----------------------------------------------------------------------------
(***************************************************************************)
(* ConversationSession, while requests come one after the other: refusals  *)
(* in a row hand the conversation off, and every escalation is answered    *)
(* once.                                                                   *)
(***************************************************************************)

(* What one more message does to the counts.                               *)

Kinds == {"inbound", "answer", "refusal", "escalation", "relay"}

LEMMA SaidMore ==
  ASSUME NEW m \in Seq(Kinds), NEW x \in Kinds
  PROVE  /\ Append(m, x) \in Seq(Kinds)
         /\ \A kind : /\ Said(m, kind) \in Nat
                      /\ Said(Append(m, x), kind) = IF x = kind THEN Said(m, kind) + 1 ELSE Said(m, kind)
<1>1. PICK n \in Nat : n = Len(m)
  BY LenProperties
<1>2. PICK t : t = Append(m, x)
  OBVIOUS
<1>3. /\ DOMAIN m = 1..n /\ DOMAIN t = 1..(n + 1) /\ t \in Seq(Kinds)
      /\ t[n + 1] = x /\ \A i \in 1..n : t[i] = m[i]
  BY <1>1, <1>2, LenProperties
<1>4. ASSUME NEW kind
      PROVE  /\ Said(m, kind) \in Nat
             /\ Said(t, kind) = IF x = kind THEN Said(m, kind) + 1 ELSE Said(m, kind)
  <2>1. PICK A : A = {i \in 1..n : m[i] = kind}
    OBVIOUS
  <2>2. A \in SUBSET (1..n) /\ IsFiniteSet(1..n)
    BY <2>1, FS_Interval
  <2>3. IsFiniteSet(A) /\ Cardinality(A) \in Nat /\ n + 1 \notin A
    <3>1. IsFiniteSet(A)
      BY <2>2, FS_Subset
    <3>2. n + 1 \notin 1..n
      OBVIOUS
    <3> QED
      BY <2>2, <3>1, <3>2, FS_CardinalityType
  <2>4. Said(m, kind) = Cardinality(A)
    BY <1>3, <2>1 DEF Said
  <2>5. CASE x = kind
    <3>1. {i \in DOMAIN t : t[i] = kind} = A \cup {n + 1}
      BY <1>3, <2>1, <2>5
    <3>2. Cardinality(A \cup {n + 1}) = Cardinality(A) + 1
      BY <2>3, FS_AddElement
    <3> QED
      BY <2>3, <2>4, <2>5, <3>1, <3>2 DEF Said
  <2>6. CASE x # kind
    <3>1. {i \in DOMAIN t : t[i] = kind} = A
      BY <1>3, <2>1, <2>6
    <3> QED
      BY <2>3, <2>4, <2>6, <3>1 DEF Said
  <2> QED
    BY <2>5, <2>6
<1> QED
  BY <1>2, <1>3, <1>4

LEMMA RefusalsMore ==
  ASSUME NEW m \in Seq(Kinds), NEW x \in Kinds
  PROVE  /\ Cardinality(LastRefusals(m)) \in Nat
         /\ x = "inbound" => Cardinality(LastRefusals(Append(m, x))) = Cardinality(LastRefusals(m))
         /\ x = "refusal" => Cardinality(LastRefusals(Append(m, x))) = Cardinality(LastRefusals(m)) + 1
         /\ x \notin {"inbound", "refusal"} => Cardinality(LastRefusals(Append(m, x))) = 0
<1>1. PICK n \in Nat : n = Len(m)
  BY LenProperties
<1>2. PICK t : t = Append(m, x)
  OBVIOUS
<1>3. /\ DOMAIN m = 1..n /\ DOMAIN t = 1..(n + 1) /\ Len(t) = n + 1
      /\ t[n + 1] = x /\ \A i \in 1..n : t[i] = m[i]
  BY <1>1, <1>2, LenProperties
<1>4. \A i \in 1..n : i..(n + 1) = (i..n) \cup {n + 1} /\ \A j \in i..n : j \in 1..n
  OBVIOUS
<1>5. /\ LastRefusals(m) \in SUBSET (1..n) /\ IsFiniteSet(1..n)
      /\ n + 1 \notin LastRefusals(m)
  BY <1>3, FS_Interval DEF LastRefusals
<1>6. IsFiniteSet(LastRefusals(m)) /\ Cardinality(LastRefusals(m)) \in Nat
  BY <1>5, FS_Subset, FS_CardinalityType
<1>7. ASSUME NEW i \in 1..n
      PROVE  i \in LastRefusals(t) <=> i \in LastRefusals(m) /\ x \in {"refusal", "inbound"}
  <2>1. i \in LastRefusals(t) <=>
          t[i] = "refusal" /\ \A j \in (i..n) \cup {n + 1} : t[j] \in {"refusal", "inbound"}
    BY <1>3, <1>4 DEF LastRefusals
  <2>2. i \in LastRefusals(m) <=> m[i] = "refusal" /\ \A j \in i..n : m[j] \in {"refusal", "inbound"}
    BY <1>1, <1>3 DEF LastRefusals
  <2> QED
    BY <1>3, <1>4, <2>1, <2>2
<1>8. n + 1 \in LastRefusals(t) <=> x = "refusal"
  <2>1. \A j \in (n + 1)..(n + 1) : j = n + 1
    OBVIOUS
  <2> QED
    BY <1>3, <2>1 DEF LastRefusals
<1>9. LastRefusals(t) \subseteq (1..n) \cup {n + 1}
  BY <1>3 DEF LastRefusals
<1>10. CASE x = "inbound"
  <2>1. LastRefusals(t) = LastRefusals(m)
    BY <1>5, <1>7, <1>8, <1>9, <1>10
  <2> QED
    BY <1>2, <1>6, <1>10, <2>1
<1>11. CASE x = "refusal"
  <2>1. LastRefusals(t) = LastRefusals(m) \cup {n + 1}
    BY <1>5, <1>7, <1>8, <1>9, <1>11
  <2>2. Cardinality(LastRefusals(m) \cup {n + 1}) = Cardinality(LastRefusals(m)) + 1
    BY <1>5, <1>6, FS_AddElement
  <2> QED
    BY <1>2, <1>6, <1>11, <2>1, <2>2
<1>12. CASE x \notin {"inbound", "refusal"}
  <2>1. LastRefusals(t) = {}
    BY <1>7, <1>8, <1>9, <1>12
  <2> QED
    BY <1>2, <1>6, <1>12, <2>1, FS_EmptySet
<1> QED
  BY <1>10, <1>11, <1>12

-----------------------------------------------------------------------------
(* What the rows say while requests come one after the other: of the one   *)
(* that is under way, if one is.                                           *)

Settled(status) ==
  /\ status = "active" => Said(messages, "relay") = Said(messages, "escalation")
  /\ status = "handed_off" /\ Last(handoffs) # "human" =>
       Said(messages, "escalation") = Said(messages, "relay") + 1

Count == Cardinality(LastRefusals(messages))

RelaysFit(row) ==
  /\ Said(messages, "relay") <= Said(messages, "escalation")
  /\ row.at \notin {"await", "remember", "save"} => Settled(session)
  /\ row.at \in {"inbound", "route", "count", "reply", "escalate", "hand off"} =>
       row.status = "active" /\ session = "active"
  /\ row.at \in {"remember", "save"} => Settled(row.status)
  /\ row.at = "event" => session = "handed_off"
  /\ row.at \in {"await", "poll", "relay"} =>
       Said(messages, "escalation") = Said(messages, "relay") + 1

RefusalsFit(row) ==
  ~routed =>
    /\ row.at \notin {"route", "await", "event", "poll", "relay"}
    /\ row.at \notin {"escalate", "remember"} => refusals = Count
    /\ row.at \notin {"escalate", "remember", "save"} /\ session = "active" => Count < MaxRefusals
    /\ row.at \in {"reply", "escalate", "remember"} => row.refusals = Count
    /\ row.at \in {"remember", "save"} /\ row.status = "active" => Count < MaxRefusals

Alone(c) == \A d \in ChatCalls \ {c} : chat[d].at \in ChatOver

CalmInv ==
  /\ messages \in Seq(Kinds)
  /\ calm => \E c \in ChatCalls : Alone(c) /\ RelaysFit(chat[c]) /\ RefusalsFit(chat[c])

LEMMA CalmInitially == ChatInit => CalmInv
<1> SUFFICES ASSUME ChatInit PROVE CalmInv
  OBVIOUS
<1>1. messages = <<>> /\ session = "active" /\ refusals = 0 /\ \A c \in ChatCalls : chat[c].at = "idle"
  BY DEF ChatInit
<1>2. \A kind : Said(<<>>, kind) = 0
  <2>1. \A kind : {i \in DOMAIN <<>> : <<>>[i] = kind} = {}
    OBVIOUS
  <2> QED
    BY <2>1, FS_EmptySet DEF Said
<1>3. Cardinality(LastRefusals(<<>>)) = 0
  <2>1. LastRefusals(<<>>) = {}
    BY DEF LastRefusals
  <2> QED
    BY <2>1, FS_EmptySet
<1>4. PICK c \in ChatCalls : chat[c].at = "idle"
  BY <1>1, ChatAssumption
<1>5. Alone(c)
  BY <1>1 DEF Alone, ChatOver
<1>6. RelaysFit(chat[c])
  BY <1>1, <1>2, <1>4 DEF RelaysFit, Settled
<1>7. RefusalsFit(chat[c])
  BY <1>1, <1>3, <1>4, ChatAssumption DEF RefusalsFit, Count
<1> QED
  BY <1>1, <1>5, <1>6, <1>7 DEF CalmInv

(* The request that moves, or begins when all is quiet, is that one.       *)
LEMMA CalmTurn ==
  ASSUME CalmInv, calm, NEW c \in ChatCalls, chat[c].at \notin ChatOver \/ (chat[c].at = "idle" /\ Quiet)
  PROVE  Alone(c) /\ RelaysFit(chat[c]) /\ RefusalsFit(chat[c])
<1>1. PICK e \in ChatCalls : Alone(e) /\ RelaysFit(chat[e]) /\ RefusalsFit(chat[e])
  BY DEF CalmInv
<1>2. CASE chat[c].at \notin ChatOver
  BY <1>1, <1>2 DEF Alone
<1>3. CASE chat[c].at = "idle" /\ Quiet
  <2>1. chat[e].at \in ChatOver /\ Alone(c)
    BY <1>3 DEF Quiet, Alone
  <2>2. RelaysFit(chat[c])
    BY <1>1, <1>3, <2>1 DEF RelaysFit, ChatOver
  <2>3. RefusalsFit(chat[c])
    BY <1>1, <1>3, <2>1 DEF RefusalsFit, ChatOver
  <2> QED
    BY <2>1, <2>2, <2>3
<1> QED
  BY <1>2, <1>3

LEMMA CalmMoves ==
  ASSUME ChatInv, CalmInv, NEW c \in ChatCalls, NEW x,
         chat' = [chat EXCEPT ![c] = x], messages' \in Seq(Kinds),
         calm' => calm /\ Alone(c) /\ RelaysFit(x)' /\ RefusalsFit(x)'
  PROVE  CalmInv'
<1>1. chat'[c] = x /\ \A d \in ChatCalls \ {c} : chat'[d] = chat[d]
  BY DEF ChatInv, ChatTyped
<1>2. calm' => Alone(c)'
  BY <1>1 DEF Alone
<1>3. calm' => RelaysFit(chat[c])' /\ RefusalsFit(chat[c])'
  BY <1>1 DEF RelaysFit, RefusalsFit
<1> QED
  BY <1>2, <1>3 DEF CalmInv

-----------------------------------------------------------------------------

LEMMA ChatRow ==
  ASSUME ChatInv, NEW c \in ChatCalls
  PROVE  /\ chat \in [ChatCalls -> Chats] /\ chat[c] \in Chats
         /\ chat[c].refusals \in Nat /\ refusals \in Nat /\ session \in Statuses
         /\ handoffs \in Seq(Targets)
BY DEF ChatInv, ChatTyped, Chats

(* A step that touches neither the conversation nor the count.             *)
LEMMA SameBooks ==
  ASSUME ChatInv, CalmInv, NEW c \in ChatCalls, NEW x, chat' = [chat EXCEPT ![c] = x],
         UNCHANGED <<routed, session, messages, handoffs, refusals>>,
         chat[c].at \notin ChatOver \/ (chat[c].at = "idle" /\ (calm' => Quiet)), calm' => calm,
         calm /\ RelaysFit(chat[c]) /\ RefusalsFit(chat[c]) => RelaysFit(x) /\ RefusalsFit(x)
  PROVE  CalmInv'
<1>1. messages' \in Seq(Kinds)
  BY DEF CalmInv
<1>2. calm' => Alone(c) /\ RelaysFit(chat[c]) /\ RefusalsFit(chat[c])
  BY CalmTurn
<1>3. RelaysFit(x) => RelaysFit(x)'
  BY DEF RelaysFit, Settled
<1>4. RefusalsFit(x) => RefusalsFit(x)'
  BY DEF RefusalsFit, Count
<1> QED
  BY <1>1, <1>2, <1>3, <1>4, CalmMoves

LEMMA ReadSessionCalm ==
  ASSUME ChatInv, CalmInv, NEW c \in ChatCalls, NEW admitted, NEW to, ReadSession(c, admitted, to),
         \/ to \in {"inbound", "hand off"} /\ admitted = {"active"}
         \/ to = "event" /\ admitted = IF routed THEN {"handed_off"} ELSE {}
  PROVE  CalmInv'
<1>1. PICK at : at = IF session \in admitted THEN to ELSE "refused"
  OBVIOUS
<1>0. PICK x : x = [chat[c] EXCEPT !.at = at, !.status = session]
  OBVIOUS
<1>2. chat' = [chat EXCEPT ![c] = x]
  BY <1>0, <1>1, ChatRow DEF ReadSession
<1>3. x.at = at /\ x.status = session /\ x.refusals = chat[c].refusals
  BY <1>0, ChatRow DEF Chats
<1>4. /\ chat[c].at = "idle" /\ (calm' => calm /\ Quiet)
      /\ UNCHANGED <<routed, session, messages, handoffs, refusals>>
  BY DEF ReadSession
<1>5. \/ at = "refused"
      \/ at \in {"inbound", "hand off"} /\ session = "active"
      \/ at = "event" /\ session = "handed_off" /\ routed
  BY <1>1
<1>6. RelaysFit(chat[c]) => RelaysFit(x)
  BY <1>3, <1>4, <1>5 DEF RelaysFit
<1>7. RefusalsFit(chat[c]) => RefusalsFit(x)
  BY <1>3, <1>4, <1>5 DEF RefusalsFit
<1> QED
  BY <1>2, <1>4, <1>6, <1>7, SameBooks

LEMMA CloseSessionCalm ==
  ASSUME ChatInv, CalmInv, NEW c \in ChatCalls, CloseSession(c)
  PROVE  CalmInv'
<1>0. PICK x : x = [chat[c] EXCEPT !.at = "save", !.status = "closed"]
  OBVIOUS
<1>1. chat' = [chat EXCEPT ![c] = x]
  BY <1>0, ChatRow DEF CloseSession
<1>2. x.at = "save" /\ x.status = "closed"
  BY <1>0, ChatRow DEF Chats
<1>3. /\ chat[c].at = "idle" /\ (calm' => calm /\ Quiet)
      /\ UNCHANGED <<routed, session, messages, handoffs, refusals>>
  BY DEF CloseSession
<1>4. RelaysFit(chat[c]) => RelaysFit(x)
  BY <1>2, <1>3 DEF RelaysFit, Settled
<1>5. RefusalsFit(chat[c]) => RefusalsFit(x)
  BY <1>2, <1>3 DEF RefusalsFit
<1> QED
  BY <1>1, <1>3, <1>4, <1>5, SameBooks

LEMMA ReadRefusalsCalm ==
  ASSUME ChatInv, CalmInv, NEW c \in ChatCalls, ReadRefusals(c)
  PROVE  CalmInv'
<1>0. PICK x : x = [chat[c] EXCEPT !.at = "reply", !.refusals = refusals]
  OBVIOUS
<1>1. chat' = [chat EXCEPT ![c] = x]
  BY <1>0, ChatRow DEF ReadRefusals
<1>2. x.at = "reply" /\ x.status = chat[c].status /\ x.refusals = refusals
  BY <1>0, ChatRow DEF Chats
<1>3. /\ chat[c].at = "count" /\ chat[c].at \notin ChatOver
      /\ UNCHANGED <<routed, session, messages, handoffs, refusals, calm>>
  BY DEF ReadRefusals, ChatOver
<1>4. RelaysFit(chat[c]) => RelaysFit(x)
  BY <1>2, <1>3 DEF RelaysFit
<1>5. RefusalsFit(chat[c]) => RefusalsFit(x)
  BY <1>2, <1>3 DEF RefusalsFit
<1> QED
  BY <1>1, <1>3, <1>4, <1>5, SameBooks

LEMMA ReadEventCalm ==
  ASSUME ChatInv, CalmInv, NEW c \in ChatCalls, ReadEvent(c)
  PROVE  CalmInv'
<1>1. PICK at : at = IF handoffs = <<>> \/ Last(handoffs) = "human" THEN "refused" ELSE "poll"
  OBVIOUS
<1>2. PICK event : event = IF handoffs = <<>> THEN "human" ELSE Last(handoffs)
  OBVIOUS
<1>0. PICK x : x = [chat[c] EXCEPT !.at = at, !.event = event]
  OBVIOUS
<1>3. chat' = [chat EXCEPT ![c] = x]
  BY <1>0, <1>1, <1>2, ChatRow DEF ReadEvent
<1>4. x.at = at /\ x.status = chat[c].status /\ x.refusals = chat[c].refusals
  BY <1>0, ChatRow DEF Chats
<1>5. /\ chat[c].at = "event" /\ chat[c].at \notin ChatOver
      /\ UNCHANGED <<routed, session, messages, handoffs, refusals, calm>>
  BY DEF ReadEvent, ChatOver
<1>6. RelaysFit(chat[c]) => RelaysFit(x)
  BY <1>1, <1>4, <1>5 DEF RelaysFit, Settled
<1>7. RefusalsFit(chat[c]) => RefusalsFit(x)
  BY <1>4, <1>5 DEF RefusalsFit
<1> QED
  BY <1>3, <1>5, <1>6, <1>7, SameBooks

LEMMA PollInstanceCalm ==
  ASSUME ChatInv, CalmInv, NEW c \in ChatCalls, PollInstance(c)
  PROVE  CalmInv'
<1>1. PICK to \in {"relay", "refused"} : Goes(c, "poll", to)
  BY DEF PollInstance
<1>0. PICK x : x = [chat[c] EXCEPT !.at = to]
  OBVIOUS
<1>2. chat' = [chat EXCEPT ![c] = x]
  BY <1>0, <1>1, ChatRow DEF Goes
<1>3. x.at = to /\ x.status = chat[c].status /\ x.refusals = chat[c].refusals
  BY <1>0, ChatRow DEF Chats
<1>4. /\ chat[c].at = "poll" /\ chat[c].at \notin ChatOver
      /\ UNCHANGED <<routed, session, messages, handoffs, refusals, calm>>
  BY <1>1 DEF PollInstance, Goes, ChatOver
<1>5. RelaysFit(chat[c]) => RelaysFit(x)
  BY <1>3, <1>4 DEF RelaysFit
<1>6. RefusalsFit(chat[c]) => RefusalsFit(x)
  BY <1>3, <1>4 DEF RefusalsFit
<1> QED
  BY <1>2, <1>4, <1>5, <1>6, SameBooks

-----------------------------------------------------------------------------
(* Steps that add a message.                                               *)

(* The counts before and after one more message.                           *)
LEMMA CountsAfter ==
  ASSUME CalmInv, NEW kind \in Kinds, Says(kind)
  PROVE  /\ messages' \in Seq(Kinds)
         /\ Said(messages, "relay") \in Nat /\ Said(messages, "escalation") \in Nat /\ Count \in Nat
         /\ Said(messages', "relay") = Said(messages, "relay") + (IF kind = "relay" THEN 1 ELSE 0)
         /\ Said(messages', "escalation") = Said(messages, "escalation") + (IF kind = "escalation" THEN 1 ELSE 0)
         /\ kind = "inbound" => Count' = Count
         /\ kind = "refusal" => Count' = Count + 1
         /\ kind = "answer" => Count' = 0
<1>1. PICK m \in Seq(Kinds) : m = messages /\ messages' = Append(m, kind)
  BY DEF CalmInv, Says
<1>2. PICK n : n = Append(m, kind)
  OBVIOUS
<1>3. /\ n \in Seq(Kinds)
      /\ Said(m, "relay") \in Nat /\ Said(m, "escalation") \in Nat
      /\ Said(n, "relay") = IF kind = "relay" THEN Said(m, "relay") + 1 ELSE Said(m, "relay")
      /\ Said(n, "escalation") = IF kind = "escalation" THEN Said(m, "escalation") + 1 ELSE Said(m, "escalation")
  BY <1>2, SaidMore
<1>4. PICK a, b : a = Cardinality(LastRefusals(m)) /\ b = Cardinality(LastRefusals(n))
  OBVIOUS
<1>5. /\ a \in Nat /\ (kind = "inbound" => b = a) /\ (kind = "refusal" => b = a + 1)
      /\ (kind = "answer" => b = 0)
  BY <1>2, <1>4, RefusalsMore
<1>6. Count = a /\ Count' = b
  BY <1>1, <1>2, <1>4 DEF Count
<1> QED
  BY <1>1, <1>2, <1>3, <1>5, <1>6

LEMMA InboundCalm ==
  ASSUME ChatInv, CalmInv, NEW c \in ChatCalls, Inbound(c)
  PROVE  CalmInv'
<1>1. PICK to \in {"route", "count"} : Goes(c, "inbound", to) /\ (to = "route" => routed)
  BY DEF Inbound
<1>0. PICK x : x = [chat[c] EXCEPT !.at = to]
  OBVIOUS
<1>2. chat' = [chat EXCEPT ![c] = x]
  BY <1>0, <1>1, ChatRow DEF Goes
<1>3. x.at = to /\ x.status = chat[c].status /\ x.refusals = chat[c].refusals
  BY <1>0, ChatRow DEF Chats
<1>4. /\ chat[c].at = "inbound" /\ chat[c].at \notin ChatOver /\ Says("inbound")
      /\ UNCHANGED <<routed, session, handoffs, refusals, calm>>
  BY <1>1 DEF Inbound, Goes, ChatOver
<1>5. /\ messages' \in Seq(Kinds)
      /\ Said(messages', "relay") = Said(messages, "relay")
      /\ Said(messages', "escalation") = Said(messages, "escalation") /\ Count' = Count
  BY <1>4, CountsAfter DEF Kinds
<1>6. RelaysFit(chat[c]) => RelaysFit(x)'
  BY <1>3, <1>4, <1>5 DEF RelaysFit, Settled
<1>7. RefusalsFit(chat[c]) => RefusalsFit(x)'
  BY <1>1, <1>3, <1>4, <1>5 DEF RefusalsFit
<1> QED
  BY <1>2, <1>4, <1>5, <1>6, <1>7, CalmTurn, CalmMoves

LEMMA ReplyCalm ==
  ASSUME ChatInv, CalmInv, NEW c \in ChatCalls, NEW kind \in {"answer", "refusal"}, NEW asked \in BOOLEAN,
         Reply(c, kind, asked)
  PROVE  CalmInv'
<1>1. PICK count : count = IF kind = "refusal" THEN chat[c].refusals + 1 ELSE 0
  OBVIOUS
<1>2. PICK at : at = IF asked \/ count >= MaxRefusals THEN "escalate" ELSE "remember"
  OBVIOUS
<1>0. PICK x : x = [chat[c] EXCEPT !.refusals = count, !.at = at]
  OBVIOUS
<1>3. chat' = [chat EXCEPT ![c] = x]
  BY <1>0, <1>1, <1>2, ChatRow DEF Reply
<1>4. x.at = at /\ x.status = chat[c].status /\ x.refusals = count
  BY <1>0, ChatRow DEF Chats
<1>5. /\ chat[c].at = "reply" /\ chat[c].at \notin ChatOver /\ Says(kind)
      /\ UNCHANGED <<routed, session, handoffs, refusals, calm>>
  BY DEF Reply, ChatOver
<1>6. kind \in Kinds /\ kind # "relay" /\ kind # "escalation"
  BY DEF Kinds
<1>7. /\ messages' \in Seq(Kinds)
      /\ Said(messages', "relay") = Said(messages, "relay")
      /\ Said(messages', "escalation") = Said(messages, "escalation")
      /\ Count \in Nat /\ (kind = "refusal" => Count' = Count + 1) /\ (kind = "answer" => Count' = 0)
  BY <1>5, <1>6, CountsAfter
<1>8. /\ at \in {"escalate", "remember"} /\ count \in Nat
      /\ at = "remember" => count < MaxRefusals
  BY <1>1, <1>2, ChatRow, ChatAssumption
<1>9. RelaysFit(chat[c]) => RelaysFit(x)'
  BY <1>4, <1>5, <1>7, <1>8 DEF RelaysFit, Settled
<1>10. RefusalsFit(chat[c]) /\ ~routed => chat[c].refusals = Count
  BY <1>5 DEF RefusalsFit
<1>11. RefusalsFit(chat[c]) /\ ~routed => count = Count'
  BY <1>1, <1>7, <1>10
<1>12. RefusalsFit(chat[c]) => RefusalsFit(x)'
  BY <1>4, <1>5, <1>8, <1>11 DEF RefusalsFit
<1> QED
  BY <1>3, <1>5, <1>7, <1>9, <1>12, CalmTurn, CalmMoves

LEMMA RouteTurnCalm ==
  ASSUME ChatInv, CalmInv, NEW c \in ChatCalls, NEW ending \in {"paused", "completed", "failed"},
         RouteTurn(c, ending)
  PROVE  CalmInv'
<1>1. PICK to : to = IF ending = "paused" THEN "await" ELSE "save"
  OBVIOUS
<1>2. PICK kind : kind = CASE ending = "paused" -> "escalation" [] ending = "completed" -> "answer"
                           [] OTHER -> "refusal"
  OBVIOUS
<1>0. PICK x : x = [chat[c] EXCEPT !.at = to]
  OBVIOUS
<1>3. /\ chat[c].at = "route" /\ chat[c].at \notin ChatOver /\ Says(kind)
      /\ UNCHANGED <<routed, session, handoffs, refusals, calm>>
      /\ chat' = [chat EXCEPT ![c] = x]
  BY <1>0, <1>1, <1>2, ChatRow DEF RouteTurn, Goes, ChatOver
<1>4. x.at = to /\ x.status = chat[c].status /\ x.refusals = chat[c].refusals
  BY <1>0, ChatRow DEF Chats
<1>5. /\ kind \in Kinds /\ kind # "relay"
      /\ \/ to = "await" /\ kind = "escalation"
         \/ to = "save" /\ kind # "escalation"
  BY <1>1, <1>2 DEF Kinds
<1>6. /\ messages' \in Seq(Kinds)
      /\ Said(messages, "relay") \in Nat /\ Said(messages, "escalation") \in Nat
      /\ Said(messages', "relay") = Said(messages, "relay")
      /\ Said(messages', "escalation") = Said(messages, "escalation") + (IF kind = "escalation" THEN 1 ELSE 0)
  BY <1>3, <1>5, CountsAfter
<1>7. RelaysFit(chat[c]) => RelaysFit(x)'
  <2> SUFFICES ASSUME RelaysFit(chat[c]) PROVE RelaysFit(x)'
    OBVIOUS
  <2>1. /\ Said(messages, "relay") = Said(messages, "escalation") /\ chat[c].status = "active"
    BY <1>3 DEF RelaysFit, Settled
  <2>2. CASE to = "await"
    <3>1. /\ Said(messages', "escalation") = Said(messages', "relay") + 1
          /\ Said(messages', "relay") <= Said(messages', "escalation")
      BY <1>5, <1>6, <2>1, <2>2
    <3> QED
      BY <1>4, <2>2, <3>1 DEF RelaysFit
  <2>3. CASE to = "save"
    <3>1. /\ Said(messages', "escalation") = Said(messages', "relay")
          /\ Said(messages', "relay") <= Said(messages', "escalation")
      BY <1>5, <1>6, <2>1, <2>3
    <3> QED
      BY <1>4, <2>1, <2>3, <3>1 DEF RelaysFit, Settled
  <2> QED
    BY <1>5, <2>2, <2>3
<1>8. RefusalsFit(chat[c]) => RefusalsFit(x)'
  BY <1>3 DEF RefusalsFit
<1> QED
  BY <1>3, <1>6, <1>7, <1>8, CalmTurn, CalmMoves

LEMMA RelayCalm ==
  ASSUME ChatInv, CalmInv, NEW c \in ChatCalls, Relay(c)
  PROVE  CalmInv'
<1>0. PICK x : x = [chat[c] EXCEPT !.at = "save", !.status = "active"]
  OBVIOUS
<1>1. chat' = [chat EXCEPT ![c] = x]
  BY <1>0, ChatRow DEF Relay
<1>2. x.at = "save" /\ x.status = "active"
  BY <1>0, ChatRow DEF Chats
<1>3. /\ chat[c].at = "relay" /\ chat[c].at \notin ChatOver /\ Says("relay")
      /\ UNCHANGED <<routed, session, handoffs, refusals, calm>>
  BY DEF Relay, ChatOver
<1>4. /\ messages' \in Seq(Kinds)
      /\ Said(messages, "relay") \in Nat /\ Said(messages, "escalation") \in Nat
      /\ Said(messages', "relay") = Said(messages, "relay") + 1
      /\ Said(messages', "escalation") = Said(messages, "escalation")
  BY <1>3, CountsAfter DEF Kinds
<1>5. RelaysFit(chat[c]) => RelaysFit(x)'
  BY <1>2, <1>3, <1>4 DEF RelaysFit, Settled
<1>6. RefusalsFit(chat[c]) => RefusalsFit(x)'
  BY <1>3 DEF RefusalsFit
<1> QED
  BY <1>1, <1>3, <1>4, <1>5, <1>6, CalmTurn, CalmMoves

-----------------------------------------------------------------------------
(* Steps that write the event, the count or the row.                       *)

LEMMA HandOffCalm ==
  ASSUME ChatInv, CalmInv, NEW c \in ChatCalls, HandOff(c)
  PROVE  CalmInv'
<1>1. PICK at : at = IF chat[c].at = "hand off" THEN "save" ELSE "remember"
  OBVIOUS
<1>0. PICK x : x = [chat[c] EXCEPT !.status = "handed_off", !.at = at]
  OBVIOUS
<1>2. chat' = [chat EXCEPT ![c] = x]
  BY <1>0, <1>1, ChatRow DEF HandOff, Chats
<1>3. x.at = at /\ x.status = "handed_off" /\ x.refusals = chat[c].refusals
  BY <1>0, ChatRow DEF Chats
<1>4. /\ chat[c].at \in {"escalate", "hand off"} /\ chat[c].at \notin ChatOver
      /\ handoffs' = Append(handoffs, "human")
      /\ UNCHANGED <<routed, session, messages, refusals, calm>>
  BY DEF HandOff, ChatOver
<1>5. Last(handoffs') = "human"
  <2>1. PICK h \in Seq(Targets) : h = handoffs /\ handoffs' = Append(h, "human")
    BY <1>4, ChatRow
  <2>2. "human" \in Targets
    BY DEF Targets
  <2>3. Len(Append(h, "human")) = Len(h) + 1 /\ Append(h, "human")[Len(h) + 1] = "human"
    BY <2>2, AppendProperties
  <2> QED
    BY <2>1, <2>3 DEF Last
<1>6. at \in {"save", "remember"} /\ (at = "save" <=> chat[c].at = "hand off")
  BY <1>1
<1>7. messages' \in Seq(Kinds)
  BY <1>4 DEF CalmInv
<1>8. RelaysFit(chat[c]) => RelaysFit(x)'
  BY <1>3, <1>4, <1>5, <1>6 DEF RelaysFit, Settled
<1>9. RefusalsFit(chat[c]) => RefusalsFit(x)'
  BY <1>3, <1>4, <1>6 DEF RefusalsFit, Count
<1> QED
  BY <1>2, <1>4, <1>7, <1>8, <1>9, CalmTurn, CalmMoves

LEMMA EscalateCalm ==
  ASSUME ChatInv, CalmInv, NEW c \in ChatCalls, Escalate(c)
  PROVE  CalmInv'
<1>0. PICK x : x = [chat[c] EXCEPT !.at = "save", !.status = "handed_off"]
  OBVIOUS
<1>1. chat' = [chat EXCEPT ![c] = x]
  BY <1>0, ChatRow DEF Escalate
<1>2. x.at = "save" /\ x.status = "handed_off"
  BY <1>0, ChatRow DEF Chats
<1>3. /\ chat[c].at = "await" /\ chat[c].at \notin ChatOver
      /\ UNCHANGED <<routed, session, messages, refusals, calm>>
  BY DEF Escalate, ChatOver
<1>4. messages' \in Seq(Kinds)
  BY <1>3 DEF CalmInv
<1>5. RelaysFit(chat[c]) => RelaysFit(x)'
  BY <1>2, <1>3 DEF RelaysFit, Settled
<1>6. RefusalsFit(chat[c]) => RefusalsFit(x)'
  BY <1>3 DEF RefusalsFit
<1> QED
  BY <1>1, <1>3, <1>4, <1>5, <1>6, CalmTurn, CalmMoves

LEMMA SaveRefusalsCalm ==
  ASSUME ChatInv, CalmInv, NEW c \in ChatCalls, SaveRefusals(c)
  PROVE  CalmInv'
<1>0. PICK x : x = [chat[c] EXCEPT !.at = "save"]
  OBVIOUS
<1>1. chat' = [chat EXCEPT ![c] = x]
  BY <1>0, ChatRow DEF SaveRefusals, Goes
<1>2. x.at = "save" /\ x.status = chat[c].status /\ x.refusals = chat[c].refusals
  BY <1>0, ChatRow DEF Chats
<1>3. /\ chat[c].at = "remember" /\ chat[c].at \notin ChatOver /\ refusals' = chat[c].refusals
      /\ UNCHANGED <<routed, session, messages, handoffs, calm>>
  BY DEF SaveRefusals, Goes, ChatOver
<1>4. messages' \in Seq(Kinds)
  BY <1>3 DEF CalmInv
<1>5. RelaysFit(chat[c]) => RelaysFit(x)'
  BY <1>2, <1>3 DEF RelaysFit, Settled
<1>6. RefusalsFit(chat[c]) => RefusalsFit(x)'
  BY <1>2, <1>3 DEF RefusalsFit, Count
<1> QED
  BY <1>1, <1>3, <1>4, <1>5, <1>6, CalmTurn, CalmMoves

LEMMA SaveSessionCalm ==
  ASSUME ChatInv, CalmInv, NEW c \in ChatCalls, SaveSession(c)
  PROVE  CalmInv'
<1>0. PICK x : x = [chat[c] EXCEPT !.at = "done"]
  OBVIOUS
<1>1. chat' = [chat EXCEPT ![c] = x]
  BY <1>0, ChatRow DEF SaveSession, Goes
<1>2. x.at = "done"
  BY <1>0, ChatRow DEF Chats
<1>3. /\ chat[c].at = "save" /\ chat[c].at \notin ChatOver /\ session' = chat[c].status
      /\ UNCHANGED <<routed, messages, handoffs, refusals, calm>>
  BY DEF SaveSession, Goes, ChatOver
<1>4. messages' \in Seq(Kinds)
  BY <1>3 DEF CalmInv
<1>5. RelaysFit(chat[c]) => RelaysFit(x)'
  BY <1>2, <1>3 DEF RelaysFit, Settled
<1>6. RefusalsFit(chat[c]) => RefusalsFit(x)'
  BY <1>2, <1>3 DEF RefusalsFit, Count
<1> QED
  BY <1>1, <1>3, <1>4, <1>5, <1>6, CalmTurn, CalmMoves

-----------------------------------------------------------------------------

LEMMA CalmStep == ChatInv /\ CalmInv /\ [ChatNext]_chatVars => CalmInv'
<1> SUFFICES ASSUME ChatInv, CalmInv, [ChatNext]_chatVars PROVE CalmInv'
  OBVIOUS
<1>1. ASSUME NEW c \in ChatCalls, SendMessage(c) \/ Resume(c) \/ RequestHandoff(c) PROVE CalmInv'
  BY <1>1, ReadSessionCalm DEF SendMessage, Resume, RequestHandoff
<1>2. ASSUME UNCHANGED <<routed, session, messages, handoffs, refusals, chat>>, calm' = calm PROVE CalmInv'
  <2>1. messages' \in Seq(Kinds)
    BY <1>2 DEF CalmInv
  <2>2. ASSUME NEW c \in ChatCalls, Alone(c), RelaysFit(chat[c]), RefusalsFit(chat[c])
        PROVE  Alone(c)' /\ RelaysFit(chat[c])' /\ RefusalsFit(chat[c])'
    <3>1. Alone(c)'
      BY <1>2, <2>2 DEF Alone
    <3>2. RelaysFit(chat[c])'
      BY <1>2, <2>2 DEF RelaysFit, Settled
    <3>3. RefusalsFit(chat[c])'
      BY <1>2, <2>2 DEF RefusalsFit, Count
    <3> QED
      BY <3>1, <3>2, <3>3
  <2> QED
    BY <1>2, <2>1, <2>2 DEF CalmInv
<1>3. ASSUME NEW c \in ChatCalls, NEW ending, InstanceEnds(c, ending) PROVE CalmInv'
  BY <1>2, <1>3 DEF InstanceEnds
<1>4. ASSUME NEW c \in ChatCalls, ChatDies(c) PROVE CalmInv'
  BY <1>4 DEF ChatDies, CalmInv
<1>5. CASE StateExpires
  BY <1>5 DEF StateExpires, CalmInv
<1>6. CASE UNCHANGED chatVars
  BY <1>2, <1>6 DEF chatVars
<1> QED
  BY <1>1, <1>3, <1>4, <1>5, <1>6, CloseSessionCalm, InboundCalm, ReadRefusalsCalm, HandOffCalm,
     SaveRefusalsCalm, ReplyCalm, RouteTurnCalm, EscalateCalm, ReadEventCalm, PollInstanceCalm,
     RelayCalm, SaveSessionCalm
  DEF ChatNext

(* RefusalsHandOff for any requests and any threshold: between two turns   *)
(* the store holds the number of the refusals since the last other reply,  *)
(* and an active conversation has fewer than the threshold.                *)
THEOREM RefusalsHandOffHolds == ChatSpec => []RefusalsHandOff
<1>1. ChatInv /\ CalmInv => RefusalsHandOff
  <2> SUFFICES ASSUME ChatInv, CalmInv, calm, Quiet, ~routed, Count >= MaxRefusals
               PROVE  session # "active"
    BY DEF RefusalsHandOff, Count
  <2>1. PICK c \in ChatCalls : RefusalsFit(chat[c]) /\ chat[c].at \in ChatOver
    BY DEF CalmInv, Quiet
  <2>2. session = "active" => Count < MaxRefusals
    BY <2>1 DEF RefusalsFit, ChatOver
  <2>3. Count \in Nat
    BY RefusalsMore DEF CalmInv, Count, Kinds
  <2> QED
    BY <2>2, <2>3, ChatAssumption
<1> QED
  BY <1>1, ChatInitially, ChatStep, CalmInitially, CalmStep, PTL DEF ChatSpec

(* EscalationsAnswered for any requests: each step that is not alone ends  *)
(* the calm, and a relay comes only when one escalation is unanswered.     *)
THEOREM EscalationsAnsweredHolds == ChatSpec => []EscalationsAnswered
<1>1. ChatInv /\ CalmInv => EscalationsAnswered
  <2> SUFFICES ASSUME ChatInv, CalmInv PROVE EscalationsAnswered
    OBVIOUS
  <2>1. "inbound" \in Kinds
    BY DEF Kinds
  <2>2. Said(messages, "relay") \in Nat /\ Said(messages, "escalation") \in Nat
    BY <2>1, SaidMore DEF CalmInv
  <2>3. ASSUME calm
        PROVE  /\ Said(messages, "relay") <= Said(messages, "escalation")
               /\ Quiet => Settled(session)
    <3>1. PICK c \in ChatCalls : RelaysFit(chat[c])
      BY <2>3 DEF CalmInv
    <3>2. Quiet => chat[c].at \notin {"await", "remember", "save"}
      BY DEF Quiet, ChatOver
    <3> QED
      BY <3>1, <3>2 DEF RelaysFit
  <2> QED
    BY <2>2, <2>3 DEF EscalationsAnswered, Settled
<1> QED
  BY <1>1, ChatInitially, ChatStep, CalmInitially, CalmStep, PTL DEF ChatSpec

-----------------------------------------------------------------------------
(***************************************************************************)
(* RolloutService: while no two promotions have run at a time, at most one *)
(* deployment is active.                                                   *)
(***************************************************************************)

(* The inductive invariant.                                                *)

Calls ==
  [at : RolloutOver \cup Promoting \cup {"roll back"},
   on : Deployments \cup {NoDeployment}, previous : Deployments \cup {NoDeployment}]

RolloutTyped ==
  /\ stage \in [Deployments -> {"absent", "canary", "active", "superseded", "rolled_back"}]
  /\ rollout \in [RolloutCalls -> Calls]

OnePromotes ==
  \A b, c \in RolloutCalls :
    rollout[b].at \in Promoting /\ rollout[c].at \in Promoting => b = c

AtMostOneActive == \A d, e \in Active : d = e

(* What a promotion has found is all that can be active until it is        *)
(* superseded, and then nothing but the deployment it promotes can.        *)
FoundIsActive ==
  \A c \in RolloutCalls :
    /\ rollout[c].at = "supersede" => Active \subseteq {rollout[c].previous}
    /\ rollout[c].at = "activate" => Active \subseteq {rollout[c].on}

RolloutInv ==
  RolloutTyped /\ (~overlapped => OnePromotes /\ AtMostOneActive /\ FoundIsActive)

-----------------------------------------------------------------------------

LEMMA RolloutInitially == RolloutInit => RolloutInv
  BY DEF RolloutInit, RolloutInv, RolloutTyped, Calls, OnePromotes, AtMostOneActive, FoundIsActive,
         Active, Promoting, RolloutOver

(* A step that makes nothing active, begins no promotion and moves only a  *)
(* call that is not on its way to supersede or activate.                   *)
LEMMA RolloutOnly ==
  ASSUME RolloutInv, RolloutTyped', overlapped' = overlapped,
         Active' \subseteq Active,
         \A c \in RolloutCalls :
           \/ rollout'[c] = rollout[c]
           \/ rollout'[c].at \in RolloutOver \cup {"roll back"}
           \/ rollout[c].at = "health" /\ rollout'[c].at = "find"
  PROVE  RolloutInv'
  <1>1. ~overlapped => OnePromotes'
    BY DEF RolloutInv, OnePromotes, Promoting, RolloutOver
  <1>2. ~overlapped => AtMostOneActive'
    BY DEF RolloutInv, AtMostOneActive
  <1>3. ~overlapped => FoundIsActive'
    BY DEF RolloutInv, FoundIsActive, RolloutOver
  <1> QED
    BY <1>1, <1>2, <1>3 DEF RolloutInv

LEMMA RolloutStep == RolloutInv /\ [RolloutNext]_rolloutVars => RolloutInv'
  <1> SUFFICES ASSUME RolloutInv, [RolloutNext]_rolloutVars
               PROVE  RolloutInv'
    OBVIOUS
  <1> USE DEF RolloutTyped, Calls, RolloutOver, Promoting, Active
  <1>1. ASSUME NEW d \in Deployments, Deploy(d)
        PROVE  RolloutInv'
    <2>1. RolloutTyped' /\ Active' \subseteq Active
      BY <1>1 DEF Deploy, RolloutInv
    <2> QED
      BY <1>1, <2>1, RolloutOnly DEF Deploy
  <1>2. ASSUME NEW c \in RolloutCalls, NEW d \in Deployments, ReadForPromote(c, d)
        PROVE  RolloutInv'
    <2>0. rollout' \in [RolloutCalls -> Calls]
      <3>1. PICK at \in RolloutOver \cup Promoting \cup {"roll back"} :
              rollout' = [rollout EXCEPT ![c] = [rollout[c] EXCEPT !.on = d, !.at = at]]
        BY <1>2 DEF ReadForPromote, ReadDeployment, RolloutInv
      <3> QED
        BY <3>1, ZenonT(60) DEF RolloutInv
    <2>1. RolloutTyped' /\ Active' = Active
      BY <1>2, <2>0 DEF ReadForPromote, ReadDeployment, RolloutInv
    <2>2. \A b \in RolloutCalls \ {c} : rollout'[b] = rollout[b]
      BY <1>2 DEF ReadForPromote, ReadDeployment, RolloutInv
    <2>3. rollout'[c].at \in {"health", "refused"}
      BY <1>2 DEF ReadForPromote, ReadDeployment, RolloutInv
    <2>4. ~overlapped' => ~overlapped /\ \A b \in RolloutCalls : rollout[b].at \notin Promoting
      BY <1>2 DEF ReadForPromote
    <2>5. ~overlapped' => OnePromotes'
      BY <2>2, <2>4 DEF OnePromotes
    <2>6. ~overlapped' => AtMostOneActive' /\ FoundIsActive'
      BY <2>1, <2>2, <2>3, <2>4 DEF RolloutInv, AtMostOneActive, FoundIsActive
    <2> QED
      BY <2>1, <2>5, <2>6 DEF RolloutInv
  <1>3. ASSUME NEW c \in RolloutCalls, NEW d \in Deployments, ReadForRollback(c, d)
        PROVE  RolloutInv'
    <2>0. rollout' \in [RolloutCalls -> Calls]
      <3>1. PICK at \in RolloutOver \cup Promoting \cup {"roll back"} :
              rollout' = [rollout EXCEPT ![c] = [rollout[c] EXCEPT !.on = d, !.at = at]]
        BY <1>3 DEF ReadForRollback, ReadDeployment, RolloutInv
      <3> QED
        BY <3>1, ZenonT(60) DEF RolloutInv
    <2>1. RolloutTyped' /\ Active' = Active
      BY <1>3, <2>0 DEF ReadForRollback, ReadDeployment, RolloutInv
    <2>2. \A b \in RolloutCalls : rollout'[b] = rollout[b]
                                  \/ rollout'[b].at \in RolloutOver \cup {"roll back"}
      BY <1>3 DEF ReadForRollback, ReadDeployment, RolloutInv
    <2> QED
      BY <1>3, <2>1, <2>2, RolloutOnly DEF ReadForRollback
  <1>4. ASSUME NEW c \in RolloutCalls, NEW passed \in BOOLEAN, CheckHealth(c, passed)
        PROVE  RolloutInv'
    <2>1. RolloutTyped' /\ Active' = Active
      BY <1>4, ZenonT(40) DEF CheckHealth, RolloutProceeds, RolloutInv
    <2>2. \A b \in RolloutCalls : \/ rollout'[b] = rollout[b]
                                  \/ rollout'[b].at \in RolloutOver
                                  \/ rollout[b].at = "health" /\ rollout'[b].at = "find"
      BY <1>4 DEF CheckHealth, RolloutProceeds, RolloutInv
    <2> QED
      BY <1>4, <2>1, <2>2, RolloutOnly DEF CheckHealth
  <1>5. ASSUME NEW c \in RolloutCalls, NEW found \in Deployments \cup {NoDeployment},
               FindActive(c, found)
        PROVE  RolloutInv'
    <2>0. rollout' \in [RolloutCalls -> Calls]
      <3>1. PICK at \in {"supersede", "activate"} :
              rollout' = [rollout EXCEPT ![c] = [rollout[c] EXCEPT !.previous = found, !.at = at]]
        BY <1>5 DEF FindActive, RolloutInv
      <3> QED
        BY <3>1, ZenonT(40) DEF RolloutInv
    <2>1. RolloutTyped' /\ Active' = Active /\ overlapped' = overlapped
      BY <1>5, <2>0 DEF FindActive, RolloutInv
    <2>2. \A b \in RolloutCalls \ {c} : rollout'[b] = rollout[b]
      BY <1>5 DEF FindActive, RolloutInv
    <2>3. /\ rollout[c].at = "find" /\ rollout'[c].at \in {"supersede", "activate"}
          /\ rollout'[c].on = rollout[c].on /\ rollout'[c].previous = found
          /\ rollout'[c].at = "activate" => found \in {NoDeployment, rollout[c].on}
      BY <1>5 DEF FindActive, RolloutInv
    <2>4. ~overlapped => OnePromotes' /\ AtMostOneActive'
      BY <2>1, <2>2, <2>3, ZenonT(40) DEF RolloutInv, OnePromotes, AtMostOneActive
    <2>5. Active = {} \/ found \in Active
      BY <1>5 DEF FindActive
    <2>6. ~overlapped => Active \subseteq {found}
      BY <2>5 DEF RolloutInv, AtMostOneActive
    <2>7. found = NoDeployment /\ rollout'[c].at = "activate" => Active = {} \/ found \in Active
      BY <2>5
    <2>8. Active # {} => found \in Active
      BY <2>5
    <2>9. ~overlapped /\ rollout'[c].at = "activate" => Active \subseteq {rollout[c].on}
      <3> SUFFICES ASSUME ~overlapped, rollout'[c].at = "activate", Active # {}
                   PROVE  Active \subseteq {rollout[c].on}
        OBVIOUS
      <3>1. found \in Active
        BY <2>8
      <3>2. CASE found = rollout[c].on
        BY <2>6, <3>2
      <3>3. CASE found = NoDeployment
        BY <3>1, <3>3, NoDeploymentIsNone
      <3> QED
        BY <2>3, <3>2, <3>3
    <2>10. ~overlapped => FoundIsActive'
      BY <2>1, <2>2, <2>3, <2>6, <2>9, ZenonT(60) DEF RolloutInv, FoundIsActive
    <2> QED
      BY <2>1, <2>4, <2>10 DEF RolloutInv
  <1>6. ASSUME NEW c \in RolloutCalls, Supersede(c)
        PROVE  RolloutInv'
    <2>1. RolloutTyped' /\ overlapped' = overlapped
      BY <1>6, ZenonT(60) DEF Supersede, RolloutProceeds, RolloutInv
    <2>2. \A b \in RolloutCalls \ {c} : rollout'[b] = rollout[b]
      BY <1>6 DEF Supersede, RolloutProceeds, RolloutInv
    <2>3. rollout[c].at = "supersede" /\ rollout'[c].at = "activate"
      BY <1>6 DEF Supersede, RolloutProceeds, RolloutInv
    <2>4. Active' = Active \ {rollout[c].previous}
      BY <1>6 DEF Supersede, RolloutProceeds, RolloutInv
    <2>5. ~overlapped => Active' = {}
      BY <2>3, <2>4 DEF RolloutInv, FoundIsActive
    <2>6. ~overlapped => OnePromotes'
      BY <2>2, <2>3 DEF RolloutInv, OnePromotes
    <2>7. ~overlapped => AtMostOneActive' /\ FoundIsActive'
      BY <2>5 DEF AtMostOneActive, FoundIsActive
    <2> QED
      BY <2>1, <2>6, <2>7 DEF RolloutInv
  <1>7. ASSUME NEW c \in RolloutCalls, SaveActive(c)
        PROVE  RolloutInv'
    <2>1. RolloutTyped' /\ overlapped' = overlapped
      BY <1>7, ZenonT(60) DEF SaveActive, RolloutProceeds, RolloutInv
    <2>2. \A b \in RolloutCalls \ {c} : rollout'[b] = rollout[b]
      BY <1>7 DEF SaveActive, RolloutProceeds, RolloutInv
    <2>3. rollout[c].at = "activate" /\ rollout'[c].at = "done"
      BY <1>7 DEF SaveActive, RolloutProceeds, RolloutInv
    <2>4. Active' \subseteq Active \cup {rollout[c].on}
      BY <1>7 DEF SaveActive, RolloutProceeds, RolloutInv
    <2>5. ~overlapped => Active' \subseteq {rollout[c].on}
      BY <2>3, <2>4 DEF RolloutInv, FoundIsActive
    <2>6. ~overlapped => \A b \in RolloutCalls : rollout'[b].at \notin Promoting
      BY <2>2, <2>3 DEF RolloutInv, OnePromotes
    <2>7. ~overlapped => OnePromotes' /\ AtMostOneActive' /\ FoundIsActive'
      BY <2>5, <2>6 DEF OnePromotes, AtMostOneActive, FoundIsActive
    <2> QED
      BY <2>1, <2>7 DEF RolloutInv
  <1>8. ASSUME NEW c \in RolloutCalls, SaveRolledBack(c)
        PROVE  RolloutInv'
    <2>1. RolloutTyped' /\ Active' \subseteq Active /\ overlapped' = overlapped
      BY <1>8, ZenonT(60) DEF SaveRolledBack, RolloutProceeds, RolloutInv
    <2>2. \A b \in RolloutCalls : rollout'[b] = rollout[b] \/ rollout'[b].at \in RolloutOver
      BY <1>8 DEF SaveRolledBack, RolloutProceeds, RolloutInv
    <2> QED
      BY <2>1, <2>2, RolloutOnly
  <1>9. ASSUME NEW c \in RolloutCalls, RolloutDies(c)
        PROVE  RolloutInv'
    <2>1. RolloutTyped' /\ Active' = Active /\ overlapped' = overlapped
      BY <1>9, ZenonT(60) DEF RolloutDies, RolloutInv
    <2>2. \A b \in RolloutCalls : rollout'[b] = rollout[b] \/ rollout'[b].at \in RolloutOver
      BY <1>9 DEF RolloutDies, RolloutInv
    <2> QED
      BY <2>1, <2>2, RolloutOnly
  <1>10. CASE UNCHANGED rolloutVars
    BY <1>10 DEF rolloutVars, RolloutInv, OnePromotes, AtMostOneActive, FoundIsActive
  <1> QED
    BY <1>1, <1>2, <1>3, <1>4, <1>5, <1>6, <1>7, <1>8, <1>9, <1>10 DEF RolloutNext

-----------------------------------------------------------------------------

(* No two deployments are both active before two promotions have overlapped *)
(* (RolloutService.promote), for any deployments and any calls that race   *)
(* or die.  A deployment is not the value that says that there is none.    *)
THEOREM OneActiveHolds ==
  RolloutSpec => []OneActive
  <1>1. RolloutInv => OneActive
    <2> SUFFICES ASSUME RolloutInv, ~overlapped
                 PROVE  Cardinality(Active) <= 1
      BY DEF OneActive
    <2>1. CASE Active = {}
      BY <2>1, FS_EmptySet
    <2>2. CASE Active # {}
      <3>1. PICK d \in Active : TRUE
        BY <2>2
      <3>2. Active = {d}
        BY <3>1 DEF RolloutInv, AtMostOneActive
      <3> QED
        BY <3>2, FS_Singleton
    <2> QED
      BY <2>1, <2>2
  <1> QED
    BY <1>1, RolloutInitially, RolloutStep, PTL DEF RolloutSpec

-----------------------------------------------------------------------------
(***************************************************************************)
(* SecretLifecycle, for any rotations and revocations that race or die: the *)
(* row never points at a version that nobody has stored.                   *)
(***************************************************************************)

(* The inductive invariant.                                                *)

Stored(n) == n > 1 => \E v \in versions : v.number = n

SecretCopy == [status : {"absent", "active", "revoked"}, current : Nat]
SecretPlaces == SecretOver \cup {"version", "rotate", "revoke", "save"}
SecretCallers == SecretCalls \cup {Creator}

SecretTyped ==
  /\ secret \in SecretCopy
  /\ secretCall \in [SecretCallers -> [at : SecretPlaces, copy : SecretCopy]]

(* So is what any call has read, and what a rotation is about to save.     *)
CopiesAreStored ==
  \A c \in SecretCallers :
    /\ Stored(secretCall[c].copy.current)
    /\ secretCall[c].at = "save" => Stored(secretCall[c].copy.current + 1)

SecretInv == SecretTyped /\ Stored(secret.current) /\ CopiesAreStored

-----------------------------------------------------------------------------

LEMMA SecretInitially == SecretInit => SecretInv
  BY DEF SecretInit, SecretInv, SecretTyped, SecretCopy, SecretPlaces, SecretCallers, SecretOver,
         CopiesAreStored, Stored

LEMMA StoredStays ==
  ASSUME NEW n, Stored(n), versions \subseteq versions'
  PROVE  Stored(n)'
  BY DEF Stored

(* A step in which one call moves on with its copy, no version is lost and *)
(* the row is what it was, or stored.                                      *)
LEMMA SecretCallMoves ==
  ASSUME SecretInv, NEW c \in SecretCallers, NEW to \in SecretPlaces,
         secretCall' = [secretCall EXCEPT ![c].at = to],
         versions \subseteq versions',
         secret' \in SecretCopy, Stored(secret.current)',
         to = "save" => Stored(secretCall[c].copy.current + 1)'
  PROVE  SecretInv'
  <1>1. SecretTyped'
    BY DEF SecretInv, SecretTyped
  <1>2. CopiesAreStored'
    BY StoredStays DEF SecretInv, SecretTyped, CopiesAreStored, Stored
  <1> QED
    BY <1>1, <1>2 DEF SecretInv

LEMMA SecretStep == SecretInv /\ [SecretNext]_secretVars => SecretInv'
  <1> SUFFICES ASSUME SecretInv, [SecretNext]_secretVars
               PROVE  SecretInv'
    OBVIOUS
  <1> USE DEF SecretPlaces, SecretOver, SecretCallers
  <1>t. /\ secret \in SecretCopy /\ Stored(secret.current)
        /\ \A c \in SecretCallers : secretCall[c].copy \in SecretCopy
      BY DEF SecretInv, SecretTyped
  <1>1. CASE CreateSecret
    <2>1. secret' \in SecretCopy /\ Stored(secret.current)'
      BY <1>1 DEF CreateSecret, SecretCopy, Stored
    <2> QED
      BY <1>1, <2>1, SecretCallMoves DEF CreateSecret, SecretProceeds
  <1>2. CASE StoreFirstVersion
    <2>1. versions \subseteq versions' /\ secret' = secret
      BY <1>2 DEF StoreFirstVersion
    <2>2. Stored(secret.current)'
      BY <1>t, <2>1 DEF Stored
    <2> QED
      BY <1>t, <1>2, <2>1, <2>2, SecretCallMoves DEF StoreFirstVersion, SecretProceeds
  <1>3. ASSUME NEW c \in SecretCalls, NEW what \in {"rotate", "revoke"}, ReadSecret(c, what)
        PROVE  SecretInv'
    <2>1. PICK to \in {what, "refused"} :
            secretCall' = [secretCall EXCEPT ![c] = [at |-> to, copy |-> secret]]
      BY <1>3 DEF ReadSecret
    <2>2. secret' = secret /\ versions' = versions
      BY <1>3 DEF ReadSecret
    <2>3. SecretTyped'
      BY <1>t, <2>1, <2>2 DEF SecretInv, SecretTyped
    <2>4. CopiesAreStored'
      BY <1>t, <2>1, <2>2 DEF SecretInv, SecretTyped, CopiesAreStored, Stored
    <2> QED
      BY <1>t, <2>2, <2>3, <2>4 DEF SecretInv, Stored
  <1>4. ASSUME NEW c \in SecretCalls, StoreVersion(c)
        PROVE  SecretInv'
    <2>1. versions \subseteq versions' /\ secret' = secret
      BY <1>4 DEF StoreVersion
    <2>2. Stored(secret.current)'
      BY <1>t, <2>1 DEF Stored
    <2>3. Stored(secretCall[c].copy.current + 1)'
      <3>1. [by |-> c, number |-> secretCall[c].copy.current + 1] \in versions'
        BY <1>4 DEF StoreVersion
      <3>2. secretCall'[c].copy = secretCall[c].copy
        BY <1>4 DEF StoreVersion, SecretProceeds, SecretInv, SecretTyped
      <3> QED
        BY <3>1, <3>2 DEF Stored
    <2> QED
      BY <1>t, <1>4, <2>1, <2>2, <2>3, SecretCallMoves DEF StoreVersion, SecretProceeds
  <1>5. ASSUME NEW c \in SecretCalls, SaveRotated(c)
        PROVE  SecretInv'
    <2>1. secret' = [secretCall[c].copy EXCEPT !.current = @ + 1] /\ versions' = versions
      BY <1>5 DEF SaveRotated
    <2>2. secret' \in SecretCopy /\ secret'.current = secretCall[c].copy.current + 1
      BY <1>t, <2>1 DEF SecretCopy
    <2>3. Stored(secret.current)'
      BY <1>5, <2>1, <2>2 DEF SaveRotated, SecretProceeds, SecretInv, CopiesAreStored, Stored
    <2> QED
      BY <1>5, <2>1, <2>2, <2>3, SecretCallMoves DEF SaveRotated, SecretProceeds
  <1>6. ASSUME NEW c \in SecretCalls, SaveRevoked(c)
        PROVE  SecretInv'
    <2>1. secret' = [secretCall[c].copy EXCEPT !.status = "revoked"] /\ versions' = versions
      BY <1>6 DEF SaveRevoked
    <2>2. secret' \in SecretCopy /\ secret'.current = secretCall[c].copy.current
      BY <1>t, <2>1 DEF SecretCopy
    <2>3. Stored(secret.current)'
      BY <2>1, <2>2 DEF SecretInv, CopiesAreStored, Stored
    <2> QED
      BY <1>6, <2>1, <2>2, <2>3, SecretCallMoves DEF SaveRevoked, SecretProceeds
  <1>7. ASSUME NEW c \in SecretCallers, SecretCallDies(c)
        PROVE  SecretInv'
    <2>1. secret' = secret /\ versions' = versions
      BY <1>7 DEF SecretCallDies
    <2>2. Stored(secret.current)'
      BY <1>t, <2>1 DEF Stored
    <2> QED
      BY <1>t, <1>7, <2>1, <2>2, SecretCallMoves DEF SecretCallDies, SecretProceeds
  <1>8. CASE UNCHANGED secretVars
    BY <1>8 DEF secretVars, SecretInv, SecretTyped, CopiesAreStored, Stored
  <1> QED
    BY <1>1, <1>2, <1>3, <1>4, <1>5, <1>6, <1>7, <1>8 DEF SecretNext

(* The row of a secret never says a version that has not been committed    *)
(* (RotationService.rotate), however many calls race or die.               *)
THEOREM CurrentIsStoredHolds ==
  SecretSpec => []CurrentIsStored
  <1>1. SecretInv => CurrentIsStored
    BY DEF SecretInv, Stored, CurrentIsStored
  <1> QED
    BY <1>1, SecretInitially, SecretStep, PTL DEF SecretSpec

-----------------------------------------------------------------------------
(***************************************************************************)
(* SecretLifecycle, while no call dies or overlaps another: the version    *)
(* that is served is the one that the last rotation stored.                *)
(***************************************************************************)

(* What the calls and the versions look like while nothing has disturbed   *)
(* them: one call runs, with the row as it is, and the versions are those  *)
(* up to the current one, or to the next while a rotation is saving.       *)

Running(c) == secretCall[c].at \notin SecretOver
UniqueAt(n) == \E v \in versions : v.number = n /\ \A u \in versions : u.number = n => u = v
Highest(n) == \A u \in versions : u.number <= n

ServedInv ==
  /\ versions \in SUBSET [by : SecretCallers, number : Nat]
  /\ undisturbed =>
       /\ \A c, d \in SecretCallers : Running(c) /\ Running(d) => c = d
       /\ \A c \in SecretCallers :
            /\ secretCall[c].at \in {"rotate", "save", "revoke"} => secretCall[c].copy = secret
            /\ secretCall[c].at = "version" => versions = {} /\ secret.current = 1
            /\ secretCall[c].at = "save" =>
                 UniqueAt(secret.current) /\ UniqueAt(secret.current + 1) /\ Highest(secret.current + 1)
       /\ secretCall[Creator].at = "idle" => secret.status = "absent"
       /\ secret.status = "absent" => versions = {} /\ \A c \in SecretCallers : secretCall[c].at = "idle"
       /\ secret.status # "absent" /\ (\A c \in SecretCallers : secretCall[c].at \notin {"version", "save"}) =>
            UniqueAt(secret.current) /\ Highest(secret.current)

LEMMA ServedInitially == SecretInit => ServedInv
  BY DEF SecretInit, ServedInv, SecretCallers, Running, SecretOver

LEMMA ServedStep == SecretInv /\ ServedInv /\ [SecretNext]_secretVars => ServedInv'
  <1> SUFFICES ASSUME SecretInv, ServedInv, [SecretNext]_secretVars
               PROVE  ServedInv'
    OBVIOUS
  <1>t. /\ secret \in SecretCopy /\ secret.current \in Nat
        /\ secretCall \in [SecretCallers -> [at : SecretPlaces, copy : SecretCopy]]
        /\ \A c \in SecretCallers : secretCall[c].copy \in SecretCopy /\ secretCall[c].copy.current \in Nat
        /\ Creator \in SecretCallers /\ SecretCalls \subseteq SecretCallers
        /\ DOMAIN secretCall = SecretCallers
        /\ versions \in SUBSET [by : SecretCallers, number : Nat]
        /\ \A v \in versions : v.number \in Nat
      BY DEF SecretInv, SecretTyped, SecretCallers, SecretCopy, ServedInv
  <1>m. ASSUME NEW c \in SecretCallers, NEW from, NEW to, SecretProceeds(c, from, to)
        PROVE  /\ secretCall[c].at = from /\ secretCall'[c].at = to
               /\ secretCall'[c].copy = secretCall[c].copy
               /\ \A d \in SecretCallers : d # c => secretCall'[d] = secretCall[d]
      BY <1>t, <1>m DEF SecretProceeds
  <1>1. CASE CreateSecret
    <2>1. /\ secretCall[Creator].at = "idle" /\ secretCall'[Creator].at = "version"
          /\ \A d \in SecretCallers : d # Creator => secretCall'[d] = secretCall[d]
      BY <1>t, <1>1, <1>m DEF CreateSecret
    <2>2. secret' = [status |-> "active", current |-> 1] /\ versions' = versions /\ undisturbed' = undisturbed
      BY <1>1 DEF CreateSecret
    <2>3. secret'.status = "active" /\ secret'.current = 1
      BY <2>2
    <2> QED
      BY <1>t, <2>1, <2>2, <2>3 DEF ServedInv, Running, SecretOver
  <1>2. CASE StoreFirstVersion
    <2>1. /\ secretCall[Creator].at = "version" /\ secretCall'[Creator].at = "done"
          /\ \A d \in SecretCallers : d # Creator => secretCall'[d] = secretCall[d]
      BY <1>t, <1>2, <1>m DEF StoreFirstVersion
    <2>2. PICK new : new = [by |-> Creator, number |-> 1]
      OBVIOUS
    <2>3. new \in [by : SecretCallers, number : Nat] /\ new.number = 1
      BY <1>t, <2>2
    <2>4. versions' = versions \cup {new} /\ secret' = secret /\ undisturbed' = undisturbed
      BY <1>2, <2>2 DEF StoreFirstVersion
    <2>5. versions' \in SUBSET [by : SecretCallers, number : Nat]
      BY <1>t, <2>3, <2>4
    <2>6. ASSUME undisturbed
          PROVE  /\ versions' = {new} /\ secret'.current = 1 /\ secret'.status # "absent"
                 /\ \A d \in SecretCallers : secretCall'[d].at \in SecretOver
                 /\ secretCall'[Creator].at # "idle"
      BY <1>t, <2>1, <2>4, <2>6 DEF ServedInv, Running, SecretOver
    <2>7. undisturbed => UniqueAt(secret.current)' /\ Highest(secret.current)'
      BY <2>3, <2>6 DEF UniqueAt, Highest
    <2> QED
      BY <2>4, <2>5, <2>6, <2>7 DEF ServedInv, Running, SecretOver
  <1>3. ASSUME NEW c \in SecretCalls, NEW what \in {"rotate", "revoke"}, ReadSecret(c, what)
        PROVE  ServedInv'
    <2>1. PICK to \in {what, "refused"} :
            secretCall' = [secretCall EXCEPT ![c] = [at |-> to, copy |-> secret]]
      BY <1>3 DEF ReadSecret
    <2>2. /\ secretCall'[c].at \in {"rotate", "revoke", "refused"} /\ secretCall'[c].copy = secret
          /\ \A d \in SecretCallers : d # c => secretCall'[d] = secretCall[d]
      BY <1>t, <2>1
    <2>3. secret' = secret /\ versions' = versions /\ secret.status # "absent" /\ secretCall[c].at = "idle"
      BY <1>3 DEF ReadSecret
    <2>4. undisturbed' => undisturbed /\ \A d \in SecretCallers : ~Running(d)
      BY <1>t, <1>3 DEF ReadSecret, Running
    <2>5. c \in SecretCallers
      BY <1>t
    <2>6. ASSUME undisturbed'
          PROVE  UniqueAt(secret.current)' /\ Highest(secret.current)'
      <3>1. \A d \in SecretCallers : secretCall[d].at \notin {"version", "save"}
        BY <2>4, <2>6 DEF Running, SecretOver
      <3> QED
        BY <2>3, <2>4, <2>6, <3>1 DEF ServedInv, UniqueAt, Highest
    <2>7. undisturbed' => \A d \in SecretCallers : d # c => secretCall'[d].at \in SecretOver
      BY <2>2, <2>4 DEF Running
    <2>8. undisturbed' => secretCall'[Creator].at # "idle"
      BY <1>t, <2>2, <2>3, <2>4 DEF ServedInv
    <2> QED
      BY <1>t, <2>2, <2>3, <2>5, <2>6, <2>7, <2>8 DEF ServedInv, Running, SecretOver
  <1>4. ASSUME NEW c \in SecretCalls, StoreVersion(c)
        PROVE  ServedInv'
    <2>1. /\ secretCall[c].at = "rotate" /\ secretCall'[c].at = "save"
          /\ secretCall'[c].copy = secretCall[c].copy
          /\ \A d \in SecretCallers : d # c => secretCall'[d] = secretCall[d]
      BY <1>t, <1>4, <1>m DEF StoreVersion
    <2>2. PICK new : new = [by |-> c, number |-> secretCall[c].copy.current + 1]
      OBVIOUS
    <2>3. /\ new \in [by : SecretCallers, number : Nat]
          /\ new.number = secretCall[c].copy.current + 1 /\ c \in SecretCallers
      BY <1>t, <2>2
    <2>4. versions' = versions \cup {new} /\ secret' = secret /\ undisturbed' = undisturbed
      BY <1>4, <2>2 DEF StoreVersion
    <2>5. versions' \in SUBSET [by : SecretCallers, number : Nat]
      BY <1>t, <2>3, <2>4
    <2>6. ASSUME undisturbed
          PROVE  /\ secretCall[c].copy = secret /\ secret.status # "absent"
                 /\ \A d \in SecretCallers : d # c => secretCall[d].at \in SecretOver
                 /\ \A d \in SecretCallers : secretCall[d].at \notin {"version", "save"}
                 /\ secretCall[Creator].at # "idle"
                 /\ UniqueAt(secret.current) /\ Highest(secret.current)
      <3>1. /\ secretCall[c].copy = secret /\ secret.status # "absent"
            /\ \A d \in SecretCallers : d # c => secretCall[d].at \in SecretOver
            /\ secretCall[Creator].at # "idle"
        BY <1>t, <2>1, <2>3, <2>6 DEF ServedInv, Running, SecretOver
      <3>2. \A d \in SecretCallers : secretCall[d].at \notin {"version", "save"}
        BY <2>1, <3>1 DEF SecretOver
      <3> QED
        BY <2>6, <3>1, <3>2 DEF ServedInv
    <2>7. PICK n \in Nat : n = secret.current
      BY <1>t
    <2>8. ASSUME undisturbed
          PROVE  UniqueAt(n)' /\ UniqueAt(n + 1)' /\ Highest(n + 1)'
      <3>1. new.number = n + 1
        BY <2>3, <2>6, <2>7, <2>8
      <3>2. Highest(n + 1)'
        BY <1>t, <2>4, <2>6, <2>7, <2>8, <3>1 DEF Highest
      <3>3. \A v \in versions : v.number # n + 1
        BY <1>t, <2>6, <2>7, <2>8 DEF Highest
      <3>4. UniqueAt(n + 1)'
        BY <2>4, <3>1, <3>3 DEF UniqueAt
      <3>5. UniqueAt(n)'
        BY <2>4, <2>6, <2>7, <2>8, <3>1 DEF UniqueAt
      <3> QED
        BY <3>2, <3>4, <3>5
    <2>9. undisturbed => \A d \in SecretCallers : d # c => secretCall'[d].at \in SecretOver
      BY <2>1, <2>6
    <2>10. undisturbed => secretCall'[Creator].at # "idle"
      BY <1>t, <2>1, <2>6
    <2> QED
      BY <2>1, <2>3, <2>4, <2>5, <2>6, <2>7, <2>8, <2>9, <2>10 DEF ServedInv, Running, SecretOver
  <1>5. ASSUME NEW c \in SecretCalls, SaveRotated(c)
        PROVE  ServedInv'
    <2>1. /\ secretCall[c].at = "save" /\ secretCall'[c].at = "done" /\ c \in SecretCallers
          /\ \A d \in SecretCallers : d # c => secretCall'[d] = secretCall[d]
      BY <1>t, <1>5, <1>m DEF SaveRotated
    <2>2. /\ secret' = [secretCall[c].copy EXCEPT !.current = @ + 1]
          /\ versions' = versions /\ undisturbed' = undisturbed
      BY <1>5 DEF SaveRotated
    <2>3. secret'.current = secretCall[c].copy.current + 1 /\ secret'.status = secretCall[c].copy.status
      BY <1>t, <2>1, <2>2 DEF SecretCopy
    <2>4. ASSUME undisturbed
          PROVE  /\ secretCall[c].copy = secret /\ secret.status # "absent"
                 /\ \A d \in SecretCallers : secretCall'[d].at \in SecretOver
                 /\ secretCall'[Creator].at # "idle"
                 /\ UniqueAt(secret.current + 1) /\ Highest(secret.current + 1)
      BY <1>t, <2>1, <2>4 DEF ServedInv, Running, SecretOver
    <2>5. PICK n : n = secret'.current
      OBVIOUS
    <2>6. undisturbed => UniqueAt(n)' /\ Highest(n)'
      BY <2>2, <2>3, <2>4, <2>5 DEF UniqueAt, Highest
    <2> QED
      BY <1>t, <2>2, <2>3, <2>4, <2>5, <2>6 DEF ServedInv, Running, SecretOver
  <1>6. ASSUME NEW c \in SecretCalls, SaveRevoked(c)
        PROVE  ServedInv'
    <2>1. /\ secretCall[c].at = "revoke" /\ secretCall'[c].at = "done" /\ c \in SecretCallers
          /\ \A d \in SecretCallers : d # c => secretCall'[d] = secretCall[d]
      BY <1>t, <1>6, <1>m DEF SaveRevoked
    <2>2. /\ secret' = [secretCall[c].copy EXCEPT !.status = "revoked"]
          /\ versions' = versions /\ undisturbed' = undisturbed
      BY <1>6 DEF SaveRevoked
    <2>3. secret'.current = secretCall[c].copy.current /\ secret'.status = "revoked"
      BY <1>t, <2>1, <2>2 DEF SecretCopy
    <2>4. ASSUME undisturbed
          PROVE  /\ secretCall[c].copy = secret /\ secret.status # "absent"
                 /\ \A d \in SecretCallers : secretCall'[d].at \in SecretOver
                 /\ \A d \in SecretCallers : secretCall[d].at \notin {"version", "save"}
                 /\ secretCall'[Creator].at # "idle"
      BY <1>t, <2>1, <2>4 DEF ServedInv, Running, SecretOver
    <2>5. undisturbed => UniqueAt(secret.current) /\ Highest(secret.current)
      BY <2>4 DEF ServedInv
    <2>6. PICK n : n = secret'.current
      OBVIOUS
    <2>7. undisturbed => UniqueAt(n)' /\ Highest(n)'
      BY <2>2, <2>3, <2>4, <2>5, <2>6 DEF UniqueAt, Highest
    <2> QED
      BY <1>t, <2>2, <2>3, <2>4, <2>6, <2>7 DEF ServedInv, Running, SecretOver
  <1>7. ASSUME NEW c \in SecretCallers, SecretCallDies(c)
        PROVE  ServedInv'
    BY <1>7 DEF SecretCallDies, ServedInv
  <1>8. CASE UNCHANGED secretVars
    BY <1>8 DEF secretVars, ServedInv, Running, UniqueAt, Highest
  <1> QED
    BY <1>1, <1>2, <1>3, <1>4, <1>5, <1>6, <1>7, <1>8 DEF SecretNext, SecretCallers

LEMMA ServedImplies == SecretInv /\ ServedInv => LastRotationServed
  <1> SUFFICES ASSUME SecretInv, ServedInv, undisturbed
               PROVE  /\ Cardinality({v \in versions : v.number = secret.current}) <= 1
                      /\ (\A c \in DOMAIN secretCall : secretCall[c].at \in SecretOver) =>
                           Latest = {v \in versions : v.number = secret.current}
    BY DEF LastRotationServed
  <1> DEFINE S == {v \in versions : v.number = secret.current}
  <1>t. /\ DOMAIN secretCall = SecretCallers /\ secret.current \in Nat
        /\ \A v \in versions : v.number \in Nat
    BY DEF SecretInv, SecretTyped, SecretCopy, ServedInv
  <1>1. CASE versions = {}
    <2>1. S = {} /\ Latest = {}
      BY <1>1 DEF Latest
    <2> QED
      BY <2>1, FS_EmptySet
  <1>2. CASE versions # {}
    <2>1. UniqueAt(secret.current)
      <3>1. CASE \E c \in SecretCallers : secretCall[c].at = "save"
        BY <3>1 DEF ServedInv
      <3>2. CASE \A c \in SecretCallers : secretCall[c].at # "save"
        <4>1. \A c \in SecretCallers : secretCall[c].at \notin {"version", "save"}
          BY <1>2, <3>2 DEF ServedInv
        <4>2. secret.status # "absent"
          BY <1>2 DEF ServedInv
        <4> QED
          BY <4>1, <4>2 DEF ServedInv
      <3> QED
        BY <3>1, <3>2
    <2>2. PICK v \in versions : v.number = secret.current /\ \A u \in versions : u.number = secret.current => u = v
      BY <2>1 DEF UniqueAt
    <2>3. S = {v}
      BY <2>2
    <2>4. Cardinality(S) <= 1
      <3>1. Cardinality({v}) = 1
        BY FS_Singleton
      <3> HIDE DEF S
      <3> QED
        BY <2>3, <3>1
    <2>5. ASSUME \A c \in DOMAIN secretCall : secretCall[c].at \in SecretOver
          PROVE  Latest = S
      <3>1. \A c \in SecretCallers : secretCall[c].at \notin {"version", "save"}
        BY <1>t, <2>5 DEF SecretOver
      <3>2. Highest(secret.current)
        BY <1>2, <3>1 DEF ServedInv
      <3>3. v \in Latest
        BY <2>2, <3>2 DEF Highest, Latest
      <3>4. \A u \in Latest : u.number = secret.current
        BY <1>t, <2>2, <3>2 DEF Highest, Latest
      <3> QED
        BY <2>2, <2>3, <3>3, <3>4 DEF Latest
    <2> QED
      BY <2>4, <2>5
  <1> QED
    BY <1>1, <1>2

(* LastRotationServed for any rotations and revocations: as long as none   *)
(* dies or runs beside another, the version that is served is the one that *)
(* the last rotation has stored.                                           *)
THEOREM LastRotationServedHolds == SecretSpec => []LastRotationServed
  <1> QED
    BY SecretInitially, SecretStep, ServedInitially, ServedStep, ServedImplies, PTL DEF SecretSpec

-----------------------------------------------------------------------------
(***************************************************************************)
(* EvidenceQueue, for any workers, faults and claims: the lease keeps two  *)
(* workers apart as long as it does not end under one, and no pack is given *)
(* up early as long as nothing fails between a failed attempt and its      *)
(* requeue.                                                                *)
(***************************************************************************)

(* The inductive invariants.                                               *)

PackRows ==
  [status : {"absent", "generating", "completed", "failed"},
   lease : {"none", "live", "over"}, attempts : Nat]

Working == {"generate", "requeue"}
PackPlaces == {"down", "poll", "claim"} \cup Working

EvidenceTyped ==
  /\ pack \in [Packs -> PackRows]
  /\ packWorker \in [PackWorkers -> [at : PackPlaces, on : Packs \cup {NoPack}]]
  /\ \A w \in PackWorkers : packWorker[w].at \in Working <=> packWorker[w].on # NoPack
  /\ packFaults \in Nat

(* A pack whose lease has not ended under a worker.                        *)
Apart(p) ==
  /\ \A v, w \in WorkedOn(p) : v = w
  /\ WorkedOn(p) # {} => pack[p].lease = "live" /\ pack[p].status # "completed"

LeaseInv == EvidenceTyped /\ \A p \in Packs \ overrun : Apart(p)

FailureInv == EvidenceTyped /\ PackFailureIsEarned

(* What a step may never do to a completed pack.                           *)
StaysCompleted ==
  \A p \in Packs \ overrun' : pack[p].status = "completed" => pack'[p].status = "completed"

-----------------------------------------------------------------------------
(* Types.                                                                  *)

LEMMA PackIsSome == \A p \in Packs : p # NoPack
  BY PacksAreNumbered DEF NoPack

LEMMA EvidenceInitially == EvidenceInit => LeaseInv /\ FailureInv
  <1> SUFFICES ASSUME EvidenceInit
               PROVE  LeaseInv /\ FailureInv
    OBVIOUS
  <1>1. EvidenceTyped
    BY DEF EvidenceInit, EvidenceTyped, PackRows, PackPlaces, Working
  <1>2. \A p \in Packs : WorkedOn(p) = {}
    BY PackIsSome DEF EvidenceInit, WorkedOn
  <1> QED
    BY <1>1, <1>2 DEF EvidenceInit, LeaseInv, FailureInv, PackFailureIsEarned, Apart

LEMMA WorksTyped ==
  ASSUME EvidenceTyped, NEW w \in PackWorkers, NEW from, NEW to \in PackPlaces,
         NEW p \in Packs \cup {NoPack}, to \in Working <=> p # NoPack, Works(w, from, to, p)
  PROVE  /\ packWorker' \in [PackWorkers -> [at : PackPlaces, on : Packs \cup {NoPack}]]
         /\ \A v \in PackWorkers : packWorker'[v].at \in Working <=> packWorker'[v].on # NoPack
         /\ packWorker[w].at = from /\ packWorker'[w] = [at |-> to, on |-> p]
         /\ \A v \in PackWorkers \ {w} : packWorker'[v] = packWorker[v]
  BY DEF EvidenceTyped, Works

LEMMA LeasesEndTyped ==
  ASSUME EvidenceTyped, NEW ended, LeasesEnd(ended)
  PROVE  /\ pack' \in [Packs -> PackRows]
         /\ \A p \in Packs : /\ pack'[p].status = pack[p].status
                             /\ pack'[p].attempts = pack[p].attempts
                             /\ p \notin ended => pack'[p] = pack[p]
         /\ overrun' = overrun \cup {p \in ended : WorkedOn(p) # {}}
  BY DEF EvidenceTyped, LeasesEnd, PackRows

(* What a worker that leaves its pack, or has none, does to the others.    *)
LEMMA LeavingKeeps ==
  ASSUME EvidenceTyped, NEW w \in PackWorkers, packWorker'[w].on = NoPack,
         \A v \in PackWorkers \ {w} : packWorker'[v] = packWorker[v],
         NEW p \in Packs
  PROVE  WorkedOn(p)' = WorkedOn(p) \ {w}
  BY PackIsSome DEF WorkedOn

LEMMA SameWork ==
  ASSUME \A v \in PackWorkers : packWorker'[v].on = packWorker[v].on
  PROVE  \A p \in Packs : WorkedOn(p)' = WorkedOn(p)
  BY DEF WorkedOn

-----------------------------------------------------------------------------
(* One lemma per action: its types, and both invariants.                   *)

Preserved == LeaseInv' /\ StaysCompleted /\ FailureInv'

LEMMA QueuePackKeeps ==
  ASSUME LeaseInv, FailureInv, NEW q \in Packs, QueuePack(q)
  PROVE  Preserved
  <1>1. EvidenceTyped'
    BY DEF QueuePack, LeaseInv, EvidenceTyped, PackRows
  <1>2. /\ \A p \in Packs \ {q} : pack'[p] = pack[p]
        /\ pack[q].status = "absent" /\ pack'[q].status = "generating"
        /\ pack'[q].lease = pack[q].lease
    BY DEF QueuePack, LeaseInv, EvidenceTyped, PackRows
  <1>3. \A p \in Packs : WorkedOn(p)' = WorkedOn(p)
    BY DEF QueuePack, WorkedOn
  <1>4. overrun' = overrun /\ packFaults' = packFaults /\ packWorker' = packWorker
    BY DEF QueuePack
  <1>5. \A p \in Packs \ overrun' : Apart(p)'
    BY <1>2, <1>3, <1>4 DEF LeaseInv, Apart
  <1>6. PackFailureIsEarned'
    BY <1>2, <1>3, <1>4 DEF FailureInv, PackFailureIsEarned
  <1> QED
    BY <1>1, <1>2, <1>5, <1>6 DEF Preserved, LeaseInv, FailureInv, StaysCompleted

LEMMA RecoverStuckPacksKeeps ==
  ASSUME LeaseInv, FailureInv, NEW w \in PackWorkers, RecoverStuckPacks(w)
  PROVE  Preserved
  <1> DEFINE ended == {p \in Packs : pack[p].status = "generating" /\ pack[p].lease = "live"}
  <1>1. Works(w, "down", "poll", NoPack) /\ LeasesEnd(ended) /\ packFaults' = packFaults
    BY DEF RecoverStuckPacks
  <1>2. EvidenceTyped
    BY DEF LeaseInv
  <1>3. EvidenceTyped'
    BY <1>1, <1>2, WorksTyped, LeasesEndTyped DEF EvidenceTyped, PackPlaces, Working
  <1>4. \A p \in Packs : WorkedOn(p)' = WorkedOn(p)
    <2>1. packWorker[w].on = NoPack
      BY <1>1, <1>2 DEF Works, EvidenceTyped, Working
    <2> QED
      BY <1>1, <1>2, <2>1, SameWork DEF Works, EvidenceTyped
  <1> HIDE DEF ended
  <1>5. \A p \in Packs \ overrun' : Apart(p)'
    BY <1>1, <1>2, <1>4, LeasesEndTyped DEF LeaseInv, Apart
  <1>6. PackFailureIsEarned'
    <2>1. \A v \in PackWorkers : packWorker[v].at = "requeue" => packWorker'[v] = packWorker[v]
      BY <1>1, <1>2 DEF Works, EvidenceTyped
    <2> QED
      BY <1>1, <1>2, <1>4, <2>1, LeasesEndTyped DEF FailureInv, PackFailureIsEarned, WorkedOn
  <1> QED
    BY <1>1, <1>2, <1>3, <1>5, <1>6, LeasesEndTyped
    DEF Preserved, LeaseInv, FailureInv, StaysCompleted

LEMMA PackLeaseEndsKeeps ==
  ASSUME LeaseInv, FailureInv, NEW q \in Packs, PackLeaseEnds(q)
  PROVE  Preserved
  <1>1. /\ LeasesEnd({q}) /\ packWorker' = packWorker /\ packFaults' = packFaults
        /\ \A p \in Packs : WorkedOn(p)' = WorkedOn(p)
    BY DEF PackLeaseEnds, WorkedOn
  <1>2. EvidenceTyped
    BY DEF LeaseInv
  <1>3. EvidenceTyped'
    BY <1>1, <1>2, LeasesEndTyped DEF EvidenceTyped
  <1>4. \A p \in Packs \ overrun' : Apart(p)'
    BY <1>1, <1>2, LeasesEndTyped DEF LeaseInv, Apart
  <1>5. PackFailureIsEarned'
    BY <1>1, <1>2, LeasesEndTyped DEF FailureInv, PackFailureIsEarned
  <1> QED
    BY <1>1, <1>2, <1>3, <1>4, <1>5, LeasesEndTyped
    DEF Preserved, LeaseInv, FailureInv, StaysCompleted

LEMMA FailExhaustedPacksKeeps ==
  ASSUME LeaseInv, FailureInv, NEW w \in PackWorkers, FailExhaustedPacks(w)
  PROVE  Preserved
  <1>1. /\ Works(w, "poll", "claim", NoPack)
        /\ packFaults' = packFaults /\ overrun' = overrun
    BY DEF FailExhaustedPacks
  <1>2. EvidenceTyped
    BY DEF LeaseInv
  <1>3. /\ pack' \in [Packs -> PackRows]
        /\ \A p \in Packs :
             /\ pack'[p].lease = pack[p].lease /\ pack'[p].attempts = pack[p].attempts
             /\ \/ pack'[p].status = pack[p].status
                \/ /\ pack[p].status = "generating" /\ pack'[p].status = "failed"
                   /\ pack[p].attempts >= PackMaxAttempts
    BY <1>2 DEF FailExhaustedPacks, EvidenceTyped, PackRows
  <1>4. EvidenceTyped'
    BY <1>1, <1>2, <1>3, WorksTyped DEF EvidenceTyped, PackPlaces, Working
  <1>5. packWorker[w].on = NoPack
    BY <1>1, <1>2 DEF Works, EvidenceTyped, Working
  <1>6. \A p \in Packs : WorkedOn(p)' = WorkedOn(p)
    BY <1>1, <1>2, <1>5, SameWork DEF Works, EvidenceTyped
  <1>7. \A p \in Packs \ overrun' : Apart(p)'
    BY <1>1, <1>3, <1>6 DEF LeaseInv, Apart
  <1>8. PackFailureIsEarned'
    <2>1. \A v \in PackWorkers : packWorker[v].at = "requeue" => packWorker'[v] = packWorker[v]
      BY <1>1, <1>2 DEF Works, EvidenceTyped
    <2> QED
      BY <1>1, <1>3, <1>6, <2>1 DEF FailureInv, PackFailureIsEarned, WorkedOn
  <1>9. StaysCompleted
    BY <1>3 DEF StaysCompleted
  <1> QED
    BY <1>4, <1>7, <1>8, <1>9 DEF Preserved, LeaseInv, FailureInv

LEMMA ClaimPackKeeps ==
  ASSUME LeaseInv, FailureInv, NEW w \in PackWorkers, NEW q \in Packs, ClaimPack(w, q)
  PROVE  Preserved
  <1>1. /\ Works(w, "claim", "generate", q)
        /\ pack[q].status = "generating" /\ pack[q].lease # "live"
        /\ packFaults' = packFaults /\ overrun' = overrun
    BY DEF ClaimPack, PackClaimable
  <1>2. EvidenceTyped
    BY DEF LeaseInv
  <1>3. /\ pack' \in [Packs -> PackRows]
        /\ \A p \in Packs \ {q} : pack'[p] = pack[p]
        /\ pack'[q].status = "generating" /\ pack'[q].lease = "live"
    BY <1>1, <1>2 DEF ClaimPack, EvidenceTyped, PackRows
  <1>4. EvidenceTyped'
    BY <1>1, <1>2, <1>3, PackIsSome, WorksTyped DEF EvidenceTyped, PackPlaces, Working
  <1>5. packWorker[w].on = NoPack /\ packWorker'[w] = [at |-> "generate", on |-> q]
    BY <1>1, <1>2 DEF Works, EvidenceTyped, Working
  <1>6. /\ \A p \in Packs \ {q} : WorkedOn(p)' = WorkedOn(p)
        /\ WorkedOn(q)' = WorkedOn(q) \cup {w}
    BY <1>1, <1>2, <1>5, PackIsSome DEF WorkedOn, Works, EvidenceTyped
  <1>7. q \notin overrun => WorkedOn(q) = {}
    BY <1>1 DEF LeaseInv, Apart
  <1>8. \A p \in Packs \ overrun' : Apart(p)'
    BY <1>1, <1>3, <1>6, <1>7 DEF LeaseInv, Apart
  <1>9. PackFailureIsEarned'
    <2>1. \A v \in PackWorkers : packWorker[v].at = "requeue" => packWorker'[v] = packWorker[v]
      BY <1>1, <1>2 DEF Works, EvidenceTyped
    <2> QED
      BY <1>1, <1>3, <2>1 DEF FailureInv, PackFailureIsEarned, WorkedOn
  <1>10. StaysCompleted
    BY <1>1, <1>3 DEF StaysCompleted
  <1> QED
    BY <1>4, <1>8, <1>9, <1>10 DEF Preserved, LeaseInv, FailureInv

LEMMA NoPackToClaimKeeps ==
  ASSUME LeaseInv, FailureInv, NEW w \in PackWorkers, NoPackToClaim(w)
  PROVE  Preserved
  <1>1. /\ Works(w, "claim", "poll", NoPack)
        /\ pack' = pack /\ packFaults' = packFaults /\ overrun' = overrun
    BY DEF NoPackToClaim
  <1>2. EvidenceTyped
    BY DEF LeaseInv
  <1>3. EvidenceTyped'
    BY <1>1, <1>2, WorksTyped DEF EvidenceTyped, PackPlaces, Working
  <1>4. packWorker[w].on = NoPack
    BY <1>1, <1>2 DEF Works, EvidenceTyped, Working
  <1>5. \A p \in Packs : WorkedOn(p)' = WorkedOn(p)
    BY <1>1, <1>2, <1>4, SameWork DEF Works, EvidenceTyped
  <1>6. \A p \in Packs \ overrun' : Apart(p)'
    BY <1>1, <1>5 DEF LeaseInv, Apart
  <1>7. PackFailureIsEarned'
    <2>1. \A v \in PackWorkers : packWorker[v].at = "requeue" => packWorker'[v] = packWorker[v]
      BY <1>1, <1>2 DEF Works, EvidenceTyped
    <2> QED
      BY <1>1, <1>5, <2>1 DEF FailureInv, PackFailureIsEarned, WorkedOn
  <1> QED
    BY <1>1, <1>3, <1>6, <1>7 DEF Preserved, LeaseInv, FailureInv, StaysCompleted

LEMMA SavePackKeeps ==
  ASSUME LeaseInv, FailureInv, NEW w \in PackWorkers, NEW status \in {"completed", "failed"},
         SavePack(w, status)
  PROVE  Preserved
  <1>1. EvidenceTyped
    BY DEF LeaseInv
  <1>2. packWorker[w].at = "generate" /\ packFaults' = packFaults /\ overrun' = overrun
    BY DEF SavePack, Works
  <1>3. PICK q \in Packs : q = packWorker[w].on /\ w \in WorkedOn(q)
    BY <1>1, <1>2 DEF EvidenceTyped, Working, WorkedOn
  <1>4. /\ pack' \in [Packs -> PackRows]
        /\ \A p \in Packs \ {q} : pack'[p] = pack[p]
        /\ pack'[q].status = status /\ pack'[q].lease = pack[q].lease
        /\ pack'[q].attempts = pack[q].attempts
    BY <1>1, <1>3 DEF SavePack, EvidenceTyped, PackRows
  <1>5. PICK to \in {"poll", "requeue"}, n \in {q, NoPack} :
          /\ Works(w, "generate", to, n)
          /\ status = "completed" => to = "poll" /\ n = NoPack
          /\ status = "failed" => to = "requeue" /\ n = q
    BY <1>3 DEF SavePack
  <1>6. EvidenceTyped'
    <2>1. to \in PackPlaces /\ n \in Packs \cup {NoPack} /\ (to \in Working <=> n # NoPack)
      BY <1>3, <1>5, PackIsSome DEF PackPlaces, Working
    <2> QED
      BY <1>1, <1>2, <1>4, <1>5, <2>1, WorksTyped DEF EvidenceTyped
  <1>7. /\ packWorker'[w] = [at |-> to, on |-> n]
        /\ \A v \in PackWorkers \ {w} : packWorker'[v] = packWorker[v]
    BY <1>1, <1>5 DEF Works, EvidenceTyped
  <1>8. \A p \in Packs \ {q} : WorkedOn(p)' = WorkedOn(p)
    BY <1>3, <1>5, <1>7, PackIsSome DEF WorkedOn
  <1>9. WorkedOn(q)' = IF status = "completed" THEN WorkedOn(q) \ {w} ELSE WorkedOn(q)
    BY <1>3, <1>5, <1>7, PackIsSome DEF WorkedOn
  <1>10. \A p \in Packs \ overrun' : Apart(p)'
    <2>1. \A p \in Packs \ overrun : p # q => Apart(p)'
      BY <1>4, <1>8 DEF LeaseInv, Apart
    <2>2. q \notin overrun => Apart(q)'
      BY <1>3, <1>4, <1>9 DEF LeaseInv, Apart
    <2> QED
      BY <1>2, <2>1, <2>2
  <1>11. PackFailureIsEarned'
    <2> SUFFICES ASSUME packFaults = 0, NEW p \in Packs, pack'[p].status = "failed"
                 PROVE  \/ pack'[p].attempts >= PackMaxAttempts
                        \/ \E v \in PackWorkers : packWorker'[v].on = p /\ packWorker'[v].at = "requeue"
      BY <1>2 DEF PackFailureIsEarned, WorkedOn
    <2>1. CASE p = q
      BY <1>4, <1>5, <1>7, <2>1
    <2>2. CASE p # q
      BY <1>2, <1>4, <1>7, <2>2 DEF FailureInv, PackFailureIsEarned, WorkedOn
    <2> QED
      BY <2>1, <2>2
  <1>12. StaysCompleted
    BY <1>2, <1>3, <1>4 DEF StaysCompleted, LeaseInv, Apart
  <1> QED
    BY <1>6, <1>10, <1>11, <1>12 DEF Preserved, LeaseInv, FailureInv

LEMMA RequeuePackKeeps ==
  ASSUME LeaseInv, FailureInv, NEW w \in PackWorkers, RequeuePack(w)
  PROVE  Preserved
  <1>1. EvidenceTyped
    BY DEF LeaseInv
  <1>2. /\ Works(w, "requeue", "poll", NoPack)
        /\ packFaults' = packFaults /\ overrun' = overrun
    BY DEF RequeuePack
  <1>3. PICK q \in Packs : q = packWorker[w].on /\ w \in WorkedOn(q)
    BY <1>1, <1>2 DEF Works, EvidenceTyped, Working, WorkedOn
  <1>4. /\ pack' \in [Packs -> PackRows]
        /\ \A p \in Packs \ {q} : pack'[p] = pack[p]
        /\ pack'[q].status = "generating"
    BY <1>1, <1>3 DEF RequeuePack, EvidenceTyped, PackRows
  <1>5. EvidenceTyped'
    BY <1>1, <1>2, <1>4, WorksTyped DEF EvidenceTyped, PackPlaces, Working
  <1>6. /\ packWorker'[w].on = NoPack
        /\ \A v \in PackWorkers \ {w} : packWorker'[v] = packWorker[v]
    BY <1>1, <1>2 DEF Works, EvidenceTyped
  <1>7. \A p \in Packs : WorkedOn(p)' = WorkedOn(p) \ {w}
    BY <1>1, <1>6, LeavingKeeps
  <1>8. \A p \in Packs \ overrun' : Apart(p)'
    <2>1. \A p \in Packs \ overrun : p # q => Apart(p)'
      BY <1>4, <1>7 DEF LeaseInv, Apart
    <2>2. q \notin overrun => WorkedOn(q)' = {}
      BY <1>3, <1>7 DEF LeaseInv, Apart
    <2> QED
      BY <1>2, <2>1, <2>2 DEF Apart
  <1>9. PackFailureIsEarned'
    <2>1. \A p \in Packs : pack'[p].status = "failed" => p # q /\ pack'[p] = pack[p]
      BY <1>4
    <2>2. \A p \in Packs \ {q} : \A v \in WorkedOn(p) : v # w
      BY <1>3 DEF WorkedOn
    <2> QED
      BY <1>2, <1>6, <2>1, <2>2 DEF FailureInv, PackFailureIsEarned, WorkedOn
  <1>10. StaysCompleted
    BY <1>2, <1>3, <1>4 DEF StaysCompleted, LeaseInv, Apart
  <1> QED
    BY <1>5, <1>8, <1>9, <1>10 DEF Preserved, LeaseInv, FailureInv

LEMMA PackFaultKeeps ==
  ASSUME LeaseInv, FailureInv, NEW w \in PackWorkers, NEW from, NEW to \in {"poll", "down"},
         Works(w, from, to, NoPack), PackFault
  PROVE  Preserved
  <1>1. EvidenceTyped
    BY DEF LeaseInv
  <1>2. pack' = pack /\ overrun' = overrun /\ packFaults' = packFaults + 1
    BY DEF PackFault
  <1>3. EvidenceTyped'
    <2>1. to \in PackPlaces /\ to \notin Working
      BY DEF PackPlaces, Working
    <2>2. packFaults' \in Nat
      BY <1>1, <1>2 DEF EvidenceTyped
    <2> QED
      BY <1>1, <1>2, <2>1, <2>2, WorksTyped DEF EvidenceTyped
  <1>4. /\ packWorker'[w].on = NoPack
        /\ \A v \in PackWorkers \ {w} : packWorker'[v] = packWorker[v]
    BY <1>1 DEF Works, EvidenceTyped
  <1>5. \A p \in Packs : WorkedOn(p)' = WorkedOn(p) \ {w}
    BY <1>1, <1>4, LeavingKeeps
  <1>6. \A p \in Packs \ overrun' : Apart(p)'
    BY <1>2, <1>5 DEF LeaseInv, Apart
  <1>7. PackFailureIsEarned'
    BY <1>1, <1>2 DEF PackFailureIsEarned, EvidenceTyped
  <1> QED
    BY <1>2, <1>3, <1>6, <1>7 DEF Preserved, LeaseInv, FailureInv, StaysCompleted

-----------------------------------------------------------------------------

LEMMA EvidenceStep == LeaseInv /\ FailureInv /\ [EvidenceNext]_evidenceVars => Preserved
  <1> SUFFICES ASSUME LeaseInv, FailureInv, [EvidenceNext]_evidenceVars
               PROVE  Preserved
    OBVIOUS
  <1>1. ASSUME NEW w \in PackWorkers, PackErrs(w) \/ PackWorkerDies(w)
        PROVE  Preserved
    BY <1>1, PackFaultKeeps DEF PackErrs, PackWorkerDies
  <1>2. CASE UNCHANGED evidenceVars
    BY <1>2 DEF evidenceVars, Preserved, LeaseInv, FailureInv, EvidenceTyped, Apart, WorkedOn,
                PackFailureIsEarned, StaysCompleted
  <1> QED
    BY <1>1, <1>2, QueuePackKeeps, PackLeaseEndsKeeps, RecoverStuckPacksKeeps,
       FailExhaustedPacksKeeps, ClaimPackKeeps, NoPackToClaimKeeps, SavePackKeeps,
       RequeuePackKeeps
    DEF EvidenceNext, PackWorkerStep

WorkedApart == \A p \in Packs \ overrun : Cardinality(WorkedOn(p)) <= 1

LEMMA LeaseInvApart == LeaseInv => WorkedApart
  <1> SUFFICES ASSUME LeaseInv, NEW p \in Packs \ overrun
               PROVE  Cardinality(WorkedOn(p)) <= 1
    BY DEF WorkedApart
  <1>1. CASE WorkedOn(p) = {}
    BY <1>1, FS_EmptySet
  <1>2. CASE WorkedOn(p) # {}
    <2>1. PICK w \in WorkedOn(p) : TRUE
      BY <1>2
    <2>2. WorkedOn(p) = {w}
      BY <2>1 DEF LeaseInv, Apart
    <2>3. Cardinality({w}) = 1
      BY FS_Singleton
    <2> QED
      BY <2>2, <2>3
  <1> QED
    BY <1>1, <1>2

LEMMA EvidenceSafe == EvidenceSpec => [](LeaseInv /\ FailureInv)
  BY EvidenceInitially, EvidenceStep, PTL DEF EvidenceSpec, Preserved

(* A pack is given up only after worker_max_attempts attempts, whatever    *)
(* replicas race for it, until a first crash or database error             *)
(* (core/evidence_worker.py:17-19).                                        *)
THEOREM PackFailureIsEarnedHolds ==
  EvidenceSpec => []PackFailureIsEarned
  BY EvidenceSafe, PTL DEF FailureInv

(* Two workers work on one pack, or take back a completed one, only after  *)
(* its lease has ended under a worker (core/evidence_worker.py:9-16), for  *)
(* any number of replicas, crashes and errors.                             *)
THEOREM LeaseKeepsApartHolds ==
  EvidenceSpec => LeaseKeepsApart
  <1>1. LeaseInv' => WorkedApart'
    BY LeaseInvApart, PTL
  <1>2. LeaseInv /\ FailureInv /\ [EvidenceNext]_evidenceVars =>
          [\A p \in Packs \ overrun' :
             /\ Cardinality(WorkedOn(p)') <= 1
             /\ pack[p].status = "completed" => pack'[p].status = "completed"]_evidenceVars
    BY <1>1, EvidenceStep DEF Preserved, StaysCompleted, WorkedApart
  <1> QED
    BY <1>2, EvidenceSafe, PTL DEF EvidenceSpec, LeaseKeepsApart

=============================================================================
