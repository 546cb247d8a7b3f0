-------------------------- MODULE EvidenceTrailProofs --------------------------
(***************************************************************************)
(* Proofs about TransparencyLog and EvidenceTrail, for every set of event  *)
(* types, objects and contents and every bound: first what receipts and    *)
(* hashes tell of any log, then the log of a run whose writes fail and     *)
(* whose file is edited, then the evidence of the run.                     *)
(***************************************************************************)
EXTENDS EvidenceTrail, SequenceTheorems, WellFoundedInduction, TLAPS

(* Entries that append() makes.                                            *)

\* A fresh entry belongs to the log's types (TransparencyLog.append).
LEMMA NewEntryType ==
  ASSUME NEW log \in Seq(TransparencyEntry), NEW id \in Nat,
         NEW type \in EventTypes, NEW object \in ObjectIds
  PROVE  /\ NewEntry(log, id, type, object) \in TransparencyEntry
         /\ NewEntry(log, id, type, object).sequence = Len(log)
         /\ NewEntry(log, id, type, object).event_id = id
         /\ NewEntry(log, id, type, object).previous_entry_hash = LastHash(log)
         /\ NewEntry(log, id, type, object).entry_hash
              = ComputeEntryHash(NewEntry(log, id, type, object))
<1> DEFINE u == [sequence |-> Len(log), event_id |-> id,
                 event_type |-> type, object_id |-> object,
                 previous_entry_hash |-> LastHash(log), entry_hash |-> << >>]
           e == NewEntry(log, id, type, object)
<1>1. Len(log) \in Nat
  BY LenProperties
<1>2. LastHash(log) \in Digest
  <2>1. CASE log = << >>
    BY <2>1, EmptySeq DEF LastHash, GENESIS_HASH, Digest
  <2>2. CASE log # << >>
    <3>1. Len(log) \in 1..Len(log)
      BY <2>2, EmptySeq, <1>1
    <3>2. log[Len(log)] \in TransparencyEntry
      BY <3>1, ElementOfSeq
    <3> QED BY <3>2, <2>2 DEF LastHash, TransparencyEntry
  <2> QED BY <2>1, <2>2
<1>3. FieldsForHash(u) \in Fields
  BY <1>1 DEF FieldsForHash, Fields
<1>4. ComputeEntryHash(u) \in Digest
  BY <1>2, <1>3, AppendProperties DEF ComputeEntryHash, Digest
<1>5. e = [u EXCEPT !.entry_hash = ComputeEntryHash(u)]
  BY DEF NewEntry
<1>6. ComputeEntryHash(e) = ComputeEntryHash(u)
  BY <1>5 DEF ComputeEntryHash, FieldsForHash
<1> QED BY <1>1, <1>2, <1>4, <1>5, <1>6 DEF TransparencyEntry

\* Appending a fresh entry with an unused event_id keeps the chain intact.
LEMMA AppendKeepsChain ==
  ASSUME NEW log \in Seq(TransparencyEntry), ChainOk(log),
         NEW id \in Nat, NEW type \in EventTypes, NEW object \in ObjectIds
  PROVE  ChainOk(Append(log, NewEntry(log, id, type, object)))
<1> DEFINE e == NewEntry(log, id, type, object)
           new == Append(log, e)
<1>1. /\ e \in TransparencyEntry
      /\ e.previous_entry_hash = LastHash(log)
      /\ e.entry_hash = ComputeEntryHash(e)
  BY NewEntryType
<1> HIDE DEF e
<1>2. /\ Len(new) = Len(log) + 1
      /\ new[Len(log) + 1] = e
      /\ \A i \in 1..Len(log) : new[i] = log[i]
      /\ Len(log) \in Nat
  BY <1>1, AppendProperties, LenProperties
<1> HIDE DEF new
<1>3. ASSUME NEW i \in 1..Len(new)  PROVE EntryOk(new, i)
  <2>1. CASE i \in 1..Len(log)
    <3>1. PreviousHash(new, i) = PreviousHash(log, i)
      BY <2>1, <1>2 DEF PreviousHash
    <3>2. new[i] = log[i]
      BY <2>1, <1>2
    <3> QED BY <2>1, <3>1, <3>2 DEF EntryOk, ChainOk
  <2>2. CASE i = Len(log) + 1
    <3>1. PreviousHash(new, i) = LastHash(log)
      <4>1. CASE log = << >>
        BY <4>1, <2>2, <1>2, EmptySeq DEF PreviousHash, LastHash
      <4>2. CASE log # << >>
        <5>1. Len(log) \in 1..Len(log) /\ i # 1
          BY <4>2, <2>2, <1>2, EmptySeq
        <5> QED BY <5>1, <4>2, <2>2, <1>2 DEF PreviousHash, LastHash
      <4> QED BY <4>1, <4>2
    <3> QED BY <3>1, <2>2, <1>1, <1>2 DEF EntryOk
  <2> QED BY <2>1, <2>2, <1>2
<1>4. ChainOk(new)
  BY <1>3 DEF ChainOk
<1> QED BY <1>4 DEF new, e

-----------------------------------------------------------------------------
(* What hashes and receipts tell of any log.                               *)

\* The natural numbers are well ordered.
LEMMA LeastNat ==
  ASSUME NEW S \in SUBSET Nat, S # {}
  PROVE  \E m \in S : \A k \in S : m <= k
<1> DEFINE R == {p \in Nat \X Nat : p[1] < p[2]}
<1>1. R = OpToRel(<, Nat)
  BY DEF OpToRel
<1>2. IsWellFoundedOn(R, Nat)
  BY <1>1, NatLessThanWellFounded
<1> HIDE DEF R
<1>3. PICK m \in S : \A k \in S : ~ (<<k, m>> \in R)
  BY <1>2, WFMin
<1>4. ASSUME NEW k \in S  PROVE m <= k
  <2>1. k \in Nat /\ m \in Nat
    OBVIOUS
  <2>2. k < m => <<k, m>> \in R
    BY <2>1 DEF R
  <2> QED BY <1>3, <2>1, <2>2
<1> QED BY <1>3, <1>4

\* Up to an entry that every check of verify_chain accepts, each entry_hash digests
\* exactly the entries before it.
LEMMA DigestsHistory ==
  ASSUME NEW log \in Seq(TransparencyEntry), NEW n \in 1..Len(log),
         \A i \in 1..n : EntryOk(log, i)
  PROVE  \A i \in 1..n :
           /\ Len(log[i].entry_hash) = i
           /\ \A k \in 1..i : log[i].entry_hash[k] = FieldsForHash(log[k])
<1> DEFINE Good(i) == /\ Len(log[i].entry_hash) = i
                      /\ \A k \in 1..i : log[i].entry_hash[k] = FieldsForHash(log[k])
           Bad == {i \in 1..n : ~Good(i)}
<1>1. n \in Nat /\ Len(log) \in Nat
  BY LenProperties
<1>2. \A i \in 1..n : /\ log[i] \in TransparencyEntry
                       /\ FieldsForHash(log[i]) \in Fields
                       /\ log[i].previous_entry_hash \in Seq(Fields)
                       /\ log[i].entry_hash \in Seq(Fields)
  <2> TAKE i \in 1..n
  <2>1. log[i] \in TransparencyEntry
    BY <1>1, ElementOfSeq
  <2> QED BY <2>1 DEF TransparencyEntry, FieldsForHash, Fields, Digest
<1>3. \A i \in 1..n : (i # 1 => Good(i - 1)) => Good(i)
  <2> SUFFICES ASSUME NEW i \in 1..n, i # 1 => Good(i - 1) PROVE Good(i)
    OBVIOUS
  <2> DEFINE prev == log[i].previous_entry_hash
  <2>1. log[i].entry_hash = Append(prev, FieldsForHash(log[i])) /\ prev = PreviousHash(log, i)
    BY DEF EntryOk, ComputeEntryHash
  <2>2. Len(prev) = i - 1 /\ \A k \in 1..(i - 1) : prev[k] = FieldsForHash(log[k])
    <3>1. CASE i = 1
      BY <3>1, <2>1, EmptySeq DEF PreviousHash, GENESIS_HASH
    <3>2. CASE i # 1
      BY <3>2, <2>1 DEF PreviousHash
    <3> QED BY <3>1, <3>2
  <2> HIDE DEF prev
  <2>3. /\ Len(Append(prev, FieldsForHash(log[i]))) = i
        /\ \A k \in 1..(i - 1) : Append(prev, FieldsForHash(log[i]))[k] = prev[k]
        /\ Append(prev, FieldsForHash(log[i]))[i] = FieldsForHash(log[i])
    BY <1>2, <2>2, <1>1, AppendProperties DEF prev
  <2> QED BY <2>1, <2>2, <2>3, <1>1
<1>4. Bad = {}
  <2> SUFFICES ASSUME Bad # {} PROVE FALSE
    OBVIOUS
  <2> HIDE DEF Good
  <2>1. Bad \in SUBSET Nat
    BY <1>1
  <2>2. PICK m \in Bad : \A k \in Bad : m <= k
    BY <2>1, LeastNat
  <2>3. m \in 1..n /\ ~Good(m)
    OBVIOUS
  <2>4. m # 1 => (m - 1) \in 1..n /\ (m - 1) \notin Bad
    BY <2>2, <2>3, <1>1
  <2> QED BY <2>3, <2>4, <1>3
<1> QED BY <1>4

\* Of a log that fails to verify there is a first entry that does, and BrokenAtSequence is what
\* it says its sequence is (verify_chain).
LEMMA FirstBroken ==
  ASSUME NEW log \in Seq(TransparencyEntry), ~ChainOk(log)
  PROVE  \E first \in 1..Len(log) :
           /\ ~EntryOk(log, first)
           /\ \A j \in 1..(first - 1) : EntryOk(log, j)
           /\ BrokenAtSequence(log) = log[first].sequence
<1> DEFINE Broken == {i \in 1..Len(log) : ~EntryOk(log, i)}
           first == CHOOSE i \in 1..Len(log) :
                      ~EntryOk(log, i) /\ \A j \in 1..(i - 1) : EntryOk(log, j)
<1>0. Len(log) \in Nat
  BY LenProperties
<1>1. Broken \in SUBSET Nat /\ Broken # {}
  BY <1>0 DEF ChainOk
<1>2. PICK m \in Broken : \A k \in Broken : m <= k
  <2> HIDE DEF Broken
  <2> QED BY <1>1, LeastNat
<1>3. \A j \in 1..(m - 1) : EntryOk(log, j)
  BY <1>0, <1>2
<1>4. first \in 1..Len(log) /\ ~EntryOk(log, first) /\ \A j \in 1..(first - 1) : EntryOk(log, j)
  BY <1>2, <1>3
<1>5. BrokenAtSequence(log) = log[first].sequence
  BY DEF BrokenAtSequence
<1> HIDE DEF first
<1> QED BY <1>4, <1>5

\* An entry whose prefix passes every check of verify_chain pins that prefix.
LEMMA IntactPrefixIsPinned ==
  ASSUME NEW log \in Seq(TransparencyEntry), NEW r \in TransparencyReceipt,
         r.sequence < Len(log), log[r.sequence + 1].entry_hash = r.entry_hash,
         \A i \in 1..(r.sequence + 1) : EntryOk(log, i)
  PROVE  Pinned(r, log)
<1> DEFINE n == r.sequence + 1
<1>1. Len(log) \in Nat /\ r.sequence \in Nat
  BY LenProperties DEF TransparencyReceipt
<1>2. n \in 1..Len(log) /\ n \in 1..n
  BY <1>1
<1> HIDE DEF n
<1>3. \A i \in 1..n : EntryOk(log, i)
  BY DEF n
<1>4. \A i \in 1..n : /\ Len(log[i].entry_hash) = i
                       /\ \A k \in 1..i : log[i].entry_hash[k] = FieldsForHash(log[k])
  BY <1>2, <1>3, DigestsHistory
<1>5. Len(r.entry_hash) = n /\ \A k \in 1..n : r.entry_hash[k] = FieldsForHash(log[k])
  BY <1>2, <1>4 DEF n
<1> QED BY <1>5 DEF n, Pinned

\* verify_receipt, against any log at all: a receipt that verifies certifies every entry up to its
\* own, unless the first line that breaks the chain is among them and says it comes later.
THEOREM VerifiedReceiptPinsHistory ==
  ASSUME NEW log \in Seq(TransparencyEntry), NEW r \in TransparencyReceipt,
         VerifyReceipt(r, log)
  PROVE  \/ Pinned(r, log)
         \/ /\ \E i \in 1..(r.sequence + 1) : ~EntryOk(log, i)
            /\ BrokenAtSequence(log) > r.sequence
<1>1. /\ r.sequence < Len(log)
      /\ log[r.sequence + 1].entry_hash = r.entry_hash
      /\ ChainOk(log) \/ BrokenAtSequence(log) > r.sequence
  BY DEF VerifyReceipt
<1>2. Len(log) \in Nat /\ r.sequence \in Nat
  BY LenProperties DEF TransparencyReceipt
<1>3. CASE \A i \in 1..(r.sequence + 1) : EntryOk(log, i)
  BY <1>1, <1>3, IntactPrefixIsPinned
<1>4. CASE \E i \in 1..(r.sequence + 1) : ~EntryOk(log, i)
  <2>1. ~ChainOk(log)
    BY <1>1, <1>2, <1>4 DEF ChainOk
  <2> QED BY <1>1, <1>4, <2>1
<1> QED BY <1>3, <1>4

-----------------------------------------------------------------------------
(* The log of a run: writes fail, the process crashes, the file is edited. *)

\* What append() maintains about the entries of a log it alone has written: each is
\* numbered by its position, linked to its predecessor and hashed correctly, and its
\* event_id is below n, the next one to be drawn, and its alone.
Appended(log, n) ==
  /\ ChainOk(log)
  /\ \A i \in 1..Len(log) : log[i].sequence = i - 1 /\ log[i].event_id < n
  /\ \A i, j \in 1..Len(log) : log[i].event_id = log[j].event_id => i = j

\* What is left on disk of such a log when writes fail: lines in the order of their sequences,
\* each with a digest over as many entries as its sequence says, intact up to the first gap.
Kept(lines, n) ==
  /\ \A i \in 1..Len(lines) : /\ lines[i].event_id < n
                              /\ Len(lines[i].entry_hash) = lines[i].sequence + 1
  /\ \A i, j \in 1..Len(lines) : i < j => lines[i].sequence < lines[j].sequence
  /\ \A i, j \in 1..Len(lines) : lines[i].event_id = lines[j].event_id => i = j
  /\ \A m \in 1..Len(lines) :
       (\A i \in 1..m : lines[i].sequence = i - 1) => EntryOk(lines, m)

\* Each line is the entry its sequence names.
Mirrors(lines, log) ==
  \A i \in 1..Len(lines) :
    lines[i].sequence < Len(log) /\ lines[i] = log[lines[i].sequence + 1]

\* The certified entry is still where the receipt says it is.
Held(r, lines) ==
  /\ r.sequence + 1 \in 1..Len(lines)
  /\ lines[r.sequence + 1].sequence = r.sequence
  /\ lines[r.sequence + 1].object_id = r.object_id
  /\ lines[r.sequence + 1].entry_hash = r.entry_hash
  /\ lines[r.sequence + 1].previous_entry_hash = r.previous_entry_hash

\* The inductive invariant.
LogInv ==
  /\ TypeOK
  /\ mode = "persisting" => /\ ~torn
                            /\ Appended(entries, nextId)
                            /\ Kept(file, nextId)
                            /\ Mirrors(file, entries)
  /\ mode = "down" => entries = << >>
  /\ ChainOk(entries) \/ (mode = "detached" /\ ~ChainOk(file))
  /\ edits = 0 => /\ Kept(file, nextId)
                  /\ \A r \in receipts : r.on_disk => Held(r, file)

\* append() maintains what Appended says (TransparencyLog.append).
LEMMA AppendKeepsAppended ==
  ASSUME NEW log \in Seq(TransparencyEntry), NEW n \in Nat, Appended(log, n),
         NEW type \in EventTypes, NEW object \in ObjectIds
  PROVE  /\ Append(log, NewEntry(log, n, type, object)) \in Seq(TransparencyEntry)
         /\ Appended(Append(log, NewEntry(log, n, type, object)), n + 1)
<1> DEFINE e == NewEntry(log, n, type, object)
           new == Append(log, e)
<1>1. e \in TransparencyEntry /\ e.sequence = Len(log) /\ e.event_id = n
  BY NewEntryType
<1>2. ChainOk(new)
  BY AppendKeepsChain DEF Appended
<1> HIDE DEF e
<1>3. /\ new \in Seq(TransparencyEntry)
      /\ Len(new) = Len(log) + 1
      /\ new[Len(log) + 1] = e
      /\ \A i \in 1..Len(log) : new[i] = log[i]
      /\ Len(log) \in Nat
  BY <1>1, AppendProperties, LenProperties
<1> HIDE DEF new
<1>4. ASSUME NEW i \in 1..Len(log)
      PROVE  /\ new[i].sequence = i - 1
             /\ new[i].event_id \in Nat
             /\ new[i].event_id < n
             /\ new[i] = log[i]
  <2>1. log[i] \in TransparencyEntry
    BY ElementOfSeq
  <2> QED BY <2>1, <1>3 DEF Appended, TransparencyEntry
<1>5. \A i \in 1..Len(new) : i \in 1..Len(log) \/ i = Len(log) + 1
  BY <1>3
<1>6. \A i \in 1..Len(new) : new[i].sequence = i - 1 /\ new[i].event_id < n + 1
  BY <1>1, <1>3, <1>4, <1>5
<1>7. ASSUME NEW i \in 1..Len(new), NEW j \in 1..Len(new), new[i].event_id = new[j].event_id
      PROVE  i = j
  <2>1. CASE i \in 1..Len(log) /\ j \in 1..Len(log)
    BY <2>1, <1>4, <1>7 DEF Appended
  <2>2. CASE i = Len(log) + 1 \/ j = Len(log) + 1
    BY <2>2, <1>1, <1>3, <1>4, <1>5, <1>7
  <2> QED BY <2>1, <2>2, <1>5
<1>8. Appended(new, n + 1)
  BY <1>2, <1>6, <1>7 DEF Appended
<1> QED BY <1>3, <1>8 DEF new, e

\* Drawing another event_id leaves what is kept as it was.
LEMMA DrawnIdsStayAbove ==
  ASSUME NEW lines \in Seq(TransparencyEntry), NEW n \in Nat, Kept(lines, n)
  PROVE  Kept(lines, n + 1)
<1>1. \A i \in 1..Len(lines) : lines[i] \in TransparencyEntry
  BY ElementOfSeq
<1>2. \A i \in 1..Len(lines) : lines[i].event_id \in Nat
  BY <1>1 DEF TransparencyEntry
<1> QED BY <1>2 DEF Kept

\* The digest of a fresh entry of an intact log is over as many entries as the log then has.
LEMMA NewEntryDigest ==
  ASSUME NEW log \in Seq(TransparencyEntry), ChainOk(log), NEW id \in Nat,
         NEW type \in EventTypes, NEW object \in ObjectIds
  PROVE  Len(NewEntry(log, id, type, object).entry_hash) = Len(log) + 1
<1> DEFINE e == NewEntry(log, id, type, object)
           prev == LastHash(log)
<1>1. Len(log) \in Nat
  BY LenProperties
<1>2. /\ e \in TransparencyEntry
      /\ e.previous_entry_hash = prev
      /\ e.entry_hash = ComputeEntryHash(e)
  BY NewEntryType
<1>3. Len(prev) = Len(log)
  <2>1. CASE log = << >>
    BY <2>1, EmptySeq DEF LastHash, GENESIS_HASH
  <2>2. CASE log # << >>
    <3>1. Len(log) \in 1..Len(log)
      BY <2>2, <1>1, EmptySeq
    <3>2. Len(log[Len(log)].entry_hash) = Len(log)
      BY <3>1, DigestsHistory DEF ChainOk
    <3> QED BY <2>2, <3>2 DEF LastHash
  <2> QED BY <2>1, <2>2
<1> HIDE DEF e, prev
<1>4. prev \in Seq(Fields) /\ FieldsForHash(e) \in Fields
  BY <1>2 DEF TransparencyEntry, FieldsForHash, Fields, Digest
<1>5. e.entry_hash = Append(prev, FieldsForHash(e))
  BY <1>2 DEF ComputeEntryHash
<1>6. Len(Append(prev, FieldsForHash(e))) = Len(prev) + 1
  BY <1>4, AppendProperties
<1> QED BY <1>3, <1>5, <1>6 DEF e

\* A line that is written keeps what is on disk in order, whichever lines before it were lost.
LEMMA WrittenIsKept ==
  ASSUME NEW log \in Seq(TransparencyEntry), NEW lines \in Seq(TransparencyEntry), NEW n \in Nat,
         Appended(log, n), Kept(lines, n), Mirrors(lines, log),
         NEW type \in EventTypes, NEW object \in ObjectIds
  PROVE  LET e == NewEntry(log, n, type, object)
         IN  /\ Append(lines, e) \in Seq(TransparencyEntry)
             /\ Kept(Append(lines, e), n + 1)
             /\ Mirrors(Append(lines, e), Append(log, e))
             /\ Mirrors(lines, Append(log, e))
             /\ \A r \in TransparencyReceipt : Held(r, lines) => Held(r, Append(lines, e))
<1> DEFINE e == NewEntry(log, n, type, object)
           new == Append(lines, e)
           grown == Append(log, e)
           k == Len(lines)
<1>1. /\ e \in TransparencyEntry
      /\ e.sequence = Len(log)
      /\ e.event_id = n
      /\ e.previous_entry_hash = LastHash(log)
      /\ e.entry_hash = ComputeEntryHash(e)
      /\ Len(e.entry_hash) = Len(log) + 1
  BY NewEntryType, NewEntryDigest DEF Appended
<1> HIDE DEF e
<1>2. /\ new \in Seq(TransparencyEntry)
      /\ Len(new) = k + 1
      /\ new[k + 1] = e
      /\ \A i \in 1..k : new[i] = lines[i]
      /\ k \in Nat
  BY <1>1, AppendProperties, LenProperties
<1>3. /\ Len(grown) = Len(log) + 1
      /\ grown[Len(log) + 1] = e
      /\ \A i \in 1..Len(log) : grown[i] = log[i]
      /\ Len(log) \in Nat
  BY <1>1, AppendProperties, LenProperties
<1>4. \A i \in 1..k : /\ lines[i].sequence \in Nat
                      /\ lines[i].event_id \in Nat
                      /\ lines[i].sequence < Len(log)
                      /\ lines[i] = log[lines[i].sequence + 1]
                      /\ lines[i].event_id < n
  <2> TAKE i \in 1..k
  <2>1. lines[i] \in TransparencyEntry
    BY ElementOfSeq
  <2> QED BY <2>1 DEF TransparencyEntry, Kept, Mirrors
<1> HIDE DEF new, grown, k
<1>5. \A i \in 1..Len(new) : i \in 1..k \/ i = k + 1
  BY <1>2
<1>6. Mirrors(lines, grown) /\ Mirrors(new, grown)
  <2>1. ASSUME NEW i \in 1..k
        PROVE  lines[i].sequence < Len(grown) /\ lines[i] = grown[lines[i].sequence + 1]
    <3>1. lines[i].sequence + 1 \in 1..Len(log)
      BY <1>3, <1>4
    <3> QED BY <1>3, <1>4, <3>1
  <2>2. e.sequence < Len(grown) /\ e = grown[e.sequence + 1]
    BY <1>1, <1>3
  <2> QED BY <1>2, <1>5, <2>1, <2>2 DEF Mirrors, k
<1>7. ASSUME NEW m \in 1..Len(new), \A i \in 1..m : new[i].sequence = i - 1
      PROVE  EntryOk(new, m)
  <2>1. CASE m \in 1..k
    <3>1. \A i \in 1..m : lines[i].sequence = i - 1
      BY <1>2, <1>7, <2>1
    <3>2. EntryOk(lines, m)
      BY <2>1, <3>1 DEF Kept, k
    <3>3. PreviousHash(new, m) = PreviousHash(lines, m)
      BY <1>2, <2>1 DEF PreviousHash
    <3> QED BY <1>2, <2>1, <3>2, <3>3 DEF EntryOk
  <2>2. CASE m = k + 1
    <3>1. Len(log) = k
      BY <1>1, <1>2, <1>7, <2>2
    <3>2. PreviousHash(new, m) = LastHash(log)
      <4>1. CASE k = 0
        BY <1>2, <2>2, <3>1, <4>1, EmptySeq DEF PreviousHash, LastHash
      <4>2. CASE k # 0
        <5>1. k \in 1..k /\ k \in 1..m /\ m # 1 /\ m - 1 = k
          BY <1>2, <2>2, <4>2
        <5>2. lines[k].sequence = k - 1
          BY <1>2, <1>7, <5>1
        <5>3. lines[k] = log[k]
          BY <1>2, <1>4, <5>1, <5>2
        <5>4. log # << >>
          BY <3>1, <4>2, EmptySeq
        <5> QED BY <1>2, <3>1, <5>1, <5>3, <5>4 DEF PreviousHash, LastHash
      <4> QED BY <4>1, <4>2
    <3> QED BY <1>1, <1>2, <2>2, <3>2 DEF EntryOk
  <2> QED BY <1>5, <2>1, <2>2
<1>8. \A i \in 1..Len(new) : new[i].event_id < n + 1 /\ Len(new[i].entry_hash) = new[i].sequence + 1
  <2> SUFFICES ASSUME NEW i \in 1..Len(new)
               PROVE  new[i].event_id < n + 1 /\ Len(new[i].entry_hash) = new[i].sequence + 1
    OBVIOUS
  <2>1. CASE i \in 1..k
    BY <1>2, <1>4, <2>1 DEF Kept, k
  <2>2. CASE i = k + 1
    BY <1>1, <1>2, <2>2
  <2> QED BY <1>5, <2>1, <2>2
<1>9. \A i, j \in 1..Len(new) : i < j => new[i].sequence < new[j].sequence
  <2> SUFFICES ASSUME NEW i \in 1..Len(new), NEW j \in 1..Len(new), i < j
               PROVE  new[i].sequence < new[j].sequence
    OBVIOUS
  <2>1. i \in 1..k
    BY <1>2
  <2>2. CASE j \in 1..k
    BY <1>2, <2>1, <2>2 DEF Kept, k
  <2>3. CASE j = k + 1
    BY <1>1, <1>2, <1>4, <2>1, <2>3
  <2> QED BY <1>5, <2>2, <2>3
<1>10. \A i, j \in 1..Len(new) : new[i].event_id = new[j].event_id => i = j
  <2> SUFFICES ASSUME NEW i \in 1..Len(new), NEW j \in 1..Len(new), new[i].event_id = new[j].event_id
               PROVE  i = j
    OBVIOUS
  <2>1. CASE i \in 1..k /\ j \in 1..k
    BY <1>2, <2>1 DEF Kept, k
  <2>2. CASE i = k + 1 \/ j = k + 1
    BY <1>1, <1>2, <1>4, <1>5, <2>2
  <2> QED BY <1>5, <2>1, <2>2
<1>11. Kept(new, n + 1)
  BY <1>7, <1>8, <1>9, <1>10 DEF Kept
<1>12. ASSUME NEW r \in TransparencyReceipt, Held(r, lines) PROVE Held(r, new)
  BY <1>2, <1>12 DEF Held, k
<1> QED BY <1>2, <1>6, <1>11, <1>12 DEF new, grown, e

\* append() keeps the invariant, whether the line is written or not.
LEMMA AppendKeepsLogInv ==
  ASSUME LogInv, mode # "down", NEW type \in EventTypes, NEW object \in ObjectIds,
         entries' = Append(entries, NewEntry(entries, nextId, type, object)),
         \/ file' = file
         \/ /\ file' = Append(file, NewEntry(entries, nextId, type, object))
            /\ mode = "persisting",
         nextId' = nextId + 1, UNCHANGED <<mode, torn, receipts, edits>>
  PROVE  LogInv'
<1> DEFINE e == NewEntry(entries, nextId, type, object)
<1>0. TypeOK /\ entries \in Seq(TransparencyEntry) /\ file \in Seq(TransparencyEntry) /\ nextId \in Nat
  BY DEF LogInv, TypeOK
<1>1. e \in TransparencyEntry
  BY <1>0, NewEntryType
<1>2. entries' = Append(entries, e)
  OBVIOUS
<1>3. mode = "persisting" =>
        /\ Appended(entries', nextId')
        /\ Append(file, e) \in Seq(TransparencyEntry)
        /\ Kept(file, nextId') /\ Mirrors(file, entries')
        /\ Kept(Append(file, e), nextId') /\ Mirrors(Append(file, e), entries')
        /\ \A r \in TransparencyReceipt : Held(r, file) => Held(r, Append(file, e))
  <2> SUFFICES ASSUME mode = "persisting"
               PROVE  /\ Appended(entries', nextId')
                      /\ Append(file, e) \in Seq(TransparencyEntry)
                      /\ Kept(file, nextId') /\ Mirrors(file, entries')
                      /\ Kept(Append(file, e), nextId') /\ Mirrors(Append(file, e), entries')
                      /\ \A r \in TransparencyReceipt : Held(r, file) => Held(r, Append(file, e))
    OBVIOUS
  <2>1. Appended(entries, nextId) /\ Kept(file, nextId) /\ Mirrors(file, entries)
    BY DEF LogInv
  <2>2. Appended(Append(entries, e), nextId + 1)
    BY <1>0, <2>1, AppendKeepsAppended
  <2>3. Kept(file, nextId + 1)
    BY <1>0, <2>1, DrawnIdsStayAbove
  <2>4. /\ Append(file, e) \in Seq(TransparencyEntry)
        /\ Kept(Append(file, e), nextId + 1)
        /\ Mirrors(Append(file, e), Append(entries, e))
        /\ Mirrors(file, Append(entries, e))
        /\ \A r \in TransparencyReceipt : Held(r, file) => Held(r, Append(file, e))
    BY <1>0, <2>1, WrittenIsKept
  <2> HIDE DEF e
  <2> QED BY <1>2, <2>2, <2>3, <2>4
<1>4. edits = 0 => Kept(file, nextId')
  BY <1>0, DrawnIdsStayAbove DEF LogInv
<1>5. ChainOk(entries) => ChainOk(entries')
  BY <1>0, AppendKeepsChain
<1>6. file' = file \/ (file' = Append(file, e) /\ mode = "persisting")
  OBVIOUS
<1> HIDE DEF e
<1>7. entries' \in Seq(TransparencyEntry) /\ file' \in Seq(TransparencyEntry)
  BY <1>0, <1>1, <1>2, <1>3, <1>6, AppendProperties
<1>8. TypeOK'
  BY <1>0, <1>7 DEF TypeOK
<1>9. mode' = "persisting" =>
        ~torn' /\ Appended(entries', nextId') /\ Kept(file', nextId') /\ Mirrors(file', entries')
  BY <1>3, <1>6 DEF LogInv
<1>10. ChainOk(entries') \/ (mode' = "detached" /\ ~ChainOk(file'))
  BY <1>5, <1>6 DEF LogInv
<1>11. edits' = 0 => Kept(file', nextId') /\ \A r \in receipts' : r.on_disk => Held(r, file')
  <2> SUFFICES ASSUME edits = 0
               PROVE  Kept(file', nextId') /\ \A r \in receipts : r.on_disk => Held(r, file')
    OBVIOUS
  <2>1. \A r \in receipts : r \in TransparencyReceipt /\ (r.on_disk => Held(r, file))
    BY DEF LogInv, TypeOK
  <2> QED BY <1>3, <1>4, <1>6, <2>1
<1> QED BY <1>8, <1>9, <1>10, <1>11 DEF LogInv

\* issue_receipt keeps the invariant: a receipt says what an entry says.
LEMMA ReceiptKeepsLogInv ==
  ASSUME LogInv, NEW object \in ObjectIds, IssueReceipt(object)
  PROVE  LogInv'
<1>1. PICK i \in 1..Len(entries) :
        /\ entries[i].object_id = object
        /\ receipts' = receipts \cup
             {[object_id |-> object,
               sequence |-> entries[i].sequence,
               entry_hash |-> entries[i].entry_hash,
               previous_entry_hash |-> entries[i].previous_entry_hash,
               on_disk |-> OnDisk(entries[i])]}
  BY DEF IssueReceipt
<1> DEFINE e == entries[i]
           r0 == [object_id |-> object,
                  sequence |-> e.sequence,
                  entry_hash |-> e.entry_hash,
                  previous_entry_hash |-> e.previous_entry_hash,
                  on_disk |-> OnDisk(e)]
<1>2. e \in TransparencyEntry
  BY ElementOfSeq DEF LogInv, TypeOK
<1>3. e.object_id = object /\ receipts' = receipts \cup {r0}
  BY <1>1
<1> HIDE DEF e
<1>4. OnDisk(e) \in BOOLEAN /\ e.sequence \in Nat
  BY <1>2 DEF OnDisk, TransparencyEntry
<1>5. r0 \in TransparencyReceipt
  BY <1>2, <1>4 DEF TransparencyReceipt, TransparencyEntry
<1>6. r0.on_disk => Held(r0, file)
  <2> SUFFICES ASSUME OnDisk(e) PROVE Held(r0, file)
    BY Zenon
  <2>1. Len(file) \in Nat
    BY LenProperties DEF LogInv, TypeOK
  <2>2. e.sequence + 1 \in 1..Len(file) /\ file[e.sequence + 1] = e
    BY <1>4, <2>1 DEF OnDisk
  <2> QED BY <1>3, <2>2 DEF Held
<1> HIDE DEF r0
<1>7. UNCHANGED <<mode, entries, file, torn, nextId, edits>>
  BY DEF IssueReceipt
<1> QED BY <1>3, <1>5, <1>6, <1>7 DEF LogInv, TypeOK

\* A digest computed over an entry is one (_compute_entry_hash).
LEMMA RehashedType ==
  ASSUME NEW line \in TransparencyEntry
  PROVE  Rehashed(line) \in TransparencyEntry
<1>1. line.previous_entry_hash \in Seq(Fields) /\ FieldsForHash(line) \in Fields
  BY DEF TransparencyEntry, FieldsForHash, Fields, Digest
<1>2. ComputeEntryHash(line) \in Digest
  BY <1>1, AppendProperties DEF ComputeEntryHash, Digest
<1> QED BY <1>2 DEF Rehashed, TransparencyEntry

\* Whoever edits the stored file leaves lines of the same kind.
LEMMA EditedFileType ==
  ASSUME TypeOK, EditContent
  PROVE  file' \in Seq(TransparencyEntry)
<1>1. PICK i \in 1..Len(file) : RewriteLine(i) \/ RemoveLine(i)
  BY DEF EditContent
<1>2. /\ Len(file) \in Nat
      /\ file \in Seq(TransparencyEntry)
      /\ \A k \in 1..Len(file) : file[k] \in TransparencyEntry
  BY LenProperties, ElementOfSeq DEF TypeOK
<1>3. CASE RemoveLine(i)
  <2> DEFINE n == Len(file)
             new == [k \in 1..(n - 1) |-> IF k < i THEN file[k] ELSE file[k + 1]]
  <2>1. file' = new
    BY <1>3 DEF RemoveLine, EditFile
  <2>2. \A k \in 1..(n - 1) : new[k] \in TransparencyEntry
    BY <1>2
  <2>3. n - 1 \in Nat
    BY <1>2
  <2> HIDE DEF n
  <2>4. new \in [1..(n - 1) -> TransparencyEntry]
    BY <2>2
  <2> HIDE DEF new
  <2> QED BY <2>1, <2>3, <2>4, SeqDef
<1>4. CASE RewriteLine(i)
  <2>1. PICK line \in Rewritten(file[i]) :
          file' = [file EXCEPT ![i] = line] \/ file' = [file EXCEPT ![i] = Rehashed(line)]
    BY <1>4 DEF RewriteLine, EditFile
  <2>2. line \in TransparencyEntry
    <3>1. file[i] \in TransparencyEntry
      BY <1>2
    <3>2. 0..MaxEvents \subseteq Nat
      BY BoundsAssumption
    <3> QED BY <3>1, <3>2 DEF Rewritten, TransparencyEntry
  <2>3. Rehashed(line) \in TransparencyEntry
    BY <2>2, RehashedType
  <2> QED BY <1>2, <2>1, <2>2, <2>3, ExceptSeq
<1> QED BY <1>1, <1>3, <1>4

\* Every step of a run keeps the invariant of its log.
LEMMA LogStep == LogInv /\ [TrailNext]_<<vars, evidence>> => LogInv'
<1> SUFFICES ASSUME LogInv, [TrailNext]_<<vars, evidence>> PROVE LogInv'
  OBVIOUS
<1>0. TypeOK /\ ChainOk(<< >>) /\ << >> \in Seq(TransparencyEntry)
  BY EmptySeq DEF LogInv, ChainOk
<1>1. CASE UNCHANGED vars
  BY <1>1 DEF vars, LogInv, TypeOK
<1>2. CASE EditContent
  <2>1. file' \in Seq(TransparencyEntry)
    BY <1>0, <1>2, EditedFileType
  <2>2. mode = "down" /\ edits' = edits + 1 /\ UNCHANGED <<mode, entries, torn, receipts, nextId>>
    BY <1>2 DEF EditContent, RewriteLine, RemoveLine, EditFile
  <2>3. TypeOK'
    BY <1>0, <2>1, <2>2 DEF TypeOK
  <2>4. edits' # 0
    BY <1>0, <2>2 DEF TypeOK
  <2>5. entries = << >>
    BY <2>2 DEF LogInv
  <2> QED BY <1>0, <2>2, <2>3, <2>4, <2>5 DEF LogInv
<1>3. CASE Log
  <2>1. \A happened \in Logged : happened[2] \in ObjectIds
    BY RootAssumption DEF Logged
  <2>2. CASE OpenInMemory \/ Exit
    <3>1. /\ entries' = << >> /\ mode' \in {"down", "detached"}
          /\ UNCHANGED <<file, torn, receipts, nextId, edits>>
      BY <2>2 DEF OpenInMemory, Exit
    <3> QED BY <1>0, <3>1 DEF LogInv, TypeOK
  <2>3. CASE OpenFresh
    <3>1. /\ file = << >> /\ ~torn /\ entries' = << >> /\ mode' = "persisting"
          /\ UNCHANGED <<file, torn, receipts, nextId, edits>>
      BY <2>3 DEF OpenFresh, OpenPersisting
    <3>2. /\ Appended(<< >>, nextId) /\ Kept(<< >>, nextId) /\ Mirrors(<< >>, << >>)
      BY DEF Appended, Kept, Mirrors, ChainOk
    <3> QED BY <1>0, <3>1, <3>2 DEF LogInv, TypeOK
  <2>4. CASE LoadLog
    BY <1>0, <2>4 DEF LoadLog, LogInv, TypeOK
  <2>5. ASSUME NEW happened \in Logged,
               AppendEntry(happened[1], happened[2]) \/ AppendWriteFails(happened[1], happened[2])
        PROVE  LogInv'
    <3>1. happened[1] \in EventTypes /\ happened[2] \in ObjectIds
      BY <2>1, <2>5, EventTypesAssumption DEF AppendEntry, AppendWriteFails
    <3>2. mode # "down"
      BY <2>5 DEF AppendEntry, AppendWriteFails
    <3> QED
      BY <2>5, <3>1, <3>2, AppendKeepsLogInv DEF AppendEntry, AppendWriteFails
  <2>6. ASSUME NEW type, NEW tears \in BOOLEAN, AppendCrash(type, tears)
        PROVE  LogInv'
    <3>1. /\ mode' = "down" /\ entries' = << >> /\ torn' \in BOOLEAN /\ nextId' = nextId + 1
          /\ UNCHANGED <<file, receipts, edits>>
      BY <1>0, <2>6 DEF AppendCrash, TypeOK
    <3>2. edits = 0 => Kept(file, nextId + 1)
      BY <1>0, DrawnIdsStayAbove DEF LogInv, TypeOK
    <3> QED BY <1>0, <3>1, <3>2 DEF LogInv, TypeOK
  <2>7. ASSUME NEW object \in ObjectIds, IssueReceipt(object)
        PROVE  LogInv'
    BY <2>7, ReceiptKeepsLogInv
  <2> QED BY <1>3, <2>2, <2>3, <2>4, <2>5, <2>6, <2>7 DEF Log
<1> QED
  BY <1>1, <1>2, <1>3 DEF TrailNext, WriteEvidence, AggregateEvidence, RecordDecision, vars, evidence

\* The invariant holds in every state of a run.
LEMMA LogAlways == TrailSpec => []LogInv
<1>1. TrailInit => LogInv
  <2> SUFFICES ASSUME TrailInit PROVE LogInv
    OBVIOUS
  <2>1. << >> \in Seq(TransparencyEntry)
    BY EmptySeq
  <2>2. ChainOk(<< >>) /\ Kept(<< >>, 0)
    BY DEF ChainOk, Kept
  <2> QED BY <2>1, <2>2 DEF TrailInit, Init, LogInv, TypeOK
<1> QED BY <1>1, LogStep, PTL DEF TrailSpec

-----------------------------------------------------------------------------
(* The theorems about the log.                                             *)

\* Type correctness (TransparencyLog, load_log, issue_receipt).
THEOREM TypeCorrect == TrailSpec => []TypeOK
<1>1. LogInv => TypeOK
  BY DEF LogInv
<1> QED BY <1>1, LogAlways, PTL

\* Lines that append() left verify exactly when none is missing before the last.
LEMMA KeptVerifies ==
  ASSUME NEW lines \in Seq(TransparencyEntry), NEW n, Kept(lines, n)
  PROVE  ChainOk(lines) <=> \A i \in 1..Len(lines) : lines[i].sequence = i - 1
<1>0. Len(lines) \in Nat /\ \A i \in 1..Len(lines) : lines[i].sequence \in Nat
  <2>1. \A i \in 1..Len(lines) : lines[i] \in TransparencyEntry
    BY ElementOfSeq
  <2> QED BY <2>1, LenProperties DEF TransparencyEntry
<1>1. ASSUME ChainOk(lines), NEW i \in 1..Len(lines) PROVE lines[i].sequence = i - 1
  <2>1. \A j \in 1..i : EntryOk(lines, j)
    BY <1>0, <1>1 DEF ChainOk
  <2>2. i \in 1..i
    BY <1>0
  <2>3. Len(lines[i].entry_hash) = i
    BY <2>1, <2>2, DigestsHistory
  <2> QED BY <1>0, <2>3 DEF Kept
<1>2. ASSUME \A i \in 1..Len(lines) : lines[i].sequence = i - 1 PROVE ChainOk(lines)
  <2> SUFFICES ASSUME NEW m \in 1..Len(lines) PROVE EntryOk(lines, m)
    BY DEF ChainOk
  <2>1. \A i \in 1..m : lines[i].sequence = i - 1
    BY <1>0, <1>2
  <2> QED BY <2>1 DEF Kept
<1> QED BY <1>1, <1>2

\* A running log is broken only by the file it was loaded from, and a file that no one edited
\* verifies exactly when no line before its last was lost (verify_chain).
THEOREM ChainStaysIntact == TrailSpec => []ChainIntact
<1>1. LogInv => ChainIntact
  <2> SUFFICES ASSUME LogInv, edits = 0
               PROVE  ChainOk(file) <=> \A i \in 1..Len(file) : file[i].sequence = i - 1
    BY DEF ChainIntact, LogInv
  <2> QED BY KeptVerifies DEF LogInv, TypeOK
<1> QED BY <1>1, LogAlways, PTL

\* Naturals that increase from place to place are no less than their places.
LEMMA AtLeastPlace ==
  ASSUME NEW n \in Nat, NEW f \in [1..n -> Nat], \A i, j \in 1..n : i < j => f[i] < f[j]
  PROVE  \A i \in 1..n : f[i] >= i - 1
<1> DEFINE Less == {i \in 1..n : f[i] < i - 1}
<1> SUFFICES ASSUME Less # {} PROVE FALSE
  OBVIOUS
<1>1. Less \in SUBSET Nat
  OBVIOUS
<1>2. PICK m \in Less : \A k \in Less : m <= k
  <2> HIDE DEF Less
  <2> QED BY <1>1, LeastNat
<1>3. m \in 1..n /\ f[m] < m - 1 /\ f[m] \in Nat
  OBVIOUS
<1>4. m - 1 \in 1..n /\ m - 1 < m
  BY <1>3
<1>5. f[m - 1] \in Nat /\ f[m - 1] < f[m]
  BY <1>3, <1>4
<1>6. m - 1 \in Less
  BY <1>3, <1>4, <1>5
<1> QED BY <1>2, <1>4, <1>6

\* Nothing is skipped by naturals that increase to a last one that is its place.
LEMMA NothingSkipped ==
  ASSUME NEW n \in Nat \ {0}, NEW f \in [1..n -> Nat], \A i, j \in 1..n : i < j => f[i] < f[j],
         f[n] = n - 1
  PROVE  \A i \in 1..n : f[i] = i - 1
<1> DEFINE g == [i \in 1..n |-> (n - 1) - f[n + 1 - i]]
<1>1. \A i \in 1..n : n + 1 - i \in 1..n /\ f[i] \in Nat /\ f[i] <= n - 1
  <2> TAKE i \in 1..n
  <2>1. i = n \/ (i < n /\ n \in 1..n)
    OBVIOUS
  <2> QED BY <2>1
<1>2. g \in [1..n -> Nat]
  BY <1>1
<1>3. \A i, j \in 1..n : i < j => g[i] < g[j]
  <2> SUFFICES ASSUME NEW i \in 1..n, NEW j \in 1..n, i < j PROVE g[i] < g[j]
    OBVIOUS
  <2>1. n + 1 - j < n + 1 - i /\ n + 1 - j \in 1..n /\ n + 1 - i \in 1..n
    OBVIOUS
  <2> QED BY <1>1, <2>1
<1>4. \A i \in 1..n : g[i] >= i - 1
  <2> HIDE DEF g
  <2> QED BY <1>2, <1>3, AtLeastPlace
<1>5. \A i \in 1..n : f[i] >= i - 1
  BY AtLeastPlace
<1>6. ASSUME NEW i \in 1..n PROVE f[i] <= i - 1
  <2>1. n + 1 - i \in 1..n /\ n + 1 - (n + 1 - i) = i
    OBVIOUS
  <2>2. g[n + 1 - i] = (n - 1) - f[n + 1 - (n + 1 - i)]
    BY <2>1
  <2>3. g[n + 1 - i] >= (n + 1 - i) - 1
    <3> HIDE DEF g
    <3> QED BY <1>4, <2>1
  <2>4. (n - 1) - f[i] >= (n + 1 - i) - 1
    BY <2>1, <2>2, <2>3
  <2> QED BY <1>1, <2>4
<1> QED BY <1>1, <1>5, <1>6

\* A receipt whose entry was on disk verifies after any failed writes, crashes and restarts.
THEOREM ReceiptsHold == TrailSpec => []ReceiptsSurviveRestart
<1>1. LogInv => ReceiptsSurviveRestart
  <2> SUFFICES ASSUME LogInv, edits = 0, NEW r \in receipts, r.on_disk
               PROVE  VerifyReceipt(r, file)
    BY DEF ReceiptsSurviveRestart
  <2> DEFINE p == r.sequence + 1
             f == [i \in 1..p |-> file[i].sequence]
  <2>1. /\ Held(r, file) /\ Kept(file, nextId)
        /\ r \in TransparencyReceipt
        /\ file \in Seq(TransparencyEntry)
    BY DEF LogInv, TypeOK
  <2>2. r.sequence \in Nat /\ Len(file) \in Nat /\ p \in 1..Len(file)
    BY <2>1, LenProperties DEF TransparencyReceipt, Held
  <2>3. \A i \in 1..Len(file) : file[i].sequence \in Nat
    <3>1. \A i \in 1..Len(file) : file[i] \in TransparencyEntry
      BY <2>1, ElementOfSeq
    <3> QED BY <3>1 DEF TransparencyEntry
  <2>4. \A i \in 1..p : file[i].sequence = i - 1
    <3>1. p \in Nat \ {0} /\ \A i \in 1..p : i \in 1..Len(file)
      BY <2>2
    <3>2. f \in [1..p -> Nat]
      BY <2>3, <3>1
    <3>3. \A i, j \in 1..p : i < j => f[i] < f[j]
      BY <2>1, <3>1 DEF Kept
    <3>4. f[p] = p - 1
      BY <2>1, <2>2 DEF Held
    <3> HIDE DEF p
    <3>5. \A i \in 1..p : f[i] = i - 1
      <4> HIDE DEF f
      <4> QED BY <3>1, <3>2, <3>3, <3>4, NothingSkipped
    <3> QED BY <3>5
  <2>5. ASSUME NEW m \in 1..p PROVE EntryOk(file, m)
    <3>1. m \in 1..Len(file) /\ \A i \in 1..m : file[i].sequence = i - 1
      BY <2>2, <2>4
    <3> QED BY <2>1, <3>1 DEF Kept
  <2>6. ChainOk(file) \/ BrokenAtSequence(file) > r.sequence
    <3> SUFFICES ASSUME ~ChainOk(file) PROVE BrokenAtSequence(file) > r.sequence
      OBVIOUS
    <3>1. PICK first \in 1..Len(file) :
            ~EntryOk(file, first) /\ BrokenAtSequence(file) = file[first].sequence
      BY <2>1, FirstBroken
    <3>2. first \notin 1..p
      BY <2>5, <3>1
    <3>3. p < first
      BY <2>2, <3>2
    <3>4. file[p].sequence < file[first].sequence
      BY <2>1, <2>2, <3>3 DEF Kept
    <3>5. file[p].sequence = r.sequence
      BY <2>1 DEF Held
    <3> QED BY <3>1, <3>4, <3>5
  <2> QED BY <2>1, <2>2, <2>6 DEF Held, VerifyReceipt
<1> QED BY <1>1, LogAlways, PTL

-----------------------------------------------------------------------------
(* The durable history.                                                    *)

\* A step that extends the file by one entry, numbered after all others and freshly identified,
\* is a step of the append-only log.
LEMMA DurableStep ==
  ASSUME TypeOK, Kept(file, nextId), NEW e \in TransparencyEntry, e.event_id = nextId,
         \A i \in 1..Len(file) : file[i].sequence < e.sequence,
         file' = Append(file, e)
  PROVE  DurableLog!Next
<1> DEFINE hist == [i \in 1..Len(file) |-> FieldsForHash(file[i])]
           hist2 == [i \in 1..Len(file') |-> FieldsForHash(file'[i])]
<1>2. /\ Len(file') = Len(file) + 1
      /\ file'[Len(file) + 1] = e
      /\ \A i \in 1..Len(file) : file'[i] = file[i]
      /\ Len(file) \in Nat
  BY AppendProperties, LenProperties DEF TypeOK
<1>3. \A i \in 1..Len(file) : file[i] \in TransparencyEntry
  BY ElementOfSeq DEF TypeOK
<1>4. /\ FieldsForHash(e) \in DurableLog!Event
      /\ FieldsForHash(e).sequence = e.sequence
      /\ FieldsForHash(e).event_id = nextId
  BY DEF FieldsForHash, DurableLog!Event, TransparencyEntry
<1>5. hist \in Seq(DurableLog!Event) /\ Len(hist) = Len(file)
  <2>1. \A i \in 1..Len(file) : FieldsForHash(file[i]) \in DurableLog!Event
    BY <1>3 DEF FieldsForHash, DurableLog!Event, TransparencyEntry
  <2>2. hist \in [1..Len(file) -> DurableLog!Event]
    BY <2>1
  <2> HIDE DEF hist
  <2>3. hist \in Seq(DurableLog!Event)
    BY <2>2, <1>2, SeqDef
  <2> QED BY <2>2, <2>3, <1>2, LenProperties
<1>6. hist2 = Append(hist, FieldsForHash(e))
  <2>1. hist2 \in [1..(Len(file) + 1) -> DurableLog!Event]
    <3>1. \A i \in 1..(Len(file) + 1) : FieldsForHash(file'[i]) \in DurableLog!Event
      BY <1>2, <1>3, <1>4 DEF FieldsForHash, DurableLog!Event, TransparencyEntry
    <3> QED BY <3>1, <1>2
  <2>2. hist2 \in Seq(DurableLog!Event)
    BY <2>1, <1>2, SeqDef
  <2>3. \A i \in 1..(Len(file) + 1) :
          hist2[i] = IF i \in 1..Len(file) THEN hist[i] ELSE FieldsForHash(e)
    BY <1>2
  <2> HIDE DEF hist2
  <2>4. Len(hist2) = Len(file) + 1
    BY <2>1, <2>2, <1>2, LenProperties
  <2> DEFINE app == Append(hist, FieldsForHash(e))
  <2> HIDE DEF hist
  <2>5. /\ app \in Seq(DurableLog!Event)
        /\ Len(app) = Len(file) + 1
        /\ \A i \in 1..Len(file) : app[i] = hist[i]
        /\ app[Len(file) + 1] = FieldsForHash(e)
    BY <1>4, <1>5, AppendProperties
  <2>6. \A i \in 1..Len(hist2) : hist2[i] = app[i]
    BY <2>3, <2>4, <2>5, <1>2
  <2> HIDE DEF app
  <2>7. hist2 = app
    BY <2>2, <2>4, <2>5, <2>6, SeqEqual
  <2> QED BY <2>7 DEF app
<1>7. \A i \in 1..Len(hist) : hist[i].event_id # nextId /\ hist[i].sequence < e.sequence
  <2> SUFFICES ASSUME NEW i \in 1..Len(file)
               PROVE  /\ FieldsForHash(file[i]).event_id # nextId
                      /\ FieldsForHash(file[i]).sequence < e.sequence
    BY <1>5
  <2> QED BY <1>3 DEF TypeOK, Kept, FieldsForHash, TransparencyEntry
<1>8. hist2[Len(hist2)] = FieldsForHash(e) /\ Len(hist2) = Len(hist) + 1
  <2> HIDE DEF hist, hist2
  <2> QED BY <1>4, <1>5, <1>6, AppendProperties
<1> HIDE DEF hist, hist2
<1>9. DurableLog!Record(FieldsForHash(e))
  BY <1>4, <1>5, <1>6, <1>7 DEF DurableLog!Record, hist, hist2
<1> QED BY <1>4, <1>8, <1>9 DEF DurableLog!Next, hist, hist2

\* The log of a run implements the append-only log, but for the steps that edit its file by hand.
THEOREM DurableLogRefines == TrailSpec => DurableLogSpec
<1>1. TrailInit => DurableLog!Init
  <2> SUFFICES ASSUME TrailInit PROVE DurableLog!Init
    OBVIOUS
  <2>1. file = << >> /\ Len(file) = 0
    BY EmptySeq DEF TrailInit, Init
  <2> QED BY <2>1, SMT DEF DurableLog!Init
<1>2. LogInv /\ [TrailNext]_<<vars, evidence>>
        => [edits' = edits => DurableLog!Next \/ UNCHANGED file]_vars
  <2> SUFFICES ASSUME LogInv, [TrailNext]_<<vars, evidence>>, edits' = edits, file' # file
               PROVE  DurableLog!Next
    OBVIOUS
  <2>0. TypeOK
    BY DEF LogInv
  <2>1. ~EditContent
    <3>1. edits + 1 # edits
      BY <2>0 DEF TypeOK
    <3> QED BY <3>1 DEF EditContent, RewriteLine, RemoveLine, EditFile
  <2>2. PICK happened \in Logged : AppendEntry(happened[1], happened[2]) /\ mode = "persisting"
    BY <2>1 DEF TrailNext, WriteEvidence, AggregateEvidence, RecordDecision, Log, OpenFresh,
           OpenPersisting, OpenInMemory, LoadLog, AppendEntry, AppendWriteFails, AppendCrash, Exit,
           IssueReceipt, vars
  <2> DEFINE e == NewEntry(entries, nextId, happened[1], happened[2])
  <2>3. happened[1] \in EventTypes /\ happened[2] \in ObjectIds
    BY <2>2, EventTypesAssumption, RootAssumption DEF AppendEntry, Logged
  <2>4. file' = Append(file, e)
    BY <2>2 DEF AppendEntry, LogInv
  <2>5. e \in TransparencyEntry /\ e.sequence = Len(entries) /\ e.event_id = nextId
    BY <2>0, <2>3, NewEntryType DEF TypeOK
  <2>6. Kept(file, nextId) /\ \A i \in 1..Len(file) : file[i].sequence < Len(entries)
    BY <2>2 DEF LogInv, Mirrors
  <2> HIDE DEF e
  <2> QED BY <2>0, <2>4, <2>5, <2>6, DurableStep
<1> QED BY <1>1, <1>2, LogAlways, PTL DEF TrailSpec, DurableLogSpec

-----------------------------------------------------------------------------
(* What is told of a log whose file is edited.                             *)

\* A receipt that verifies, against the running log or the stored one, pins the history up to its
\* entry, whatever was lost, removed, rewritten or renumbered, unless the first broken line is in
\* that history and its own sequence claims otherwise (verify_receipt).
THEOREM ReceiptsPinHistory == TrailSpec => []ReceiptPinsHistory
<1>1. TypeOK => ReceiptPinsHistory
  <2> SUFFICES ASSUME TypeOK, NEW r \in receipts, NEW log \in {entries, file}, VerifyReceipt(r, log)
               PROVE  \/ Pinned(r, log)
                      \/ /\ \E i \in 1..(r.sequence + 1) : ~EntryOk(log, i)
                         /\ BrokenAtSequence(log) > r.sequence
    BY DEF ReceiptPinsHistory
  <2>1. r \in TransparencyReceipt /\ log \in Seq(TransparencyEntry)
    BY DEF TypeOK
  <2> QED BY <2>1, VerifiedReceiptPinsHistory
<1> QED BY <1>1, TypeCorrect, PTL

\* Two logs that verify and end with the same line are the same log (verify_chain).
LEMMA LastLineFixesLog ==
  ASSUME NEW a \in Seq(TransparencyEntry), NEW b \in Seq(TransparencyEntry),
         a # << >>, b # << >>, ChainOk(a), ChainOk(b), a[Len(a)] = b[Len(b)]
  PROVE  a = b
<1>1. /\ Len(a) \in Nat /\ Len(b) \in Nat
      /\ Len(a) \in 1..Len(a) /\ Len(b) \in 1..Len(b)
  BY EmptySeq, LenProperties
<1>2. /\ \A i \in 1..Len(a) : EntryOk(a, i)
      /\ \A i \in 1..Len(b) : EntryOk(b, i)
  BY DEF ChainOk
<1>3. \A i \in 1..Len(a) : /\ Len(a[i].entry_hash) = i
                           /\ \A k \in 1..i : a[i].entry_hash[k] = FieldsForHash(a[k])
  BY <1>1, <1>2, DigestsHistory
<1>4. \A i \in 1..Len(b) : /\ Len(b[i].entry_hash) = i
                           /\ \A k \in 1..i : b[i].entry_hash[k] = FieldsForHash(b[k])
  BY <1>1, <1>2, DigestsHistory
<1>5. Len(a) = Len(b)
  BY <1>1, <1>3, <1>4
<1>6. \A k \in 1..Len(a) : FieldsForHash(a[k]) = FieldsForHash(b[k])
  BY <1>1, <1>3, <1>4, <1>5
<1>7. \A k \in 1..Len(a) : /\ a[k] \in TransparencyEntry
                           /\ b[k] \in TransparencyEntry
                           /\ a[k].entry_hash \in Seq(Fields)
                           /\ b[k].entry_hash \in Seq(Fields)
  <2> TAKE k \in 1..Len(a)
  <2>1. a[k] \in TransparencyEntry /\ b[k] \in TransparencyEntry
    BY <1>5, ElementOfSeq
  <2> QED BY <2>1 DEF TransparencyEntry, Digest
<1>8. \A k \in 1..Len(a) : a[k].entry_hash = b[k].entry_hash
  <2> TAKE k \in 1..Len(a)
  <2>1. \A j \in 1..k : j \in 1..Len(a)
    BY <1>1
  <2>2. \A j \in 1..k : a[k].entry_hash[j] = b[k].entry_hash[j]
    BY <2>1, <1>3, <1>4, <1>5, <1>6
  <2> QED BY <2>2, <1>3, <1>4, <1>5, <1>7, SeqEqual
<1>9. \A k \in 1..Len(a) : a[k].previous_entry_hash = b[k].previous_entry_hash
  <2> TAKE k \in 1..Len(a)
  <2>1. PreviousHash(a, k) = PreviousHash(b, k)
    <3>1. CASE k = 1
      BY <3>1 DEF PreviousHash
    <3>2. CASE k # 1
      <4>1. k - 1 \in 1..Len(a)
        BY <3>2, <1>1
      <4> QED BY <3>2, <4>1, <1>8 DEF PreviousHash
    <3> QED BY <3>1, <3>2
  <2> QED BY <2>1, <1>2, <1>5 DEF EntryOk
<1>10. \A k \in 1..Len(a) : a[k] = b[k]
  <2> TAKE k \in 1..Len(a)
  <2>1. /\ a[k].sequence = b[k].sequence
        /\ a[k].event_id = b[k].event_id
        /\ a[k].event_type = b[k].event_type
        /\ a[k].object_id = b[k].object_id
    BY <1>6 DEF FieldsForHash
  <2>2. ASSUME NEW e \in TransparencyEntry
        PROVE  e = [sequence |-> e.sequence, event_id |-> e.event_id,
                    event_type |-> e.event_type, object_id |-> e.object_id,
                    previous_entry_hash |-> e.previous_entry_hash,
                    entry_hash |-> e.entry_hash]
    BY DEF TransparencyEntry
  <2>3. a[k].entry_hash = b[k].entry_hash /\ a[k].previous_entry_hash = b[k].previous_entry_hash
    BY <1>8, <1>9
  <2>4. a[k] \in TransparencyEntry /\ b[k] \in TransparencyEntry
    BY <1>7
  <2> DEFINE x == a[k]
             y == b[k]
  <2> HIDE DEF x, y
  <2>5. x = y
    BY <2>1, <2>2, <2>3, <2>4 DEF x, y
  <2> QED BY <2>5 DEF x, y
<1> QED BY <1>5, <1>10, SeqEqual

\* "A historic edit breaks the chain": an intact file that is changed otherwise than by
\* extending it, its last line left as it was, is rejected by verify_chain.
THEOREM EditsBreakTheChain == TrailSpec => HistoricEditBreaksChain
<1> DEFINE Told == /\ file # << >> /\ file' # << >>
                   /\ ChainOk(file)
                   /\ file' # file
                   /\ file'[Len(file')] = file[Len(file)]
                   => ~ChainOk(file')
<1>1. LogInv /\ LogInv' => Told
  BY LastLineFixesLog DEF LogInv, TypeOK
<1>2. LogInv /\ LogInv' => [Told]_vars
  BY <1>1
<1>3. [][Told]_vars => HistoricEditBreaksChain
  BY DEF HistoricEditBreaksChain
<1> HIDE DEF Told
<1> QED BY <1>2, <1>3, LogAlways, PTL

-----------------------------------------------------------------------------
(* The evidence of a run.                                                  *)

Artifacts ==
  [content : Contents,
   manifest : {Manifest(id, content) : id \in 1..MaxArtifacts, content \in Contents}]

\* The identifier of an artifact is its place, and its manifest is that of its content.
StoreInv ==
  /\ store \in Seq(Artifacts)
  /\ Len(store) <= MaxArtifacts
  /\ \A i \in 1..Len(store) : store[i].manifest = Manifest(i, store[i].content)

ManifestsOf(stored) == [i \in DOMAIN stored |-> stored[i].manifest]

\* A root built in critical mode has a reference for each artifact stored then.
RootInv ==
  root # Missing /\ sealed.critical => root = BuildEvidenceRoot(ManifestsOf(sealed.store))

TrailInv == StoreInv /\ RootInv

\* what is supplied to a replay for an artifact
ContentOf(stored, id) ==
  (CHOOSE a \in Range(stored) : a.manifest.artifact_id = id).content

-----------------------------------------------------------------------------
(* The invariant.                                                          *)

\* Storing a content under the next identifier.
LEMMA StoreGrows ==
  ASSUME StoreInv, NEW content \in Contents, Len(store) < MaxArtifacts,
         store' = Append(store, [content |-> content,
                                 manifest |-> Manifest(Len(store) + 1, content)])
  PROVE  StoreInv'
<1> DEFINE n == Len(store)
           artifact == [content |-> content, manifest |-> Manifest(n + 1, content)]
<1>1. n \in Nat
  BY LenProperties DEF StoreInv
<1>2. n < MaxArtifacts /\ MaxArtifacts \in Nat
  BY TrailBounds
<1>3. store' = Append(store, artifact)
  OBVIOUS
<1> HIDE DEF n
<1>4. n + 1 \in 1..MaxArtifacts
  BY <1>1, <1>2
<1>5. artifact \in Artifacts
  BY <1>4 DEF Artifacts
<1>6. artifact.manifest = Manifest(n + 1, artifact.content)
  OBVIOUS
<1> HIDE DEF artifact
<1>7. /\ store' \in Seq(Artifacts)
      /\ Len(store') = n + 1
      /\ \A i \in 1..n : store'[i] = store[i]
      /\ store'[n + 1] = artifact
  BY <1>3, <1>5, AppendProperties DEF StoreInv, n
<1>8. ASSUME NEW i \in 1..(n + 1)
      PROVE  store'[i].manifest = Manifest(i, store'[i].content)
  <2>1. i \in 1..n \/ i = n + 1
    BY <1>1
  <2> QED
    BY <1>6, <1>7, <2>1 DEF StoreInv, n
<1>9. n + 1 <= MaxArtifacts
  BY <1>4
<1> QED
  BY <1>7, <1>8, <1>9 DEF StoreInv

\* What build_evidence_root accepts in critical mode lists the manifests of what is stored, whatever
\* is missing from the declaration or declared again in it.
LEMMA CriticalListsTheStore ==
  ASSUME StoreInv, NEW manifests \in Declarations, CanAggregate(manifests, TRUE)
  PROVE  Listed(manifests) = Listed(ManifestsOf(store))
<1> DEFINE n == Len(store)
           S == {Missing} \cup {Manifest(id, content) : id \in 1..n, content \in Contents}
<1>1. PICK available \in SUBSET DOMAIN store, again \in Repeated :
        manifests = Declaration(available, again)
  BY DEF Declarations
<1> DEFINE base == [i \in DOMAIN store |-> IF i \in available THEN Manifests[i] ELSE Missing]
<1>2. n \in Nat /\ DOMAIN store = 1..n /\ \A i \in 1..n : store[i] \in Artifacts
  BY LenProperties, ElementOfSeq DEF StoreInv
<1>3. \A i \in 1..n : Manifests[i] = Manifest(i, store[i].content) /\ store[i].content \in Contents
  BY <1>2 DEF StoreInv, Manifests, Artifacts
<1>4. \A i \in 1..n : base[i] \in {Manifests[i], Missing}
  BY <1>2
<1>5. base \in [1..n -> S]
  <2>1. \A i \in 1..n : base[i] \in S
    BY <1>3, <1>4
  <2> QED BY <1>2, <2>1
<1>6. manifests = base \o again
  BY <1>1 DEF Declaration
<1>7. again = <<>> \/ \E id \in 1..n, content \in Contents : again = <<Manifest(id, content)>>
  BY <1>2 DEF Repeated
<1>8. again \in Seq(S) /\ base \in Seq(S) /\ Len(base) = n
  <2>1. again \in Seq(S)
    <3>1. CASE again = <<>>
      BY <3>1, EmptySeq
    <3>2. ASSUME NEW m \in S, again = <<m>> PROVE again \in Seq(S)
      <4> HIDE DEF S
      <4> QED BY <3>2
    <3> QED BY <1>7, <3>1, <3>2
  <2> HIDE DEF S, base, n
  <2> QED BY <1>2, <1>5, <2>1, SeqDef, LenProperties
<1>9. \A i \in 1..n : base[i] = Manifests[i] \/ base[i] = Missing
  BY <1>4
<1> HIDE DEF S, base, n
<1>10. /\ DOMAIN manifests = 1..(n + Len(again))
       /\ Len(again) \in Nat
       /\ \A i \in 1..(n + Len(again)) :
            manifests[i] = IF i <= n THEN base[i] ELSE again[i - n]
  BY <1>6, <1>8, ConcatProperties, LenProperties
<1>11. Missing \notin Range(manifests) /\ \A a, b \in Listed(manifests) : a.artifact_id = b.artifact_id => a = b
  BY DEF CanAggregate
<1>12. \A i \in 1..n : manifests[i] = Manifests[i]
  <2> TAKE i \in 1..n
  <2>1. i \in DOMAIN manifests /\ manifests[i] = base[i]
    BY <1>2, <1>10
  <2> QED BY <1>9, <1>11, <2>1 DEF Range
<1>13. \A i \in 1..n : Manifests[i] \in Listed(manifests)
  <2> TAKE i \in 1..n
  <2>1. i \in DOMAIN manifests
    BY <1>2, <1>10
  <2> QED BY <1>11, <1>12, <2>1 DEF Listed, Range
<1>14. ASSUME NEW m \in Listed(manifests) PROVE \E i \in 1..n : m = Manifests[i]
  <2>1. PICK i \in DOMAIN manifests : m = manifests[i]
    BY DEF Listed, Range
  <2>2. CASE i <= n
    BY <1>2, <1>10, <1>12, <2>1, <2>2
  <2>3. CASE ~(i <= n)
    <3>1. Len(again) # 0 /\ i - n \in 1..Len(again) /\ m = again[i - n]
      BY <1>2, <1>10, <2>1, <2>3
    <3>2. PICK id \in 1..n, content \in Contents : again = <<Manifest(id, content)>>
      BY <1>7, <3>1
    <3>3. m = Manifest(id, content)
      BY <1>2, <1>10, <3>1, <3>2
    <3>4. Manifests[id] = Manifest(id, store[id].content)
      BY <1>3
    <3>5. m.artifact_id = id /\ Manifests[id].artifact_id = id
      BY <3>3, <3>4 DEF Manifest
    <3> QED BY <1>11, <1>13, <3>5
  <2> QED BY <2>2, <2>3
<1>15. Listed(ManifestsOf(store)) = {Manifests[i] : i \in 1..n} \ {Missing}
  BY <1>2 DEF Listed, Range, ManifestsOf, Manifests
<1>16. Missing \notin Listed(manifests)
  BY DEF Listed
<1> QED BY <1>13, <1>14, <1>15, <1>16

\* Every step of the run, of the log and of who edits it keeps the invariant.
LEMMA TrailStep == TrailInv /\ [TrailNext]_<<vars, evidence>> => TrailInv'
<1> SUFFICES ASSUME TrailInv, [TrailNext]_<<vars, evidence>> PROVE TrailInv'
  OBVIOUS
<1>1. ASSUME NEW content \in Contents, WriteEvidence(content)
      PROVE  TrailInv'
  <2>1. StoreInv'
    BY <1>1, StoreGrows DEF WriteEvidence, TrailInv
  <2>2. UNCHANGED <<root, sealed>>
    BY <1>1 DEF WriteEvidence
  <2> QED
    BY <2>1, <2>2 DEF TrailInv, RootInv
<1>2. ASSUME NEW content \in Contents, RecordDecision(content)
      PROVE  TrailInv'
  <2> DEFINE manifest == Manifest(Len(store) + 1, content)
             stored == [content |-> content, manifest |-> manifest]
  <2>1. StoreInv'
    BY <1>2, StoreGrows DEF RecordDecision, TrailInv
  <2>2. /\ root' = BuildEvidenceRoot(<<manifest>>)
        /\ sealed' = [store |-> <<stored>>, root |-> root', critical |-> TRUE]
    BY <1>2 DEF RecordDecision
  <2>3. ManifestsOf(<<stored>>) = <<manifest>>
    <3> HIDE DEF manifest
    <3> QED
      BY DEF ManifestsOf
  <2>4. sealed'.store = <<stored>>
    BY <2>2
  <2> HIDE DEF manifest, stored
  <2>5. root' = BuildEvidenceRoot(ManifestsOf(sealed'.store))
    BY <2>2, <2>3, <2>4
  <2> QED
    BY <2>1, <2>5 DEF TrailInv, RootInv, ManifestsOf
<1>3. ASSUME NEW manifests \in Declarations, NEW critical \in BOOLEAN,
             AggregateEvidence(manifests, critical)
      PROVE  TrailInv'
  <2>1. /\ store' = store
        /\ CanAggregate(manifests, critical)
        /\ root' = BuildEvidenceRoot(manifests)
        /\ sealed' = [store |-> store, root |-> root', critical |-> critical]
    BY <1>3 DEF AggregateEvidence
  <2>2. sealed'.store = store /\ sealed'.critical = critical
    BY <2>1
  <2>3. ASSUME critical
        PROVE  root' = BuildEvidenceRoot(ManifestsOf(store))
    <3>1. CanAggregate(manifests, TRUE)
      BY <2>1, <2>3 DEF CanAggregate
    <3>2. Listed(manifests) = Listed(ManifestsOf(store))
      BY <3>1, CriticalListsTheStore DEF TrailInv
    <3> QED
      BY <2>1, <3>2 DEF BuildEvidenceRoot, ArtifactRefs
  <2>4. sealed'.critical => root' = BuildEvidenceRoot(ManifestsOf(sealed'.store))
    BY <2>2, <2>3
  <2> QED
    BY <2>1, <2>4 DEF TrailInv, StoreInv, RootInv, ManifestsOf
<1>4. CASE Log \/ (EditContent /\ UNCHANGED evidence) \/ UNCHANGED <<vars, evidence>>
  <2>1. UNCHANGED <<store, root, sealed>>
    BY <1>4 DEF Log, evidence
  <2> QED
    BY <2>1 DEF TrailInv, StoreInv, RootInv, ManifestsOf
<1> QED
  BY <1>1, <1>2, <1>3, <1>4 DEF TrailNext

\* It holds before anything is written, hence always.
LEMMA TrailAlways == TrailSpec => []TrailInv
<1>1. TrailInit => TrailInv
  <2> SUFFICES ASSUME TrailInit PROVE TrailInv
    OBVIOUS
  <2>1. store = <<>> /\ root = Missing
    BY DEF TrailInit
  <2>2. store \in Seq(Artifacts) /\ Len(store) = 0
    BY <2>1, EmptySeq
  <2>3. 0 <= MaxArtifacts
    BY TrailBounds
  <2> QED
    BY <2>1, <2>2, <2>3 DEF TrailInv, StoreInv, RootInv
<1> QED
  BY <1>1, TrailStep, PTL DEF TrailSpec

-----------------------------------------------------------------------------
(* What a replay says.                                                     *)

\* A run replays as VERIFIED exactly if none of its partial checks fails.
LEMMA ReplayTells ==
  ASSUME NEW stored, NEW evidence_root, NEW log
  PROVE  Replay(stored, evidence_root, log) = "VERIFIED" <=>
           /\ ChainOk(log)
           /\ VerifyEvidenceRoot(evidence_root)
           /\ Ids(Range(ManifestsOf(stored))) = Ids(evidence_root.artifact_refs)
           /\ \A id \in Ids(Range(ManifestsOf(stored))) :
                Sha256(ContentOf(stored, id)) = Declared(ManifestsOf(stored), id)
           /\ \E e \in Range(log) : e.event_type = RootCreated
<1> DEFINE ids == {a.manifest.artifact_id : a \in Range(stored)}
           contents == [id \in ids |-> ContentOf(stored, id)]
           manifests == ManifestsOf(stored)
           types == {e.event_type : e \in Range(log)}
<1>1. Replay(stored, evidence_root, log) =
        ReplayAndVerify(manifests, evidence_root, contents, ChainOk(log), types, {RootCreated})
  BY DEF Replay, ManifestsOf, ContentOf
<1>2. ids = Ids(Range(manifests))
  BY DEF Ids, Range, ManifestsOf
<1>3. DOMAIN contents = ids /\ \A id \in ids : contents[id] = ContentOf(stored, id)
  OBVIOUS
<1>4. {RootCreated} \subseteq types <=> \E e \in Range(log) : e.event_type = RootCreated
  OBVIOUS
<1> HIDE DEF contents, manifests, ids, types
<1>5. ReplayAndVerify(manifests, evidence_root, contents, ChainOk(log), types, {RootCreated})
          = "VERIFIED" <=>
        /\ ChainOk(log)
        /\ VerifyEvidenceRoot(evidence_root)
        /\ ~SomeArtifactMissing(manifests, evidence_root)
        /\ DOMAIN contents \subseteq Ids(Range(manifests))
        /\ ~ContentMismatch(manifests, contents)
        /\ {RootCreated} \subseteq types
  BY DEF ReplayAndVerify
<1>6. ~ContentMismatch(manifests, contents) <=>
        \A id \in ids : Sha256(ContentOf(stored, id)) = Declared(manifests, id)
  BY <1>3 DEF ContentMismatch
<1>7. ~SomeArtifactMissing(manifests, evidence_root) <=>
        Ids(Range(manifests)) = Ids(evidence_root.artifact_refs)
  BY DEF SomeArtifactMissing
<1>8. DOMAIN contents \subseteq Ids(Range(manifests))
  BY <1>2, <1>3
<1>9. Replay(stored, evidence_root, log) = "VERIFIED" <=>
        /\ ChainOk(log)
        /\ VerifyEvidenceRoot(evidence_root)
        /\ Ids(Range(manifests)) = Ids(evidence_root.artifact_refs)
        /\ \A id \in Ids(Range(manifests)) :
             Sha256(ContentOf(stored, id)) = Declared(manifests, id)
        /\ \E e \in Range(log) : e.event_type = RootCreated
  BY <1>1, <1>2, <1>4, <1>5, <1>6, <1>7, <1>8
<1> QED
  BY <1>9 DEF manifests

\* Where identifiers are places, an identifier stands for what is stored at its place.
LEMMA PlaceTells ==
  ASSUME NEW n \in Nat, NEW stored, DOMAIN stored = 1..n,
         \A i \in 1..n : stored[i].manifest.artifact_id = i
  PROVE  /\ Ids(Range(ManifestsOf(stored))) = 1..n
         /\ \A i \in 1..n :
              /\ ContentOf(stored, i) = stored[i].content
              /\ Declared(ManifestsOf(stored), i) = stored[i].manifest.sha256
<1>1. /\ DOMAIN ManifestsOf(stored) = 1..n
      /\ \A i \in 1..n : ManifestsOf(stored)[i] = stored[i].manifest
  BY DEF ManifestsOf
<1>2. Ids(Range(ManifestsOf(stored))) = 1..n
  BY <1>1 DEF Ids, Range
<1>3. ASSUME NEW i \in 1..n
      PROVE  ContentOf(stored, i) = stored[i].content
  <2>1. stored[i] \in Range(stored) /\ stored[i].manifest.artifact_id = i
    BY DEF Range
  <2>2. \A a \in Range(stored) : a.manifest.artifact_id = i => a = stored[i]
    BY DEF Range
  <2>3. (CHOOSE a \in Range(stored) : a.manifest.artifact_id = i) = stored[i]
    BY <2>1, <2>2
  <2> QED
    BY <2>3 DEF ContentOf
<1>4. ASSUME NEW i \in 1..n
      PROVE  Declared(ManifestsOf(stored), i) = stored[i].manifest.sha256
  <2> DEFINE M == ManifestsOf(stored)
             IsLast(k) == /\ M[k].artifact_id = i
                          /\ \A j \in DOMAIN M : M[j].artifact_id = i => j <= k
  <2>1. \A k \in DOMAIN M : M[k].artifact_id = k
    BY <1>1
  <2>2. i \in DOMAIN M /\ i <= i
    BY <1>1
  <2>3. IsLast(i)
    BY <2>1, <2>2
  <2>4. \A k \in DOMAIN M : IsLast(k) => k = i
    BY <2>1
  <2>5. (CHOOSE k \in DOMAIN M : IsLast(k)) = i
    BY <2>2, <2>3, <2>4
  <2>6. Declared(M, i) = M[i].sha256
    BY <2>5 DEF Declared
  <2> QED
    BY <1>1, <2>6
<1> QED
  BY <1>2, <1>3, <1>4

\* What is stored, place by place.
LEMMA StoreTells ==
  ASSUME StoreInv
  PROVE  /\ Len(store) \in Nat
         /\ DOMAIN store = 1..Len(store)
         /\ \A i \in 1..Len(store) :
              /\ store[i] \in Artifacts
              /\ store[i].manifest.artifact_id = i
              /\ store[i].manifest.sha256 = Sha256(store[i].content)
<1>1. Len(store) \in Nat /\ DOMAIN store = 1..Len(store)
  BY LenProperties DEF StoreInv
<1>2. \A i \in 1..Len(store) : store[i] \in Artifacts
  BY ElementOfSeq DEF StoreInv
<1>3. ASSUME NEW i \in 1..Len(store)
      PROVE  /\ store[i].manifest.artifact_id = i
             /\ store[i].manifest.sha256 = Sha256(store[i].content)
  <2>1. store[i].manifest = Manifest(i, store[i].content)
    BY DEF StoreInv
  <2> QED
    BY <2>1 DEF Manifest
<1> QED
  BY <1>1, <1>2, <1>3

\* A complete root refers to what is stored, neither to less nor to more.
LEMMA CompleteTells ==
  ASSUME TrailInv, Complete
  PROVE  /\ VerifyEvidenceRoot(root)
         /\ root.artifact_refs = Range(ManifestsOf(store))
         /\ Ids(root.artifact_refs) = Ids(Range(ManifestsOf(store)))
<1>1. root = BuildEvidenceRoot(ManifestsOf(store))
  BY DEF TrailInv, RootInv, Complete
<1>2. Missing \notin Range(ManifestsOf(store))
  <2> SUFFICES ASSUME NEW i \in DOMAIN store, store[i].manifest = Missing PROVE FALSE
    BY DEF Range, ManifestsOf
  <2>1. i \in 1..Len(store) /\ store[i] \in Artifacts
    BY StoreTells DEF TrailInv
  <2>2. \E id \in 1..MaxArtifacts, content \in Contents :
          store[i].manifest = Manifest(id, content)
    BY <2>1 DEF Artifacts
  <2> QED
    BY <2>2, MissingAssumption
<1>3. /\ root.artifact_refs = Range(ManifestsOf(store))
      /\ root.root_hash = CanonicalHash(root.artifact_refs)
  BY <1>1, <1>2 DEF BuildEvidenceRoot, Root, ArtifactRefs, Listed
<1> QED
  BY <1>3 DEF VerifyEvidenceRoot

\* What is left of a list once an element is removed are elements from other places.
LEMMA RemovedTells ==
  ASSUME NEW S, NEW s \in Seq(S), NEW i \in 1..Len(s)
  PROVE  \A x \in Range(RemoveAt(s, i)) : \E k \in 1..Len(s) : k # i /\ x = s[k]
<1> DEFINE n == Len(s)
           front == SubSeq(s, 1, i - 1)
           back == SubSeq(s, i + 1, n)
<1>1. n \in Nat /\ \A k \in 1..n : s[k] \in S
  BY LenProperties, ElementOfSeq
<1>2. i \in 1..n
  OBVIOUS
<1>3. RemoveAt(s, i) = front \o back
  BY DEF RemoveAt
<1> HIDE DEF n
<1>4. /\ i \in Nat /\ i - 1 \in Int /\ i + 1 \in Int /\ 1 \in Int /\ n \in Int
      /\ \A k \in 1..(i - 1) : k \in 1..n /\ k # i
      /\ \A k \in (i + 1)..n : k \in 1..n /\ k # i
  BY <1>1, <1>2
<1>5. /\ front \in Seq(S)
      /\ Len(front) = i - 1
      /\ \A k \in 1..(i - 1) : front[k] = s[k]
  <2>1. /\ front \in Seq(S)
        /\ Len(front) = IF 1 <= i - 1 THEN (i - 1) - 1 + 1 ELSE 0
        /\ \A k \in 1..((i - 1) - 1 + 1) : front[k] = s[1 + k - 1]
    BY <1>1, <1>4, SubSeqProperties
  <2>2. /\ (i - 1) - 1 + 1 = i - 1
        /\ (IF 1 <= i - 1 THEN (i - 1) - 1 + 1 ELSE 0) = i - 1
        /\ \A k \in 1..(i - 1) : 1 + k - 1 = k
    BY <1>2, <1>1
  <2> QED
    BY <2>1, <2>2
<1>6. /\ back \in Seq(S)
      /\ Len(back) = n - i
      /\ \A k \in 1..(n - i) : back[k] = s[i + k]
  <2>1. /\ back \in Seq(S)
        /\ Len(back) = IF i + 1 <= n THEN n - (i + 1) + 1 ELSE 0
        /\ \A k \in 1..(n - (i + 1) + 1) : back[k] = s[(i + 1) + k - 1]
    BY <1>1, <1>4, SubSeqProperties
  <2>2. /\ n - (i + 1) + 1 = n - i
        /\ (IF i + 1 <= n THEN n - (i + 1) + 1 ELSE 0) = n - i
        /\ \A k \in 1..(n - i) : (i + 1) + k - 1 = i + k
    BY <1>2, <1>1
  <2> QED
    BY <2>1, <2>2
<1> HIDE DEF front, back
<1>7. /\ front \o back \in Seq(S)
      /\ Len(front \o back) = (i - 1) + (n - i)
      /\ \A k \in 1..((i - 1) + (n - i)) :
           (front \o back)[k] = IF k <= i - 1 THEN front[k] ELSE back[k - (i - 1)]
  <2>1. /\ front \o back \in Seq(S)
        /\ Len(front \o back) = Len(front) + Len(back)
        /\ \A k \in 1..(Len(front) + Len(back)) :
             (front \o back)[k] = IF k <= Len(front) THEN front[k] ELSE back[k - Len(front)]
    <3>1. front \in Seq(S) /\ back \in Seq(S)
      BY <1>5, <1>6
    <3> QED
      BY <3>1, ConcatProperties
  <2>2. Len(front) = i - 1 /\ Len(back) = n - i
    BY <1>5, <1>6
  <2> QED
    BY <2>1, <2>2
<1>8. DOMAIN (front \o back) = 1..((i - 1) + (n - i))
  BY <1>7, LenProperties
<1>9. ASSUME NEW k \in 1..((i - 1) + (n - i))
      PROVE  \E l \in 1..n : l # i /\ (front \o back)[k] = s[l]
  <2>1. CASE k <= i - 1
    <3>1. k \in 1..(i - 1)
      BY <1>1, <1>2, <2>1
    <3> QED
      BY <1>4, <1>5, <1>7, <2>1, <3>1
  <2>2. CASE ~(k <= i - 1)
    <3>1. k - (i - 1) \in 1..(n - i) /\ i + (k - (i - 1)) = k + 1 /\ k + 1 \in (i + 1)..n
      BY <1>1, <1>2, <2>2
    <3>2. (front \o back)[k] = back[k - (i - 1)]
      BY <1>7, <2>2
    <3>3. back[k - (i - 1)] = s[k + 1]
      BY <1>6, <3>1
    <3> QED
      BY <1>4, <3>1, <3>2, <3>3
  <2> QED
    BY <2>1, <2>2
<1>10. \A x \in Range(front \o back) : \E k \in 1..n : k # i /\ x = s[k]
  BY <1>8, <1>9 DEF Range
<1> QED
  BY <1>3, <1>10 DEF n

-----------------------------------------------------------------------------
(* The theorems.                                                           *)

\* A root built in critical mode has exactly the artifacts stored, whatever was declared, and its
\* run replays as VERIFIED against every intact log that has its event, in memory or on disk, after
\* any crashes, restarts and edits that left the log intact (build_evidence_root, replay_and_verify).
THEOREM GenuineTrailsVerify == TrailSpec => []GenuineTrailVerifies
<1>1. TrailInv => GenuineTrailVerifies
  <2>0. ASSUME TrailInv, Complete PROVE root.artifact_refs = Range(Manifests)
    <3>1. Manifests = ManifestsOf(store)
      BY DEF Manifests, ManifestsOf
    <3> QED BY <2>0, <3>1, CompleteTells
  <2> SUFFICES ASSUME TrailInv, Complete, NEW log \in Logs, ChainOk(log),
                      \E e \in Range(log) : e.event_type = RootCreated
               PROVE  Replay(store, root, log) = "VERIFIED"
    BY <2>0 DEF GenuineTrailVerifies
  <2>1. /\ Ids(Range(ManifestsOf(store))) = 1..Len(store)
        /\ \A i \in 1..Len(store) :
             Sha256(ContentOf(store, i)) = Declared(ManifestsOf(store), i)
    BY StoreTells, PlaceTells DEF TrailInv
  <2> QED
    BY <2>1, CompleteTells, ReplayTells
<1> QED
  BY <1>1, TrailAlways, PTL

\* An edited content, sha256 or set of artifacts is told by one of the partial checks.
LEMMA EditedStoreIsTold ==
  ASSUME TrailInv, Complete, NEW log, NEW edited \in EditedStores
  PROVE  Replay(edited, root, log) # "VERIFIED"
<1> DEFINE n == Len(store)
<1>1. /\ n \in Nat
      /\ DOMAIN store = 1..n
      /\ \A i \in 1..n : /\ store[i] \in Artifacts
                         /\ store[i].manifest.artifact_id = i
                         /\ store[i].manifest.sha256 = Sha256(store[i].content)
  BY StoreTells DEF TrailInv
<1>2. Ids(Range(ManifestsOf(store))) = 1..n /\ Ids(root.artifact_refs) = 1..n
  BY <1>1, PlaceTells, CompleteTells
<1>3. PICK i \in 1..n, content \in Contents :
        /\ edited # store
        /\ \/ edited = [store EXCEPT ![i].content = content]
           \/ edited = [store EXCEPT ![i].manifest.sha256 = Sha256(content)]
           \/ edited = RemoveAt(store, i)
  BY <1>1 DEF EditedStores
<1>4. CASE edited = RemoveAt(store, i)
  <2>1. \A x \in Range(edited) : x.manifest.artifact_id # i
    BY <1>1, <1>4, RemovedTells DEF TrailInv, StoreInv
  <2>2. i \notin Ids(Range(ManifestsOf(edited)))
    BY <2>1 DEF Ids, Range, ManifestsOf
  <2> QED
    BY <1>2, <2>2, ReplayTells
<1>5. CASE \/ edited = [store EXCEPT ![i].content = content]
           \/ edited = [store EXCEPT ![i].manifest.sha256 = Sha256(content)]
  <2> DEFINE old == store[i]
  <2>1. /\ old \in Artifacts
        /\ old = [content |-> old.content, manifest |-> old.manifest]
        /\ old.manifest = [artifact_id |-> i, sha256 |-> Sha256(old.content)]
    <3>1. old \in Artifacts
      BY <1>1
    <3>2. old = [content |-> old.content, manifest |-> old.manifest]
      BY <3>1 DEF Artifacts
    <3>3. old.manifest = Manifest(i, old.content)
      BY <1>1 DEF TrailInv, StoreInv
    <3> QED
      BY <3>1, <3>2, <3>3 DEF Manifest
  <2>2. /\ DOMAIN edited = 1..n
        /\ \A j \in 1..n : j # i => edited[j] = store[j]
        /\ \/ edited[i] = [old EXCEPT !.content = content]
           \/ edited[i] = [old EXCEPT !.manifest.sha256 = Sha256(content)]
    BY <1>1, <1>5
  <2> HIDE DEF old
  <2>3. /\ edited[i].manifest.artifact_id = i
        /\ \/ /\ edited[i] = [content |-> content, manifest |-> old.manifest]
              /\ edited[i].manifest.sha256 = Sha256(old.content)
           \/ /\ edited[i] = [content |-> old.content,
                              manifest |-> [artifact_id |-> i, sha256 |-> Sha256(content)]]
              /\ edited[i].manifest.sha256 = Sha256(content)
    BY <2>1, <2>2
  <2>4. content # old.content
    <3> SUFFICES ASSUME content = old.content PROVE FALSE
      OBVIOUS
    <3>1. edited[i] = old
      BY <2>1, <2>3
    <3>2. edited = [j \in 1..n |-> edited[j]]
      BY <1>1, <1>5
    <3>3. store = [j \in 1..n |-> store[j]]
      BY <1>1, LenProperties DEF TrailInv, StoreInv
    <3>4. \A j \in 1..n : edited[j] = store[j]
      BY <2>2, <3>1 DEF old
    <3> QED
      BY <1>3, <3>2, <3>3, <3>4
  <2>5. Sha256(edited[i].content) # edited[i].manifest.sha256
    BY <2>3, <2>4 DEF Sha256
  <2>6. \A j \in 1..n : edited[j].manifest.artifact_id = j
    BY <1>1, <2>2, <2>3
  <2>7. /\ Ids(Range(ManifestsOf(edited))) = 1..n
        /\ ContentOf(edited, i) = edited[i].content
        /\ Declared(ManifestsOf(edited), i) = edited[i].manifest.sha256
    BY <1>1, <2>2, <2>6, PlaceTells
  <2> QED
    BY <2>5, <2>7, ReplayTells
<1> QED
  BY <1>3, <1>4, <1>5

\* One edit of what is stored of a complete run, or of its root, no longer replays as VERIFIED;
\* but for a sha256 rewritten in the root and its hash with it (replay_and_verify).
THEOREM EditsAreTold == TrailSpec => []OneEditIsTold
<1>1. TrailInv => OneEditIsTold
  <2> SUFFICES ASSUME TrailInv, Complete, NEW log \in Logs
               PROVE  /\ \A edited \in EditedStores : Replay(edited, root, log) # "VERIFIED"
                      /\ \A edited \in EditedRoots :
                           Replay(store, edited, log) = "VERIFIED" =>
                             /\ VerifyEvidenceRoot(edited)
                             /\ Ids(edited.artifact_refs) = Ids(root.artifact_refs)
    BY DEF OneEditIsTold
  <2>1. \A edited \in EditedStores : Replay(edited, root, log) # "VERIFIED"
    BY EditedStoreIsTold
  <2>2. ASSUME NEW edited, Replay(store, edited, log) = "VERIFIED"
        PROVE  /\ VerifyEvidenceRoot(edited)
               /\ Ids(edited.artifact_refs) = Ids(root.artifact_refs)
    BY <2>2, CompleteTells, ReplayTells
  <2> QED
    BY <2>1, <2>2
<1> QED
  BY <1>1, TrailAlways, PTL
==============================================================================
