--------------------------- MODULE TransparencyLog ---------------------------
(***************************************************************************)
(* services/evidence_root/transparency_log.py: the local append-only log   *)
(* with a hash chain, its optional JSONL file, its receipts, and the edits *)
(* of the stored file that the chain and the receipts are meant to reveal. *)
(*                                                                         *)
(* SHA-256 is modelled as an injective function.  A digest is the sequence *)
(* of what was hashed: the digest of an entry extends the digest it links  *)
(* to by the entry's own fields, and GENESIS_HASH is the empty sequence.   *)
(***************************************************************************)
EXTENDS Integers, Sequences, FiniteSets

CONSTANTS
  EventTypes,       \* what a caller may pass as event_type
  ValidEventTypes,  \* VALID_EVENT_TYPES
  ObjectIds,        \* object identifiers
  MaxEvents,        \* bound: entries created in one behaviour
  MaxEdits          \* bound: edits of the stored file in one behaviour

ASSUME EventTypesAssumption == ValidEventTypes \subseteq EventTypes
ASSUME BoundsAssumption == MaxEvents \in Nat /\ MaxEdits \in Nat

VARIABLES
  mode,      \* "down": no instance; "persisting": persist_path given; "detached": None
  entries,   \* _entries of the live instance
  file,      \* the readable lines of the JSONL file
  torn,      \* the file holds a line cut short by a crash inside f.write
  receipts,  \* every receipt issued
  nextId,    \* new_id_prefixed("evtlog"): the next unused event_id
  edits      \* number of edits of the stored file so far

vars == <<mode, entries, file, torn, receipts, nextId, edits>>

-----------------------------------------------------------------------------
(* Entries, digests and receipts.                                          *)

GENESIS_HASH == << >>

Fields == [sequence : Nat, event_id : Nat, event_type : EventTypes, object_id : ObjectIds]
Digest == Seq(Fields)

TransparencyEntry ==
  [sequence : Nat, event_id : Nat, event_type : EventTypes, object_id : ObjectIds,
   previous_entry_hash : Digest, entry_hash : Digest]

\* on_disk is a history field: was the certified entry, at issuance, the line of the file that
\* the receipt's sequence names?
TransparencyReceipt ==
  [object_id : ObjectIds, sequence : Nat, entry_hash : Digest,
   previous_entry_hash : Digest, on_disk : BOOLEAN]

FieldsForHash(e) ==
  [sequence |-> e.sequence, event_id |-> e.event_id,
   event_type |-> e.event_type, object_id |-> e.object_id]

ComputeEntryHash(e) == Append(e.previous_entry_hash, FieldsForHash(e))

\* variant of LastHash: links to what the last entry links to
LastHashStale(log) ==
  IF log = << >> THEN GENESIS_HASH ELSE log[Len(log)].previous_entry_hash

LastHash(log) == IF log = << >> THEN GENESIS_HASH ELSE log[Len(log)].entry_hash

\* variant of NewEntry: the sequence is taken as the index of the last entry
NewEntryLastIndex(log, id, type, object) ==
  LET unhashed == [sequence |-> Len(log) - 1, event_id |-> id,
                   event_type |-> type, object_id |-> object,
                   previous_entry_hash |-> LastHash(log), entry_hash |-> << >>]
  IN  [unhashed EXCEPT !.entry_hash = ComputeEntryHash(unhashed)]

\* variant of NewEntry: every event gets the same event_id
NewEntrySameId(log, id, type, object) ==
  LET unhashed == [sequence |-> Len(log), event_id |-> 0,
                   event_type |-> type, object_id |-> object,
                   previous_entry_hash |-> LastHash(log), entry_hash |-> << >>]
  IN  [unhashed EXCEPT !.entry_hash = ComputeEntryHash(unhashed)]

NewEntry(log, id, type, object) ==
  LET unhashed == [sequence |-> Len(log), event_id |-> id,
                   event_type |-> type, object_id |-> object,
                   previous_entry_hash |-> LastHash(log), entry_hash |-> << >>]
  IN  [unhashed EXCEPT !.entry_hash = ComputeEntryHash(unhashed)]

-----------------------------------------------------------------------------
(* verify_chain and verify_receipt.                                        *)

PreviousHash(log, i) == IF i = 1 THEN GENESIS_HASH ELSE log[i - 1].entry_hash

\* variant of EntryOk: the link to the previous entry is not compared
EntryOkUnlinked(log, i) == log[i].entry_hash = ComputeEntryHash(log[i])

EntryOk(log, i) ==
  /\ log[i].previous_entry_hash = PreviousHash(log, i)
  /\ log[i].entry_hash = ComputeEntryHash(log[i])

ChainOk(log) == \A i \in 1..Len(log) : EntryOk(log, i)

\* the sequence STORED in the first entry that fails, whatever its position
BrokenAtSequence(log) ==
  LET first == CHOOSE i \in 1..Len(log) :
                 ~EntryOk(log, i) /\ \A j \in 1..(i - 1) : EntryOk(log, j)
  IN  log[first].sequence

\* variant of VerifyReceipt: verify_chain is not consulted
VerifyReceiptEntryOnly(r, log) ==
  /\ r.sequence < Len(log)
  /\ LET e == log[r.sequence + 1]
     IN  /\ e.object_id = r.object_id
         /\ e.entry_hash = r.entry_hash
         /\ e.previous_entry_hash = r.previous_entry_hash

VerifyReceipt(r, log) ==
  /\ r.sequence < Len(log)
  /\ LET e == log[r.sequence + 1]
     IN  /\ e.object_id = r.object_id
         /\ e.entry_hash = r.entry_hash
         /\ e.previous_entry_hash = r.previous_entry_hash
  /\ ChainOk(log) \/ BrokenAtSequence(log) > r.sequence

-----------------------------------------------------------------------------
(* The operations.                                                         *)

Init ==
  /\ mode = "down"
  /\ entries = << >>
  /\ file = << >>
  /\ torn = FALSE
  /\ receipts = {}
  /\ nextId = 0
  /\ edits = 0

\* TransparencyLog(): nothing is ever written
OpenInMemory ==
  /\ mode = "down"
  /\ mode' = "detached"
  /\ entries' = << >>
  /\ UNCHANGED <<file, torn, receipts, nextId, edits>>

\* TransparencyLog(persist_path): the file is not read, whatever it holds
OpenPersisting ==
  /\ mode = "down"
  /\ mode' = "persisting"
  /\ entries' = << >>
  /\ UNCHANGED <<file, torn, receipts, nextId, edits>>

\* load_log: json.loads raises on a torn line; persist_path of the result is None
LoadLog ==
  /\ mode = "down"
  /\ ~torn
  /\ mode' = "detached"
  /\ entries' = file
  /\ UNCHANGED <<file, torn, receipts, nextId, edits>>

\* append; UnknownEventType is raised before anything changes.  A line written after a
\* torn one is not tracked: the file can no longer be loaded.
AppendEntry(type, object) ==
  LET e == NewEntry(entries, nextId, type, object)
  IN  /\ mode # "down"
      /\ nextId < MaxEvents
      /\ type \in ValidEventTypes
      /\ entries' = Append(entries, e)
      /\ file' = IF mode = "persisting" /\ ~torn THEN Append(file, e) ELSE file
      /\ nextId' = nextId + 1
      /\ UNCHANGED <<mode, torn, receipts, edits>>

\* open or write raises OSError: the entry stays in _entries, the log stays in use
AppendWriteFails(type, object) ==
  /\ mode = "persisting"
  /\ nextId < MaxEvents
  /\ type \in ValidEventTypes
  /\ entries' = Append(entries, NewEntry(entries, nextId, type, object))
  /\ nextId' = nextId + 1
  /\ UNCHANGED <<mode, file, torn, receipts, edits>>

\* the process dies inside append, after _entries.append and before (FALSE) or
\* inside (TRUE) the write of the line
AppendCrash(type, tears) ==
  /\ mode = "persisting"
  /\ nextId < MaxEvents
  /\ type \in ValidEventTypes
  /\ mode' = "down"
  /\ entries' = << >>
  /\ torn' = (torn \/ tears)
  /\ nextId' = nextId + 1
  /\ UNCHANGED <<file, receipts, edits>>

\* the process ends between two operations
Exit ==
  /\ mode # "down"
  /\ mode' = "down"
  /\ entries' = << >>
  /\ UNCHANGED <<file, torn, receipts, nextId, edits>>

OnDisk(entry) == entry.sequence < Len(file) /\ file[entry.sequence + 1] = entry

\* variant of IssueReceipt: the receipt numbers entries from one
IssueReceiptFromOne(object) ==
  \E i \in 1..Len(entries) :
    /\ entries[i].object_id = object
    /\ \A j \in (i + 1)..Len(entries) : entries[j].object_id # object
    /\ receipts' = receipts \cup
         {[object_id |-> object,
           sequence |-> entries[i].sequence + 1,
           entry_hash |-> entries[i].entry_hash,
           previous_entry_hash |-> entries[i].previous_entry_hash,
           on_disk |-> OnDisk(entries[i])]}
    /\ UNCHANGED <<mode, entries, file, torn, nextId, edits>>

\* issue_receipt certifies the latest entry of the object, or raises ReceiptNotFound
IssueReceipt(object) ==
  \E i \in 1..Len(entries) :
    /\ entries[i].object_id = object
    /\ \A j \in (i + 1)..Len(entries) : entries[j].object_id # object
    /\ receipts' = receipts \cup
         {[object_id |-> object,
           sequence |-> entries[i].sequence,
           entry_hash |-> entries[i].entry_hash,
           previous_entry_hash |-> entries[i].previous_entry_hash,
           on_disk |-> OnDisk(entries[i])]}
    /\ UNCHANGED <<mode, entries, file, torn, nextId, edits>>

-----------------------------------------------------------------------------
(* Edits of the stored file by whoever can write it (module docstring):    *)
(* the changes the chain exists to reveal.  No service of the system makes *)
(* them.                                                                   *)

EditFile(newFile) ==
  /\ mode = "down"
  /\ edits < MaxEdits
  /\ file' = newFile
  /\ edits' = edits + 1
  /\ UNCHANGED <<mode, entries, torn, receipts, nextId>>

\* a line with another object or another sequence, its entry_hash left as it was or recomputed;
\* its successors are left as they are
Rewritten(line) ==
  {[line EXCEPT !.object_id = object] : object \in ObjectIds} \cup
  {[line EXCEPT !.sequence = sequence] : sequence \in 0..MaxEvents}

Rehashed(line) == [line EXCEPT !.entry_hash = ComputeEntryHash(line)]

RewriteLine(i) ==
  \E line \in Rewritten(file[i]) \ {file[i]} :
    EditFile([file EXCEPT ![i] = line]) \/ EditFile([file EXCEPT ![i] = Rehashed(line)])

RemoveLine(i) ==
  EditFile([j \in 1..(Len(file) - 1) |-> IF j < i THEN file[j] ELSE file[j + 1]])

EditContent == \E i \in 1..Len(file) : RewriteLine(i) \/ RemoveLine(i)

-----------------------------------------------------------------------------
(* Specification of a log alone, whose writes do not fail.                 *)

\* the use the tests make of persist_path: a file that does not exist yet
OpenFresh == file = << >> /\ ~torn /\ OpenPersisting

\* any path, an existing file included
Next ==
  \/ OpenInMemory
  \/ OpenPersisting
  \/ LoadLog
  \/ \E type \in EventTypes, object \in ObjectIds : AppendEntry(type, object)
  \/ \E type \in EventTypes, tears \in BOOLEAN : AppendCrash(type, tears)
  \/ Exit
  \/ \E object \in ObjectIds : IssueReceipt(object)

Spec == Init /\ [][Next]_vars

-----------------------------------------------------------------------------
(* Properties.                                                             *)

\* Type invariant.
TypeOK ==
  /\ mode \in {"down", "persisting", "detached"}
  /\ entries \in Seq(TransparencyEntry)
  /\ file \in Seq(TransparencyEntry)
  /\ torn \in BOOLEAN
  /\ receipts \in SUBSET TransparencyReceipt
  /\ nextId \in Nat
  /\ edits \in Nat

\* The durable history of a log on a file of its own is an append-only log, whichever writes
\* fail and crashes come in between: each step that is not an edit by hand adds at most one event,
\* numbered after all that are there and with an event_id of its own.
DurableLog == INSTANCE AppendOnlyLog
  WITH history <- [i \in 1..Len(file) |-> FieldsForHash(file[i])]
DurableLogSpec == DurableLog!Init /\ [][edits' = edits => DurableLog!Next \/ UNCHANGED file]_vars

\* A log fails to verify in memory only if the file it was loaded from does; and a file that no
\* one edited verifies exactly when no line before its last was lost, after any sequence of
\* appends, failed writes, crashes, restarts and loads (append, load_log, verify_chain).
ChainIntact ==
  /\ ChainOk(entries) \/ (mode = "detached" /\ ~ChainOk(file))
  /\ edits = 0 /\ ~torn => (ChainOk(file) <=> \A i \in 1..Len(file) : file[i].sequence = i - 1)

\* A log that only append() has written verifies (verify_chain, module docstring).
UneditedFileVerifies == edits = 0 /\ ~torn => ChainOk(file)

\* A receipt whose entry was on disk when it was issued, at the place it names, verifies against
\* the log that load_log rebuilds, however many failed writes, crashes and restarts came before
\* and in between.
ReceiptsSurviveRestart ==
  edits = 0 /\ ~torn => \A r \in receipts : r.on_disk => VerifyReceipt(r, file)

\* Every entry up to the certified one is the one that was hashed when the receipt was issued.
Pinned(r, log) ==
  /\ Len(r.entry_hash) = r.sequence + 1
  /\ \A i \in 1..(r.sequence + 1) : FieldsForHash(log[i]) = r.entry_hash[i]

\* What a receipt that verifies is worth (verify_receipt), against the running log and against
\* the stored one, whichever lines were lost, removed, rewritten or renumbered: it certifies the
\* whole prefix of the log up to its entry, unless the first line that breaks the chain is in
\* that prefix and says of itself that it comes after the entry.
ReceiptPinsHistory ==
  \A r \in receipts, log \in {entries, file} :
    VerifyReceipt(r, log) =>
      \/ Pinned(r, log)
      \/ /\ \E i \in 1..(r.sequence + 1) : ~EntryOk(log, i)
         /\ BrokenAtSequence(log) > r.sequence

\* "And that the chain is still intact up to that point" (docstring of verify_receipt): a receipt
\* verifies only against a log whose entries up to its own do.
ReceiptCoversIntactChain ==
  \A r \in receipts, log \in {entries, file} :
    VerifyReceipt(r, log) => \A i \in 1..(r.sequence + 1) : EntryOk(log, i)

\* "A historic edit breaks the chain, without exception": a step that changes an intact
\* file otherwise than by extending it, and leaves its last line as it was, leaves a file
\* that verify_chain rejects.
HistoricEditBreaksChain ==
  [][ /\ file # << >> /\ file' # << >>
      /\ ChainOk(file)
      /\ file' # file
      /\ file'[Len(file')] = file[Len(file)]
      => ~ChainOk(file') ]_vars
=============================================================================
