---------------------------- MODULE AppendOnlyLog ----------------------------
(***************************************************************************)
(* What services/evidence_root/transparency_log.py promises of the events  *)
(* it records: an append-only history in which every event is numbered     *)
(* after those before it and has an identity no other event has.           *)
(***************************************************************************)
EXTENDS Integers, Sequences

CONSTANTS EventTypes, ObjectIds

VARIABLE history

Event == [sequence : Nat, event_id : Nat, event_type : EventTypes, object_id : ObjectIds]

Init == history = << >>

Record(event) ==
  /\ \A i \in 1..Len(history) :
       /\ history[i].sequence < event.sequence
       /\ history[i].event_id # event.event_id
  /\ history' = Append(history, event)

Next ==
  /\ Len(history') = Len(history) + 1
  /\ history'[Len(history')] \in Event
  /\ Record(history'[Len(history')])

Spec == Init /\ [][Next]_history
=============================================================================
