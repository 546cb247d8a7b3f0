------------------------------ MODULE OncePerKey ------------------------------
(***************************************************************************)
(* What a service that drops duplicates promises: for a key it delivers at *)
(* most one item until it forgets, and it refuses a key exactly if it has  *)
(* delivered it, so that an item it could not process may come again.      *)
(***************************************************************************)
EXTENDS Sequences, SequencesExt

CONSTANT Keys

VARIABLES
  delivered,  \* the keys delivered since it last forgot, in order
  refused     \* the keys it would refuse

vars == <<delivered, refused>>

Init == delivered = <<>> /\ refused = {}

Deliver(key) ==
  /\ key \notin refused
  /\ delivered' = Append(delivered, key)
  /\ refused' = refused \cup {key}

Forget == delivered' = <<>> /\ refused' = {}

Next == (\E key \in Keys : Deliver(key)) \/ Forget

Spec == Init /\ [][Next]_vars
=============================================================================
