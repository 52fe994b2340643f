---------------------------- MODULE NodeSequence ----------------------------
(***************************************************************************)
(* What a singly linked list is for its callers: a sequence of nodes that  *)
(* grows at its end, loses one node at a time from any place, and is       *)
(* dropped as a whole.                                                     *)
(***************************************************************************)
EXTENDS Sequences, SequencesExt

CONSTANT Nodes

VARIABLE items

Init == items = <<>>

Append1(n) == /\ n \notin ToSet(items)
              /\ items' = Append(items, n)

Delete(k) == items' = RemoveAt(items, k)

Clear == items' = <<>>

Next == \/ \E n \in Nodes : Append1(n)
        \/ \E k \in DOMAIN items : Delete(k)
        \/ Clear

Spec == Init /\ [][Next]_items
=============================================================================
