------------------------------ MODULE MemoryChain ------------------------------
(***************************************************************************)
(* What the Memory store promises to its readers: one chain of snapshots.  *)
(* It begins with an empty one; every further one extends its predecessor  *)
(* and loses no evidence of any item; none is ever replaced or removed.    *)
(***************************************************************************)
EXTENDS Naturals, Sequences

CONSTANTS Ids, Cases

Items == [Ids -> SUBSET Cases]
NoItems == [i \in Ids |-> {}]

Extends(new, old) == \A i \in Ids : old[i] \subseteq new[i]

VARIABLE chain

Init == chain = << >>

Begin == chain = << >> /\ chain' = <<NoItems>>

Extend ==
  /\ chain # << >>
  /\ \E items \in Items : Extends(items, chain[Len(chain)]) /\ chain' = Append(chain, items)

Next == Begin \/ Extend

Spec == Init /\ [][Next]_chain
=============================================================================
