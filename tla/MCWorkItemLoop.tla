---------------------------- MODULE MCWorkItemLoop ----------------------------
(* The baseline, the baseline with one new line, and another version with two. *)
(* The ledgers: one item done well or in every way badly, a second one beside  *)
(* it or in its place, a third one.                                            *)
EXTENDS WorkItemLoop, TLC
CONSTANTS base, one, two, old, l1, l2, i1, i2, i3

MCHas == (base :> {old}) @@ (one :> {old, l1}) @@ (two :> {l1, l2})
MCExecutions == [c \in Contents |-> {{}, Has[c]}]

Item(provenance, disposition, places, cites, authority) ==
  [provenance |-> provenance, disposition |-> disposition, places |-> places, cites |-> cites,
   authority |-> authority]
Done(places) == Item("self", "implemented", places, {}, TRUE)
Proposed == Item("self", "proposed", {}, {}, TRUE)
Withdrawn == Item("self", "withdrawn", {}, {}, TRUE)

First ==
  {Proposed, Withdrawn, Done({l1}), Done({l1, l2}), Done({old}), Done({}),
   Item("self", "implemented", {l1}, {}, FALSE),
   Item("self", "implemented", {l1}, {<<2, l1>>}, TRUE),
   Item("source", "implemented", {l1}, {}, TRUE), Item("source", "withdrawn", {}, {}, TRUE),
   Item("unknown", "implemented", {l1}, {}, TRUE)}
ItemSets ==
  {<<>>} \cup {i1 :> f : f \in First} \cup {i2 :> Done({l2})}
    \cup {(i1 :> f) @@ (i2 :> s) : f \in {Withdrawn, Done({l1})}, s \in {Proposed, Done({l2})}}
    \cup {(i1 :> Withdrawn) @@ (i2 :> Proposed) @@ (i3 :> Done({l1}))}
MCSpoilable == {<<"pointer", 0>>, <<"memory", 0>>, <<"execution", 0>>, <<"state", 2>>, <<"execution", 3>>}
MCLedgers == [items : ItemSets, direction : {"none", "plausible"}]
=============================================================================
