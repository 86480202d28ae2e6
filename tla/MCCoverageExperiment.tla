------------------------- MODULE MCCoverageExperiment -------------------------
(* Two lines, a branch and a toggle of the DUT; y1 and b2 belong to an         *)
(* instance that only an altered testbench brings in.                          *)
EXTENDS CoverageExperiment

Point(k, i) == [kind |-> k, id |-> i]
l1 == Point("line", 1)
l2 == Point("line", 2)
l3 == Point("line", 3)
b1 == Point("branch", 1)
y1 == Point("toggle", 1)
y2 == Point("toggle", 2)
MCPoints == {l1, l2, l3, b1, y1, y2}
Dut == {l1, l2, b1, y1}
Report(domain, hit) == [domain |-> domain, hit |-> hit]
MCReports ==
  { Report(Dut, {l1}), Report(Dut, {l1, l2, y1}), Report(Dut, Dut),
    Report({l1, l3, b1, y1}, {l1, l3}),            \* as many points, another line
    Report(Dut \cup {y2}, Dut),                    \* another instance
    Report({y1, y2}, {y1}),                        \* a DUT without a line
    Report({b1}, {b1}) }                           \* nothing that counts

Setup(kind, limit, threshold, toggles) ==
  [kind |-> kind, limit |-> limit, threshold |-> threshold, toggles |-> toggles,
   guarded |-> FALSE, memory |-> Null, addendum |-> Null]
Target(limit, memory, addendum) ==
  [kind |-> "project", limit |-> limit, threshold |-> {}, toggles |-> TRUE,
   guarded |-> TRUE, memory |-> memory, addendum |-> addendum]
MCSetups ==
  { Setup("eval", 2, {9000}, FALSE), Setup("eval", 3, {9000}, FALSE),
    Setup("i2c", 2, {}, FALSE), Setup("i2c", 2, {9000}, FALSE),
    Setup("project", 0, {}, TRUE), Setup("project", 2, {9000}, TRUE),
    Target(3, Null, Null), Target(2, Null, "check"), Target(2, "frozen", Null),
    Target(2, "frozen", "check"), Target(3, "directed", "work") }
=============================================================================
