----------------------------- MODULE MCMachine -----------------------------
(* Three cores, tables that describe them rightly and wrongly, and disks   *)
(* with blocks of two, four and eight sectors.                             *)
EXTENDS Machine

Apic(n) == [type |-> 0, processor |-> n, address |-> 0]
IoApicEntry == [type |-> 1, processor |-> 0, address |-> 9]
Other == [type |-> 2, processor |-> 0, address |-> 0]

Good == <<Apic(0), Apic(1), Apic(2), IoApicEntry, Other>>

Tables == {
    Good,
    <<Apic(0), Other, IoApicEntry, Apic(2), Apic(1), Other>>,
    <<Apic(0), Apic(1), Apic(2), Apic(3), Other>>,      \* one that is not there
    <<Apic(0), Apic(1), Apic(2), Apic(7)>>,             \* bytes behind the table
    <<Apic(1), Apic(0), Apic(2), Other>>,               \* the first is passed over
    <<IoApicEntry, Apic(1), Apic(2), Apic(0), Other>>,
    <<Apic(0), Other>> }

(* The table of i-nodes is two blocks into each group.  Programs read on   *)
(* one machine only.                                                       *)
Ext2(log, blocks, perGroup, nodes, size) ==
    [log |-> log, blocks |-> blocks, perGroup |-> perGroup,
     iNodesPerGroup |-> nodes, iNodeSize |-> size, wanted |-> {},
     iNodeTables |-> [g \in 1..blocks |->
                         (g - 1) * perGroup + 2 + (IF log = 0 THEN 1 ELSE 0)]]

Lost == [Ext2(0, 9, 4, 4, 1) EXCEPT !.iNodeTables[1] = 10]

Disks == {
    Ext2(0, 9, 4, 4, 1),    \* two groups, of which the code counts three
    Ext2(0, 8, 4, 4, 2),
    Ext2(1, 11, 4, 4, 1),   \* three groups: the table ends inside a sector
    Ext2(1, 8, 4, 1, 1),    \* the root in the second group
    Ext2(2, 5, 8, 4, 1),
    Lost }

MCHardware ==
    [madt : Tables, disk : {Ext2(0, 9, 4, 4, 1)}, drive : {TRUE}]
        \cup [madt : {Good}, disk : Disks, drive : {TRUE}]
        \cup [madt : {Good}, disk : {Lost}, drive : {FALSE}]
        \cup [madt : {Good}, drive : {TRUE},
              disk : {[Ext2(2, 5, 8, 4, 1) EXCEPT !.wanted = {5, 31, 50}]}]
=============================================================================
