------------------------------ MODULE MCFiles ------------------------------
(* A disk with nested directories, two chains of links, a dangling link, a *)
(* circle, a text file, and programs that can and cannot be loaded.  Four  *)
(* i-nodes to a group, in the groups' tables at blocks 5, 9 and 20.        *)
EXTENDS Files, TLC

MCITable == (0 :> 5) @@ (1 :> 9) @@ (2 :> 20)

Dir(n, e) == [number |-> n, kind |-> "dir", entries |-> e]
Link(n, p) == [number |-> n, kind |-> "link", target |-> p]
File(n, x, segs) ==
    [number |-> n, kind |-> "file", executable |-> x, segments |-> segs, entry |-> 100 + n]

MCDisk ==
    (11 :> Dir(2, << <<".", 2>>, <<"..", 2>>, <<"d", 3>>, <<"text", 4>>, <<"link", 5>>,
                     <<"chain", 6>>, <<"lost", 7>>, <<"ring", 8>> >>)) @@
    (12 :> Dir(3, << <<".", 3>>, <<"..", 2>>, <<"prog", 9>>, <<"text", 10>>,
                     <<"bad", 11>>, <<"ring", 12>> >>)) @@
    (13 :> File(4, FALSE, <<>>)) @@
    (18 :> Link(5, <<"d", "prog">>)) @@
    (19 :> Link(6, <<"link">>)) @@
    (20 :> Link(7, <<"d", "none">>)) @@
    (21 :> Link(8, <<"d", "ring">>)) @@
    (40 :> File(9, TRUE, <<"load", "other", "load">>)) @@
    (41 :> File(10, FALSE, <<>>)) @@
    (42 :> File(11, TRUE, <<"load", "invalid">>)) @@
    (43 :> Link(12, <<"ring">>))

Names == {"..", "d", "text", "link", "chain", "lost", "ring", "prog", "bad", "none"}

MCPath == UNION {[1..n -> Names] : n \in 0..2}

Strings == UNION {[1..n -> {97, 98}] : n \in 0..2}

MCArgs == UNION {[1..n -> Strings] : n \in 0..2}
=============================================================================
