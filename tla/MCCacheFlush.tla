----------------------------- MODULE MCCacheFlush -----------------------------
(* Two closest-facility entries under different cursors, so that a SCAN    *)
(* takes two turns, a categories entry, and a key of somebody else.        *)
EXTENDS CacheFlush

CONSTANTS cf1, cf2, cfc1, other

MCSpaces  == <<{cf1, cf2}, {cfc1}>>
MCOthers  == {other}
MCCursors == <<"0", "17">>
MCSlot    == [k \in {cf1, cf2, cfc1, other} |-> IF k = cf1 THEN "0" ELSE "17"]
=============================================================================
