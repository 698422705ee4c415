------------------------------- MODULE MCDirs --------------------------------
(* Instances of Dirs for TLC: two long names that share an alias base.       *)
EXTENDS Dirs

MCLongBase  == [l \in {<<"long one", -1>>, <<"long two", -1>>} |-> "LONG"]
MCLongSlots == [l \in DOMAIN MCLongBase |-> IF l = <<"long one", -1>> THEN 1 ELSE 2]
MCShort     == {<<"A", 0>>}
MCPatterns  == {MCShort \cup DOMAIN MCLongBase \cup Aliases \cup {Dot, DotDot}}
MCAttributes == {<<"LONG", 2>>}
=============================================================================
