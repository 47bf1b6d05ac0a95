----------------------------- MODULE MCSendPath -----------------------------
EXTENDS SendPath

\* Logical packets with a payload of n times the byte v.
Filled(opcode, n, v) == <<opcode, n>> \o [i \in 1..n |-> v]

\* With groups of four: part of a group, a whole one, a group and a byte.
MCShortTails == {Filled(1, 0, 0), Filled(2, 2, 0), Filled(3, 3, 9)}

\* Twelve bytes: a group and four bytes that are the same as the one before.
MCLongTails == {Filled(1, 10, 0), Filled(2, 10, 7)}
=============================================================================
