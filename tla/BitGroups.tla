------------------------------ MODULE BitGroups ------------------------------
(***************************************************************************)
(* A sequence of groups of bits, most significant bit first, read as a     *)
(* sequence of groups of another width.                                    *)
(***************************************************************************)
EXTENDS Integers, Sequences, FiniteSetsExt, SequencesExt

\* A number as the set of its bits that are one: exclusive or is the symmetric
\* difference.
Bits(n) == {b \in 0 .. 29 : (n \div 2 ^ b) % 2 = 1}
Xor(s, t) == (s \ t) \cup (t \ s)

\* Bit p of the groups, counted from 0, each of the width given.
BitAt(groups, width, p) == (groups[(p \div width) + 1] \div 2 ^ (width - 1 - (p % width))) % 2

BitsLeft(groups, from, to) == (Len(groups) * from) % to

\* The number of the bits from p on, as many as n; beyond the end they are zero.
Group(groups, width, p, n) ==
  FoldLeft(LAMBDA v, i : 2 * v + (IF p + i <= Len(groups) * width
                                  THEN BitAt(groups, width, p + i - 1) ELSE 0),
           0, [i \in 1 .. n |-> i])

\* The complete groups of the new width.
Regroup(groups, from, to) ==
  [k \in 1 .. ((Len(groups) * from) \div to) |-> Group(groups, from, (k - 1) * to, to)]

\* Those, and the bits left over as a last group filled with zeros.
RegroupPadded(groups, from, to) ==
  IF BitsLeft(groups, from, to) = 0 THEN Regroup(groups, from, to)
  ELSE Append(Regroup(groups, from, to),
              Group(groups, from, Len(groups) * from - BitsLeft(groups, from, to), to))
=============================================================================
