------------------------------ MODULE MCStorage ------------------------------
(* Small instances of Storage for TLC. *)
EXTENDS StorageInvariants

CONSTANTS a, d, e, x, p1, p2

\* _ in a name matches any letter: e may stand for "a_b", d for "axb".
MCDistinct == {<<n, n>> : n \in Name}
MCLookalike == MCDistinct \cup {<<e, d>>}

\* A file, two directories of which one can hold the other, and their files.
MCFlat == {<<a>>, <<d>>, <<d, a>>}
MCDeep == {<<a>>, <<d>>, <<d, a>>, <<d, e>>, <<d, e, a>>}
MCSiblings == {<<d>>, <<d, a>>, <<e>>, <<e, a>>, <<d, e, a>>, <<e, d, a>>}
=============================================================================
