------------------------------- MODULE MCLock -------------------------------
(* Instances of Lock for TLC: two acquires, by one owner or by two.        *)
EXTENDS Lock

CONSTANTS p, q, h1, h2

TwoOwners == {p, q}
TwoHandles == {h1, h2}
OneOrTwo == {[h \in TwoHandles |-> p], [h \in TwoHandles |-> IF h = h1 THEN p ELSE q]}
First == {h1}
=============================================================================
