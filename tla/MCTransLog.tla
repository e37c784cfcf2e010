----------------------------- MODULE MCTransLog -----------------------------
(* A table of one window.  Keys share it, and lock 0 is the lock of an empty *)
(* slot; scores stand for their class, quiet and mate.                       *)
EXTENDS TransLog

\* One index per lock, and two locks with one index.
SomeKeys == {[index |-> 0, lock |-> 0], [index |-> 0, lock |-> 1], [index |-> 1, lock |-> 2]}

Two        == {2}
NoneOrMove == {None, 5}
UpTo99     == {0, 99}
Hundred    == {0, 100}
QuietOrMate == {0, 15}
Root       == {0}
=============================================================================
