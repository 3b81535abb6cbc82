---------------------------- MODULE MCWorkQueue ----------------------------
(* Small instances of WorkQueue for TLC.                                   *)
EXTENDS WorkQueue, TLC

CONSTANT Slots

\* Every instance has all the slots.
SlotsEach == Procs \X Slots

\* Readings of the clock, and the slots of an instance, are interchangeable.
Symmetric == Permutations(Stamps) \cup Permutations(Slots)

\* One instance runs a version without the jobs' handlers, ...
Old == CHOOSE p \in Procs : TRUE
OldVersion == {Old} \X Jobs

\* ... and has a slot less than the other.
OldHasLess == SlotsEach \ {<<Old, CHOOSE s \in Slots : TRUE>>}
StampSymmetry == Permutations(Stamps)
=============================================================================
