--------------------------- MODULE MCOAuthRefresh ---------------------------
(* Small instances of OAuthRefresh for TLC.                                *)
EXTENDS OAuthRefresh, TLC

\* The processes are interchangeable.
ProcSymmetry == Permutations(Procs)
=============================================================================
