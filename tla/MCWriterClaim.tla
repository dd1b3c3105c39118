---------------------------- MODULE MCWriterClaim ----------------------------
(* Two commands of two sessions, leases of no second and of one second.     *)
EXTENDS WriterClaim, TLC

CONSTANTS s1, s2, c1, c2

TwoSessions == {s1, s2}
TwoCommands == {c1, c2}
ShortLeases == {0, 1}
Alike == Permutations(TwoSessions) \union Permutations(TwoCommands)
==============================================================================
