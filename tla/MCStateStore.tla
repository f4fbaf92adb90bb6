---------------------------- MODULE MCStateStore ----------------------------
(* One secret with two values, one browser session, three backups, one       *)
(* restart.                                                                  *)
EXTENDS StateStore, TLC

CONSTANTS s1, v1, v2, i1

MCSecrets == {s1}
MCValues == {v1, v2}
MCSessions == {i1}

ValueSymmetry == Permutations(MCValues)

=============================================================================
