--------------------------- MODULE MCValidationQueue ---------------------------
(* Small instances of ValidationQueue for TLC. *)
EXTENDS ValidationQueue, TLC

CONSTANTS w1, w2, apr, may

TwoWorkers == {w1, w2}
OneMonth == {apr}
TwoMonths == {apr, may}

WorkersAreAlike == Permutations({w1, w2})
AllAlike == Permutations({w1, w2}) \cup Permutations({apr, may})
================================================================================
