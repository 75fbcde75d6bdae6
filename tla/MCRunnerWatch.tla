--------------------------- MODULE MCRunnerWatch ---------------------------
(* RunnerWatch for TLC: a run in the first repository.                      *)
EXTENDS RunnerWatch

CONSTANTS r1, r2
MCSlugs == <<r1, r2>>
MCRepoOf == [x \in Runs |-> r1]
Mixed == [r \in Repos |-> IF r = r1 THEN {"pool"}
                          ELSE {"public", "undeclared", "pool", "cluster", "cluster-bare", "pinned"}]
=============================================================================
