----------------------------- MODULE MCBuildGuard -----------------------------
(* The instance of BuildGuard that MCBuildGuard.cfg completes.              *)
EXTENDS BuildGuard, TLC

CONSTANTS r1, r2, r3

MCRuns == {r1, r2, r3}
MCSymmetry == Permutations(MCRuns)

\* The budget does not look at containers and configurations: scheduled runs
\* take place where both are as they are kept.
MCInit == Init /\ over = IF mounts = Compose /\ web = Configured THEN {} ELSE Runs
MCSpec == MCInit /\ [][Next]_vars
=============================================================================
