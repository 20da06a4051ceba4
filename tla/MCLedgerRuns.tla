---------------------------- MODULE MCLedgerRuns ----------------------------
\* Two runs, of which the second has a dated id; the callers are
\* interchangeable.
EXTENDS LedgerRuns, TLC

CallerSymmetry == Permutations(Callers)
=============================================================================
