--------------------------- MODULE MCChainFSCrash --------------------------
(***************************************************************************)
(* Resets between any two sector writes, under callers that only create:   *)
(* no file is rewritten or deleted, so no chain is freed.                  *)
(***************************************************************************)
EXTENDS ChainFSProperties, TLC
P(abs, comps) == [abs |-> abs, comps |-> comps]
MCNames == {"a", "d"}
MCKept == [n \in MCNames |-> n]
MCFilePaths == {P(FALSE, <<"a">>), P(FALSE, <<"d", "a">>)}
MCDirPaths == {P(FALSE, <<"d">>), P(TRUE, <<"d">>)}
TagSymmetry == Permutations(Tags)

ASSUME ShortNames
=============================================================================
