--------------------------- MODULE MCChainFSFiles --------------------------
(***************************************************************************)
(* Callers that give single names, keep file names and directory names     *)
(* apart, and whose files fit on the disk.                                 *)
(***************************************************************************)
EXTENDS ChainFSProperties
P(n) == [abs |-> FALSE, comps |-> <<n>>]
MCNames == {"a", "b", "d"}
MCKept == [n \in MCNames |-> n]
MCFilePaths == {P("a"), P("b")}
MCDirPaths == {P("d")}

ASSUME PlainCallers
=============================================================================
