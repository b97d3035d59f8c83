--------------------------- MODULE MCChainFSNames --------------------------
(***************************************************************************)
(* A name of 30 characters and the 29 characters write_file keeps of it.   *)
(***************************************************************************)
EXTENDS ChainFSProperties
P(n) == [abs |-> FALSE, comps |-> <<n>>]
MCNames == {"long30", "long29"}
MCKept == [n \in MCNames |-> "long29"]
MCFilePaths == {P("long30")}
MCDirPaths == {P("long29")}
NoResetSpec == Init /\ [][Call \/ Step]_vars
=============================================================================
