---------------------------- MODULE MCChainFSCwd ---------------------------
(***************************************************************************)
(* A directory reached by a relative and an absolute path.                 *)
(***************************************************************************)
EXTENDS ChainFSProperties
P(abs, comps) == [abs |-> abs, comps |-> comps]
MCNames == {"d"}
MCKept == [n \in MCNames |-> n]
MCFilePaths == {}
MCDirPaths == {P(FALSE, <<"d">>), P(TRUE, <<"d">>)}
NoResetSpec == Init /\ [][Call \/ Step]_vars
=============================================================================
