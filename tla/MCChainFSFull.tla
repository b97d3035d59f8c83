--------------------------- MODULE MCChainFSFull ---------------------------
(***************************************************************************)
(* Any caller: nested and absolute paths, names of directories given to    *)
(* write_file, a disk that runs full, and resets at every step.            *)
(***************************************************************************)
EXTENDS ChainFSProperties
P(abs, comps) == [abs |-> abs, comps |-> comps]
MCNames == {"a", "d"}
MCKept == [n \in MCNames |-> n]
MCFilePaths == {P(FALSE, <<"a">>), P(FALSE, <<"d">>), P(FALSE, <<"d", "a">>)}
MCDirPaths == {P(FALSE, <<"d">>), P(FALSE, <<"d", "d">>), P(TRUE, <<"d">>)}

\* The same callers on a machine that is never reset,
NoResetSpec == Init /\ [][Call \/ Step]_vars

\* who also never leave the root,
AtRootSpec == Init /\ [][(Call \/ Step) /\ cwd' = Root]_vars

\* or do leave it and never remove the directory they are in.
KeepCwdSpec == Init /\ [][(Call \/ Step) /\ (mounted' /\ pc' # "format" => IsDir(cwd)')]_vars
=============================================================================
