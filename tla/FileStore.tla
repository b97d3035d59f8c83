----------------------------- MODULE FileStore -----------------------------
(***************************************************************************)
(* What the file system promises its callers when none of the limits is    *)
(* reached: a map from files to contents, and calls that each give some    *)
(* files new contents at once, when they begin or when they end. A call    *)
(* that fails never does.                                                  *)
(***************************************************************************)
CONSTANTS Keys,      \* the files that can exist: a directory and a name
          Contents,  \* what a file can hold
          Missing    \* what a key without a file reads as

VARIABLES store,
          call       \* the call in progress: what which files are to hold

NoCall  == [files |-> {}, contents |-> Missing]
Writes  == {[files |-> {f}, contents |-> c] : f \in Keys, c \in Contents}
Deletes == {[files |-> {f}, contents |-> Missing] : f \in Keys}
Format  == [files |-> Keys, contents |-> Missing]

After(c) == [f \in Keys |-> IF f \in c.files THEN c.contents ELSE store[f]]

Init == store = [f \in Keys |-> Missing] /\ call = NoCall

Begin == /\ call = NoCall /\ call' \in Writes \cup Deletes \cup {Format}
         /\ store' \in {store, After(call')}

End == /\ call # NoCall /\ call' = NoCall
       /\ store' \in {store, After(call)}

Next == Begin \/ End

Spec == Init /\ [][Next]_<<store, call>>
=============================================================================
