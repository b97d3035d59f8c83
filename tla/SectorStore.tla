---------------------------- MODULE SectorStore ----------------------------
(***************************************************************************)
(* What the disk driver promises its caller: a write has changed its whole *)
(* sector, and only that, when it returns, and a read returns what is in   *)
(* the sector it names.                                                    *)
(***************************************************************************)
CONSTANTS Lbas, Calls, NoCall, Blank

VARIABLES sectors,  \* what is on the disk
          asked,    \* the call in progress
          got       \* what the last read returned

Init == sectors = [l \in Lbas |-> Blank] /\ asked = NoCall /\ got = Blank

Ask(c) == asked = NoCall /\ asked' = c /\ UNCHANGED <<sectors, got>>

Store ==
    /\ asked.op = "write"
    /\ sectors' = [sectors EXCEPT ![asked.lba] = asked.value]
    /\ UNCHANGED <<asked, got>>

Answer ==
    /\ asked # NoCall /\ asked' = NoCall
    /\ asked.op = "write" => sectors[asked.lba] = asked.value
    /\ got' = IF asked.op = "read" THEN sectors[asked.lba] ELSE got
    /\ UNCHANGED sectors

Next == (\E c \in Calls : Ask(c)) \/ Store \/ Answer

Spec == Init /\ [][Next]_<<sectors, asked, got>>
=============================================================================
