-------------------------- MODULE InputProperties --------------------------
(***************************************************************************)
(* What holds of keyboard and mouse although a polling thread and two      *)
(* handlers race for one register.                                         *)
(***************************************************************************)
EXTENDS Input

\* No byte is put into a line twice or out of order, whoever empties the
\* register between the poll and the read of scanf (keyboard.c:97-103).
LineInOrder ==
    \A i, j \in DOMAIN line : i < j => line[i].byte.count < line[j].byte.count

\* While the keyboard's interrupt is masked, nothing the mouse sent gets into a
\* line, although its bytes come through the same port (99). The controller's answer
\* to mouse_init, when nobody has taken it, does: it comes as keys do.
KeysOnly == 1 \notin unmasked => \A i \in DOMAIN line : ~line[i].byte.aux

\* Then also, once the kernel has booted, only scanf empties a register that holds
\* a key: it reads the key, or it loses it because the handler of the mouse and the
\* next byte came between its poll and its discard (handlers.c:11-17, mouse.c:76,
\* keyboard.c:97-101). With no interrupt unmasked every key is read.
KeysKept ==
    [][1 \notin unmasked /\ ~Booting /\ full /\ ~register.aux /\ ~full'
        => pc = "read" \/ (12 \in unmasked /\ pc = "discard")]_vars

\* The bytes of a packet came from the mouse, each was used once and in order,
\* and the first bears the mark, whatever was lost before (mouse.c:75-84).
PacketSound ==
    /\ packet # <<>> => Bit(packet[1].value, 8)
    /\ \A i \in DOMAIN packet : packet[i].aux
    /\ \A i, j \in DOMAIN packet : i < j => packet[i].count < packet[j].count

\* The kernel reaches its prompt, even when a handler takes the answers that
\* mouse_init waits for (mouse.c:25-38, 65-69).
ReachesPrompt == <>~Booting

\* A request of the mouse's interrupt does not stay for ever: every handler ends
\* with what both controllers need to go on (handlers.c:19, pic.c:45-50).
InterruptsServed == 12 \in unmasked /\ 12 \in requested ~> 12 \notin requested

\* The register does not stay full, or neither device could send any more: what
\* no handler takes, scanf does, also from the mouse (keyboard.c:98-103).
RegisterDrains == full ~> ~full

=============================================================================
