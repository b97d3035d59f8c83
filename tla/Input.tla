------------------------------- MODULE Input -------------------------------
(***************************************************************************)
(* Keyboard and mouse: the thread that runs mouse_init and then reads      *)
(* lines by polling (mouse.c, keyboard.c, kernel.c), the handlers of       *)
(* IRQ 1 and IRQ 12 that interrupt it (handlers.c, mouse.c), and the       *)
(* keyboard controller they share. Its one output register keeps its value *)
(* when it is read, so a read of an empty register finds the last byte.    *)
(*                                                                         *)
(* A handler runs with interrupts off and is one step. In it nothing can   *)
(* change but a register that is empty, which it does not read.            *)
(***************************************************************************)
EXTENDS Integers, Sequences

CONSTANTS
    MaxLen,        \* max_len given to scanf
    Width, Height, \* 80 and 25
    Scancodes,     \* what the keyboard sends
    Letters,       \* scancodes with a character in kbd_us that is not newline
    Packets,       \* what the mouse sends when it is moved
    FirmwareByte,  \* the controller's command byte at boot
    KeyLimit,      \* how many bytes the keyboard sends in a run
    MoveLimit      \* how often the mouse is moved in a run

ShiftDown == {42, 54}    \* 0x2A, 0x36
ShiftUp   == {170, 182}  \* 0xAA, 0xB6
Enter     == 28          \* 0x1C
Backspace == 14          \* 0x0E
Ack       == 250         \* 0xFA
Values    == 0 .. 255

ASSUME InputAssumption ==
    /\ MaxLen \in Nat \ {0, 1} /\ Width \in Nat \ {0} /\ Height \in Nat \ {0}
    /\ Scancodes \subseteq Values /\ FirmwareByte \in Values
    /\ Letters \subseteq 0 .. 127 \ ({Enter, Backspace} \cup ShiftDown)
    /\ Packets \subseteq Values \X Values \X Values
    /\ KeyLimit \in Nat /\ MoveLimit \in Nat

VARIABLES
    register,   \* the output register; "count" numbers the bytes it has held
    full,       \* whether it has not been read (bit 0 of the status)
    kbd, aux,   \* what keyboard and mouse have still to send
    command,    \* the controller's command byte
    reporting,  \* whether the mouse sends packets
    unmasked,   \* interrupts that pic_remap found unmasked
    requested,  \* interrupt requests
    inService,  \* interrupts taken and not acknowledged; 2 is the cascade
    pc, status, \* the thread, and what mouse_init has read
    shift,      \* shift_pressed
    line,       \* the buffer of scanf, as the bytes and the shift state typed
    packet,     \* mouse_byte, as long as mouse_cycle
    pointer,    \* g_mouse_state
    typed, moved

controller == <<register, full, kbd, aux, command, reporting>>
pic        == <<unmasked, requested, inService>>
devices    == <<typed, moved>>
thread     == <<pc, status, shift, line>>
mouse      == <<packet, pointer>>
vars       == <<controller, pic, devices, thread, mouse>>

Bytes == [aux : BOOLEAN, value : Values, count : Nat]
Bit(v, mask) == (v \div mask) % 2 = 1
Set(v, mask) == IF Bit(v, mask) THEN v ELSE v + mask
Clear(v, mask) == IF Bit(v, mask) THEN v - mask ELSE v

Init ==
    /\ register = [aux |-> FALSE, value |-> 0, count |-> 0] /\ full = FALSE
    /\ kbd = <<>> /\ aux = <<>> /\ command = FirmwareByte /\ reporting = FALSE
    /\ unmasked \in SUBSET {1, 12} /\ requested = {} /\ inService = {}
    /\ pc = "enableAux" /\ status = 0
    /\ shift = FALSE /\ line = <<>>
    /\ packet = <<>> /\ pointer = [x |-> Width \div 2, y |-> Height \div 2, buttons |-> 0]
    /\ typed = 0 /\ moved = 0

-----------------------------------------------------------------------------
(* The devices.                                                             *)

Type(c) ==
    /\ typed < KeyLimit /\ typed' = typed + 1
    /\ kbd' = Append(kbd, c)
    /\ UNCHANGED <<register, full, aux, command, reporting, pic, moved, thread, mouse>>

Move(p) ==
    /\ reporting /\ moved < MoveLimit /\ moved' = moved + 1
    /\ aux' = aux \o p
    /\ UNCHANGED <<register, full, kbd, command, reporting, pic, typed, thread, mouse>>

\* The register takes a byte when it is empty, and requests an interrupt if the
\* command byte says so. Bits 4 and 5 of it switch the devices off.
Deliver(fromAux, v) ==
    /\ ~full /\ full' = TRUE
    /\ register' = [aux |-> fromAux, value |-> v, count |-> register.count + 1]
    /\ requested' = requested \cup (IF ~Bit(command, IF fromAux THEN 2 ELSE 1) THEN {}
                                    ELSE {IF fromAux THEN 12 ELSE 1})
    /\ UNCHANGED <<command, reporting, unmasked, inService, devices, thread, mouse>>

DeliverKey == kbd # <<>> /\ ~Bit(command, 16) /\ Deliver(FALSE, Head(kbd))
                         /\ kbd' = Tail(kbd) /\ UNCHANGED aux
DeliverAux == aux # <<>> /\ ~Bit(command, 32) /\ Deliver(TRUE, Head(aux))
                         /\ aux' = Tail(aux) /\ UNCHANGED kbd

\* A read of port 0x60. A request that was not taken yet stays or falls.
inb60(requests) ==
    /\ full' = FALSE
    /\ requested' \in {requests, requests \ {IF register.aux THEN 12 ELSE 1}}

-----------------------------------------------------------------------------
(* The interrupts.                                                          *)

Taken(n) == IF n = 12 THEN {2, 12} ELSE {n}

Accepts(n) ==
    /\ n \in requested \cap unmasked /\ 1 \notin inService
    /\ n = 12 => {2, 12} \cap inService = {}

\* Fault: the second controller is not told.
eoi_master_only(irq, s) == s \ {IF 1 \in s THEN 1 ELSE 2}

\* What is in service after the end of interrupt.
pic_send_eoi(irq, s) ==
    (s \ {IF 1 \in s THEN 1 ELSE 2}) \ (IF irq >= 8 THEN {12} ELSE {})

\* The handler of IRQ 1 throws a byte away.
KeyboardHandler ==
    /\ Accepts(1)
    /\ inb60(requested \ {1})
    /\ inService' = pic_send_eoi(1, inService \cup Taken(1))
    /\ UNCHANGED <<register, kbd, aux, command, reporting, unmasked, devices, thread, mouse>>

\* A byte as a signed char, divided as C does.
Eighth(v) == IF v > 127 THEN -((256 - v) \div 8) ELSE v \div 8

\* Fault: only the upper bound is kept.
ClampHigh(v, n) == IF v >= n THEN n - 1 ELSE v

Clamp(v, n) == IF v < 0 THEN 0 ELSE IF v >= n THEN n - 1 ELSE v

Moved(p) == [x |-> Clamp(pointer.x + Eighth(p[2].value), Width),
             y |-> Clamp(pointer.y - Eighth(p[3].value), Height),
             buttons |-> p[1].value % 8]

\* Fault: the first byte is not looked at.
collect_any ==
    IF Len(packet) = 2 THEN packet' = <<>> /\ pointer' = Moved(Append(packet, register))
    ELSE packet' = Append(packet, register) /\ UNCHANGED pointer

\* The byte in the register becomes part of a packet; bit 3 marks a first byte.
Collect ==
    IF packet = <<>> /\ ~Bit(register.value, 8) THEN UNCHANGED mouse
    ELSE IF Len(packet) = 2 THEN packet' = <<>> /\ pointer' = Moved(Append(packet, register))
    ELSE packet' = Append(packet, register) /\ UNCHANGED pointer

\* Fault: the status is not looked at.
handler_unchecked ==
    /\ Accepts(12)
    /\ inb60(requested \ {12}) /\ Collect
    /\ inService' = pic_send_eoi(12, inService \cup Taken(12))
    /\ UNCHANGED <<register, kbd, aux, command, reporting, unmasked, devices, thread>>

mouse_handler ==
    /\ Accepts(12)
    /\ IF full /\ register.aux
         THEN inb60(requested \ {12}) /\ Collect
         ELSE requested' = requested \ {12} /\ UNCHANGED <<full, mouse>>
    /\ inService' = pic_send_eoi(12, inService \cup Taken(12))
    /\ UNCHANGED <<register, kbd, aux, command, reporting, unmasked, devices, thread>>

-----------------------------------------------------------------------------
(* The thread: mouse_init. The controller takes commands at once.           *)

mouse_init ==
    \/ /\ pc = "enableAux" /\ pc' = "askByte"
       /\ command' = Clear(command, 32) /\ UNCHANGED <<kbd, aux, reporting>>
    \/ /\ pc = "askByte" /\ pc' = "readByte"
       /\ kbd' = Append(kbd, command) /\ UNCHANGED <<aux, command, reporting>>
    \/ /\ pc = "setByte" /\ pc' = "setDefaults"
       /\ command' = status /\ UNCHANGED <<kbd, aux, reporting>>
    \/ /\ pc = "setDefaults" /\ pc' = "readAck"
       /\ aux' = Append(aux, Ack) /\ reporting' = FALSE /\ UNCHANGED <<kbd, command>>
    \/ /\ pc = "enable" /\ pc' = "readLastAck"
       /\ aux' = Append(aux, Ack) /\ reporting' = TRUE /\ UNCHANGED <<kbd, command>>

InitWrites ==
    /\ mouse_init
    /\ UNCHANGED <<register, full, pic, devices, status, shift, line, mouse>>

\* Fault: mouse_wait does not give up.
read_when_full ==
    /\ pc \in {"readByte", "readAck", "readLastAck"}
    /\ IF full THEN inb60(requested) ELSE UNCHANGED <<full, requested>>
    /\ pc' = IF ~full THEN pc ELSE IF pc = "readByte" THEN "setByte"
             ELSE IF pc = "readAck" THEN "enable" ELSE "poll"
    /\ status' = IF full /\ pc = "readByte" THEN Set(register.value, 2) ELSE status
    /\ UNCHANGED <<register, kbd, aux, command, reporting, unmasked, inService, devices,
                   shift, line, mouse>>

\* mouse_wait gives up after a while, so the register may be empty.
mouse_read ==
    /\ pc \in {"readByte", "readAck", "readLastAck"}
    /\ inb60(requested)
    /\ pc' = CASE pc = "readByte" -> "setByte" [] pc = "readAck" -> "enable"
               [] OTHER -> "poll"
    /\ status' = IF pc = "readByte" THEN Set(register.value, 2) ELSE status
    /\ UNCHANGED <<register, kbd, aux, command, reporting, unmasked, inService, devices,
                   shift, line, mouse>>

-----------------------------------------------------------------------------
(* The thread: scanf, between whose calls the shell runs.                   *)

\* Fault: the byte is read before there is one.
poll_unchecked ==
    /\ pc = "poll"
    /\ pc' = IF register.aux THEN "discard" ELSE "read"
    /\ UNCHANGED <<controller, pic, devices, status, shift, line, mouse>>

\* Fault: the source of the byte is not looked at.
poll_any ==
    /\ pc = "poll"
    /\ pc' = IF full THEN "read" ELSE "poll"
    /\ UNCHANGED <<controller, pic, devices, status, shift, line, mouse>>

\* Lines 97-99, the status; what follows reads the byte in a step of its own.
Poll ==
    /\ pc = "poll"
    /\ pc' = IF ~full THEN "poll" ELSE IF register.aux THEN "discard" ELSE "read"
    /\ UNCHANGED <<controller, pic, devices, status, shift, line, mouse>>

\* Fault: a byte of the mouse is left for its handler.
leave_to_handler ==
    /\ pc = "discard" /\ pc' = "poll"
    /\ UNCHANGED <<controller, pic, devices, status, shift, line, mouse>>

Discard ==
    /\ pc = "discard" /\ pc' = "poll"
    /\ inb60(requested)
    /\ UNCHANGED <<register, kbd, aux, command, reporting, unmasked, inService, devices,
                   status, shift, line, mouse>>

\* The line after the byte b.
Edited(b) ==
    IF b.value = Backspace /\ line # <<>> THEN SubSeq(line, 1, Len(line) - 1)
    ELSE IF b.value \in Letters THEN Append(line, [byte |-> b, shift |-> shift])
    ELSE line

scanf ==
    /\ pc = "read"
    /\ inb60(requested)
    /\ shift' = (register.value \in IF shift THEN Values \ ShiftUp ELSE ShiftDown)
    /\ line' = Edited(register)
    /\ pc' = IF register.value = Enter \/ Len(line') = MaxLen - 1 THEN "shell" ELSE "poll"
    /\ UNCHANGED <<register, kbd, aux, command, reporting, unmasked, inService, devices,
                   status, mouse>>

shell_func ==
    /\ pc = "shell" /\ pc' = "poll" /\ line' = <<>>
    /\ UNCHANGED <<controller, pic, devices, status, shift, mouse>>

-----------------------------------------------------------------------------

Thread == InitWrites \/ mouse_read \/ Poll \/ Discard \/ scanf \/ shell_func

Next ==
    \/ \E c \in Scancodes : Type(c)
    \/ \E p \in Packets : Move(p)
    \/ DeliverKey \/ DeliverAux
    \/ KeyboardHandler \/ mouse_handler
    \/ Thread

\* The thread goes on between interrupts, the controller delivers what it can,
\* and a processor takes the requests it may take.
Spec == /\ Init /\ [][Next]_vars
        /\ WF_vars(Thread) /\ WF_vars(DeliverKey \/ DeliverAux)
        /\ WF_vars(KeyboardHandler) /\ WF_vars(mouse_handler)

Booting == pc \in {"enableAux", "askByte", "readByte", "setByte", "setDefaults",
                   "readAck", "enable", "readLastAck"}

TypeOK ==
    /\ register \in Bytes /\ full \in BOOLEAN
    /\ kbd \in Seq(Values) /\ aux \in Seq(Values)
    /\ command \in Values /\ reporting \in BOOLEAN
    /\ unmasked \subseteq {1, 12} /\ requested \subseteq {1, 12}
    /\ inService \subseteq {1, 2, 12}
    /\ Booting \/ pc \in {"poll", "discard", "read", "shell"}
    /\ status \in Values /\ shift \in BOOLEAN
    /\ line \in Seq([byte : Bytes, shift : BOOLEAN]) /\ Len(line) < MaxLen
    /\ packet \in Seq(Bytes) /\ Len(packet) < 3
    /\ pointer \in [x : 0 .. Width - 1, y : 0 .. Height - 1, buttons : 0 .. 7]
    /\ typed \in 0 .. KeyLimit /\ moved \in 0 .. MoveLimit

=============================================================================
