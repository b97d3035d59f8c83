---------------------------- MODULE InputProofs ----------------------------
(***************************************************************************)
(* Theorems about keyboard and mouse for every set of scancodes and        *)
(* packets, every length of a run, and every command byte and interrupt    *)
(* mask the firmware may have left.                                        *)
(***************************************************************************)
EXTENDS InputProperties, SequenceTheorems, TLAPS

-----------------------------------------------------------------------------
(* Sequences.                                                               *)

\* One element more at the end.
LEMMA AppendOne ==
    ASSUME NEW S, NEW s \in Seq(S), NEW e \in S
    PROVE  /\ Append(s, e) \in Seq(S) /\ Len(s) \in Nat /\ Len(Append(s, e)) = Len(s) + 1
           /\ DOMAIN Append(s, e) = 1 .. Len(s) + 1 /\ DOMAIN s = 1 .. Len(s)
           /\ \A i \in 1 .. Len(s) : Append(s, e)[i] = s[i]
           /\ Append(s, e)[Len(s) + 1] = e
BY AppendProperties, LenProperties

\* One element less at the end.
LEMMA DropLast ==
    ASSUME NEW S, NEW s \in Seq(S), s # <<>>
    PROVE  LET t == SubSeq(s, 1, Len(s) - 1) IN
           /\ t \in Seq(S) /\ Len(s) \in Nat \ {0} /\ Len(t) = Len(s) - 1
           /\ DOMAIN t = 1 .. Len(s) - 1
           /\ \A i \in 1 .. Len(s) - 1 : t[i] = s[i]
<1> DEFINE n == Len(s) - 1
<1>1. n \in Nat /\ Len(s) = n + 1 /\ \A i \in 1 .. n : s[i] \in S
  OBVIOUS
<1> HIDE DEF n
<1>2. /\ SubSeq(s, 1, n) \in Seq(S) /\ Len(SubSeq(s, 1, n)) = IF 1 <= n THEN n - 1 + 1 ELSE 0
      /\ \A i \in 1 .. n - 1 + 1 : SubSeq(s, 1, n)[i] = s[1 + i - 1]
  BY <1>1, SubSeqProperties
<1>3. Len(SubSeq(s, 1, n)) = n /\ \A i \in 1 .. n : SubSeq(s, 1, n)[i] = s[i]
  <2>1. n - 1 + 1 = n /\ \A i \in 1 .. n : 1 + i - 1 = i
    BY <1>1
  <2> QED BY <1>1, <1>2, <2>1
<1>4. DOMAIN SubSeq(s, 1, n) = 1 .. n
  BY <1>2, <1>3, LenProperties
<1> QED BY <1>1, <1>2, <1>3, <1>4 DEF n

-----------------------------------------------------------------------------
(* Numbers.                                                                 *)

\* Reading and clearing bit 5, and setting bit 1, gives a byte (mouse.c:42-46, 59).
LEMMA ByteBits ==
    \A v \in Values : Clear(v, 32) \in Values /\ Set(v, 2) \in Values
BY DEF Values, Clear, Set, Bit

\* The pointer stays on the screen, however far a packet moves it (mouse.c:89-98).
LEMMA ClampRange ==
    ASSUME NEW v \in Int, NEW n \in Nat \ {0} PROVE Clamp(v, n) \in 0 .. n - 1
BY DEF Clamp

\* What a packet says of the pointer and the buttons is in range (mouse.c:86-98).
LEMMA EighthInt == \A v \in Values : Eighth(v) \in Int
BY DEF Eighth, Values

\* Three buttons.
LEMMA ButtonsRange == \A v \in Values : v % 8 \in 0 .. 7
BY DEF Values

\* The pointer after a packet.
LEMMA MovedType ==
    ASSUME TypeOK, NEW p \in Seq(Bytes), Len(p) = 3
    PROVE  Moved(p) \in [x : 0 .. Width - 1, y : 0 .. Height - 1, buttons : 0 .. 7]
<1>1. p[1] \in Bytes /\ p[2] \in Bytes /\ p[3] \in Bytes
  OBVIOUS
<1>2. p[1].value \in Values /\ p[2].value \in Values /\ p[3].value \in Values
  BY <1>1 DEF Bytes
<1>3. pointer.x \in Int /\ pointer.y \in Int
  BY InputAssumption DEF TypeOK
<1>4. /\ pointer.x + Eighth(p[2].value) \in Int
      /\ pointer.y - Eighth(p[3].value) \in Int
  BY <1>2, <1>3, EighthInt
<1>5. p[1].value % 8 \in 0 .. 7
  BY <1>2, ButtonsRange
<1> QED BY <1>4, <1>5, ClampRange, InputAssumption DEF Moved

-----------------------------------------------------------------------------
(* Types.                                                                   *)

\* scanf still reads only while its buffer has room for two more (keyboard.c:96).
Room == pc # "shell" => Len(line) < MaxLen - 1

\* The types at first.
LEMMA InitType == Init => TypeOK
<1> SUFFICES ASSUME Init PROVE TypeOK
  OBVIOUS
<1>1. Width \div 2 \in 0 .. Width - 1 /\ Height \div 2 \in 0 .. Height - 1
  BY InputAssumption
<1>2. 0 \in Values /\ <<>> \in Seq(Values) /\ <<>> \in Seq(Bytes)
      /\ <<>> \in Seq([byte : Bytes, shift : BOOLEAN]) /\ Len(<<>>) = 0
  BY EmptySeq DEF Values
<1>3. register \in Bytes /\ command \in Values /\ status \in Values
  BY <1>2, InputAssumption DEF Init, Bytes
<1>4. pointer \in [x : 0 .. Width - 1, y : 0 .. Height - 1, buttons : 0 .. 7]
  BY <1>1 DEF Init
<1>5. /\ kbd \in Seq(Values) /\ aux \in Seq(Values) /\ packet \in Seq(Bytes)
      /\ line \in Seq([byte : Bytes, shift : BOOLEAN])
      /\ Len(packet) < 3 /\ Len(line) < MaxLen
  BY <1>2, InputAssumption DEF Init
<1>6. full \in BOOLEAN /\ reporting \in BOOLEAN /\ shift \in BOOLEAN /\ Booting
  BY DEF Init, Booting
<1>7. unmasked \subseteq {1, 12} /\ requested = {} /\ inService = {}
  BY DEF Init
<1>8. typed \in 0 .. KeyLimit /\ moved \in 0 .. MoveLimit
  BY InputAssumption DEF Init
<1> QED BY <1>3, <1>4, <1>5, <1>6, <1>7, <1>8 DEF TypeOK

\* What Collect leaves of a packet.
LEMMA CollectType ==
    ASSUME TypeOK, Collect
    PROVE  /\ packet' \in Seq(Bytes) /\ Len(packet') < 3
           /\ pointer' \in [x : 0 .. Width - 1, y : 0 .. Height - 1, buttons : 0 .. 7]
<1> DEFINE longer == Append(packet, register)
           n == Len(packet)
           m == Len(longer)
<1>0. longer \in Seq(Bytes) /\ n \in 0 .. 2 /\ m = n + 1
  <2>1. packet \in Seq(Bytes) /\ register \in Bytes /\ n < 3 /\ n \in Nat
    BY AppendOne DEF TypeOK
  <2>2. longer \in Seq(Bytes) /\ m = n + 1
    BY <2>1, AppendOne
  <2> HIDE DEF n, m, longer
  <2> QED BY <2>1, <2>2
<1>1. CASE UNCHANGED mouse
  BY <1>1 DEF mouse, TypeOK
<1>2. CASE Len(packet) = 2 /\ packet' = <<>> /\ pointer' = Moved(Append(packet, register))
  <2>1. n = 2
    BY <1>2
  <2> HIDE DEF n, m
  <2>3. m = 3
    BY <1>0, <2>1
  <2>2. pointer' \in [x : 0 .. Width - 1, y : 0 .. Height - 1, buttons : 0 .. 7]
    BY <1>0, <1>2, <2>3, MovedType DEF m
  <2> QED BY <1>2, <2>2, EmptySeq
<1>3. CASE Len(packet) # 2 /\ packet' = Append(packet, register) /\ UNCHANGED pointer
  <2>1. n # 2
    BY <1>3
  <2> HIDE DEF n, m
  <2>2. m < 3
    BY <1>0, <2>1
  <2> QED BY <1>0, <1>3, <2>2 DEF TypeOK, m
<1> QED BY <1>1, <1>2, <1>3 DEF Collect, mouse

\* A line has room for the byte: scanf ends it before it is full (keyboard.c:92, 121).
LEMMA EditedType ==
    ASSUME TypeOK, Room, pc = "read"
    PROVE  /\ Edited(register) \in Seq([byte : Bytes, shift : BOOLEAN])
           /\ Len(Edited(register)) < MaxLen
<1> DEFINE Typed == [byte : Bytes, shift : BOOLEAN]
           shorter == SubSeq(line, 1, Len(line) - 1)
           longer == Append(line, [byte |-> register, shift |-> shift])
           n == Len(line)
           fewer == Len(shorter)
           more == Len(longer)
<1>1. line \in Seq(Typed) /\ n < MaxLen - 1 /\ [byte |-> register, shift |-> shift] \in Typed
  BY DEF TypeOK, Room
<1>2. Edited(register) \in {longer, line} \cup (IF line # <<>> THEN {shorter} ELSE {})
  BY DEF Edited
<1> HIDE DEF Typed
<1>3. longer \in Seq(Typed) /\ n \in Nat /\ more = n + 1
  BY <1>1, AppendOne
<1>4. line # <<>> => shorter \in Seq(Typed) /\ fewer = n - 1
  BY <1>1, DropLast
<1> HIDE DEF shorter, longer, n, fewer, more
<1>5. n < MaxLen /\ more < MaxLen /\ (line # <<>> => fewer < MaxLen)
  BY <1>1, <1>3, <1>4, InputAssumption
<1> QED BY <1>1, <1>2, <1>3, <1>4, <1>5 DEF Typed, n, fewer, more

\* Every step keeps the types: no count, scancode or movement leaves its range.
LEMMA NextType == TypeOK /\ Room /\ [Next]_vars => TypeOK'
<1> SUFFICES ASSUME TypeOK, Room, [Next]_vars PROVE TypeOK'
  OBVIOUS
<1> USE DEF TypeOK
<1>1. ASSUME NEW c \in Scancodes, Type(c) PROVE TypeOK'
  <2>1. c \in Values
    BY InputAssumption
  <2> QED BY <1>1, <2>1, InputAssumption DEF Type, pic, thread, mouse, Booting
<1>2. ASSUME NEW p \in Packets, Move(p) PROVE TypeOK'
  <2>1. p \in Seq(Values)
    <3>1. PICK a \in Values, b \in Values, c \in Values : p = <<a, b, c>>
      BY InputAssumption
    <3> QED BY <3>1
  <2>2. aux \o p \in Seq(Values)
    BY <2>1
  <2> QED BY <1>2, <2>2, InputAssumption DEF Move, pic, thread, mouse, Booting
<1>3. CASE DeliverKey
  <2>1. Head(kbd) \in Values /\ Tail(kbd) \in Seq(Values)
    BY <1>3 DEF DeliverKey
  <2> QED BY <1>3, <2>1 DEF DeliverKey, Deliver, devices, thread, mouse, Booting, Bytes
<1>4. CASE DeliverAux
  <2>1. Head(aux) \in Values /\ Tail(aux) \in Seq(Values)
    BY <1>4 DEF DeliverAux
  <2> QED BY <1>4, <2>1 DEF DeliverAux, Deliver, devices, thread, mouse, Booting, Bytes
<1>5. CASE KeyboardHandler
  BY <1>5 DEF KeyboardHandler, inb60, pic_send_eoi, Taken, devices, thread, mouse, Booting
<1>6. CASE mouse_handler
  <2>1. /\ packet' \in Seq(Bytes) /\ Len(packet') < 3
        /\ pointer' \in [x : 0 .. Width - 1, y : 0 .. Height - 1, buttons : 0 .. 7]
    BY <1>6, CollectType DEF mouse_handler, mouse
  <2>2. full' \in BOOLEAN /\ requested' \subseteq {1, 12}
    BY <1>6 DEF mouse_handler, inb60
  <2>3. inService' \subseteq {1, 2, 12}
    BY <1>6 DEF mouse_handler, pic_send_eoi, Taken
  <2> QED BY <1>6, <2>1, <2>2, <2>3 DEF mouse_handler, devices, thread, Booting
<1>7. CASE InitWrites
  <2>1. command' \in Values /\ aux' \in Seq(Values) /\ kbd' \in Seq(Values) /\ reporting' \in BOOLEAN
    <3>1. Clear(command, 32) \in Values
      BY ByteBits
    <3>2. Append(aux, Ack) \in Seq(Values) /\ Append(kbd, command) \in Seq(Values)
      BY DEF Ack, Values
    <3> QED BY <1>7, <3>1, <3>2 DEF InitWrites, mouse_init
  <2>2. Booting'
    BY <1>7 DEF InitWrites, mouse_init, Booting
  <2> QED BY <1>7, <2>1, <2>2 DEF InitWrites, pic, devices, mouse
<1>8. CASE mouse_read
  <2>1. Set(register.value, 2) \in Values
    BY ByteBits DEF Bytes
  <2>2. Booting' \/ pc' = "poll"
    BY <1>8 DEF mouse_read, Booting
  <2>3. status' \in Values
    BY <1>8, <2>1 DEF mouse_read
  <2> QED BY <1>8, <2>2, <2>3 DEF mouse_read, inb60, devices, mouse
<1>9. CASE Poll
  BY <1>9 DEF Poll, controller, pic, devices, mouse
<1>10. CASE Discard
  BY <1>10 DEF Discard, inb60, devices, mouse
<1>11. CASE scanf
  <2>1. line' \in Seq([byte : Bytes, shift : BOOLEAN]) /\ Len(line') < MaxLen
    BY <1>11, EditedType DEF scanf
  <2>2. full' \in BOOLEAN /\ requested' \subseteq {1, 12}
    BY <1>11 DEF scanf, inb60
  <2> QED BY <1>11, <2>1, <2>2 DEF scanf, devices, mouse
<1>12. CASE shell_func
  BY <1>12, InputAssumption DEF shell_func, controller, pic, devices, mouse
<1>13. CASE UNCHANGED vars
  BY <1>13 DEF vars, controller, pic, devices, thread, mouse, Booting
<1> QED BY <1>1, <1>2, <1>3, <1>4, <1>5, <1>6, <1>7, <1>8, <1>9, <1>10, <1>11, <1>12, <1>13
        DEF Next, Thread

-----------------------------------------------------------------------------
(* The inductive invariant: whose byte the register holds between a poll    *)
(* and the read, and that a byte still in it is newer than all that were    *)
(* used.                                                                    *)

\* What is typed is no newer than the register, and older than what is still
\* to be read. After a poll a handler may take the byte, and scanf then reads
\* the register all the same, but never twice.
LineCounts ==
    \A i \in DOMAIN line :
        /\ line[i].byte.count <= register.count
        /\ full \/ pc = "read" => line[i].byte.count < register.count

PacketCounts ==
    \A i \in DOMAIN packet :
        /\ packet[i].count <= register.count
        /\ full => packet[i].count < register.count

\* With IRQ 1 masked a polled key stays where it is, and with no interrupt
\* unmasked a byte of the mouse does as well.
KeyPolled   == 1 \notin unmasked /\ pc = "read" => full /\ ~register.aux
MousePolled == unmasked = {} /\ pc = "discard" => full /\ register.aux

IInv ==
    /\ TypeOK /\ Room /\ LineCounts /\ PacketCounts /\ KeyPolled /\ MousePolled
    /\ LineInOrder /\ KeysOnly /\ PacketSound

\* The invariant holds at first.
LEMMA InitIInv == Init => IInv
<1>1. Len(<<>>) = 0 /\ DOMAIN <<>> = {}
  OBVIOUS
<1> QED BY <1>1, InitType, InputAssumption
        DEF Init, IInv, Room, LineCounts, PacketCounts, KeyPolled, MousePolled,
            LineInOrder, KeysOnly, PacketSound

\* The controller puts a byte into an empty register.
Delivered ==
    /\ ~full /\ full' = TRUE /\ register'.count = register.count + 1
    /\ UNCHANGED <<unmasked, pc, line, packet>>

\* A step that leaves the line alone, and finds no byte that was not there.
LineKept ==
    /\ UNCHANGED <<unmasked, register, line>>
    /\ (full' => full) /\ (pc' = "read" => full \/ pc = "read")
    /\ pc = "shell" => pc' = "shell"

PacketKept == UNCHANGED <<unmasked, register, packet>> /\ (full' => full)

\* The controller's part.
LEMMA DeliverStep == DeliverKey \/ DeliverAux => Delivered
BY DEF DeliverKey, DeliverAux, Deliver, Delivered, devices, thread, mouse

\* What can become of the line: only scanf and the shell change it.
LEMMA LineSteps ==
    [Next]_vars => Delivered \/ LineKept \/ scanf \/ shell_func
<1> SUFFICES ASSUME [Next]_vars, ~scanf, ~shell_func, ~Delivered PROVE LineKept
  OBVIOUS
<1> USE DEF LineKept, controller, pic, devices, thread, mouse
<1>1. CASE \E c \in Scancodes : Type(c)
  BY <1>1 DEF Type
<1>2. CASE \E p \in Packets : Move(p)
  BY <1>2 DEF Move
<1>3. CASE KeyboardHandler
  BY <1>3 DEF KeyboardHandler, inb60
<1>4. CASE mouse_handler
  BY <1>4 DEF mouse_handler, inb60
<1>5. CASE InitWrites
  BY <1>5 DEF InitWrites, mouse_init
<1>6. CASE mouse_read
  BY <1>6 DEF mouse_read, inb60
<1>7. CASE Poll
  BY <1>7 DEF Poll
<1>8. CASE Discard
  BY <1>8 DEF Discard, inb60
<1>9. CASE UNCHANGED vars
  BY <1>9 DEF vars
<1> QED BY <1>1, <1>2, <1>3, <1>4, <1>5, <1>6, <1>7, <1>8, <1>9, DeliverStep DEF Next, Thread

\* What can become of a packet: only the handler of the mouse changes it, and it
\* takes the byte it uses out of the register.
LEMMA PacketSteps ==
    [Next]_vars => \/ Delivered \/ PacketKept
                   \/ /\ UNCHANGED <<unmasked, register>> /\ full /\ ~full' /\ register.aux
                      /\ Collect
<1> SUFFICES ASSUME [Next]_vars, ~Delivered, ~PacketKept
             PROVE  /\ UNCHANGED <<unmasked, register>> /\ full /\ ~full' /\ register.aux
                    /\ Collect
  OBVIOUS
<1> USE DEF PacketKept, controller, pic, devices, thread, mouse
<1>1. CASE \E c \in Scancodes : Type(c)
  BY <1>1 DEF Type
<1>2. CASE \E p \in Packets : Move(p)
  BY <1>2 DEF Move
<1>3. CASE KeyboardHandler
  BY <1>3 DEF KeyboardHandler, inb60
<1>4. CASE mouse_handler
  BY <1>4 DEF mouse_handler, inb60
<1>5. CASE InitWrites
  BY <1>5 DEF InitWrites, mouse_init
<1>6. CASE mouse_read
  BY <1>6 DEF mouse_read, inb60
<1>7. CASE Poll \/ shell_func
  BY <1>7 DEF Poll, shell_func
<1>8. CASE Discard \/ scanf
  BY <1>8 DEF Discard, scanf, inb60
<1>9. CASE UNCHANGED vars
  BY <1>9 DEF vars
<1> QED BY <1>1, <1>2, <1>3, <1>4, <1>5, <1>6, <1>7, <1>8, <1>9, DeliverStep DEF Next, Thread

\* The counts of what was typed or collected are numbers.
LEMMA Counts ==
    ASSUME TypeOK
    PROVE  /\ register.count \in Nat
           /\ \A i \in DOMAIN line : line[i].byte \in Bytes /\ line[i].byte.count \in Nat
           /\ \A i \in DOMAIN packet : packet[i] \in Bytes /\ packet[i].count \in Nat
<1> DEFINE Typed == [byte : Bytes, shift : BOOLEAN]
<1>1. register.count \in Nat
  BY DEF TypeOK, Bytes
<1>2. ASSUME NEW i \in DOMAIN line PROVE line[i].byte \in Bytes /\ line[i].byte.count \in Nat
  <2>1. line \in Seq(Typed)
    BY DEF TypeOK
  <2> HIDE DEF Typed
  <2>2. line[i] \in Typed
    BY <2>1
  <2> QED BY <2>2 DEF Bytes, Typed
<1>3. ASSUME NEW i \in DOMAIN packet PROVE packet[i] \in Bytes /\ packet[i].count \in Nat
  <2>1. packet[i] \in Bytes
    BY DEF TypeOK
  <2> QED BY <2>1 DEF Bytes
<1> QED BY <1>1, <1>2, <1>3

\* scanf adds the byte in the register, takes one away, or leaves the line alone.
LEMMA ScanfStep ==
    ASSUME IInv, scanf
    PROVE  Room' /\ LineCounts' /\ LineInOrder' /\ KeysOnly'
<1> USE DEF IInv
<1> DEFINE Typed == [byte : Bytes, shift : BOOLEAN]
           new == [byte |-> register, shift |-> shift]
           n == Len(line)
<1>1. /\ pc = "read" /\ ~full' /\ pc' # "read" /\ UNCHANGED <<register, unmasked>>
      /\ line' = Edited(register)
  BY DEF scanf, inb60
<1>2. line \in Seq(Typed) /\ new \in Typed /\ n \in Nat /\ DOMAIN line = 1 .. n
  BY AppendOne DEF TypeOK
<1>3. /\ register.count \in Nat
      /\ \A i \in 1 .. n : line[i].byte.count \in Nat /\ line[i].byte.count < register.count
  BY <1>1, <1>2, Counts DEF LineCounts
<1>4. Room'
  <2>1. Len(line') \in Nat /\ Len(line') < MaxLen
    BY <1>1, EditedType, AppendOne
  <2>2. pc' # "shell" => Len(line') # MaxLen - 1
    BY DEF scanf
  <2> DEFINE m == Len(line')
  <2>3. m \in Nat /\ m < MaxLen /\ (pc' # "shell" => m # MaxLen - 1)
    BY <2>1, <2>2
  <2> HIDE DEF m
  <2>4. pc' # "shell" => m < MaxLen - 1
    BY <2>3, InputAssumption
  <2> QED BY <2>4 DEF Room, m
<1>5. CASE line' = line
  BY <1>1, <1>2, <1>3, <1>4, <1>5 DEF LineCounts, LineInOrder, KeysOnly
<1>6. CASE line # <<>> /\ line' = SubSeq(line, 1, Len(line) - 1)
  <2> HIDE DEF Typed
  <2>1. /\ DOMAIN line' = 1 .. n - 1 /\ n \in Nat \ {0}
        /\ \A i \in 1 .. n - 1 : line'[i] = line[i]
    BY <1>2, <1>6, DropLast
  <2>2. \A i \in DOMAIN line' : i \in DOMAIN line /\ line'[i] = line[i]
    <3> HIDE DEF n
    <3>1. 1 .. n - 1 \subseteq 1 .. n
      BY <1>2
    <3> QED BY <1>2, <2>1, <3>1
  <2> QED BY <1>1, <1>2, <1>3, <1>4, <2>2 DEF LineCounts, LineInOrder, KeysOnly
<1>7. CASE line' = Append(line, new)
  <2> HIDE DEF Typed
  <2>1. /\ DOMAIN line' = 1 .. n + 1 /\ line'[n + 1] = new
        /\ \A i \in 1 .. n : line'[i] = line[i]
    BY <1>2, <1>7, AppendOne
  <2>2. new.byte = register
    OBVIOUS
  <2> HIDE DEF n, new
  <2>3. ASSUME NEW i \in DOMAIN line', NEW j \in DOMAIN line', i < j
        PROVE  line'[i].byte.count < line'[j].byte.count
    <3>1. i \in 1 .. n /\ j \in 1 .. n + 1 /\ line'[i] = line[i]
      BY <1>2, <2>1, <2>3
    <3>2. CASE j \in 1 .. n
      BY <1>2, <2>1, <2>3, <3>1, <3>2 DEF LineInOrder
    <3>3. CASE j = n + 1
      BY <1>3, <2>1, <2>2, <3>1, <3>3
    <3> QED BY <1>2, <3>1, <3>2, <3>3
  <2>4. ASSUME NEW i \in DOMAIN line'
        PROVE  /\ line'[i].byte.count <= register.count
               /\ 1 \notin unmasked => ~line'[i].byte.aux
    <3>1. CASE i = n + 1
      BY <1>1, <1>3, <2>1, <2>2, <3>1 DEF KeyPolled
    <3>2. CASE i \in 1 .. n
      BY <1>2, <1>3, <2>1, <3>2 DEF KeysOnly
    <3> QED BY <1>2, <2>1, <3>1, <3>2
  <2> QED BY <1>1, <1>4, <2>3, <2>4 DEF LineCounts, LineInOrder, KeysOnly
<1> QED BY <1>1, <1>5, <1>6, <1>7 DEF Edited

\* Every step keeps the line in order, and its keys keys.
LEMMA LineStep ==
    ASSUME IInv, [Next]_vars
    PROVE  Room' /\ LineCounts' /\ LineInOrder' /\ KeysOnly'
<1> USE DEF IInv
<1>1. CASE Delivered
  BY <1>1, Counts DEF Delivered, Room, LineCounts, LineInOrder, KeysOnly
<1>2. CASE LineKept
  BY <1>2, Counts DEF LineKept, Room, LineCounts, LineInOrder, KeysOnly
<1>3. CASE shell_func
  <2>1. line' = <<>> /\ Len(line') = 0 /\ DOMAIN line' = {}
    BY <1>3 DEF shell_func
  <2> QED BY <2>1, InputAssumption DEF Room, LineCounts, LineInOrder, KeysOnly
<1> QED BY <1>1, <1>2, <1>3, ScanfStep, LineSteps

\* The handler adds the byte in the register to the packet, or starts anew.
LEMMA CollectStep ==
    ASSUME IInv, Collect, UNCHANGED register, full, ~full', register.aux
    PROVE  PacketCounts' /\ PacketSound'
<1> USE DEF IInv
<1> DEFINE n == Len(packet)
<1>1. packet \in Seq(Bytes) /\ register \in Bytes /\ n \in Nat /\ DOMAIN packet = 1 .. n
  BY AppendOne DEF TypeOK
<1>2. /\ register.count \in Nat
      /\ \A i \in 1 .. n : packet[i].count \in Nat /\ packet[i].count < register.count
  BY <1>1, Counts DEF PacketCounts
<1>3. CASE packet' = packet
  BY <1>1, <1>2, <1>3 DEF PacketCounts, PacketSound
<1>4. CASE packet' = <<>>
  <2>1. DOMAIN packet' = {}
    BY <1>4
  <2> QED BY <1>4, <2>1 DEF PacketCounts, PacketSound
<1>5. CASE /\ packet' = Append(packet, register)
           /\ packet = <<>> => Bit(register.value, 8)
  <2>1. /\ DOMAIN packet' = 1 .. n + 1 /\ packet'[n + 1] = register
        /\ \A i \in 1 .. n : packet'[i] = packet[i]
    BY <1>1, <1>5, AppendOne
  <2>2. packet # <<>> => 1 \in 1 .. n
    BY <1>1
  <2>3. packet = <<>> => n + 1 = 1
    OBVIOUS
  <2> HIDE DEF n
  <2>4. Bit(packet'[1].value, 8)
    <3>1. CASE packet = <<>>
      BY <1>5, <2>1, <2>3, <3>1
    <3>2. CASE packet # <<>>
      BY <1>1, <2>1, <2>2, <3>2 DEF PacketSound
    <3> QED BY <3>1, <3>2
  <2>5. ASSUME NEW i \in DOMAIN packet', NEW j \in DOMAIN packet', i < j
        PROVE  packet'[i].count < packet'[j].count
    <3>1. i \in 1 .. n /\ j \in 1 .. n + 1 /\ packet'[i] = packet[i]
      BY <1>1, <2>1, <2>5
    <3>2. CASE j \in 1 .. n
      BY <1>1, <2>1, <2>5, <3>1, <3>2 DEF PacketSound
    <3>3. CASE j = n + 1
      BY <1>2, <2>1, <3>1, <3>3
    <3> QED BY <1>1, <3>1, <3>2, <3>3
  <2>6. ASSUME NEW i \in DOMAIN packet'
        PROVE  packet'[i].count <= register.count /\ packet'[i].aux
    <3>1. CASE i = n + 1
      BY <1>2, <2>1, <3>1
    <3>2. CASE i \in 1 .. n
      BY <1>1, <1>2, <2>1, <3>2 DEF PacketSound
    <3> QED BY <1>1, <2>1, <3>1, <3>2
  <2> QED BY <2>4, <2>5, <2>6 DEF PacketCounts, PacketSound
<1> QED BY <1>3, <1>4, <1>5 DEF Collect, mouse

\* Every step keeps the packet sound.
LEMMA PacketStep == ASSUME IInv, [Next]_vars PROVE PacketCounts' /\ PacketSound'
<1> USE DEF IInv
<1>1. CASE Delivered
  BY <1>1, Counts DEF Delivered, PacketCounts, PacketSound
<1>2. CASE PacketKept
  BY <1>2, Counts DEF PacketKept, PacketCounts, PacketSound
<1> QED BY <1>1, <1>2, CollectStep, PacketSteps

\* No handler that is not unmasked empties the register under a poll.
LEMMA PollStep == ASSUME IInv, [Next]_vars PROVE KeyPolled' /\ MousePolled'
<1> USE DEF IInv, KeyPolled, MousePolled, controller, pic, devices, thread, mouse
<1>1. CASE \E c \in Scancodes : Type(c)
  BY <1>1 DEF Type
<1>2. CASE \E p \in Packets : Move(p)
  BY <1>2 DEF Move
<1>3. CASE KeyboardHandler
  BY <1>3 DEF KeyboardHandler, Accepts
<1>4. CASE mouse_handler
  BY <1>4 DEF mouse_handler, Accepts, inb60
<1>5. CASE InitWrites
  BY <1>5 DEF InitWrites, mouse_init
<1>6. CASE mouse_read
  BY <1>6 DEF mouse_read
<1>7. CASE Poll \/ shell_func
  BY <1>7 DEF Poll, shell_func, TypeOK
<1>8. CASE Discard \/ scanf
  BY <1>8 DEF Discard, scanf
<1>9. CASE DeliverKey \/ DeliverAux
  BY <1>9, DeliverStep DEF Delivered
<1>10. CASE UNCHANGED vars
  BY <1>10 DEF vars
<1> QED BY <1>1, <1>2, <1>3, <1>4, <1>5, <1>6, <1>7, <1>8, <1>9, <1>10 DEF Next, Thread

\* Every step of the thread, of a handler or of a device preserves the invariant.
LEMMA NextIInv == IInv /\ [Next]_vars => IInv'
BY NextType, LineStep, PacketStep, PollStep DEF IInv

\* Every reachable state satisfies the inductive invariant.
THEOREM Inductive == Spec => []IInv
BY InitIInv, NextIInv, PTL DEF Spec

-----------------------------------------------------------------------------
(* What follows from it.                                                    *)

\* No byte, no movement and no line leaves its range, whatever devices send and
\* whoever takes it: the pointer stays on the screen (mouse.c:89-98) and the line
\* in the buffer of scanf (keyboard.c:96).
THEOREM TypeCorrect == Spec => []TypeOK
<1>1. IInv => TypeOK
  BY DEF IInv
<1> QED BY <1>1, Inductive, PTL

\* No byte is put into a line twice or out of order (keyboard.c:97-103).
THEOREM LineOrdered == Spec => []LineInOrder
<1>1. IInv => LineInOrder
  BY DEF IInv
<1> QED BY <1>1, Inductive, PTL

\* With IRQ 1 masked only keys become characters (keyboard.c:98-103).
THEOREM OnlyKeysTyped == Spec => []KeysOnly
<1>1. IInv => KeysOnly
  BY DEF IInv
<1> QED BY <1>1, Inductive, PTL

\* A packet is made of bytes of the mouse, in their order, behind a marked one,
\* whatever was lost in between (mouse.c:75-84).
THEOREM PacketsSound == Spec => []PacketSound
<1>1. IInv => PacketSound
  BY DEF IInv
<1> QED BY <1>1, Inductive, PTL

\* A step that empties a register with a key in it is scanf's, or, with IRQ 12
\* unmasked, its discard of what it took for a byte of the mouse.
LEMMA KeysKeptStep ==
    IInv /\ [Next]_vars =>
      [1 \notin unmasked /\ ~Booting /\ full /\ ~register.aux /\ ~full'
         => pc = "read" \/ (12 \in unmasked /\ pc = "discard")]_vars
<1> SUFFICES ASSUME IInv, Next, 1 \notin unmasked, ~Booting, full, ~register.aux, ~full'
             PROVE  pc = "read" \/ (12 \in unmasked /\ pc = "discard")
  OBVIOUS
<1> USE DEF controller, pic, devices, thread, mouse
<1>1. ~KeyboardHandler /\ ~DeliverKey /\ ~DeliverAux
  BY DEF KeyboardHandler, Accepts, DeliverKey, DeliverAux, Deliver
<1>2. ~mouse_handler /\ ~mouse_read
  BY DEF mouse_handler, mouse_read, Booting
<1>3. /\ ~InitWrites /\ ~Poll /\ ~shell_func
      /\ ~(\E c \in Scancodes : Type(c)) /\ ~(\E p \in Packets : Move(p))
  BY DEF InitWrites, Poll, shell_func, Type, Move
<1>4. CASE scanf
  BY <1>4 DEF scanf
<1>5. CASE Discard
  BY <1>5 DEF Discard, IInv, MousePolled, TypeOK
<1> QED BY <1>1, <1>2, <1>3, <1>4, <1>5 DEF Next, Thread

\* Once the kernel has booted with IRQ 1 masked, no key is lost but to the race
\* of the mouse's handler with the discard of scanf, and none with both masked
\* (handlers.c:11-17, mouse.c:76, keyboard.c:97-101).
THEOREM KeysAreKept == Spec => KeysKept
BY Inductive, KeysKeptStep, PTL DEF KeysKept, Spec

=============================================================================
