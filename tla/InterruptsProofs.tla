-------------------------- MODULE InterruptsProofs --------------------------
(***************************************************************************)
(* Theorems about the set-up of interrupts, the stubs, the handlers and    *)
(* the panic for every set of vectors and lines, any number of requests,   *)
(* spurious ones among them, and any number of exceptions, also in stubs   *)
(* and handlers.                                                           *)
(***************************************************************************)
EXTENDS InterruptsProperties, SequenceTheorems, TLAPS

-----------------------------------------------------------------------------
(* The inductive invariant: what is on the stack at each place of a stub.   *)

Codes == [name : Names, vector : 0 .. 47]

\* What is pushed.
Words == ({"rip", "cs", "rsp", "ss"} \X Codes) \cup ({"rflags"} \X BOOLEAN)
           \cup ({"number", "error"} \X (-1 .. 47))
           \cup (Registers \X {"thread", "handler"})

ThreadRegs == [r \in Registers |-> <<r, "thread">>]
Gates == [n \in 0 .. 47 |-> idt_set_gate(IF n < 32 THEN "isr" ELSE "irq")]

\* The five words the processor pushes, below the first k.
PushedBelow(k) ==
    /\ Len(stack) >= k + 5
    /\ stack[k + 1][1] = "rip" /\ stack[k + 2][1] = "cs" /\ stack[k + 3][1] = "rflags"
    /\ stack[k + 4][1] = "rsp" /\ stack[k + 5][1] = "ss"

\* They are the last ones, and say where the thread was.
ThreadBelow(k) ==
    /\ Len(stack) = k + 5
    /\ stack[k + 1] = <<"rip", Code("thread", 0)>> /\ stack[k + 3] = <<"rflags", TRUE>>

Typing ==
    /\ at \in Codes /\ stack \in Seq(Words) /\ regs \in [Registers -> Words]
    /\ TypeOK

\* Whenever interrupts are on, the thread runs; and the tables are complete.
Loaded ==
    /\ flag = (at.name = "thread")
    /\ idt = (IF at.name \in {"remap", "gates", "reset"} THEN <<>> ELSE Gates)
    /\ at.name \notin {"remap", "reset"} => offsets = <<32, 40>>

\* Before the first interrupt, and after one, nothing is left of it.
Outside ==
    at.name \in {"remap", "gates", "reset", "sti", "thread"} =>
        at.vector = 0 /\ stack = <<>> /\ regs = ThreadRegs /\ inService = {}

InStub ==
    at.name = "stub" =>
        /\ PushedBelow(IF at.vector \in WithErrorCode THEN 1 ELSE 0)
        /\ at.vector \in WithErrorCode => stack[1] = <<"error", at.vector>>

\* What a controller has in service is the line that is handled, or nothing of
\* a controller whose request was spurious.
Serviced ==
    LET n == at.vector - 32
    IN  \/ n \in Irqs /\ inService = {n, Master(n)}
        \/ n = 7 /\ inService = {}
        \/ n = 15 /\ inService = {2}

\* Interrupts of devices do not nest: the stack under the frame is the thread's.
OverThread ==
    at.vector >= 32 =>
        /\ at.name \in {"stub", "handler", "pop"}
        /\ at.name = "stub" => ThreadBelow(0)
        /\ at.name # "stub" =>
               /\ ThreadBelow(17)
               /\ \A i \in 1 .. 15 : stack[i] = <<registers_t[i], "thread">>
        /\ at.name # "pop" => regs = ThreadRegs /\ Serviced
        /\ at.name = "pop" => inService = {}

OnlyIrqsReturn == at.name = "pop" => at.vector >= 32

\* An exception finds at most one complete frame for each one before it.
Depth == Len(stack) + (IF at.name # "stub" THEN 0 ELSE IF at.vector \in WithErrorCode THEN 16 ELSE 17)
           <= 22 * (raised + 1)

IInv == /\ Typing /\ Loaded /\ Outside /\ InStub /\ FrameSound /\ OverThread
        /\ OnlyIrqsReturn /\ Depth

-----------------------------------------------------------------------------
(* The layout of registers_t.                                               *)

\* How many there are.
LEMMA Lengths == /\ Len(registers_t) = 22 /\ DOMAIN registers_t = 1 .. 22
                 /\ Len(Pushed) = 15 /\ DOMAIN Pushed = 1 .. 15
                 /\ Len(Popped) = 15 /\ DOMAIN Popped = 1 .. 15
BY DEF registers_t, Pushed, Popped

\* The fifteen registers lie in the structure as they are pushed and popped
\* (idt.asm:13-27, 35-49; idt.h).
LEMMA SameOrder ==
    \A i \in 1 .. 15 : registers_t[i] = Popped[i] /\ registers_t[i] = Pushed[16 - i]
BY DEF registers_t, Pushed, Popped

\* No field has two places.
LEMMA FieldsDistinct ==
    \A i, j \in 1 .. 22 : registers_t[i] = registers_t[j] => i = j
BY DEF registers_t

\* What the processor and the stub push lies above the registers (idt.h).
LEMMA FieldNames ==
    /\ registers_t[16] = "int_no" /\ registers_t[17] = "err_code" /\ registers_t[18] = "rip"
    /\ registers_t[19] = "cs" /\ registers_t[20] = "rflags" /\ registers_t[21] = "rsp"
    /\ registers_t[22] = "ss"
BY DEF registers_t

\* So a name finds its place.
LEMMA FieldPlace ==
    \A i \in 1 .. 22 : (CHOOSE j \in DOMAIN registers_t : registers_t[j] = registers_t[i]) = i
BY Lengths, FieldsDistinct

\* The order in which a register is popped.
LEMMA PoppedPlace ==
    \A i \in 1 .. 15 : (CHOOSE j \in DOMAIN Popped : Popped[j] = registers_t[i]) = i
BY Lengths, SameOrder, FieldsDistinct

\* The registers are the first fifteen fields.
LEMMA RegisterPlace == Registers = {registers_t[i] : i \in 1 .. 15}
<1>1. \A i \in 1 .. 15 : 16 - i \in 1 .. 15 /\ 16 - (16 - i) = i
  OBVIOUS
<1>2. \A i \in 1 .. 15 : Pushed[i] = registers_t[16 - i] /\ registers_t[i] = Pushed[16 - i]
  BY <1>1, SameOrder
<1> QED BY <1>1, <1>2, Lengths DEF Registers

-----------------------------------------------------------------------------
(* What is pushed.                                                          *)

\* Words pushed on a stack: they are on top in their order, the rest is below.
LEMMA PushedOn ==
    ASSUME NEW S, NEW s \in Seq(S), NEW t \in Seq(S), NEW n \in Nat, Len(s) = n
    PROVE  /\ s \o t \in Seq(S) /\ Len(s \o t) = n + Len(t) /\ Len(t) \in Nat
           /\ \A i \in 1 .. n : (s \o t)[i] = s[i]
           /\ \A i \in 1 .. Len(t) : (s \o t)[n + i] = t[i]
<1> DEFINE m == Len(t)
           u == s \o t
<1>1. m \in Nat /\ u \in Seq(S) /\ Len(u) = n + m
      /\ \A i \in 1 .. n + m : u[i] = IF i <= n THEN s[i] ELSE t[i - n]
  BY ConcatProperties, LenProperties
<1> HIDE DEF m, u
<1>2. \A i \in 1 .. n : u[i] = s[i]
  BY <1>1
<1>3. \A i \in 1 .. m : u[n + i] = t[i]
  <2>1. \A i \in 1 .. m : n + i \in 1 .. n + m /\ ~(n + i <= n) /\ n + i - n = i
    BY <1>1
  <2> QED BY <1>1, <2>1
<1> QED BY <1>1, <1>2, <1>3 DEF m, u

\* The words the processor pushes, with an error code if the vector has one.
LEMMA ProcessorPushes ==
    ASSUME Typing, NEW v \in 0 .. 47, v \in DOMAIN idt, Interrupt(v),
           NEW k \in 0 .. 1, k = IF v \in WithErrorCode THEN 1 ELSE 0
    PROVE  /\ stack' \in Seq(Words) /\ Len(stack') = Len(stack) + k + 5
           /\ k = 1 => stack'[1] = <<"error", v>>
           /\ stack'[k + 1] = <<"rip", at>> /\ stack'[k + 2] = <<"cs", at>>
           /\ stack'[k + 3] = <<"rflags", flag>>
           /\ stack'[k + 4] = <<"rsp", at>> /\ stack'[k + 5] = <<"ss", at>>
<1> DEFINE error == IF v \in WithErrorCode THEN <<<<"error", v>>>> ELSE <<>>
           five == <<<<"rip", at>>, <<"cs", at>>, <<"rflags", flag>>, <<"rsp", at>>, <<"ss", at>>>>
           both == error \o five
<1>1. stack' = both \o stack
  BY DEF Interrupt
<1>2. stack \in Seq(Words) /\ five \in Seq(Words) /\ Len(five) = 5
  <2>1. /\ <<"rip", at>> \in Words /\ <<"cs", at>> \in Words /\ <<"rflags", flag>> \in Words
        /\ <<"rsp", at>> \in Words /\ <<"ss", at>> \in Words
    BY DEF Typing, TypeOK, Words
  <2> QED BY <2>1 DEF Typing
<1>3. error \in Seq(Words) /\ Len(error) = k /\ (k = 1 => error[1] = <<"error", v>>)
  <2>1. <<"error", v>> \in Words
    BY DEF Words
  <2> QED BY <2>1, EmptySeq
<1>4. /\ five[1] = <<"rip", at>> /\ five[2] = <<"cs", at>> /\ five[3] = <<"rflags", flag>>
      /\ five[4] = <<"rsp", at>> /\ five[5] = <<"ss", at>>
  OBVIOUS
<1> HIDE DEF five, error
<1>5. /\ both \in Seq(Words) /\ Len(both) = k + 5
      /\ \A i \in 1 .. k : both[i] = error[i]
      /\ \A i \in 1 .. 5 : both[k + i] = five[i]
  <2>1. k \in Nat
    OBVIOUS
  <2>2. /\ error \o five \in Seq(Words) /\ Len(error \o five) = k + Len(five)
        /\ \A i \in 1 .. k : (error \o five)[i] = error[i]
        /\ \A i \in 1 .. Len(five) : (error \o five)[k + i] = five[i]
    <3>1. error \in Seq(Words) /\ five \in Seq(Words) /\ Len(error) = k
      BY <1>2, <1>3
    <3> QED BY ONLY <2>1, <3>1, PushedOn
  <2>3. both = error \o five
    OBVIOUS
  <2> HIDE DEF both
  <2>4. /\ both \in Seq(Words) /\ Len(both) = k + Len(five)
        /\ \A i \in 1 .. k : both[i] = error[i]
        /\ \A i \in 1 .. Len(five) : both[k + i] = five[i]
    BY ONLY <2>2, <2>3
  <2> QED BY ONLY <1>2, <2>4
<1> HIDE DEF both
<1>6. /\ stack' \in Seq(Words) /\ Len(stack') = k + 5 + Len(stack) /\ Len(stack) \in Nat
      /\ \A i \in 1 .. k + 5 : stack'[i] = both[i]
  <2>1. k + 5 \in Nat
    OBVIOUS
  <2> DEFINE n == k + 5
  <2>2. n \in Nat /\ Len(both) = n /\ both \in Seq(Words)
    BY <1>5, <2>1
  <2> HIDE DEF n
  <2>3. /\ both \o stack \in Seq(Words) /\ Len(both \o stack) = n + Len(stack)
        /\ Len(stack) \in Nat
        /\ \A i \in 1 .. n : (both \o stack)[i] = both[i]
    BY <1>2, <2>2, PushedOn
  <2> QED BY <1>1, <2>3 DEF n
<1>7. \A i \in 1 .. 5 : k + i \in 1 .. k + 5
  OBVIOUS
<1>8. \A i \in 1 .. 5 : stack'[k + i] = five[i]
  BY <1>5, <1>6, <1>7
<1>9. k = 1 => stack'[1] = <<"error", v>>
  BY <1>3, <1>5, <1>6
<1>10. Len(stack') = Len(stack) + k + 5
  BY <1>6
<1> QED BY <1>4, <1>6, <1>8, <1>9, <1>10

\* isr_common and irq_common push the registers onto what the stub has pushed
\* (idt.asm:8-27, 35-49, 108-126).
LEMMA CommonPushes ==
    ASSUME Typing, isr_stub, NEW m \in Nat,
           m = IF at.vector \in WithErrorCode THEN 16 ELSE 17
    PROVE  /\ stack' \in Seq(Words) /\ Len(stack') = m + Len(stack)
           /\ \A i \in 1 .. 15 : stack'[i] = regs[registers_t[i]]
           /\ stack'[16] = <<"number", at.vector>>
           /\ m = 17 => stack'[17] = <<"error", -1>>
           /\ \A j \in 1 .. Len(stack) : stack'[m + j] = stack[j]
<1> DEFINE saved == [i \in DOMAIN Pushed |-> regs[Pushed[Len(Pushed) + 1 - i]]]
           number == <<<<"number", at.vector>>>>
           error == IF at.vector \in isr_err_stub THEN <<>> ELSE <<<<"error", -1>>>>
           sixteen == saved \o number
           pushed == sixteen \o error
<1>1. saved \in Seq(Words) /\ Len(saved) = 15 /\ \A i \in 1 .. 15 : saved[i] = regs[registers_t[i]]
  <2>1. saved = [i \in 1 .. 15 |-> regs[Pushed[16 - i]]]
    BY Lengths
  <2> HIDE DEF saved
  <2>2. \A i \in 1 .. 15 : saved[i] = regs[registers_t[i]]
    BY <2>1, SameOrder
  <2>3. \A i \in 1 .. 15 : regs[registers_t[i]] \in Words
    BY RegisterPlace DEF Typing
  <2>4. saved \in [1 .. 15 -> Words]
    BY <2>1, <2>2, <2>3
  <2>5. saved \in Seq(Words)
    BY ONLY <2>4, SeqDef
  <2>6. Len(saved) = 15
    <3>1. DOMAIN saved = 1 .. 15 /\ DOMAIN saved = 1 .. Len(saved) /\ Len(saved) \in Nat
      BY <2>4, <2>5, LenProperties
    <3> QED BY <3>1
  <2> QED BY <2>2, <2>5, <2>6
<1>2. number \in Seq(Words) /\ Len(number) = 1 /\ number[1] = <<"number", at.vector>>
  <2>1. <<"number", at.vector>> \in Words
    BY DEF Typing, Codes, Words
  <2> QED BY <2>1
<1>3. /\ error \in Seq(Words) /\ Len(error) = m - 16
      /\ m = 17 => error[1] = <<"error", -1>>
  <2>1. <<"error", -1>> \in Words
    BY DEF Words
  <2> QED BY <2>1, EmptySeq DEF isr_err_stub, WithErrorCode
<1>4. stack' = pushed \o stack /\ stack \in Seq(Words)
  BY DEF isr_stub, Typing
<1>5. m \in {16, 17}
  OBVIOUS
<1> HIDE DEF saved, number, error
<1>6. /\ sixteen \in Seq(Words) /\ Len(sixteen) = 16
      /\ \A i \in 1 .. 15 : sixteen[i] = saved[i]
      /\ sixteen[16] = number[1]
  <2>1. /\ saved \o number \in Seq(Words) /\ Len(saved \o number) = 15 + Len(number)
        /\ \A i \in 1 .. 15 : (saved \o number)[i] = saved[i]
        /\ \A i \in 1 .. Len(number) : (saved \o number)[15 + i] = number[i]
    <3> DEFINE n == 15
    <3>1. n \in Nat /\ saved \in Seq(Words) /\ number \in Seq(Words) /\ Len(saved) = n
      BY <1>1, <1>2
    <3> HIDE DEF n
    <3>2. /\ saved \o number \in Seq(Words) /\ Len(saved \o number) = n + Len(number)
          /\ \A i \in 1 .. n : (saved \o number)[i] = saved[i]
          /\ \A i \in 1 .. Len(number) : (saved \o number)[n + i] = number[i]
      BY ONLY <3>1, PushedOn
    <3> QED BY <3>2 DEF n
  <2>2. sixteen = saved \o number
    OBVIOUS
  <2> HIDE DEF sixteen
  <2>3. 1 \in 1 .. 1 /\ 15 + 1 = 16
    OBVIOUS
  <2> QED BY ONLY <1>2, <2>1, <2>2, <2>3
<1> HIDE DEF sixteen
<1>7. /\ pushed \in Seq(Words) /\ Len(pushed) = m
      /\ \A i \in 1 .. 16 : pushed[i] = sixteen[i]
      /\ m = 17 => pushed[17] = error[1]
  <2>1. /\ sixteen \o error \in Seq(Words) /\ Len(sixteen \o error) = 16 + Len(error)
        /\ \A i \in 1 .. 16 : (sixteen \o error)[i] = sixteen[i]
        /\ \A i \in 1 .. Len(error) : (sixteen \o error)[16 + i] = error[i]
    <3> DEFINE n == 16
    <3>1. n \in Nat /\ sixteen \in Seq(Words) /\ error \in Seq(Words) /\ Len(sixteen) = n
      BY <1>3, <1>6
    <3> HIDE DEF n
    <3>2. /\ sixteen \o error \in Seq(Words) /\ Len(sixteen \o error) = n + Len(error)
          /\ \A i \in 1 .. n : (sixteen \o error)[i] = sixteen[i]
          /\ \A i \in 1 .. Len(error) : (sixteen \o error)[n + i] = error[i]
      BY ONLY <3>1, PushedOn
    <3> QED BY <3>2 DEF n
  <2>2. pushed = sixteen \o error
    OBVIOUS
  <2> HIDE DEF pushed
  <2>3. m = 17 => 1 \in 1 .. m - 16 /\ 16 + 1 = 17
    OBVIOUS
  <2>4. 16 + (m - 16) = m
    OBVIOUS
  <2> QED BY ONLY <1>3, <2>1, <2>2, <2>3, <2>4
<1> HIDE DEF pushed
<1>8. /\ pushed \o stack \in Seq(Words) /\ Len(pushed \o stack) = m + Len(stack)
      /\ \A i \in 1 .. m : (pushed \o stack)[i] = pushed[i]
      /\ \A i \in 1 .. Len(stack) : (pushed \o stack)[m + i] = stack[i]
  <2>1. m \in Nat /\ pushed \in Seq(Words) /\ stack \in Seq(Words) /\ Len(pushed) = m
    BY <1>4, <1>7
  <2> QED BY ONLY <2>1, PushedOn
<1>9. \A i \in 1 .. 16 : stack'[i] = sixteen[i]
  <2>1. \A i \in 1 .. 16 : i \in 1 .. m
    BY <1>5
  <2> QED BY ONLY <1>4, <1>7, <1>8, <2>1
<1>10. \A i \in 1 .. 15 : stack'[i] = regs[registers_t[i]]
  <2>1. \A i \in 1 .. 15 : i \in 1 .. 16
    OBVIOUS
  <2> QED BY ONLY <1>1, <1>6, <1>9, <2>1
<1>11. stack'[16] = <<"number", at.vector>>
  <2>1. 16 \in 1 .. 16
    OBVIOUS
  <2> QED BY ONLY <1>2, <1>6, <1>9, <2>1
<1>12. m = 17 => stack'[17] = <<"error", -1>>
  <2>1. 17 \in 1 .. 17
    OBVIOUS
  <2> QED BY ONLY <1>3, <1>4, <1>7, <1>8, <2>1
<1> QED BY ONLY <1>4, <1>8, <1>10, <1>11, <1>12

-----------------------------------------------------------------------------
(* The steps.                                                               *)

\* The registers of the thread.
LEMMA ThreadRegsType ==
    /\ ThreadRegs \in [Registers -> Words]
    /\ \A r \in Registers : ThreadRegs[r] = <<r, "thread">>
BY DEF ThreadRegs, Words

\* What is known of the gates once they are set (idt.c:36-94).
LEMMA GatesSet ==
    /\ DOMAIN Gates = 0 .. 47
    /\ \A v \in 0 .. 47 : Gates[v].keepsFlag = FALSE /\ (v < 32) = (Gates[v].stub = "isr")
                          /\ Gates[v].stub \in {"isr", "irq"}
BY DEF Gates, idt_set_gate

\* The stack in the type invariant is bounded by the one in Depth.
LEMMA DepthBounds ==
    ASSUME NEW n \in Nat, NEW r \in 0 .. ExceptionLimit, n <= 22 * (r + 1)
    PROVE  n <= Len(registers_t) * (ExceptionLimit + 1)
BY Lengths, InterruptAssumption

\* The invariant holds at first.
LEMMA InitIInv == Init => IInv
<1> SUFFICES ASSUME Init PROVE IInv
  OBVIOUS
<1>1. at.name = "remap" /\ at.vector = 0 /\ at \in Codes /\ stack = <<>> /\ Len(stack) = 0
  BY DEF Init, Code, Codes, Names
<1>2. regs = ThreadRegs /\ raised = 0 /\ asked = 0 /\ inService = {} /\ requested = {}
  BY DEF Init, ThreadRegs
<1>3. TypeOK
  <2>1. 0 <= Len(registers_t) * (ExceptionLimit + 1)
    BY Lengths, InterruptAssumption
  <2>2. Len(stack) <= Len(registers_t) * (ExceptionLimit + 1)
    BY <1>1, <2>1
  <2>3. flag \in BOOLEAN /\ unmasked \subseteq Irqs \cup {2}
    BY DEF Init
  <2>4. raised \in 0 .. ExceptionLimit /\ asked \in 0 .. RequestLimit
    BY <1>2, InterruptAssumption
  <2>5. requested \subseteq Irqs /\ inService \subseteq Irqs \cup {2}
    BY <1>2
  <2>6. \A r \in Registers : regs[r] \in {<<r, "thread">>, <<r, "handler">>}
    BY <1>2, ThreadRegsType
  <2> QED BY <1>1, <2>2, <2>3, <2>4, <2>5, <2>6 DEF TypeOK, Codes
<1>4. Typing
  BY <1>1, <1>2, <1>3, ThreadRegsType, EmptySeq DEF Typing
<1>5. Loaded
  BY <1>1 DEF Init, Loaded
<1> QED BY <1>1, <1>2, <1>4, <1>5
        DEF IInv, Outside, InStub, FrameSound, OverThread, OnlyIrqsReturn, Depth

\* Entering a stub, whatever was interrupted.
LEMMA EnterStub ==
    ASSUME IInv, NEW v \in 0 .. 47, v \in DOMAIN idt, Interrupt(v)
    PROVE  /\ at' = Code("stub", v) /\ at' \in Codes /\ flag' = FALSE
           /\ idt = Gates /\ UNCHANGED <<regs, idt>>
           /\ stack' \in Seq(Words) /\ InStub' /\ Len(stack) \in Nat /\ Len(stack') \in Nat
           /\ Len(stack') + (IF v \in WithErrorCode THEN 16 ELSE 17) = Len(stack) + 22
           /\ v \notin WithErrorCode =>
                  stack'[1] = <<"rip", at>> /\ stack'[3] = <<"rflags", flag>>
<1> USE DEF IInv
<1>1. at' = Code("stub", v) /\ UNCHANGED <<regs, idt>> /\ flag' = (flag /\ idt[v].keepsFlag)
  BY DEF Interrupt
<1>2. idt = Gates
  <2>1. DOMAIN <<>> = {}
    OBVIOUS
  <2> QED BY <2>1 DEF Loaded
<1>3. flag' = FALSE
  BY <1>1, <1>2, GatesSet
<1>4. at' \in Codes /\ at'.name = "stub" /\ at'.vector = v
  BY <1>1 DEF Code, Codes, Names
<1>5. Len(stack) \in Nat
  BY LenProperties DEF Typing
<1>6. CASE v \in WithErrorCode
  <2> DEFINE k == 1
  <2>1. k \in 0 .. 1 /\ k = IF v \in WithErrorCode THEN 1 ELSE 0
    BY <1>6
  <2> HIDE DEF k
  <2>2. /\ stack' \in Seq(Words) /\ Len(stack') = Len(stack) + k + 5
        /\ k = 1 => stack'[1] = <<"error", v>>
        /\ stack'[k + 1] = <<"rip", at>> /\ stack'[k + 2] = <<"cs", at>>
        /\ stack'[k + 3] = <<"rflags", flag>>
        /\ stack'[k + 4] = <<"rsp", at>> /\ stack'[k + 5] = <<"ss", at>>
    BY <2>1, ProcessorPushes
  <2>3. Len(stack') = Len(stack) + 6
    BY <1>5, <2>2 DEF k
  <2>4. InStub'
    BY <1>4, <1>5, <1>6, <2>2, <2>3 DEF k, InStub, PushedBelow
  <2> QED BY <1>1, <1>2, <1>3, <1>4, <1>5, <1>6, <2>2, <2>3, <2>4
<1>7. CASE v \notin WithErrorCode
  <2> DEFINE k == 0
  <2>1. k \in 0 .. 1 /\ k = IF v \in WithErrorCode THEN 1 ELSE 0
    BY <1>7
  <2> HIDE DEF k
  <2>2. /\ stack' \in Seq(Words) /\ Len(stack') = Len(stack) + k + 5
        /\ stack'[k + 1] = <<"rip", at>> /\ stack'[k + 2] = <<"cs", at>>
        /\ stack'[k + 3] = <<"rflags", flag>>
        /\ stack'[k + 4] = <<"rsp", at>> /\ stack'[k + 5] = <<"ss", at>>
    BY <2>1, ProcessorPushes
  <2>3. Len(stack') = Len(stack) + 5
    BY <1>5, <2>2 DEF k
  <2>4. InStub'
    BY <1>4, <1>5, <1>7, <2>2, <2>3 DEF k, InStub, PushedBelow
  <2> QED BY <1>1, <1>2, <1>3, <1>4, <1>5, <1>7, <2>2, <2>3, <2>4 DEF k
<1> QED BY <1>6, <1>7

\* An exception, in whatever code: without gates the machine is reset, otherwise
\* the stub is entered, and what it interrupted will not go on (idt.c, panic.c).
LEMMA ExceptionStep == ASSUME IInv, NEW v \in Exceptions, Exception(v) PROVE IInv'
<1> USE DEF IInv
<1>1. v \in 0 .. 47 /\ v < 32
  BY InterruptAssumption
<1>2. /\ Interrupt(v) /\ raised' = raised + 1 /\ raised \in Nat /\ raised' \in 0 .. ExceptionLimit
      /\ UNCHANGED <<offsets, unmasked, requested, inService, asked>>
  BY InterruptAssumption DEF Exception, pic, Typing, TypeOK
<1>3. CASE v \notin DOMAIN idt
  <2>1. at.name \in {"remap", "gates", "reset"} /\ at.vector = 0
    BY <1>1, <1>3, GatesSet DEF Loaded, Outside
  <2>2. at' = Code("reset", 0) /\ UNCHANGED <<flag, regs, stack, idt>>
    BY <1>2, <1>3, <2>1 DEF Interrupt, GoTo
  <2>3. at'.name = "reset" /\ at'.vector = 0 /\ at' \in Codes
    BY <2>2 DEF Code, Codes, Names
  <2>4. Len(stack) = 0
    BY <2>1 DEF Outside
  <2>5. Depth' /\ Outside' /\ InStub' /\ FrameSound' /\ OverThread' /\ OnlyIrqsReturn'
    BY <1>2, <2>1, <2>2, <2>3, <2>4
       DEF Depth, Outside, InStub, FrameSound, OverThread, OnlyIrqsReturn
  <2>6. Loaded'
    BY <2>1, <2>2, <2>3 DEF Loaded
  <2>7. Typing'
    BY <1>2, <2>2, <2>3 DEF Typing, TypeOK, Codes
  <2> QED BY <2>5, <2>6, <2>7
<1>4. CASE v \in DOMAIN idt
  <2>1. /\ at' = Code("stub", v) /\ at' \in Codes /\ flag' = FALSE
        /\ idt = Gates /\ UNCHANGED <<regs, idt>>
        /\ stack' \in Seq(Words) /\ InStub' /\ Len(stack) \in Nat /\ Len(stack') \in Nat
        /\ Len(stack') + (IF v \in WithErrorCode THEN 16 ELSE 17) = Len(stack) + 22
    BY <1>1, <1>2, <1>4, EnterStub
  <2>2. at'.name = "stub" /\ at'.vector = v
    BY <2>1 DEF Code
  <2> DEFINE depth == Len(stack)
             deeper == Len(stack')
  <2>3. /\ depth \in Nat /\ deeper \in Nat /\ depth <= 22 * (raised + 1)
        /\ deeper + (IF v \in WithErrorCode THEN 16 ELSE 17) = depth + 22
    <3> HIDE DEF depth, deeper
    <3>1. depth + (IF at.name # "stub" THEN 0 ELSE IF at.vector \in WithErrorCode THEN 16 ELSE 17)
            <= 22 * (raised + 1)
      BY DEF Depth, depth
    <3>2. depth \in Nat /\ deeper \in Nat
      BY <2>1 DEF depth, deeper
    <3> QED BY <1>2, <2>1, <3>1, <3>2 DEF deeper, depth
  <2>4. Depth' /\ deeper <= Len(registers_t) * (ExceptionLimit + 1)
    <3> HIDE DEF depth, deeper
    <3>1. deeper + (IF v \in WithErrorCode THEN 16 ELSE 17) <= 22 * (raised' + 1)
      BY <1>2, <2>3
    <3>2. deeper <= 22 * (raised' + 1)
      BY <1>2, <2>3, <3>1
    <3> QED BY <1>2, <2>2, <2>3, <3>1, <3>2, DepthBounds DEF Depth, deeper
  <2>5. Typing'
    BY <1>2, <2>1, <2>4 DEF Typing, TypeOK, Codes
  <2>6. Loaded'
    <3>1. at.name \notin {"remap", "reset"}
      <4>1. DOMAIN <<>> = {}
        OBVIOUS
      <4> QED BY <1>4, <4>1 DEF Loaded
    <3> QED BY <1>2, <2>1, <2>2, <3>1 DEF Loaded
  <2>7. Outside' /\ FrameSound' /\ OverThread' /\ OnlyIrqsReturn'
    BY <1>1, <2>2 DEF Outside, FrameSound, OverThread, OnlyIrqsReturn
  <2> QED BY <2>1, <2>4, <2>5, <2>6, <2>7
<1> QED BY <1>3, <1>4

\* A device's interrupt, spurious or not, is only ever taken in the thread.
LEMMA AcknowledgeStep == ASSUME IInv, NEW n \in Irqs, Acknowledge(n) PROVE IInv'
<1> USE DEF IInv
<1>1. n \in 0 .. 15 /\ n # 2
  BY InterruptAssumption
<1>2. /\ flag = TRUE /\ at.name = "thread" /\ at = Code("thread", 0) /\ idt = Gates
      /\ offsets[1] = 32 /\ offsets[2] = 40
      /\ stack = <<>> /\ regs = ThreadRegs /\ inService = {} /\ Len(stack) = 0
  <2>1. flag = TRUE /\ at.name = "thread"
    BY DEF Acknowledge, Loaded, Typing, TypeOK
  <2>2. idt = Gates /\ offsets = <<32, 40>>
    BY <2>1 DEF Loaded
  <2>3. stack = <<>> /\ regs = ThreadRegs /\ inService = {} /\ at.vector = 0
    BY <2>1 DEF Outside
  <2>4. at = Code("thread", 0)
    BY <2>1, <2>3 DEF Typing, Codes, Code
  <2> QED BY <2>1, <2>2, <2>3, <2>4
<1>3. PICK v \in 32 .. 47 :
        /\ Interrupt(v)
        /\ \/ v = n + 32 /\ inService' = {n, Master(n)}
           \/ v = 39 /\ inService' = {}
           \/ v = 47 /\ inService' = {2}
  <2>1. \/ /\ inService' = {n, Master(n)}
           /\ Interrupt(IF n < 8 THEN 32 + n ELSE 40 + n - 8)
        \/ inService' = {} /\ Interrupt(39)
        \/ inService' = {2} /\ Interrupt(47)
    BY <1>2 DEF Acknowledge
  <2>2. (IF n < 8 THEN 32 + n ELSE 40 + n - 8) = n + 32
    BY <1>1
  <2> QED BY <1>1, <2>1, <2>2
<1>4. /\ v \in 0 .. 47 /\ v \in DOMAIN idt /\ v \notin WithErrorCode
  <2>1. v \in 0 .. 47
    OBVIOUS
  <2>2. v \in DOMAIN idt
    BY <1>2, <2>1, GatesSet
  <2>3. v \notin WithErrorCode
    BY DEF WithErrorCode
  <2> QED BY <2>1, <2>2, <2>3
<1>5. /\ at' = Code("stub", v) /\ at' \in Codes /\ flag' = FALSE
      /\ UNCHANGED <<regs, idt>>
      /\ stack' \in Seq(Words) /\ InStub' /\ Len(stack') \in Nat
      /\ Len(stack') + 17 = Len(stack) + 22
      /\ stack'[1] = <<"rip", at>> /\ stack'[3] = <<"rflags", flag>>
  BY <1>3, <1>4, EnterStub
<1>6. at'.name = "stub" /\ at'.vector = v
  BY <1>5 DEF Code
<1>7. Len(stack') = 5
  <2> DEFINE depth == Len(stack)
             deeper == Len(stack')
  <2>1. deeper + 17 = depth + 22 /\ deeper \in Nat /\ depth = 0
    BY <1>2, <1>5
  <2> HIDE DEF depth, deeper
  <2>2. deeper = 5
    BY <2>1
  <2> QED BY <2>2 DEF deeper
<1>8. UNCHANGED <<offsets, unmasked, raised, asked>> /\ requested' \subseteq Irqs
  BY DEF Acknowledge, events, Typing, TypeOK
<1>9. raised \in 0 .. ExceptionLimit /\ raised \in Nat
  BY InterruptAssumption DEF Typing, TypeOK
<1>10. Depth'
  <2>1. 5 + 17 <= 22 * (raised + 1)
    BY <1>9
  <2> QED BY <1>4, <1>6, <1>7, <1>8, <2>1 DEF Depth
<1>11. Typing'
  <2>1. 5 <= Len(registers_t) * (ExceptionLimit + 1)
    BY <1>9, DepthBounds
  <2>2. inService' \subseteq Irqs \cup {2}
    BY <1>3 DEF Master
  <2> QED BY <1>5, <1>7, <1>8, <2>1, <2>2 DEF Typing, TypeOK, Codes
<1>12. Loaded'
  BY <1>2, <1>5, <1>6, <1>8 DEF Loaded
<1>13. OverThread'
  <2>1. stack'[1] = <<"rip", Code("thread", 0)>> /\ stack'[3] = <<"rflags", TRUE>>
    BY <1>2, <1>5
  <2>2. ThreadBelow(0)'
    <3>1. 0 + 1 = 1 /\ 0 + 3 = 3 /\ 0 + 5 = 5
      OBVIOUS
    <3> QED BY <1>7, <2>1, <3>1 DEF ThreadBelow
  <2>3. Serviced'
    <3>1. v - 32 = n \/ v - 32 \in {7, 15}
      BY <1>1, <1>3
    <3>2. CASE v = n + 32 /\ inService' = {n, Master(n)}
      <4>1. v - 32 = n
        BY <1>1, <3>2
      <4> QED BY <1>6, <3>2, <4>1 DEF Serviced, Master
    <3>3. CASE v = 39 /\ inService' = {}
      BY <1>6, <3>3 DEF Serviced
    <3>4. CASE v = 47 /\ inService' = {2}
      BY <1>6, <3>4 DEF Serviced
    <3> QED BY <1>3, <3>2, <3>3, <3>4
  <2> QED BY <1>2, <1>5, <1>6, <2>2, <2>3 DEF OverThread
<1>14. Outside' /\ FrameSound' /\ OnlyIrqsReturn'
  BY <1>6 DEF Outside, FrameSound, OnlyIrqsReturn
<1> QED BY <1>5, <1>10, <1>11, <1>12, <1>13, <1>14

\* The structure that the handler is given, over what the processor pushed.
LEMMA StubStep == ASSUME IInv, isr_stub PROVE IInv'
<1> USE DEF IInv
<1> DEFINE error == at.vector \in WithErrorCode
           m == IF error THEN 16 ELSE 17
           depth == Len(stack)
           deeper == Len(stack')
<1>1. /\ at.name = "stub" /\ at' = Code("handler", at.vector)
      /\ UNCHANGED <<flag, regs, idt, offsets, unmasked, requested, inService, raised, asked>>
  BY DEF isr_stub, GoTo, pic, events
<1>2. at'.name = "handler" /\ at'.vector = at.vector /\ at.vector \in 0 .. 47 /\ at' \in Codes
  BY <1>1 DEF Code, Codes, Names, Typing
<1>3. m \in Nat /\ m = (IF error THEN 16 ELSE 17)
  OBVIOUS
<1> HIDE DEF m, error
<1>4. /\ stack' \in Seq(Words) /\ deeper = m + depth
      /\ \A i \in 1 .. 15 : stack'[i] = regs[registers_t[i]]
      /\ stack'[16] = <<"number", at.vector>>
      /\ m = 17 => stack'[17] = <<"error", -1>>
      /\ \A j \in 1 .. depth : stack'[m + j] = stack[j]
  BY <1>3, CommonPushes DEF error
<1>5. depth \in Nat
  BY LenProperties DEF Typing
<1>6. /\ depth >= (IF error THEN 6 ELSE 5)
      /\ error => stack[1] = <<"error", at.vector>>
      /\ error => /\ stack[2][1] = "rip" /\ stack[3][1] = "cs" /\ stack[4][1] = "rflags"
                  /\ stack[5][1] = "rsp" /\ stack[6][1] = "ss"
      /\ ~error => /\ stack[1][1] = "rip" /\ stack[2][1] = "cs" /\ stack[3][1] = "rflags"
                   /\ stack[4][1] = "rsp" /\ stack[5][1] = "ss"
  <2>1. /\ 0 + 1 = 1 /\ 0 + 2 = 2 /\ 0 + 3 = 3 /\ 0 + 4 = 4 /\ 0 + 5 = 5
        /\ 1 + 1 = 2 /\ 1 + 2 = 3 /\ 1 + 3 = 4 /\ 1 + 4 = 5 /\ 1 + 5 = 6
    OBVIOUS
  <2> QED BY <1>1, <2>1 DEF InStub, PushedBelow, error
<1>7. /\ stack'[17] = <<"error", IF error THEN at.vector ELSE -1>>
      /\ stack'[18][1] = "rip" /\ stack'[19][1] = "cs" /\ stack'[20][1] = "rflags"
      /\ stack'[21][1] = "rsp" /\ stack'[22][1] = "ss"
  <2> HIDE DEF depth, deeper
  <2>1. CASE error
    <3>1. \A j \in 1 .. 6 : stack'[16 + j] = stack[j]
      BY <1>3, <1>4, <1>5, <1>6, <2>1
    <3>2. /\ 1 \in 1 .. 6 /\ 2 \in 1 .. 6 /\ 3 \in 1 .. 6 /\ 4 \in 1 .. 6 /\ 5 \in 1 .. 6 /\ 6 \in 1 .. 6
          /\ 16 + 1 = 17 /\ 16 + 2 = 18 /\ 16 + 3 = 19 /\ 16 + 4 = 20 /\ 16 + 5 = 21 /\ 16 + 6 = 22
      OBVIOUS
    <3>3. /\ stack'[17] = stack[1] /\ stack'[18] = stack[2] /\ stack'[19] = stack[3]
          /\ stack'[20] = stack[4] /\ stack'[21] = stack[5] /\ stack'[22] = stack[6]
      BY <3>1, <3>2
    <3> QED BY <1>6, <2>1, <3>3
  <2>2. CASE ~error
    <3>1. \A j \in 1 .. 5 : stack'[17 + j] = stack[j]
      <4>1. m = 17 /\ depth >= 5
        BY <1>3, <1>6, <2>2
      <4>2. \A j \in 1 .. 5 : j \in 1 .. depth
        BY <1>5, <4>1
      <4> QED BY <1>4, <4>1, <4>2
    <3>2. /\ 1 \in 1 .. 5 /\ 2 \in 1 .. 5 /\ 3 \in 1 .. 5 /\ 4 \in 1 .. 5 /\ 5 \in 1 .. 5
          /\ 17 + 1 = 18 /\ 17 + 2 = 19 /\ 17 + 3 = 20 /\ 17 + 4 = 21 /\ 17 + 5 = 22
      OBVIOUS
    <3>3. /\ stack'[18] = stack[1] /\ stack'[19] = stack[2] /\ stack'[20] = stack[3]
          /\ stack'[21] = stack[4] /\ stack'[22] = stack[5]
      BY <3>1, <3>2
    <3> QED BY <1>3, <1>4, <1>6, <2>2, <3>3
  <2> QED BY <2>1, <2>2
<1>8. \A i \in 1 .. 22 : Word(registers_t[i])' = stack'[i]
  BY FieldPlace DEF Word
<1>9. /\ Word("int_no")' = stack'[16] /\ Word("err_code")' = stack'[17] /\ Word("rip")' = stack'[18]
      /\ Word("cs")' = stack'[19] /\ Word("rflags")' = stack'[20] /\ Word("rsp")' = stack'[21]
      /\ Word("ss")' = stack'[22]
  <2>1. /\ 16 \in 1 .. 22 /\ 17 \in 1 .. 22 /\ 18 \in 1 .. 22 /\ 19 \in 1 .. 22
        /\ 20 \in 1 .. 22 /\ 21 \in 1 .. 22 /\ 22 \in 1 .. 22
    OBVIOUS
  <2> HIDE DEF Word
  <2> QED BY <1>8, <2>1, FieldNames
<1>10. \A r \in Registers : Word(r)' = regs'[r]
  <2>1. \A i \in 1 .. 15 : i \in 1 .. 22
    OBVIOUS
  <2>2. \A i \in 1 .. 15 : Word(registers_t[i])' = regs'[registers_t[i]]
    BY <1>1, <1>4, <1>8, <2>1
  <2> QED BY <2>2, RegisterPlace
<1>11. (at.vector < 32) = (idt[at.vector].stub = "isr")
  BY <1>1, <1>2, GatesSet DEF Loaded
<1>12. FrameSound'
  <2>1. Word("int_no")' = <<"number", at'.vector>>
    BY <1>2, <1>4, <1>9
  <2>2. Word("err_code")' = <<"error", IF at'.vector \in WithErrorCode THEN at'.vector ELSE -1>>
    BY <1>2, <1>7, <1>9 DEF error
  <2>3. \A f \in {"rip", "cs", "rflags", "rsp", "ss"} : Word(f)'[1] = f
    BY <1>7, <1>9
  <2>4. (at'.vector < 32) = (idt'[at'.vector].stub = "isr")
    BY <1>1, <1>2, <1>11
  <2> QED BY <1>10, <2>1, <2>2, <2>3, <2>4 DEF FrameSound
<1>13. deeper <= 22 * (raised + 1) /\ deeper \in Nat
  <2>1. depth + m = deeper
    <3> HIDE DEF depth, deeper
    <3> QED BY <1>3, <1>4, <1>5
  <2>2. depth + m <= 22 * (raised + 1)
    BY <1>1, <1>3 DEF Depth, error
  <2> HIDE DEF depth, deeper
  <2> QED BY <1>3, <1>5, <2>1, <2>2
<1>14. Depth'
  <2>1. raised \in Nat
    BY InterruptAssumption DEF Typing, TypeOK
  <2> DEFINE bound == 22 * (raised + 1)
  <2>2. bound' = bound
    BY <1>1
  <2> HIDE DEF deeper
  <2>3. deeper + 0 <= 22 * (raised + 1)
    BY <1>13
  <2> QED BY <1>1, <1>2, <2>3 DEF Depth, deeper
<1>15. Typing'
  <2>1. deeper <= Len(registers_t) * (ExceptionLimit + 1)
    BY <1>13, DepthBounds DEF Typing, TypeOK
  <2> QED BY <1>1, <1>2, <1>4, <2>1 DEF Typing, TypeOK, Codes
<1>16. Loaded' /\ Outside' /\ InStub' /\ OnlyIrqsReturn'
  BY <1>1, <1>2 DEF Loaded, Outside, InStub, OnlyIrqsReturn
<1>17. OverThread'
  <2>1. SUFFICES ASSUME at.vector >= 32 PROVE OverThread'
    BY <1>2 DEF OverThread
  <2>2. ~error
    BY <1>2, <2>1 DEF error, WithErrorCode
  <2>3. regs = ThreadRegs /\ Serviced /\ ThreadBelow(0)
    BY <1>1, <2>1 DEF OverThread
  <2>4. /\ depth = 5 /\ stack[1] = <<"rip", Code("thread", 0)>> /\ stack[3] = <<"rflags", TRUE>>
    <3>1. 0 + 1 = 1 /\ 0 + 3 = 3 /\ 0 + 5 = 5
      OBVIOUS
    <3> QED BY <2>3, <3>1 DEF ThreadBelow
  <2>5. stack'[17 + 1] = stack[1] /\ stack'[17 + 3] = stack[3]
    <3> HIDE DEF depth, deeper
    <3>1. 1 \in 1 .. depth /\ 3 \in 1 .. depth /\ m = 17
      BY <1>3, <2>2, <2>4
    <3> QED BY <1>4, <3>1
  <2>6. deeper = 17 + 5
    <3> HIDE DEF depth, deeper
    <3> QED BY <1>3, <1>4, <2>2, <2>4
  <2>7. ThreadBelow(17)'
    BY <2>4, <2>5, <2>6 DEF ThreadBelow
  <2>8. \A i \in 1 .. 15 : stack'[i] = <<registers_t[i], "thread">>
    BY <1>4, <2>3, RegisterPlace, ThreadRegsType
  <2>9. Serviced' /\ regs' = ThreadRegs
    BY <1>1, <1>2, <2>3 DEF Serviced
  <2> QED BY <1>2, <2>7, <2>8, <2>9 DEF OverThread
<1> QED BY <1>12, <1>14, <1>15, <1>16, <1>17

\* The panic ends an exception; no device's interrupt ends there (panic.c).
LEMMA PanicStep == ASSUME IInv, kernel_panic PROVE IInv'
<1> USE DEF IInv
<1>1. /\ at.name = "handler" /\ at' = Code("halted", at.vector) /\ flag' = FALSE
      /\ idt[at.vector].stub = "isr"
      /\ UNCHANGED <<regs, stack, idt, offsets, unmasked, requested, inService, raised, asked>>
  BY DEF kernel_panic, GoTo, pic, events
<1>2. at'.name = "halted" /\ at'.vector = at.vector /\ at.vector \in 0 .. 47 /\ at' \in Codes
  BY <1>1 DEF Code, Codes, Names, Typing
<1>3. at.vector < 32
  BY <1>1, <1>2, GatesSet DEF Loaded
<1>4. Typing'
  BY <1>1, <1>2 DEF Typing, TypeOK, Codes
<1>5. OverThread'
  BY <1>2, <1>3 DEF OverThread
<1> QED BY <1>1, <1>2, <1>4, <1>5
        DEF Loaded, Outside, InStub, FrameSound, OnlyIrqsReturn, Depth

\* What the end of interrupt takes out of service: all there is (pic.c:45-50).
LEMMA EndOfInterrupt ==
    ASSUME IInv, at.vector >= 32, at.name = "handler"
    PROVE  pic_send_eoi(at.vector - 32) = {}
<1> USE DEF IInv
<1> DEFINE n == at.vector - 32
<1>1. Serviced /\ at.vector \in 32 .. 47
  <2>1. Serviced
    BY DEF OverThread
  <2>2. at.vector \in 0 .. 47
    BY DEF Typing, Codes
  <2> QED BY <2>1, <2>2
<1>2. CASE n \in Irqs /\ inService = {n, Master(n)}
  <2>1. n \in 0 .. 15 /\ n # 2
    BY <1>2, InterruptAssumption
  <2> HIDE DEF n
  <2>2. CASE n < 8
    <3>1. inService = {n} /\ inService \cap 0 .. 7 = {n}
      <4>1. Master(n) = n
        BY <2>1, <2>2 DEF Master
      <4>2. n \in 0 .. 7 /\ inService = {n}
        BY <1>2, <2>1, <2>2, <4>1
      <4> QED BY <4>2
    <3>2. Least({n}) = {n}
      BY <2>1 DEF Least
    <3> QED BY <3>1, <3>2 DEF pic_send_eoi, n
  <2>3. CASE n >= 8
    <3>1. inService = {n, 2} /\ inService \cap 0 .. 7 = {2} /\ inService \cap 8 .. 15 = {n}
      <4>1. Master(n) = 2
        BY <2>1, <2>3 DEF Master
      <4>2. n \in 8 .. 15 /\ n \notin 0 .. 7 /\ 2 \in 0 .. 7 /\ 2 \notin 8 .. 15
        BY <2>1, <2>3
      <4>3. inService = {n, 2}
        BY <1>2, <4>1
      <4> QED BY <4>2, <4>3
    <3>2. Least({n}) = {n} /\ Least({2}) = {2}
      BY <2>1 DEF Least
    <3> QED BY <2>3, <3>1, <3>2 DEF pic_send_eoi, n
  <2> QED BY <2>1, <2>2, <2>3
<1>3. CASE n = 7 /\ inService = {}
  BY <1>3 DEF pic_send_eoi
<1>4. CASE n = 15 /\ inService = {2}
  <2>1. inService \cap 0 .. 7 = {2} /\ Least({2}) = {2}
    BY <1>4 DEF Least
  <2> QED BY <1>4, <2>1 DEF pic_send_eoi
<1> QED BY <1>1, <1>2, <1>3, <1>4 DEF Serviced

\* The handler of a device's interrupt, as far as the stack and the controllers go.
LEMMA HandlerStep == ASSUME IInv, irq_handler PROVE IInv'
<1> USE DEF IInv
<1>1. /\ at.name = "handler" /\ at' = Code("pop", at.vector) /\ idt[at.vector].stub = "irq"
      /\ UNCHANGED <<flag, stack, idt, offsets, unmasked, requested, raised, asked>>
      /\ inService' = pic_send_eoi(Word("int_no")[2] - 32)
      /\ regs' = [r \in Registers |-> IF r \in Scratch THEN <<r, "handler">> ELSE regs[r]]
  BY DEF irq_handler, GoTo, pic, events
<1>2. at'.name = "pop" /\ at'.vector = at.vector /\ at.vector \in 0 .. 47 /\ at' \in Codes
  BY <1>1 DEF Code, Codes, Names, Typing
<1>3. at.vector >= 32
  <2>1. ~(at.vector < 32)
    BY <1>1 DEF FrameSound
  <2> QED BY <1>2, <2>1
<1>4. inService' = {}
  <2>1. Word("int_no")[2] = at.vector
    BY <1>1 DEF FrameSound
  <2> QED BY <1>1, <1>3, <2>1, EndOfInterrupt
<1>5. Typing'
  <2>1. /\ regs' \in [Registers -> Words]
        /\ \A r \in Registers : regs'[r] \in {<<r, "thread">>, <<r, "handler">>}
    BY <1>1 DEF Typing, TypeOK, Words
  <2> QED BY <1>1, <1>2, <1>4, <2>1 DEF Typing, TypeOK, Codes
<1>6. OverThread'
  BY <1>1, <1>2, <1>3, <1>4 DEF OverThread, ThreadBelow
<1> QED BY <1>1, <1>2, <1>3, <1>5, <1>6
        DEF Loaded, Outside, InStub, FrameSound, OnlyIrqsReturn, Depth

\* The stub gives the thread back all it had (idt.asm:29-33, 86-106).
LEMMA ReturnStep == ASSUME IInv, irq_common PROVE IInv'
<1> USE DEF IInv
<1>1. /\ at.name = "pop" /\ at.vector >= 32
      /\ UNCHANGED <<idt, offsets, unmasked, requested, inService, raised, asked>>
      /\ regs' = [r \in Registers |-> stack[CHOOSE i \in DOMAIN Popped : Popped[i] = r]]
      /\ at' = stack[18][2] /\ flag' = stack[20][2]
      /\ stack' = SubSeq(stack, 23, Len(stack))
  <2>1. Len(Popped) + 3 = 18 /\ Len(Popped) + 5 = 20 /\ Len(Popped) + 8 = 23
    BY Lengths
  <2> QED BY <2>1 DEF irq_common, pic, events, OnlyIrqsReturn
<1>2. /\ ThreadBelow(17) /\ inService = {}
      /\ \A i \in 1 .. 15 : stack[i] = <<registers_t[i], "thread">>
  BY <1>1 DEF OverThread
<1>3. Len(stack) = 22 /\ stack[18] = <<"rip", Code("thread", 0)>> /\ stack[20] = <<"rflags", TRUE>>
  <2>1. 17 + 1 = 18 /\ 17 + 3 = 20 /\ 17 + 5 = 22
    OBVIOUS
  <2> QED BY <1>2, <2>1 DEF ThreadBelow
<1>4. at' = Code("thread", 0) /\ flag' = TRUE
  BY <1>1, <1>3
<1>5. at'.name = "thread" /\ at'.vector = 0 /\ at' \in Codes
  BY <1>4 DEF Code, Codes, Names
<1>6. stack' = <<>>
  <2>1. stack' = SubSeq(stack, 23, 22)
    BY <1>1, <1>3
  <2>2. 23 \in Int /\ 22 \in Int /\ 22 < 23
    OBVIOUS
  <2> QED BY <2>1, <2>2, SubSeqEmpty
<1>7. regs' = ThreadRegs
  <2>1. \A r \in Registers : stack[CHOOSE i \in DOMAIN Popped : Popped[i] = r] = <<r, "thread">>
    BY <1>2, PoppedPlace, RegisterPlace
  <2> DEFINE Saved(r) == stack[CHOOSE i \in DOMAIN Popped : Popped[i] = r]
  <2>2. regs' = [r \in Registers |-> Saved(r)] /\ \A r \in Registers : Saved(r) = <<r, "thread">>
    BY <1>1, <2>1
  <2> HIDE DEF Saved
  <2> QED BY <2>2 DEF ThreadRegs
<1>8. Len(stack') = 0
  BY <1>6
<1>9. raised \in Nat /\ raised \in 0 .. ExceptionLimit
  BY InterruptAssumption DEF Typing, TypeOK
<1>10. Depth'
  <2>1. 0 + 0 <= 22 * (raised + 1)
    BY <1>9
  <2> QED BY <1>1, <1>5, <1>8, <2>1 DEF Depth
<1>11. Typing'
  <2>1. 0 <= Len(registers_t) * (ExceptionLimit + 1)
    BY <1>9, DepthBounds
  <2>2. Len(stack') <= Len(registers_t) * (ExceptionLimit + 1)
    BY <1>8, <2>1
  <2>3. stack' \in Seq(Words) /\ regs' \in [Registers -> Words]
    BY <1>6, <1>7, ThreadRegsType, EmptySeq
  <2>4. \A r \in Registers : regs'[r] \in {<<r, "thread">>, <<r, "handler">>}
    BY <1>7, ThreadRegsType
  <2>5. flag' \in BOOLEAN
    BY <1>4
  <2> HIDE DEF IInv
  <2>6. TypeOK'
    BY <1>1, <1>5, <2>2, <2>4, <2>5 DEF IInv, Typing, TypeOK, Codes
  <2> QED BY <1>5, <2>3, <2>6 DEF Typing
<1>12. Loaded'
  BY <1>1, <1>4, <1>5 DEF Loaded
<1>13. Outside'
  BY <1>1, <1>2, <1>5, <1>6, <1>7 DEF Outside
<1> QED BY <1>5, <1>10, <1>11, <1>12, <1>13
        DEF InStub, FrameSound, OverThread, OnlyIrqsReturn

\* The set-up, and the firmware after a reset.
LEMMA BootStep == ASSUME IInv, Boot \/ Restart PROVE IInv'
<1> USE DEF IInv
<1>1. /\ at.name \in {"remap", "gates", "sti", "reset"} /\ at.vector = 0
      /\ stack = <<>> /\ regs = ThreadRegs /\ inService = {}
  BY DEF Boot, pic_remap, init_idt, sti, Restart, Outside
<1>2. /\ at'.name = (IF at.name = "remap" THEN "gates" ELSE IF at.name = "gates" THEN "sti"
                     ELSE IF at.name = "sti" THEN "thread" ELSE "remap")
      /\ at'.vector = 0 /\ at' \in Codes
  BY <1>1 DEF Boot, pic_remap, init_idt, sti, Restart, GoTo, Code, Codes, Names
<1>3. /\ stack' = <<>> /\ regs' = ThreadRegs /\ inService' = {}
      /\ requested' \subseteq requested
      /\ UNCHANGED <<unmasked, raised, asked>>
  BY <1>1 DEF Boot, pic_remap, init_idt, sti, Restart, pic, events, ThreadRegs
<1>4. flag' = (at.name = "sti")
  BY <1>1 DEF Boot, pic_remap, init_idt, sti, Restart, Loaded
<1>5. Loaded'
  <2>1. flag' = (at'.name = "thread")
    BY <1>1, <1>2, <1>4
  <2>2. /\ at'.name \in {"remap", "gates"} => idt' = <<>>
        /\ at'.name \in {"sti", "thread"} => idt' = Gates
    BY <1>1, <1>2 DEF Boot, pic_remap, init_idt, sti, Restart, pic, Loaded, Gates
  <2>3. at'.name # "remap" => offsets' = <<32, 40>>
    BY <1>1, <1>2 DEF Boot, pic_remap, init_idt, sti, Restart, pic, Loaded
  <2>4. at'.name \in {"remap", "gates", "sti", "thread"}
    BY <1>1, <1>2
  <2> QED BY <2>1, <2>2, <2>3, <2>4 DEF Loaded
<1>6. Len(stack') = Len(stack)
  BY <1>1, <1>3
<1>7. Depth'
  BY <1>1, <1>2, <1>3, <1>6 DEF Depth
<1>8. flag' \in BOOLEAN
  BY <1>4
<1>9. Typing'
  BY <1>1, <1>2, <1>3, <1>6, <1>8, ThreadRegsType, EmptySeq DEF Typing, TypeOK, Codes
<1>10. at'.name \in {"remap", "gates", "sti", "thread"}
  BY <1>1, <1>2
<1> QED BY <1>2, <1>3, <1>5, <1>7, <1>9, <1>10
        DEF Outside, InStub, FrameSound, OverThread, OnlyIrqsReturn

\* A request by itself changes nothing the invariant speaks of.
LEMMA OthersUnchanged ==
    ASSUME IInv, requested' \subseteq Irqs, asked' \in 0 .. RequestLimit,
           UNCHANGED <<at, flag, regs, stack, idt, offsets, unmasked, inService, raised>>
    PROVE  IInv'
<1> USE DEF IInv
<1>1. Typing'
  BY DEF Typing, TypeOK
<1>2. Loaded' /\ Outside' /\ OnlyIrqsReturn' /\ Depth'
  BY DEF Loaded, Outside, OnlyIrqsReturn, Depth
<1>3. InStub'
  BY DEF InStub, PushedBelow
<1>4. \A f : Word(f)' = Word(f)
  BY DEF Word
<1>5. FrameSound'
  BY <1>4 DEF FrameSound
<1>6. OverThread'
  <2>1. (ThreadBelow(0)' <=> ThreadBelow(0)) /\ (ThreadBelow(17)' <=> ThreadBelow(17))
    BY DEF ThreadBelow
  <2>2. Serviced' <=> Serviced
    BY DEF Serviced
  <2> QED BY <2>1, <2>2 DEF OverThread
<1> QED BY <1>1, <1>2, <1>3, <1>5, <1>6

\* Every step of the processor, the controllers and the kernel preserves the invariant.
LEMMA NextIInv == IInv /\ [Next]_vars => IInv'
<1> SUFFICES ASSUME IInv, [Next]_vars PROVE IInv'
  OBVIOUS
<1>1. ASSUME NEW n \in Irqs, Request(n) PROVE IInv'
  <2>1. /\ UNCHANGED <<at, flag, regs, stack, idt, offsets, unmasked, inService, raised>>
        /\ requested' \subseteq Irqs /\ asked' \in 0 .. RequestLimit
    BY <1>1, InterruptAssumption DEF Request, cpu, IInv, Typing, TypeOK
  <2> QED BY <2>1, OthersUnchanged
<1>2. CASE UNCHANGED vars
  <2>1. /\ UNCHANGED <<at, flag, regs, stack, idt, offsets, unmasked, inService, raised>>
        /\ requested' \subseteq Irqs /\ asked' \in 0 .. RequestLimit
    BY <1>2 DEF vars, cpu, pic, events, IInv, Typing, TypeOK
  <2> QED BY <2>1, OthersUnchanged
<1> QED BY <1>1, <1>2, BootStep, StubStep, PanicStep, HandlerStep, ReturnStep,
           ExceptionStep, AcknowledgeStep DEF Next, Handler

\* Every reachable state satisfies the inductive invariant.
THEOREM Inductive == Spec => []IInv
BY InitIInv, NextIInv, PTL DEF Spec

-----------------------------------------------------------------------------
(* What follows from it.                                                    *)

\* The stack is never deeper than one frame for each exception and one more,
\* registers hold values of their own, and the controllers lines they have.
THEOREM TypeCorrect == Spec => []TypeOK
<1>1. IInv => TypeOK
  BY DEF IInv, Typing
<1> QED BY <1>1, Inductive, PTL

\* The pushes of the processor, of the stub and of isr_common add up to the
\* registers_t the handler reads, for each vector, and wherever the interrupted
\* code was (idt.asm, idt.h, handlers.c:9, panic.c).
THEOREM FramesSound == Spec => []FrameSound
<1>1. IInv => FrameSound
  BY DEF IInv
<1> QED BY <1>1, Inductive, PTL

\* After any number of interrupts the thread has its registers, its stack and
\* its interrupt flag, and none is in service (idt.asm:86-106, pic.c:45-50).
THEOREM ThreadStaysUndisturbed == Spec => []ThreadUndisturbed
<1>1. IInv => ThreadUndisturbed
  BY ThreadRegsType DEF IInv, ThreadUndisturbed, Loaded, Outside, Typing, TypeOK
<1> QED BY <1>1, Inductive, PTL

\* While a handler runs only the line it handles goes out of service.
LEMMA EndsOwnServiceStep ==
    IInv /\ [Next]_vars =>
      [at.name = "handler" =>
         inService \ inService' \subseteq {at.vector - 32, Master(at.vector - 32)}]_vars
<1> SUFFICES ASSUME IInv, Next, at.name = "handler"
             PROVE  inService \ inService' \subseteq {at.vector - 32, Master(at.vector - 32)}
  OBVIOUS
<1> USE DEF IInv
<1>1. ~Boot /\ ~Restart /\ ~isr_stub /\ ~irq_common
  BY DEF Boot, pic_remap, init_idt, sti, Restart, isr_stub, irq_common
<1>2. CASE kernel_panic
  BY <1>2 DEF kernel_panic, pic
<1>3. CASE irq_handler
  <2>1. ~(at.vector < 32) /\ at.vector \in 0 .. 47
    BY <1>3 DEF irq_handler, FrameSound, Typing, Codes
  <2>2. at.vector >= 32
    BY <2>1
  <2>3. Serviced
    BY <2>2 DEF OverThread
  <2>4. at.vector - 32 = 15 => Master(at.vector - 32) = 2
    BY DEF Master
  <2> QED BY <2>3, <2>4 DEF Serviced
<1>4. ASSUME NEW v \in Exceptions, Exception(v)
      PROVE  inService \ inService' \subseteq {at.vector - 32, Master(at.vector - 32)}
  BY <1>4 DEF Exception, pic
<1>5. ASSUME NEW n \in Irqs, Request(n)
      PROVE  inService \ inService' \subseteq {at.vector - 32, Master(at.vector - 32)}
  BY <1>5 DEF Request
<1>6. \A n \in Irqs : ~Acknowledge(n)
  BY DEF Acknowledge, Loaded
<1> QED BY <1>1, <1>2, <1>3, <1>4, <1>5, <1>6 DEF Next, Handler

\* A handler ends only its own service, also when the interrupt it was called
\* for was spurious (pic.c:45-50, handlers.c:19).
THEOREM EndsOnlyOwnService == Spec => EndsOwnService
BY Inductive, EndsOwnServiceStep, PTL DEF EndsOwnService, Spec

=============================================================================
