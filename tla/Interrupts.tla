----------------------------- MODULE Interrupts -----------------------------
(***************************************************************************)
(* Interrupts, from their set-up to the end of interrupt or to the panic:  *)
(* the gates (interrupts/idt.c), the stubs that build registers_t on the   *)
(* stack and take it down (idt.asm, idt.h), both handlers (handlers.c),    *)
(* pic.c, and the halt in panic.c, under a processor that may meet an      *)
(* exception anywhere and interrupt controllers whose requests may fall    *)
(* while they are acknowledged. The stack holds words with the top first;  *)
(* a word is a name and whose value it is.                                 *)
(***************************************************************************)
EXTENDS Integers, Sequences

CONSTANTS
    Exceptions,  \* vectors that the processor raises in a run
    Irqs,        \* lines on which devices request interrupts in a run
    ExceptionLimit, RequestLimit  \* how many of them there are in a run

ASSUME InterruptAssumption ==
    /\ Exceptions \subseteq 0 .. 31
    /\ Irqs \subseteq 0 .. 15 \ {2}
    /\ ExceptionLimit \in Nat /\ RequestLimit \in Nat

VARIABLES
    at,         \* the code that runs, and for which vector
    flag,       \* the interrupt flag
    regs,       \* the general registers
    stack,
    idt,        \* the gates, once they are loaded
    offsets,    \* vectors of the first line of each controller
    unmasked,   \* as the firmware left it
    requested,
    inService,  \* 2 stands for the second controller
    raised, asked  \* how many exceptions and requests there were

cpu  == <<at, flag, regs, stack>>
pic  == <<offsets, unmasked, requested, inService>>
events == <<raised, asked>>
vars == <<cpu, idt, pic, events>>

\* Pushed by isr_common and irq_common in this order, and popped in this one.
Pushed == <<"rax", "rbx", "rcx", "rdx", "rsi", "rdi", "rbp", "r8", "r9", "r10",
            "r11", "r12", "r13", "r14", "r15">>

\* Fault: two registers are exchanged.
PoppedExchanged == <<"r15", "r14", "r13", "r12", "r11", "r10", "r9", "r8", "rbp", "rsi",
                     "rdi", "rdx", "rcx", "rbx", "rax">>

Popped == <<"r15", "r14", "r13", "r12", "r11", "r10", "r9", "r8", "rbp", "rdi",
            "rsi", "rdx", "rcx", "rbx", "rax">>

\* registers_t, from its lowest address.
registers_t == <<"r15", "r14", "r13", "r12", "r11", "r10", "r9", "r8", "rbp", "rdi",
                 "rsi", "rdx", "rcx", "rbx", "rax", "int_no", "err_code",
                 "rip", "cs", "rflags", "rsp", "ss">>

Registers == {Pushed[i] : i \in DOMAIN Pushed}
Scratch   == {"rax", "rcx", "rdx", "rsi", "rdi", "r8", "r9", "r10", "r11"}
Word(field) == stack[CHOOSE i \in DOMAIN registers_t : registers_t[i] = field]

\* Vectors for which the processor pushes an error code, and the stubs that
\* expect one.
WithErrorCode == {8, 10, 11, 12, 13, 14, 17, 21, 30}

\* Fault: alignment checks are forgotten.
err_stubs_short == {8, 10, 11, 12, 13, 14, 21, 30}

isr_err_stub == {8, 10, 11, 12, 13, 14, 17, 21, 30}

Code(name, vector) == [name |-> name, vector |-> vector]
GoTo(name) == at' = Code(name, at.vector)
Running == at.name \notin {"halted", "reset"}

Init ==
    /\ at = Code("remap", 0) /\ flag = FALSE /\ stack = <<>>
    /\ regs = [r \in Registers |-> <<r, "thread">>]
    /\ idt = <<>>
    /\ offsets = <<8, 112>> /\ unmasked \in SUBSET (Irqs \cup {2})
    /\ requested = {} /\ inService = {} /\ raised = 0 /\ asked = 0

-----------------------------------------------------------------------------
(* init_idt.                                                                *)

\* The first command word forgets what is in service, and requests on edges.
\* The masks are restored.
pic_remap ==
    /\ at.name = "remap" /\ GoTo("gates")
    /\ offsets' = <<32, 40>>
    /\ inService' = {} /\ requested' \in SUBSET requested
    /\ UNCHANGED <<flag, regs, stack, idt, unmasked, events>>

\* Fault: type 0x8F, a trap gate.
idt_set_trap_gate(stub) == [stub |-> stub, keepsFlag |-> TRUE]

\* Type 0x8E, an interrupt gate: the processor clears the flag.
idt_set_gate(stub) == [stub |-> stub, keepsFlag |-> FALSE]

\* The 48 gates that are filled; nothing reads them before they are loaded.
init_idt ==
    /\ at.name = "gates" /\ GoTo("sti")
    /\ idt' = [n \in 0 .. 47 |-> idt_set_gate(IF n < 32 THEN "isr" ELSE "irq")]
    /\ UNCHANGED <<flag, regs, stack, pic, events>>

sti ==
    /\ at.name = "sti" /\ GoTo("thread")
    /\ flag' = TRUE
    /\ UNCHANGED <<regs, stack, idt, pic, events>>

-----------------------------------------------------------------------------
(* The processor and the interrupt controllers.                             *)

\* Without a gate the machine is reset.
Interrupt(vector) ==
    IF vector \notin DOMAIN idt
      THEN GoTo("reset") /\ UNCHANGED <<flag, regs, stack, idt>>
      ELSE /\ at' = Code("stub", vector)
           /\ flag' = (flag /\ idt[vector].keepsFlag)
           /\ stack' = (IF vector \in WithErrorCode THEN <<<<"error", vector>>>> ELSE <<>>)
                 \o <<<<"rip", at>>, <<"cs", at>>, <<"rflags", flag>>, <<"rsp", at>>, <<"ss", at>>>>
                 \o stack
           /\ UNCHANGED <<regs, idt>>

\* An instruction raises an exception, or a non-maskable interrupt comes after
\* it, in whatever code.
Exception(v) ==
    /\ Running /\ raised < ExceptionLimit /\ raised' = raised + 1
    /\ Interrupt(v)
    /\ UNCHANGED <<pic, asked>>

Request(n) ==
    /\ Running /\ asked < RequestLimit /\ asked' = asked + 1
    /\ n \notin requested /\ requested' = requested \cup {n}
    /\ UNCHANGED <<cpu, idt, offsets, unmasked, inService, raised>>

\* The line of the first controller that a request takes, and its rank.
Master(n) == IF n >= 8 THEN 2 ELSE n
Rank(n)   == 16 * Master(n) + n
Open(n)   == {n, Master(n)} \subseteq unmasked

Passes(n) ==
    /\ n \in requested /\ Open(n)
    /\ \A s \in inService : IF s < 8 THEN Master(n) < s ELSE n >= 8 => n < s

First(n) == Passes(n) /\ \A r \in requested : Passes(r) => Rank(n) <= Rank(r)

\* A request that falls before it is acknowledged is answered with the last
\* line of its controller, or of the first one, which is then not in service.
Acknowledge(n) ==
    /\ flag /\ Running /\ First(n)
    /\ requested' = requested \ {n}
    /\ \/ /\ inService' = inService \cup {n, Master(n)}
          /\ Interrupt(IF n < 8 THEN offsets[1] + n ELSE offsets[2] + n - 8)
       \/ inService' = inService /\ Interrupt(offsets[1] + 7)
       \/ n >= 8 /\ inService' = inService \cup {2} /\ Interrupt(offsets[2] + 7)
    /\ UNCHANGED <<offsets, unmasked, events>>

-----------------------------------------------------------------------------
(* Stubs and handlers.                                                      *)

isr_stub ==
    /\ at.name = "stub" /\ GoTo("handler")
    /\ stack' = [i \in DOMAIN Pushed |-> regs[Pushed[Len(Pushed) + 1 - i]]]
          \o <<<<"number", at.vector>>>>
          \o (IF at.vector \in isr_err_stub THEN <<>> ELSE <<<<"error", -1>>>>)
          \o stack
    /\ UNCHANGED <<flag, regs, idt, pic, events>>

\* cli and hlt in a loop.
kernel_panic ==
    /\ at.name = "handler" /\ idt[at.vector].stub = "isr"
    /\ GoTo("halted") /\ flag' = FALSE
    /\ UNCHANGED <<regs, stack, idt, pic, events>>

Least(S) == {s \in S : \A r \in S : s <= r}

\* Fault: the second controller is not told.
eoi_first_only(irq) == inService \ Least(inService \cap 0 .. 7)

\* Fault: the first controller is not told about lines of the second.
eoi_one_controller(irq) ==
    IF irq >= 8 THEN inService \ Least(inService \cap 8 .. 15)
                ELSE inService \ Least(inService \cap 0 .. 7)

\* Each controller that is told takes its first line out of service.
pic_send_eoi(irq) ==
    inService \ (Least(inService \cap 0 .. 7)
                   \cup IF irq >= 8 THEN Least(inService \cap 8 .. 15) ELSE {})

\* What the devices' handlers do is not looked at here.
irq_handler ==
    /\ at.name = "handler" /\ idt[at.vector].stub = "irq"
    /\ GoTo("pop")
    /\ inService' = pic_send_eoi(Word("int_no")[2] - 32)
    /\ regs' = [r \in Registers |-> IF r \in Scratch THEN <<r, "handler">> ELSE regs[r]]
    /\ UNCHANGED <<flag, stack, idt, offsets, unmasked, requested, events>>

\* Fifteen pops, two words skipped, and iretq.
irq_common ==
    /\ at.name = "pop"
    /\ regs' = [r \in Registers |-> stack[CHOOSE i \in DOMAIN Popped : Popped[i] = r]]
    /\ at' = stack[Len(Popped) + 3][2] /\ flag' = stack[Len(Popped) + 5][2]
    /\ stack' = SubSeq(stack, Len(Popped) + 8, Len(stack))
    /\ UNCHANGED <<idt, pic, events>>

\* The firmware starts the machine again.
Restart ==
    /\ at.name = "reset" /\ at' = Code("remap", 0)
    /\ flag' = FALSE /\ stack' = <<>>
    /\ regs' = [r \in Registers |-> <<r, "thread">>]
    /\ idt' = <<>> /\ offsets' = <<8, 112>>
    /\ requested' = {} /\ inService' = {}
    /\ UNCHANGED <<unmasked, events>>

Boot    == pic_remap \/ init_idt \/ sti
Handler == isr_stub \/ kernel_panic \/ irq_handler \/ irq_common

Next ==
    \/ Boot \/ Handler \/ Restart
    \/ \E v \in Exceptions : Exception(v)
    \/ \E n \in Irqs : Request(n) \/ Acknowledge(n)

\* The processor goes on, and takes interrupts when it may. Nobody has to
\* request or to raise any.
Spec == /\ Init /\ [][Next]_vars
        /\ WF_vars(Boot \/ Handler \/ Restart)
        /\ WF_vars(\E n \in Irqs : Acknowledge(n))
=============================================================================
