------------------------ MODULE InterruptsProperties ------------------------
(***************************************************************************)
(* What the interrupted code, the handlers and the devices rely on.        *)
(***************************************************************************)
EXTENDS Interrupts, FiniteSets

Names == {"remap", "gates", "sti", "thread", "stub", "handler", "pop", "halted", "reset"}

\* A register holds its own old value or what a handler put there, and the
\* stack at most one frame for each interrupt that does not return, and one.
TypeOK ==
    /\ at.name \in Names /\ at.vector \in 0 .. 47 /\ flag \in BOOLEAN
    /\ \A r \in Registers : regs[r] \in {<<r, "thread">>, <<r, "handler">>}
    /\ Len(stack) <= Len(registers_t) * (ExceptionLimit + 1)
    /\ unmasked \subseteq Irqs \cup {2} /\ requested \subseteq Irqs
    /\ inService \subseteq Irqs \cup {2}
    /\ raised \in 0 .. ExceptionLimit /\ asked \in 0 .. RequestLimit

\* What a handler is given is a registers_t with the number of what happened,
\* the error code if there is one, and each register under its own name: the
\* pushes of the processor, of the right stub and of isr_common add up to the
\* structure of idt.h for all vectors, also for one met in a handler. That a gate
\* leads to the stub of its vector (idt.c:92-140) is not looked at: here it does.
FrameSound ==
    at.name = "handler" =>
        /\ \A r \in Registers : Word(r) = regs[r]
        /\ Word("int_no") = <<"number", at.vector>>
        /\ Word("err_code") = <<"error", IF at.vector \in WithErrorCode THEN at.vector ELSE -1>>
        /\ \A f \in {"rip", "cs", "rflags", "rsp", "ss"} : Word(f)[1] = f
        /\ (at.vector < 32) = (idt[at.vector].stub = "isr")

\* The thread never notices an interrupt: whenever it runs it has its registers
\* and its stack, interrupts are on, and none is left in service, be it
\* spurious or from the second controller (idt.asm:86-102, pic.c:45-50).
ThreadUndisturbed ==
    at.name = "thread" =>
        /\ \A r \in Registers : regs[r] = <<r, "thread">>
        /\ stack = <<>> /\ flag /\ inService = {}

\* The end of interrupt, which does not say of which (0x20), only ever ends the
\* service of the line that is being handled, although a spurious interrupt is
\* acknowledged like a real one.
EndsOwnService ==
    [][at.name = "handler" => inService \ inService' \subseteq {at.vector - 32, Master(at.vector - 32)}]_vars

\* A request on a line that the firmware left open is taken, or the machine
\* panics or is reset.
InterruptsServed ==
    \A n \in Irqs : n \in requested /\ Open(n) ~> n \notin requested \/ at.name = "halted"
=============================================================================
