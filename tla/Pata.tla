-------------------------------- MODULE Pata --------------------------------
(***************************************************************************)
(* The disk driver kernel/drivers/disk/pata/pata.c, which polls, and the   *)
(* drive behind its registers. The drive works on its own while it is      *)
(* busy, and ignores commands then. It may be absent, and it may refuse    *)
(* IDENTIFY and some sectors; the driver never looks at the error bit.     *)
(***************************************************************************)
EXTENDS Integers

CONSTANTS
    Radix,     \* values of an address register, 256
    TopRadix,  \* values of the address bits in the drive register, 16
    Lbas,      \* sectors callers name
    BadSectors,\* those the drive may report an error for
    Values,    \* what a sector can hold
    Blank

\* Callers name sectors by 32 bits, of which the registers take 28: "disk clear"
\* and "disk dump" name what the user types.
ASSUME AddressAssumption ==
    /\ Radix \in Nat \ {0} /\ TopRadix \in Nat \ {0}
    /\ Lbas \subseteq Nat
    /\ Blank \in Values

VARIABLES
    pc,      \* where the driver is
    call,    \* its arguments
    got,     \* what the last read put into the buffer of its caller
    regs,    \* the address registers
    drive,   \* what the drive does
    buf,     \* its sector buffer
    sectors  \* what later reads of it return

vars == <<pc, call, got, regs, drive, buf, sectors>>

Calls == [op : {"none", "identify", "read", "write"}, lba : Lbas \cup {0}, value : Values]
NoCall == [op |-> "none", lba |-> 0, value |-> Blank]

Busy  == drive \in {"identifying", "reading", "preparing", "writing", "flushing"}
Ready == drive \in {"sends", "receives"}     \* DRQ

\* For a moment after a command neither BSY nor DRQ is set, although a drive
\* that is there shows that it is powered.
Told  == drive \in {"toldIdentify", "toldRead", "toldWrite"}

\* The sector that a number means to the drive.
Sector(lba) == lba % (Radix * Radix * Radix * TopRadix)
Sectors == {Sector(l) : l \in Lbas}

\* Fault: line 46 without its mask, so that bits 28 to 31 get into the others.
DigitsUncut(lba) == [low |-> lba % Radix, mid |-> (lba \div Radix) % Radix,
                     high |-> (lba \div (Radix * Radix)) % Radix,
                     top |-> lba \div (Radix * Radix * Radix)]

\* The registers as lines 46-51 and 63-68 set them, and the sector they name.
Digits(lba) == [low |-> lba % Radix, mid |-> (lba \div Radix) % Radix,
                high |-> (lba \div (Radix * Radix)) % Radix,
                top |-> (lba \div (Radix * Radix * Radix)) % TopRadix]
Addressed == regs.low + Radix * (regs.mid + Radix * (regs.high + Radix * regs.top))

Init ==
    /\ pc = "idle" /\ call = NoCall /\ got = Blank
    /\ regs = [low |-> 0, mid |-> 0, high |-> 0, top |-> 0]
    /\ drive \in {"idle", "absent"} /\ buf = Blank
    /\ sectors = [s \in Sectors |-> Blank]

-----------------------------------------------------------------------------
(* The driver.                                                              *)

\* A drive accepts a command only when it is not busy, and an absent one never.
\* What it had still to send is lost.
Command(what) == drive' = IF Busy \/ drive = "absent" THEN drive ELSE what

\* The command is given without a wait; a status of 0 after it means that there
\* is no drive.
pata_identify ==
    /\ pc = "idle"
    /\ regs' = [low |-> 0, mid |-> 0, high |-> 0, top |-> 0]
    /\ Command("toldIdentify")
    /\ IF drive = "absent" THEN UNCHANGED <<pc, call>>
       ELSE pc' = "bsy" /\ call' = [NoCall EXCEPT !.op = "identify"]
    /\ UNCHANGED <<got, buf, sectors>>

\* The first wait of pata_read_sector and pata_write_sector, and what is set then.
\* After identify the drive may still be busy, or have data nobody has taken.
Program(op, lba, value, what) ==
    /\ pc = "idle" /\ ~Busy
    /\ regs' = Digits(lba)
    /\ Command(what)
    /\ pc' = "bsy" /\ call' = [op |-> op, lba |-> lba, value |-> value]
    /\ UNCHANGED <<got, buf, sectors>>

pata_read_sector(lba) == Program("read", lba, Blank, "toldRead")
pata_write_sector(lba, value) == Program("write", lba, value, "toldWrite")

\* After this wait identify does not ask for DRQ as the others do.
pata_wait_bsy ==
    /\ pc = "bsy" /\ ~Busy
    /\ pc' = IF call.op = "identify" THEN "data" ELSE "drq"
    /\ UNCHANGED <<call, got, regs, drive, buf, sectors>>

\* Fault: the drive is not asked whether it has the data.
no_wait_drq ==
    /\ pc = "drq" /\ pc' = "data"
    /\ UNCHANGED <<call, got, regs, drive, buf, sectors>>

\* One round of the loop, which asks for nothing but DRQ.
pata_wait_drq ==
    /\ pc = "drq"
    /\ pc' = IF Ready THEN "data" ELSE "drq"
    /\ UNCHANGED <<call, got, regs, drive, buf, sectors>>

\* The caller's buffer takes the sector.
insw_sector ==
    /\ pc = "data" /\ call.op = "read"
    /\ got' = buf /\ drive' = "idle"
    /\ pc' = "idle" /\ call' = NoCall
    /\ UNCHANGED <<regs, buf, sectors>>

\* That of identify is no sector, and may be whatever the port held: 256 words are
\* taken, ready or not, which outlasts the moment in which the drive shows nothing.
insw_identity ==
    /\ pc = "data" /\ call.op = "identify"
    /\ drive' = CASE drive = "sends" -> "idle"
                  [] drive = "toldIdentify" -> "identifying"
                  [] OTHER -> drive
    /\ pc' = "idle" /\ call' = NoCall
    /\ UNCHANGED <<got, regs, buf, sectors>>

\* With the last word the drive is busy.
outsw ==
    /\ pc = "data" /\ call.op = "write"
    /\ buf' = call.value /\ drive' = "writing"
    /\ pc' = "flush"
    /\ UNCHANGED <<call, got, regs, sectors>>

\* Fault: the command is given until the drive is seen idle after it.
flush_until_idle ==
    /\ pc = "flush"
    /\ Command("flushing")
    /\ pc' = IF drive' = "idle" THEN "last" ELSE "flush"
    /\ UNCHANGED <<call, got, regs, buf, sectors>>

\* The command 0xE7 is given without a wait.
FlushCache ==
    /\ pc = "flush"
    /\ Command("flushing")
    /\ pc' = "last"
    /\ UNCHANGED <<call, got, regs, buf, sectors>>

\* Fault: the write returns without the last wait.
return_at_once ==
    /\ pc = "last" /\ pc' = "idle" /\ call' = NoCall
    /\ UNCHANGED <<got, regs, drive, buf, sectors>>

WaitFlushed ==
    /\ pc = "last" /\ ~Busy
    /\ pc' = "idle" /\ call' = NoCall
    /\ UNCHANGED <<got, regs, drive, buf, sectors>>

-----------------------------------------------------------------------------
(* The drive.                                                               *)

DriveStep ==
    /\ Busy \/ Told
    /\ drive' = CASE drive = "toldIdentify" -> "identifying"
                  [] drive = "toldRead" -> "reading"
                  [] drive = "toldWrite" -> "preparing"
                  [] drive \in {"identifying", "reading"} -> "sends"
                  [] drive = "preparing" -> "receives"
                  [] OTHER -> "idle"
    /\ buf' = IF drive = "reading" THEN sectors[Addressed] ELSE buf
    /\ sectors' = IF drive = "writing" THEN [sectors EXCEPT ![Addressed] = buf] ELSE sectors
    /\ UNCHANGED <<pc, call, got, regs>>

\* Instead of the data, or of DRQ for a write, the drive reports an error.
DriveFails ==
    /\ \/ drive = "identifying"
       \/ drive \in {"reading", "preparing"} /\ Addressed \in BadSectors
    /\ drive' = "failed"
    /\ UNCHANGED <<pc, call, got, regs, buf, sectors>>

Call == \/ pata_identify
        \/ \E l \in Lbas : pata_read_sector(l) \/ \E v \in Values : pata_write_sector(l, v)

Step == \/ pata_wait_bsy \/ pata_wait_drq \/ insw_sector \/ insw_identity
        \/ outsw \/ FlushCache \/ WaitFlushed

Next == Call \/ Step \/ DriveStep \/ DriveFails

\* The kernel's one thread runs on, and the drive finishes what it has begun,
\* one way or the other.
Spec == Init /\ [][Next]_vars /\ WF_vars(Step) /\ WF_vars(DriveStep \/ DriveFails)

-----------------------------------------------------------------------------

Registers == [low : 0 .. Radix - 1, mid : 0 .. Radix - 1, high : 0 .. Radix - 1,
              top : 0 .. TopRadix - 1]

TypeOK ==
    /\ pc \in {"idle", "bsy", "drq", "data", "flush", "last"} /\ call \in Calls
    /\ got \in Values /\ buf \in Values /\ regs \in Registers
    /\ drive \in {"idle", "toldIdentify", "identifying", "toldRead", "toldWrite", "reading",
                "sends", "preparing", "receives", "writing", "flushing", "failed", "absent"}
    /\ sectors \in [Sectors -> Values]

\* A sector is read from the data port only while the drive has one to send, and
\* written only while it wants one (57, 74): the driver tests DRQ, and neither for
\* an error nor which of the two it is, and identify may leave the drive with data
\* of its own. Identify itself asks for nothing of the kind (34-37), so of what it
\* returns nothing is claimed.
DataWhenReady ==
    pc = "data" => \/ call.op = "identify"
                   \/ call.op = "read" /\ drive = "sends"
                   \/ call.op = "write" /\ drive = "receives"

\* A call to the driver returns, unless it waits for the DRQ of a drive that is
\* not there or has refused the sector (10-13); no other wait is endless.
CallReturns ==
    pc # "idle" ~> pc = "idle" \/ (pc = "drq" /\ drive \in {"failed", "absent"})

\* Seen by its callers a sector is read and written in one step, although the drive
\* may still be writing, and refuse the flush, when line 76 gives it. A refused
\* call changes nothing and never answers. Numbers above 2^28 mean lower sectors.
Named(c) == [c EXCEPT !.lba = Sector(@)]
Store == INSTANCE SectorStore WITH
             Lbas <- Sectors, Calls <- {Named(c) : c \in Calls}, asked <- Named(call)
ImplementsSectorStore == Store!Spec

=============================================================================
