----------------------------- MODULE PataProofs -----------------------------
(***************************************************************************)
(* Theorems about pata.c for every width of the address registers, every   *)
(* set of sectors, and every drive: quick, slow, failing or absent.        *)
(***************************************************************************)
EXTENDS Pata, NumberLemmas, TLAPS

-----------------------------------------------------------------------------
(* The address registers.                                                   *)

\* What the driver writes to the registers fits them.
LEMMA DigitsFit == \A lba \in Lbas : lba \in Nat /\ Digits(lba) \in Registers
<1>1. /\ Radix \in Nat \ {0} /\ TopRadix \in Nat \ {0}
      /\ Radix * Radix \in Nat \ {0} /\ Radix * Radix * Radix \in Nat \ {0}
  <2>1. Radix \in Nat \ {0} /\ TopRadix \in Nat \ {0}
    BY AddressAssumption
  <2>2. Radix * Radix \in Nat \ {0}
    BY <2>1
  <2> QED BY <2>1, <2>2
<1>2. TAKE lba \in Lbas
<1>3. lba \in Nat
  BY AddressAssumption
<1>4. /\ lba \div Radix \in Nat /\ lba \div (Radix * Radix) \in Nat
      /\ lba \div (Radix * Radix * Radix) \in Nat /\ lba % Radix \in 0 .. Radix - 1
  BY <1>1, <1>3, DivMod
<1>5. /\ (lba \div Radix) % Radix \in 0 .. Radix - 1
      /\ (lba \div (Radix * Radix)) % Radix \in 0 .. Radix - 1
      /\ (lba \div (Radix * Radix * Radix)) % TopRadix \in 0 .. TopRadix - 1
  BY <1>1, <1>4, DivMod
<1> QED BY <1>3, <1>4, <1>5 DEF Digits, Registers

\* The sector the registers name is the one the caller's number means, cut to the
\* four digits of 8, 8, 8 and 4 bits that there is room for.
LEMMA DigitsName == \A lba \in Lbas : regs = Digits(lba) => Addressed = Sector(lba)
<1>1. /\ Radix \in Nat \ {0} /\ TopRadix \in Nat \ {0}
      /\ Radix * Radix \in Nat \ {0} /\ Radix * Radix * Radix \in Nat \ {0}
  <2>1. Radix \in Nat \ {0} /\ TopRadix \in Nat \ {0}
    BY AddressAssumption
  <2>2. Radix * Radix \in Nat \ {0}
    BY <2>1
  <2> QED BY <2>1, <2>2
<1>2. SUFFICES ASSUME NEW lba \in Lbas, regs = Digits(lba) PROVE Addressed = Sector(lba)
  OBVIOUS
<1> DEFINE one == (lba \div Radix) % Radix
           two == (lba \div (Radix * Radix)) % Radix
           three == (lba \div (Radix * Radix * Radix)) % TopRadix
<1>3. lba \in Nat
  BY DigitsFit
<1>4. lba % (Radix * Radix) = Radix * one + (lba % Radix)
  BY <1>1, <1>3, DivTwice
<1>5. lba % (Radix * Radix * Radix) = (Radix * Radix) * two + (lba % (Radix * Radix))
  BY <1>1, <1>3, DivTwice
<1>6. Sector(lba) = (Radix * Radix * Radix) * three + (lba % (Radix * Radix * Radix))
  BY <1>1, <1>3, DivTwice DEF Sector
<1>7. one \in Nat /\ two \in Nat /\ three \in Nat /\ lba % Radix \in Nat
  BY <1>1, DigitsFit DEF Digits, Registers
<1>8. Addressed = (lba % Radix) + Radix * (one + Radix * (two + Radix * three))
  BY <1>2 DEF Digits, Addressed
<1> HIDE DEF one, two, three
<1>9. Addressed = (lba % Radix) + (Radix * one
                     + ((Radix * Radix) * two + (Radix * Radix * Radix) * three))
  <2>1. /\ Radix * (two + Radix * three) = Radix * two + (Radix * Radix) * three
        /\ Radix * (one + Radix * (two + Radix * three))
             = Radix * one + ((Radix * Radix) * two + (Radix * Radix * Radix) * three)
    BY <1>1, <1>7
  <2> QED BY <1>8, <2>1
<1> DEFINE w == lba % Radix
           x == Radix * one
           y == (Radix * Radix) * two
           z == (Radix * Radix * Radix) * three
<1>10. w \in Nat /\ x \in Nat /\ y \in Nat /\ z \in Nat
  BY <1>1, <1>7
<1>11. Sector(lba) = z + (y + (x + w)) /\ Addressed = w + (x + (y + z))
  BY <1>4, <1>5, <1>6, <1>9
<1> HIDE DEF w, x, y, z
<1> QED BY <1>10, <1>11

-----------------------------------------------------------------------------
(* The inductive invariant: what the drive may be doing at each place of    *)
(* the driver. The drive is never asked what command it works on, so the    *)
(* driver must always be right about it.                                    *)

AtRest == pc = "idle" <=> call.op = "none"

\* What a call of identify leaves the drive with, which takes what it is sent
\* without asking whether it is ready.
Left == {"identifying", "sends", "failed", "idle", "absent"}

Resting ==
    call.op = "none" => call = NoCall /\ drive \in Left

Identifying ==
    call.op = "identify" =>
        pc \in {"bsy", "data"} /\ drive \in {"toldIdentify", "identifying", "sends", "failed"}

\* What the drive has fetched is the sector of the call.
Reading ==
    call.op = "read" =>
        /\ pc \in {"bsy", "drq", "data"}
        /\ call.lba \in Lbas /\ regs = Digits(call.lba)
        /\ drive \in {"toldRead", "reading", "sends", "failed", "absent"}
        /\ pc = "data" => drive = "sends"
        /\ drive = "sends" => buf = sectors[Sector(call.lba)]

\* Until the drive has stored the sector, the data of the call is in its buffer.
Writing ==
    call.op = "write" =>
        /\ pc \in {"bsy", "drq", "data", "flush", "last"}
        /\ call.lba \in Lbas /\ regs = Digits(call.lba)
        /\ pc \in {"bsy", "drq"} => drive \in {"toldWrite", "preparing", "receives", "failed", "absent"}
        /\ pc = "data" => drive = "receives"
        /\ pc = "flush" => drive \in {"writing", "idle"}
        /\ pc = "last" => drive \in {"writing", "flushing", "idle"}
        /\ drive = "writing" => buf = call.value
        /\ pc \in {"flush", "last"} /\ drive # "writing" => sectors[Sector(call.lba)] = call.value

IInv == TypeOK /\ AtRest /\ Resting /\ Identifying /\ Reading /\ Writing

\* The registers of identify, and those before any command.
LEMMA ZeroRegisters == [low |-> 0, mid |-> 0, high |-> 0, top |-> 0] \in Registers
BY AddressAssumption DEF Registers

\* No call is one of the calls.
LEMMA NoCallType == NoCall \in Calls /\ NoCall.op = "none"
BY AddressAssumption DEF Calls, NoCall

\* The invariant holds at first.
LEMMA InitIInv == Init => IInv
<1> SUFFICES ASSUME Init PROVE IInv
  OBVIOUS
<1>1. TypeOK
  BY ZeroRegisters, NoCallType, AddressAssumption DEF Init, TypeOK
<1> QED BY <1>1, NoCallType DEF Init, IInv, AtRest, Resting, Identifying, Reading, Writing, Left

\* Giving a command to a drive that may still work on the last identify (19-30).
LEMMA IdentifyStep == ASSUME IInv, pata_identify PROVE IInv'
<1> USE DEF IInv, TypeOK
<1>1. call.op = "none" /\ call = NoCall /\ drive \in Left
  BY DEF pata_identify, AtRest, Resting
<1>2. TypeOK' /\ drive' = IF drive \in {"absent", "identifying"} THEN drive ELSE "toldIdentify"
  <2>1. drive' = IF drive \in {"absent", "identifying"} THEN drive ELSE "toldIdentify"
    BY <1>1 DEF pata_identify, Command, Busy, Left
  <2>2. call' \in Calls /\ pc' \in {"idle", "bsy"}
    BY <1>1, NoCallType DEF pata_identify, Calls, NoCall
  <2> QED BY <1>1, <2>1, <2>2, ZeroRegisters DEF pata_identify
<1> QED BY <1>1, <1>2, NoCallType
        DEF pata_identify, AtRest, Resting, Identifying, Reading, Writing, NoCall, Left

\* The same for a sector (46-54, 63-71).
LEMMA ProgramStep ==
    ASSUME IInv, NEW lba \in Lbas, NEW v \in Values,
           \/ Program("read", lba, v, "toldRead") \/ Program("write", lba, v, "toldWrite")
    PROVE  IInv'
<1> USE DEF IInv, TypeOK
<1>1. call.op = "none" /\ call = NoCall /\ drive \in Left \ {"identifying"}
  BY DEF Program, AtRest, Resting, Busy
<1>2. call' \in Calls /\ call'.lba = lba /\ call'.op \in {"read", "write"}
  BY DEF Program, Calls
<1>3. drive' = IF drive = "absent" THEN "absent"
               ELSE IF call'.op = "read" THEN "toldRead" ELSE "toldWrite"
  BY <1>1 DEF Program, Command, Busy, Left
<1>4. TypeOK'
  BY <1>1, <1>2, <1>3, DigitsFit DEF Program
<1> QED BY <1>1, <1>2, <1>3, <1>4
        DEF Program, AtRest, Resting, Identifying, Reading, Writing

\* The driver moves on: it waits, moves data, flushes (10-19, 34-37, 57, 74-77).
LEMMA DriverStep == ASSUME IInv, Step PROVE IInv'
<1> USE DEF IInv, TypeOK
<1>1. CASE pata_wait_bsy
  <2>1. TypeOK'
    BY <1>1 DEF pata_wait_bsy
  <2> QED BY <1>1, <2>1
          DEF pata_wait_bsy, Busy, AtRest, Resting, Identifying, Reading, Writing
<1>2. CASE pata_wait_drq
  <2>1. TypeOK'
    BY <1>2 DEF pata_wait_drq
  <2> QED BY <1>2, <2>1
          DEF pata_wait_drq, Ready, AtRest, Resting, Identifying, Reading, Writing
<1>3. CASE insw_sector
  <2>1. TypeOK'
    BY <1>3, NoCallType DEF insw_sector
  <2> QED BY <1>3, <2>1, NoCallType
          DEF insw_sector, AtRest, Resting, Identifying, Reading, Writing, Left
<1>7. CASE insw_identity
  <2>1. drive \in {"toldIdentify", "identifying", "sends", "failed"}
    BY <1>7 DEF insw_identity, Identifying
  <2>2. drive' \in {"identifying", "failed", "idle"} /\ call' = NoCall /\ pc' = "idle"
        /\ UNCHANGED <<got, regs, buf, sectors>>
    BY <1>7, <2>1 DEF insw_identity
  <2>3. TypeOK'
    BY <2>2, NoCallType
  <2> QED BY <2>2, <2>3, NoCallType
          DEF AtRest, Resting, Identifying, Reading, Writing, Left
<1>4. CASE outsw
  <2>1. call.value \in Values
    BY DEF Calls
  <2>2. TypeOK'
    BY <1>4, <2>1 DEF outsw
  <2> QED BY <1>4, <2>2 DEF outsw, AtRest, Resting, Identifying, Reading, Writing
<1>5. CASE FlushCache
  <2>1. call.op = "write" /\ drive \in {"writing", "idle"}
    BY <1>5
       DEF FlushCache, AtRest, Identifying, Reading, Writing, Calls
  <2>2. drive' = IF drive = "writing" THEN "writing" ELSE "flushing"
    BY <1>5, <2>1 DEF FlushCache, Command, Busy
  <2>3. TypeOK'
    BY <1>5, <2>1, <2>2 DEF FlushCache
  <2> QED BY <1>5, <2>1, <2>2, <2>3
          DEF FlushCache, AtRest, Resting, Identifying, Reading, Writing
<1>6. CASE WaitFlushed
  <2>1. call.op = "write" /\ drive = "idle"
    BY <1>6
       DEF WaitFlushed, AtRest, Identifying, Reading, Writing, Calls, Busy
  <2>2. TypeOK'
    BY <1>6, NoCallType DEF WaitFlushed
  <2> QED BY <1>6, <2>1, <2>2, NoCallType
          DEF WaitFlushed, AtRest, Resting, Identifying, Reading, Writing, Left
<1> QED BY <1>1, <1>2, <1>3, <1>4, <1>5, <1>6, <1>7 DEF Step

\* While the drive stores a sector, it is the one of the call, and so is the data.
LEMMA StoredIsCalled ==
    ASSUME IInv, drive = "writing"
    PROVE  /\ call.op = "write" /\ pc \in {"flush", "last"} /\ call.lba \in Lbas
           /\ Addressed = Sector(call.lba) /\ Sector(call.lba) \in Sectors
           /\ buf = call.value /\ call.value \in Values
<1> USE DEF IInv, TypeOK
<1>1. call.op = "write"
  BY DEF Calls, Resting, Identifying, Reading, Left
<1>2. pc \in {"flush", "last"} /\ call.lba \in Lbas /\ regs = Digits(call.lba) /\ buf = call.value
  BY <1>1 DEF Writing
<1> QED BY <1>1, <1>2, DigitsName DEF Calls, Sectors

\* While it fetches one, it is the one of the call.
LEMMA FetchedIsCalled ==
    ASSUME IInv, drive = "reading"
    PROVE  /\ call.op = "read" /\ pc \in {"bsy", "drq"} /\ call.lba \in Lbas
           /\ Addressed = Sector(call.lba) /\ Sector(call.lba) \in Sectors
<1> USE DEF IInv, TypeOK
<1>1. call.op = "read"
  BY DEF Calls, Resting, Identifying, Writing, Left
<1>2. pc \in {"bsy", "drq"} /\ call.lba \in Lbas /\ regs = Digits(call.lba)
  BY <1>1 DEF Reading
<1> QED BY <1>1, <1>2, DigitsName DEF Sectors

\* The drive works on.
LEMMA DriveStepStep == ASSUME IInv, DriveStep PROVE IInv'
<1> USE DEF IInv, TypeOK
<1>1. CASE drive = "writing"
  <2>1. /\ sectors' = [sectors EXCEPT ![Sector(call.lba)] = call.value]
        /\ drive' = "idle" /\ UNCHANGED <<pc, call, got, regs, buf>>
    BY <1>1, StoredIsCalled DEF DriveStep
  <2>2. TypeOK'
    BY <1>1, <2>1, StoredIsCalled
  <2>3. sectors'[Sector(call.lba)] = call.value
    BY <1>1, <2>1, StoredIsCalled
  <2> QED BY <1>1, <2>1, <2>2, <2>3, StoredIsCalled
          DEF AtRest, Resting, Identifying, Reading, Writing
<1>2. CASE drive = "reading"
  <2>1. /\ buf' = sectors[Sector(call.lba)] /\ drive' = "sends"
        /\ UNCHANGED <<pc, call, got, regs, sectors>>
    BY <1>2, FetchedIsCalled DEF DriveStep
  <2>2. TypeOK'
    BY <1>2, <2>1, FetchedIsCalled
  <2> QED BY <1>2, <2>1, <2>2, FetchedIsCalled
          DEF AtRest, Resting, Identifying, Reading, Writing
<1>3. CASE drive \in {"toldIdentify", "identifying", "toldRead", "toldWrite", "preparing", "flushing"}
  <2>1. /\ UNCHANGED <<pc, call, got, regs, buf, sectors>>
        /\ drive' = CASE drive = "toldIdentify" -> "identifying"
                      [] drive = "toldRead" -> "reading"
                      [] drive = "toldWrite" -> "preparing"
                      [] drive = "identifying" -> "sends"
                      [] drive = "preparing" -> "receives"
                      [] drive = "flushing" -> "idle"
    BY <1>3 DEF DriveStep
  <2>2. TypeOK'
    BY <1>3, <2>1
  <2> QED BY <1>3, <2>1, <2>2
          DEF AtRest, Resting, Identifying, Reading, Writing, Calls, Left
<1> QED BY <1>1, <1>2, <1>3 DEF DriveStep, Busy, Told

\* The drive refuses the sector, or to tell what it is.
LEMMA DriveFailsStep == ASSUME IInv, DriveFails PROVE IInv'
<1> USE DEF IInv, TypeOK
<1>1. TypeOK'
  BY DEF DriveFails
<1> QED BY <1>1 DEF DriveFails, AtRest, Resting, Identifying, Reading, Writing, Left

\* Every step of the driver and of the drive preserves the invariant.
LEMMA NextIInv == IInv /\ [Next]_vars => IInv'
<1> SUFFICES ASSUME IInv, [Next]_vars PROVE IInv'
  OBVIOUS
<1>1. CASE Call
  BY <1>1, IdentifyStep, ProgramStep, AddressAssumption
     DEF Call, pata_read_sector, pata_write_sector
<1>2. CASE UNCHANGED vars
  BY <1>2
     DEF vars, IInv, TypeOK, AtRest, Resting, Identifying, Reading, Writing
<1> QED BY <1>1, <1>2, DriverStep, DriveStepStep, DriveFailsStep DEF Next

\* Every reachable state satisfies the inductive invariant.
THEOREM Inductive == Spec => []IInv
BY InitIInv, NextIInv, PTL DEF Spec

-----------------------------------------------------------------------------
(* What follows from it.                                                    *)

\* The four registers get values that fit them, whatever sector a caller of
\* pata_read_sector or pata_write_sector names (46-51, 63-68).
THEOREM TypeCorrect == Spec => []TypeOK
<1>1. IInv => TypeOK
  BY DEF IInv
<1> QED BY <1>1, Inductive, PTL

\* Sectors are moved through the data port only while the drive has, or wants, the
\* one of the call (57, 74), although the driver checks neither which of the two it is
\* nor for errors, and whatever identify, which checks nothing, left in the drive.
THEOREM DataOnlyWhenReady == Spec => []DataWhenReady
<1>1. IInv => DataWhenReady
  BY DEF IInv, TypeOK, AtRest, Reading, Writing, Calls, DataWhenReady
<1> QED BY <1>1, Inductive, PTL

\* What the abstract disk is asked keeps operation and value, and names a sector.
LEMMA NamedCall ==
    /\ Named(NoCall) = NoCall
    /\ \A c \in Calls : /\ Named(c).op = c.op /\ Named(c).value = c.value
                        /\ Named(c).lba = Sector(c.lba)
<1>1. Sector(0) = 0
  <2> DEFINE size == Radix * Radix * Radix * TopRadix
  <2>1. size \in Nat \ {0}
    <3>1. Radix \in Nat \ {0} /\ TopRadix \in Nat \ {0}
      BY AddressAssumption
    <3>2. Radix * Radix \in Nat \ {0}
      BY <3>1
    <3>3. Radix * Radix * Radix \in Nat \ {0}
      BY <3>1, <3>2
    <3> QED BY <3>1, <3>3
  <2> HIDE DEF size
  <2>2. 0 % size = 0
    BY <2>1
  <2> QED BY <2>2 DEF Sector, size
<1> QED BY <1>1 DEF Named, NoCall, Calls

\* A step of the driver or of the drive is one step of the abstract disk, or none.
LEMMA StoreStep == IInv /\ [Next]_vars => [Store!Next]_<<sectors, Named(call), got>>
<1> SUFFICES ASSUME IInv, Next PROVE [Store!Next]_<<sectors, Named(call), got>>
  BY DEF vars, Named
<1> USE DEF IInv, TypeOK
<1> DEFINE asked == Named(call)
<1>0. /\ asked.op = call.op /\ asked.value = call.value /\ asked.lba = Sector(call.lba)
      /\ call = NoCall => asked = NoCall
      /\ call # NoCall => call.op # "none"
  BY NamedCall DEF AtRest, Resting
<1>1. CASE Call
  <2>1. UNCHANGED call \/ call' \in Calls
    BY <1>1, NextIInv DEF Next
  <2>2. call = NoCall \/ UNCHANGED call
    BY <1>1 DEF Call, pata_identify, pata_read_sector, pata_write_sector, Program,
                AtRest, Resting
  <2>3. UNCHANGED <<sectors, got>>
    BY <1>1 DEF Call, pata_identify, pata_read_sector, pata_write_sector, Program
  <2>4. CASE UNCHANGED call
    BY <2>3, <2>4 DEF Named
  <2>5. CASE call = NoCall /\ call' \in Calls
    <3>1. asked = NoCall /\ asked' \in {Named(c) : c \in Calls}
      BY <2>5, NamedCall
    <3> QED BY <2>3, <3>1 DEF Store!Next, Store!Ask
  <2> QED BY <2>1, <2>2, <2>4, <2>5
<1>2. CASE insw_sector \/ insw_identity
  <2>1. call.op \in {"identify", "read"} /\ asked # NoCall /\ asked' = NoCall
    BY <1>2, <1>0, NoCallType, NamedCall DEF insw_sector, insw_identity
  <2>2. call.op = "read" => buf = sectors[Sector(call.lba)] /\ got' = buf
    BY <1>2 DEF insw_sector, insw_identity, Reading
  <2>3. /\ UNCHANGED sectors
        /\ call.op = "identify" => got' = got
    BY <1>2 DEF insw_sector, insw_identity
  <2>4. Store!Answer
    BY <1>0, <2>1, <2>2, <2>3 DEF Store!Answer
  <2> QED BY <2>4 DEF Store!Next
<1>3. CASE WaitFlushed
  <2>1. call.op = "write" /\ drive = "idle"
    BY <1>3
       DEF WaitFlushed, AtRest, Identifying, Reading, Writing, Calls, Busy
  <2>2. /\ sectors[Sector(call.lba)] = call.value /\ asked # NoCall /\ asked' = NoCall
        /\ UNCHANGED <<sectors, got>>
    BY <1>0, <1>3, <2>1, NoCallType, NamedCall DEF WaitFlushed, Writing
  <2>3. Store!Answer
    BY <1>0, <2>1, <2>2 DEF Store!Answer
  <2> QED BY <2>3 DEF Store!Next
<1>4. CASE DriveStep
  <2>1. CASE drive = "writing"
    <3>1. /\ sectors' = [sectors EXCEPT ![Sector(call.lba)] = call.value]
          /\ call.op = "write" /\ UNCHANGED <<call, got>>
      BY <1>4, <2>1, StoredIsCalled DEF DriveStep
    <3>2. UNCHANGED asked
      BY <3>1 DEF Named
    <3>3. Store!Store
      BY <1>0, <3>1, <3>2 DEF Store!Store
    <3> QED BY <3>3 DEF Store!Next
  <2> QED BY <1>4, <2>1 DEF DriveStep, Named
<1>5. CASE pata_wait_bsy \/ pata_wait_drq \/ outsw \/ FlushCache \/ DriveFails
  BY <1>5 DEF pata_wait_bsy, pata_wait_drq, outsw, FlushCache, DriveFails, Named
<1> QED BY <1>1, <1>2, <1>3, <1>4, <1>5 DEF Next, Step

\* The driver keeps the promise ChainFS relies on: a write has stored its sector
\* and no other one when it returns, even when the drive refuses the flush that
\* line 76 gives it while it is busy, and a read returns what is in the sector. The
\* sector is the number the caller gave, less what is above 28 bits.
THEOREM StoreImplemented == Spec => ImplementsSectorStore
<1>1. Init => Store!Init
  BY NamedCall DEF Init, Store!Init
<1> QED BY <1>1, Inductive, StoreStep, PTL DEF Spec, ImplementsSectorStore, Store!Spec

=============================================================================
