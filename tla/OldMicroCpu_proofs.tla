------------------------- MODULE OldMicroCpu_proofs -------------------------
(***************************************************************************)
(* Theorems about OldMicroCpu, for every width of a word, every program, any *)
(* number of instructions and any contents of registers and RAM.            *)
(***************************************************************************)
EXTENDS OldMicroCpu, Microcode_proofs

Fetching == {"FETCH", "FETCHM"}

\* How many cycles of an instruction are still to be skipped when one begins.
SkipsLeft ==
    LET short == ir.op \in Direct
        noread == ir.op \in FromImm \cup {"skip"}
    IN  CASE icycle = "READ"     -> IF short THEN 4 ELSE IF noread THEN 2 ELSE 0
          [] icycle = "READM"    -> IF short THEN 3 ELSE IF noread THEN 1 ELSE 0
          [] icycle = "EXECUTE"  -> IF short THEN 2 ELSE 0
          [] icycle = "EXECUTEM" -> IF short THEN 1 ELSE 0
          [] OTHER -> 0

\* The way of an instruction through the cycles.
Flow ==
    /\ ir # None => ended = "halt" \/ (ir \in Instrs /\ ir.op # "hlt")
    /\ icycle \notin Fetching => ir # None
    /\ skipcycle = SkipsLeft
    /\ skipcycle # 0 => phase = "RE" /\ vcycle = 0 /\ ~skip
    /\ skip => ended # "halt" /\ Row.skipc # "none" /\ icycle \notin Odd
    /\ count = MaxInstrs + 1 => ended = "halt"
    /\ ended = "halt" => icycle = "DECODE"

\* addhi shifts its immediate out of a word if it comes with bits too many:
\* neither the immediate nor what is on the bus before it does.
Shifted ==
    ir # None /\ ir.op = "addhi" =>
       /\ icycle \in {"DECODEM", "READ", "READM", "EXECUTE", "EXECUTEM"} => mdr = ir.imm
       /\ icycle \in {"READ", "READM"} => bus.op0 = 0
       /\ icycle \in {"EXECUTE", "EXECUTEM"} => bus.op0 < N \div Low

\* A change has reached the operands after one vcycle, the ALU's result after
\* two and the skip after three.
Settling ==
    /\ vcycle >= 1 =>
          /\ bus.op0 = Wired(Row.op0) /\ bus.op1 = Wired(Row.op1)
          /\ ir # None => bus.irimm = ir.imm
    /\ vcycle >= 2 => bus.aluout = ALU(Row.alu, bus.op0, bus.op1)
    /\ vcycle >= 3 => Settled
    /\ vcycle =< 3 /\ ended # "unstable"

TypeInv == TypeOK /\ Flow /\ Shifted

LEMMA NextCycles ==
    /\ NextCycle("FETCH") = "FETCHM" /\ NextCycle("FETCHM") = "DECODE"
    /\ NextCycle("DECODE") = "DECODEM" /\ NextCycle("DECODEM") = "READ"
    /\ NextCycle("READ") = "READM" /\ NextCycle("READM") = "EXECUTE"
    /\ NextCycle("EXECUTE") = "EXECUTEM" /\ NextCycle("EXECUTEM") = "FETCH"
    /\ Cycle = {"FETCH", "FETCHM", "DECODE", "DECODEM", "READ", "READM", "EXECUTE", "EXECUTEM"}
<1>1. /\ Cycles[1] = "FETCH" /\ Cycles[2] = "FETCHM" /\ Cycles[3] = "DECODE"
      /\ Cycles[4] = "DECODEM" /\ Cycles[5] = "READ" /\ Cycles[6] = "READM"
      /\ Cycles[7] = "EXECUTE" /\ Cycles[8] = "EXECUTEM"
  BY DEF Cycles
<1>2. ASSUME NEW k \in 1 .. 7
      PROVE  (CHOOSE n \in 1 .. 7 : Cycles[n] = Cycles[k]) = k
  <2>1. \A n \in 1 .. 7 : Cycles[n] = Cycles[k] => n = k
    BY <1>1
  <2> QED
    BY <2>1
<1>3. Cycle = {"FETCH", "FETCHM", "DECODE", "DECODEM", "READ", "READM", "EXECUTE", "EXECUTEM"}
  BY <1>1 DEF Cycle
<1>4. \A k \in 1 .. 7 : NextCycle(Cycles[k]) = Cycles[k + 1]
  BY <1>1, <1>2 DEF NextCycle
<1> QED
  BY <1>1, <1>3, <1>4 DEF NextCycle

LEMMA Bounds ==
    /\ MaxInstrs \in Nat /\ MaxVcycles \in Nat
    /\ 0 \in 0 .. MaxVcycles + 1 /\ 0 \in 0 .. MaxInstrs + 1 /\ 0 # MaxInstrs + 1
<1>1. MaxInstrs \in Nat /\ MaxVcycles \in Nat
  BY OldInitAssumption
<1> QED
  BY <1>1

LEMMA RoleTypes ==
    /\ 0 \in Regs /\ BP \in Regs /\ SP \in Regs /\ PC \in Regs
    /\ BP # 0 /\ SP # 0 /\ PC # 0
  BY WordOpsAssumption DEF Regs

LEMMA InstrTypes ==
    /\ Instrs \subseteq Instr /\ None \notin Instr /\ Plain("hlt") \in Instr
    /\ \A i \in Instrs : i.op = "addhi" => i.imm < N \div Low
<1>1. "hlt" \in Op /\ "EQ" \in Cond /\ 0 \in Word
  BY Sizes DEF Op, Cond
<1> QED
  BY <1>1, InstrsAssumption, RoleTypes DEF Plain, Instr

\* The row of a cycle that is not skipped.
LEMMA RunningRow ==
    ASSUME TypeInv, Running
    PROVE  /\ icycle \in Fetching => Row = FetchRow
           /\ icycle \notin Fetching => ir \in Instrs /\ ir \in Instr /\ ir.op \in Op \ {"hlt"}
           /\ icycle \in {"DECODE", "DECODEM"} => Row = DecodeRow(ir.op)
           /\ icycle \in {"READ", "READM"} => Row = ReadRow(ir.op) /\ ir.op \in ViaRead
           /\ icycle \in {"EXECUTE", "EXECUTEM"} => Row = ExecRow(ir.op) /\ ir.op \in ViaExec
           /\ Row \in RowFields
<1>1. icycle \in {"FETCH", "FETCHM", "DECODE", "DECODEM", "READ", "READM", "EXECUTE", "EXECUTEM"}
  BY NextCycles DEF TypeInv, TypeOK
<1>2. icycle \notin Fetching => ir \in Instrs /\ ir \in Instr /\ ir.op \in Op \ {"hlt"}
  BY InstrTypes DEF TypeInv, Flow, Running, Instr
<1>3. /\ icycle \in Fetching => Row = FetchRow
      /\ icycle \in {"DECODE", "DECODEM"} => Row = DecodeRow(ir.op)
      /\ icycle \in {"READ", "READM"} => Row = ReadRow(ir.op)
      /\ icycle \in {"EXECUTE", "EXECUTEM"} => Row = ExecRow(ir.op)
  BY DEF Row, Fetching
<1>4. icycle \in {"READ", "READM"} => ir.op \in ViaRead
  <2>1. icycle \in {"READ", "READM"} => ir.op \notin Direct \cup FromImm \cup {"skip"}
    <3>1. skipcycle = 0 /\ skipcycle = SkipsLeft
      BY DEF TypeInv, Flow, Running
    <3> QED
      BY <3>1 DEF SkipsLeft
  <2> QED
    BY <1>2, <2>1, Kinds DEF Fetching, ViaExec
<1>5. icycle \in {"EXECUTE", "EXECUTEM"} => ir.op \in ViaExec
  <2>1. icycle \in {"EXECUTE", "EXECUTEM"} => ir.op \notin Direct
    <3>1. skipcycle = 0 /\ skipcycle = SkipsLeft
      BY DEF TypeInv, Flow, Running
    <3> QED
      BY <3>1 DEF SkipsLeft
  <2> QED
    BY <1>2, <2>1, Kinds DEF Fetching
<1> QED
  BY <1>1, <1>2, <1>3, <1>4, <1>5, RowTypes DEF Fetching

LEMMA SelectedType ==
    ASSUME TypeInv, Running, NEW r \in {Row.r0, Row.r1, Row.ws}
    PROVE  Selected(r) \in Regs
<1>1. CASE icycle \in Fetching
  <2>1. r \in {"reg0", "pc"}
    BY <1>1, RunningRow DEF FetchRow, Blank
  <2> QED
    BY <2>1, RoleTypes DEF Selected
<1>2. CASE icycle \notin Fetching
  <2>1. r \in Selections /\ ir \in Instr
    BY <1>2, RunningRow DEF RowFields
  <2> QED
    BY <2>1, RoleTypes DEF Selections, Selected, Instr
<1> QED
  BY <1>1, <1>2

LEMMA WiredType ==
    ASSUME TypeInv, Running
    PROVE  Wired(Row.op0) \in Word /\ Wired(Row.op1) \in Word
<1>1. regs[Selected(Row.r0)] \in Word /\ regs[Selected(Row.r1)] \in Word /\ mdr \in Word
  BY SelectedType DEF TypeInv, TypeOK
<1>2. {Row.op0, Row.op1} \subseteq {"mdr", "regr0", "regr1"}
  BY RunningRow DEF RowFields
<1> QED
  BY <1>1, <1>2 DEF Wired

LEMMA ALUType ==
    ASSUME NEW x \in Word, NEW y \in Word, NEW f,
           f \in {"add", "sub", "and", "or", "shl", "shr", "addhi"},
           f = "addhi" => x < N \div Low
    PROVE  ALU(f, x, y) \in Word
<1>1. Sum(x, y) \in Word /\ Diff(x, y) \in Word
  BY SumType
<1>2. BitAnd(x, y) \in Word /\ BitOr(x, y) \in Word
  BY WordOpsAssumption
<1>3. y + 1 \in Nat
  BY DEF Word
<1>4. Shl(x, y + 1) \in Word /\ Shr(x, y + 1) \in Word
  BY <1>3, ShiftType
<1>5. f = "addhi" => AddHi(x, y) \in Word
  BY AddHiType
<1> QED
  BY <1>1, <1>2, <1>4, <1>5 DEF ALU

LEMMA AddhiRow ==
    ASSUME TypeInv, Running, Row.alu = "addhi"
    PROVE  icycle \in {"EXECUTE", "EXECUTEM"} /\ ir.op = "addhi"
<1>1. icycle \in {"FETCH", "FETCHM", "DECODE", "DECODEM", "READ", "READM", "EXECUTE", "EXECUTEM"}
  BY NextCycles DEF TypeInv, TypeOK
<1>2. icycle \notin Fetching
  BY RunningRow DEF FetchRow, Blank
<1>3. icycle \notin {"DECODE", "DECODEM"}
  <2> SUFFICES ASSUME icycle \in {"DECODE", "DECODEM"}
               PROVE  FALSE
    OBVIOUS
  <2>1. Row = DecodeRow(ir.op) /\ ir.op \in Direct \cup ViaExec
    BY RunningRow, Kinds DEF Fetching
  <2>2. ir.op \in Direct => FALSE
    BY <2>1, DirectRow
  <2>3. ir.op \in ViaExec => FALSE
    BY <2>1, LongDecodeRow
  <2> QED
    BY <2>1, <2>2, <2>3
<1>4. icycle \notin {"READ", "READM"}
  BY RunningRow, ReadRows
<1>5. icycle \in {"EXECUTE", "EXECUTEM"}
  BY <1>1, <1>2, <1>3, <1>4 DEF Fetching
<1>6. Row = ExecRow(ir.op) /\ ir.op \in ViaExec
  BY <1>5, RunningRow
<1>7. CASE ir.op \in FromImm \cup Shifts
  BY <1>5, <1>6, <1>7, ImmExecRow DEF Shifts
<1>8. CASE ir.op \in Loads \cup Stores \cup {"push"}
  BY <1>6, <1>8, MemoryExecRow
<1>9. CASE ir.op \in {"skip", "pop", "brk"}
  BY <1>6, <1>9, OtherExecRow
<1> QED
  BY <1>6, <1>7, <1>8, <1>9, Kinds DEF ViaExec, ViaRead

LEMMA RAMoutType ==
    ASSUME TypeInv
    PROVE  RAMout \in Word
<1>1. NotRe \in Word
  <2>1. (ByteSize - 2) * (ByteSize + 1) = N - ByteSize - 2
    BY Sizes
  <2>2. ByteSize * ByteSize >= 3 * ByteSize
    <3>1. \A k \in Nat : k > 2 => k * k >= 3 * k
      OBVIOUS
    <3> QED
      BY <3>1, Sizes
  <2> QED
    BY <2>1, <2>2, Sizes DEF NotRe, Word
<1>2. ("be" \in Row.sig) \in BOOLEAN
  OBVIOUS
<1>3. ReadRam(ram, mar, "be" \in Row.sig) \in Word
  BY <1>2, ReadRamType DEF TypeInv, TypeOK
<1> QED
  BY <1>1, <1>3 DEF RAMout

\* What a vcycle puts on the buses.
LEMMA BusAfterFields ==
    /\ BusAfter.aluout = ALU(Row.alu, bus.op0, bus.op1)
    /\ Row.op0 \in {"regr0", "regr1", "mdr"} => BusAfter.op0 = Wired(Row.op0)
    /\ Row.op1 \in {"regr0", "regr1", "mdr"} => BusAfter.op1 = Wired(Row.op1)
    /\ ir # None => BusAfter.irimm = ir.imm
    /\ ir # None /\ Row.mdrs = "imm" => BusAfter.mdrin = ir.imm
    /\ Row.mdrs = "ram" => BusAfter.mdrin = RAMout
    /\ Row.mdrs = "alu" => BusAfter.mdrin = ALU(Row.alu, bus.op0, bus.op1)
  BY DEF BusAfter, Wired

LEMMA BusAfterType ==
    ASSUME TypeInv, Running
    PROVE  BusAfter \in Bus
<1>1. bus.op0 \in Word /\ bus.op1 \in Word /\ bus.irimm \in Word
  BY DEF TypeInv, TypeOK, Bus
<1>2. Row.alu = "addhi" => bus.op0 < N \div Low
  BY AddhiRow, RunningRow, InstrTypes DEF TypeInv, Shifted, Fetching
<1>3. ALU(Row.alu, bus.op0, bus.op1) \in Word
  BY <1>1, <1>2, RunningRow, ALUType DEF RowFields
<1>4. regs[Selected(Row.r0)] \in Word /\ regs[Selected(Row.r1)] \in Word
  BY SelectedType DEF TypeInv, TypeOK
<1>5. (IF ir = None THEN bus.irimm ELSE ir.imm) \in Word
  BY <1>1, InstrTypes DEF TypeInv, Flow, Running, Instr
<1>6. BusAfter.op0 \in Word /\ BusAfter.op1 \in Word
  BY WiredType, BusAfterFields, RunningRow DEF RowFields
<1>7. BusAfter.mdrin \in Word
  <2>1. Row.mdrs \in {"imm", "ram", "alu"}
    BY RunningRow DEF RowFields
  <2> QED
    BY <1>3, <1>5, <2>1, RAMoutType DEF BusAfter
<1> QED
  BY <1>3, <1>4, <1>5, <1>6, <1>7 DEF BusAfter, Bus

LEMMA SkipAfterType ==
    ASSUME TypeInv
    PROVE  /\ SkipAfter \in BOOLEAN /\ CarryAfter \in BOOLEAN
           /\ SkipAfter => Row.skipc # "none" /\ icycle \notin Odd
<1>1. \A cond, d, c : MicroDecides(cond, d, c) \in BOOLEAN
  BY DEF MicroDecides
<1>2. Chkskip(bus.aluout) \in BOOLEAN
  BY <1>1 DEF Chkskip
<1>3. CarryAfter \in BOOLEAN
  <2>1. CASE Row.alu = "add"
    BY <2>1 DEF CarryAfter
  <2>2. CASE Row.alu = "sub"
    BY <2>2 DEF CarryAfter, Borrow
  <2>3. CASE Row.alu \notin {"add", "sub"}
    BY <2>3 DEF CarryAfter, TypeInv, TypeOK
  <2> QED
    BY <2>1, <2>2, <2>3
<1> QED
  BY <1>2, <1>3 DEF SkipAfter, TypeInv, TypeOK, Flow

\* A step within a cycle leaves the row and what selects from it alone.
LEMMA SameRow ==
    ASSUME icycle' = icycle, ir' = ir
    PROVE  Row' = Row /\ SkipsLeft' = SkipsLeft
  BY DEF Row, SkipsLeft

LEMMA VcycleTypes ==
    ASSUME TypeInv, Vcycle
    PROVE  TypeInv'
<1>1. Running /\ Row' = Row /\ SkipsLeft' = SkipsLeft
  BY SameRow DEF Vcycle, machine
<1>2. bus' \in Bus /\ skip' \in BOOLEAN /\ csbs' \in BOOLEAN /\ breakp' \in BOOLEAN
  BY <1>1, BusAfterType, SkipAfterType DEF Vcycle, TypeInv, TypeOK
<1>3. vcycle' \in 0 .. MaxVcycles + 1
  <2>1. MaxVcycles \in Nat
    BY OldInitAssumption
  <2>2. vcycle \in 0 .. MaxVcycles + 1
    BY DEF TypeInv, TypeOK
  <2>3. vcycle =< MaxVcycles /\ vcycle' = vcycle + 1
    BY DEF Vcycle
  <2> QED
    BY <2>1, <2>2, <2>3
<1>4. TypeOK'
  BY <1>2, <1>3 DEF Vcycle, machine, TypeInv, TypeOK
<1>5. Flow'
  <2>1. /\ icycle' = icycle /\ ir' = ir /\ skipcycle' = skipcycle /\ count' = count
        /\ ended' = ended /\ skip' = SkipAfter /\ skipcycle = 0 /\ ended = ""
    BY DEF Vcycle, machine, Running
  <2>2. skip' => Row'.skipc # "none" /\ icycle' \notin Odd
    BY <1>1, <2>1, SkipAfterType
  <2>3. Flow
    BY DEF TypeInv
  <2> QED
    BY <1>1, <2>1, <2>2, <2>3 DEF Flow
<1>6. Shifted'
  <2> SUFFICES ASSUME ir # None, ir.op = "addhi"
               PROVE  /\ icycle \notin {"READ", "READM"}
                      /\ icycle \in {"EXECUTE", "EXECUTEM"} => bus'.op0 < N \div Low
    BY DEF Vcycle, machine, TypeInv, Shifted
  <2>1. icycle \notin {"READ", "READM"}
    BY <1>1, RunningRow DEF ViaRead, BaseBP, Indexed, Shifts
  <2>2. ASSUME icycle \in {"EXECUTE", "EXECUTEM"}
        PROVE  bus'.op0 < N \div Low
    <3>1. Row = ExecRow("addhi") /\ ir \in Instrs
      BY <1>1, <2>2, RunningRow DEF Fetching
    <3>2. Row.op0 = "mdr"
      BY <3>1, ImmExecRow DEF FromImm
    <3>3. bus'.op0 = mdr /\ mdr = ir.imm
      BY <2>2, <3>2, BusAfterFields DEF Vcycle, Wired, TypeInv, Shifted
    <3> QED
      BY <3>1, <3>3, InstrTypes
  <2> QED
    BY <2>1, <2>2
<1> QED
  BY <1>4, <1>5, <1>6 DEF TypeInv

-----------------------------------------------------------------------------
\* What the edges find, and what each falling edge does.

Out == ALU(Row.alu, Wired(Row.op0), Wired(Row.op1))

LEMMA LatchedSignals ==
    ASSUME TypeInv, NEW p, Latching(p)
    PROVE  /\ Running /\ bus = BusAfter /\ skip = SkipAfter
           /\ bus.op0 = Wired(Row.op0) /\ bus.op1 = Wired(Row.op1)
           /\ bus.aluout = Out /\ Out \in Word /\ bus.mdrin \in Word
           /\ skip = (Row.skipc # "none" /\ icycle \notin Odd /\ Chkskip(Out))
<1>1. Running /\ bus = BusAfter /\ skip = SkipAfter
  BY DEF Latching, Settled
<1>2. {Row.op0, Row.op1} \subseteq {"regr0", "regr1", "mdr"}
  BY <1>1, RunningRow DEF RowFields
<1>3. bus.op0 = Wired(Row.op0) /\ bus.op1 = Wired(Row.op1)
  BY <1>1, <1>2, BusAfterFields
<1>4. bus.aluout = Out
  BY <1>1, <1>3, BusAfterFields DEF Out
<1>5. bus.aluout \in Word /\ bus.mdrin \in Word
  BY DEF TypeInv, TypeOK, Bus
<1>6. skip = (Row.skipc # "none" /\ icycle \notin Odd /\ Chkskip(Out))
  <2>1. Chkskip(Out) \in BOOLEAN
    BY DEF Chkskip, MicroDecides
  <2>2. CASE Row.skipc = "none"
    BY <2>2, <1>1 DEF TypeInv, TypeOK, Flow
  <2>3. CASE Row.skipc # "none" /\ icycle \in Odd
    BY <2>3, <1>1 DEF TypeInv, TypeOK, Flow
  <2>4. CASE Row.skipc # "none" /\ icycle \notin Odd
    BY <1>1, <1>4, <2>1, <2>4 DEF SkipAfter
  <2> QED
    BY <2>2, <2>3, <2>4
<1> QED
  BY <1>1, <1>3, <1>4, <1>5, <1>6

\* A falling edge outside FETCHM and EXECUTEM.
Goes(c) == icycle' = c /\ ir' = ir /\ snap' = snap /\ count' = count /\ ended' = ""

PcPlus2(r) == [r EXCEPT ![PC] = Sum(@, 2)]

LEMMA FallsFetch ==
    ASSUME TypeInv, FallingEdge, icycle = "FETCH"
    PROVE  Goes("FETCHM") /\ skipcycle' = 0 /\ regs' = regs /\ mdr' = mdr /\ mar' = Out
<1>1. Latching("FE") /\ Running
  BY DEF FallingEdge, Latching
<1>2. ~skip /\ bus.aluout = Out
  BY <1>1, LatchedSignals DEF Odd
<1>3. Raised = {"mar_load", "re"}
  BY DEF Raised, Row, FetchRow, Blank, Odd, LoadNeg
<1>4. regs' = regs
  BY <1>2, <1>3 DEF FallingEdge, LatchedRegs
<1>5. ir' = ir /\ ended' = ""
  BY <1>1, <1>3 DEF FallingEdge, TypeInv, Flow, Running
<1> QED
  BY <1>2, <1>3, <1>4, <1>5, NextCycles DEF FallingEdge, Advance, Goes

LEMMA FallsFetchm ==
    ASSUME TypeInv, FallingEdge, icycle = "FETCHM"
    PROVE  /\ icycle' = "DECODE" /\ ir' \in Instrs \cup {Plain("hlt")}
           /\ regs' = PcPlus2(regs) /\ mdr' = mdr /\ mar' = mar
           /\ snap' = snap /\ skipcycle' = 0 /\ count # MaxInstrs + 1
           /\ count' = count + 1 /\ (count' = MaxInstrs + 1 => ir' = Plain("hlt"))
           /\ ended' = (IF ir'.op = "hlt" THEN "halt" ELSE "")
<1>1. Latching("FE") /\ Running
  BY DEF FallingEdge, Latching
<1>2. Row.skipc = "none"
  BY DEF Row, FetchRow, Blank
<1>3. ~skip
  BY <1>1, <1>2, LatchedSignals
<1>4. Raised = {"incr_pc", "ir_load", "re"}
  BY DEF Raised, Row, FetchRow, Blank, Odd, LoadPos
<1>5. regs' = PcPlus2(regs)
  BY <1>3, <1>4 DEF FallingEdge, LatchedRegs, PcPlus2
<1>6. count # MaxInstrs + 1 /\ count \in 0 .. MaxInstrs + 1 /\ MaxInstrs \in Nat
  BY <1>1, OldInitAssumption DEF TypeInv, TypeOK, Flow, Running
<1>7. ir' \in (IF count < MaxInstrs THEN Instrs ELSE {Plain("hlt")}) /\ count' = count + 1
  BY <1>4 DEF FallingEdge
<1>8. ir' \in Instrs \cup {Plain("hlt")} /\ ir' # None
  BY <1>7, InstrTypes
<1>9. mdr' = mdr /\ mar' = mar /\ ended' = (IF ir'.op = "hlt" THEN "halt" ELSE "")
  BY <1>4, <1>8 DEF FallingEdge
<1>10. count' = MaxInstrs + 1 => ir' = Plain("hlt")
  <2>1. count < MaxInstrs => count + 1 # MaxInstrs + 1
    BY <1>6
  <2> QED
    BY <1>7, <2>1
<1>11. icycle' = "DECODE" /\ snap' = snap /\ skipcycle' = 0
  BY NextCycles DEF FallingEdge, Advance
<1> QED
  BY <1>5, <1>6, <1>7, <1>8, <1>9, <1>10, <1>11

\* All other cycles keep the instruction.
LEMMA NoFetch ==
    ASSUME TypeInv, Running, icycle \notin Fetching
    PROVE  "ir_load" \notin Row.sig /\ "incr_pc" \notin Row.sig
<1>1. icycle \in {"DECODE", "DECODEM", "READ", "READM", "EXECUTE", "EXECUTEM"}
  BY NextCycles DEF TypeInv, TypeOK, Fetching
<1>2. CASE icycle \in {"DECODE", "DECODEM"}
  <2>1. Row = DecodeRow(ir.op) /\ ir.op \in Direct \cup ViaExec
    BY <1>2, RunningRow, Kinds
  <2>2. CASE ir.op \in Direct
    BY <2>1, <2>2, DirectRow
  <2>3. CASE ir.op \in ViaExec
    BY <2>1, <2>3, LongDecodeRow
  <2> QED
    BY <2>1, <2>2, <2>3
<1>3. CASE icycle \in {"READ", "READM"}
  BY <1>3, RunningRow, ReadRows
<1>4. CASE icycle \in {"EXECUTE", "EXECUTEM"}
  <2>1. Row = ExecRow(ir.op) /\ ir.op \in ViaExec
    BY <1>4, RunningRow
  <2>2. CASE ir.op \in FromImm \cup Shifts
    BY <2>1, <2>2, ImmExecRow
  <2>3. CASE ir.op \in Loads
    BY <2>1, <2>3, MemoryExecRow
  <2>4. CASE ir.op \in (Stores \cup {"push"}) \ Loads
    BY <2>1, <2>4, MemoryExecRow
  <2>5. CASE ir.op \in {"skip", "pop", "brk"}
    BY <2>1, <2>5, OtherExecRow
  <2> QED
    BY <2>1, <2>2, <2>3, <2>4, <2>5, Kinds DEF ViaExec, ViaRead
<1> QED
  BY <1>1, <1>2, <1>3, <1>4

LEMMA FallsOn ==
    ASSUME TypeInv, FallingEdge, icycle \notin Fetching
    PROVE  /\ Latching("FE") /\ Running /\ ir \in Instrs /\ ir \in Instr
           /\ ir.op \in Op \ {"hlt"} /\ icycle' = NextCycle(icycle)
           /\ ir' = ir /\ count' = count /\ ended' = ""
           /\ icycle # "EXECUTEM" => snap' = snap
           /\ skip = (Row.skipc # "none" /\ icycle \notin Odd /\ Chkskip(Out))
           /\ regs' = LET written == IF "reg_load" \in Raised
                                     THEN [IF skip THEN PcPlus2(regs) ELSE regs EXCEPT
                                              ![Selected(Row.ws)] = Out]
                                     ELSE IF skip THEN PcPlus2(regs) ELSE regs
                          down == IF "decr_sp" \in Raised
                                  THEN [written EXCEPT ![SP] = Sum(@, N - 2)] ELSE written
                      IN  IF "incr_sp" \in Raised THEN [down EXCEPT ![SP] = Sum(@, 2)] ELSE down
           /\ mar' = IF "mar_load" \in Raised THEN Out ELSE mar
           /\ mdr' = IF "mdr_load" \in Raised THEN bus.mdrin ELSE mdr
           /\ "reg_load" \in Raised => Selected(Row.ws) # 0
<1>1. Latching("FE") /\ Running
  BY DEF FallingEdge, Latching
<1>2. ir \in Instrs /\ ir \in Instr /\ ir.op \in Op \ {"hlt"}
  BY <1>1, RunningRow
<1>3. "ir_load" \notin Raised /\ "incr_pc" \notin Raised
  BY <1>1, NoFetch DEF Raised
<1>4. /\ bus.aluout = Out
      /\ skip = (Row.skipc # "none" /\ icycle \notin Odd /\ Chkskip(Out))
  BY <1>1, LatchedSignals
<1>5. ir' = ir /\ count' = count /\ ended' = ""
  BY <1>2, <1>3 DEF FallingEdge
<1>6. /\ mar' = IF "mar_load" \in Raised THEN Out ELSE mar
      /\ mdr' = IF "mdr_load" \in Raised THEN bus.mdrin ELSE mdr
  BY <1>4 DEF FallingEdge
<1>7. regs' = LET written == IF "reg_load" \in Raised
                             THEN [IF skip THEN PcPlus2(regs) ELSE regs EXCEPT
                                      ![Selected(Row.ws)] = Out]
                             ELSE IF skip THEN PcPlus2(regs) ELSE regs
                  down == IF "decr_sp" \in Raised
                          THEN [written EXCEPT ![SP] = Sum(@, N - 2)] ELSE written
              IN  IF "incr_sp" \in Raised THEN [down EXCEPT ![SP] = Sum(@, 2)] ELSE down
  BY <1>3, <1>4 DEF FallingEdge, LatchedRegs, PcPlus2
<1>8. /\ icycle' = NextCycle(icycle) /\ (icycle # "EXECUTEM" => snap' = snap)
      /\ "reg_load" \in Raised => Selected(Row.ws) # 0
  BY DEF FallingEdge, Advance, WritesR0
<1> QED
  BY <1>1, <1>2, <1>4, <1>5, <1>6, <1>7, <1>8

LEMMA FallsDecode ==
    ASSUME TypeInv, FallingEdge, icycle = "DECODE"
    PROVE  /\ Goes("DECODEM") /\ skipcycle' = 0 /\ regs' = regs
           /\ mar' = IF ir.op = "pop" THEN regs[SP] ELSE mar
           /\ mdr' = IF ir.op \in FromImm \cup BaseBP \cup Shifts THEN ir.imm ELSE mdr
<1>1. Latching("FE") /\ Running /\ ir \in Instr /\ ir.op \in Direct \cup ViaExec /\ ~skip
  BY FallsOn, Kinds DEF Fetching, Odd
<1>2. Row = DecodeRow(ir.op) /\ Raised = DecodeRow(ir.op).sig \ LoadNeg
  BY <1>1, RunningRow DEF Raised, Odd
<1>3. "reg_load" \notin Raised /\ "decr_sp" \notin Raised /\ "incr_sp" \notin Raised
  BY <1>2 DEF LoadNeg
<1>4. regs' = regs
  BY <1>1, <1>3, FallsOn DEF Fetching
<1>5. Goes("DECODEM") /\ skipcycle' = 0
  BY FallsOn, NextCycles DEF FallingEdge, Advance, Goes, Fetching
<1>6. CASE ir.op \in Direct
  <2>1. "mar_load" \notin Raised /\ "mdr_load" \notin Raised
    BY <1>2, <1>6, DirectRow
  <2>2. ir.op \notin FromImm \cup BaseBP \cup Shifts \cup {"pop"}
    BY <1>6 DEF Direct, Alu3, Addskp, FromImm, BaseBP, Shifts, AluImm, Addskpi
  <2> QED
    BY <1>4, <1>5, <2>1, <2>2, FallsOn DEF Fetching
<1>7. CASE ir.op \in ViaExec
  <2>1. "mdr_load" \in Raised <=> ir.op \in FromImm \cup BaseBP \cup Shifts
    <3>1. CASE ir.op \in FromImm \cup BaseBP \cup Shifts
      BY <1>2, <1>7, <3>1, LongDecodeRow DEF LoadNeg, FromImm, BaseBP, Shifts, AluImm, Addskpi
    <3>2. CASE ir.op \notin FromImm \cup BaseBP \cup Shifts
      BY <1>2, <1>7, <3>2, LongDecodeRow
    <3> QED
      BY <3>1, <3>2
  <2>2. "mar_load" \in Raised <=> ir.op = "pop"
    BY <1>2, <1>7, LongDecodeRow DEF LoadNeg, FromImm, BaseBP, Shifts, AluImm, Addskpi
  <2>3. bus.mdrin = ir.imm
    <3>1. ir # None /\ Row.mdrs = "imm" /\ bus = BusAfter
      BY <1>1, <1>2, <1>7, LongDecodeRow, InstrTypes, LatchedSignals
    <3> QED
      BY <3>1, BusAfterFields
  <2>4. ir.op = "pop" => Out = regs[SP]
    <3> SUFFICES ASSUME ir.op = "pop"
                 PROVE  Out = regs[SP]
      OBVIOUS
    <3>1. /\ Row.alu = "add" /\ Row.op0 = "regr0" /\ Row.r0 = "sp"
          /\ Row.op1 = "regr1" /\ Row.r1 = "reg0"
      BY <1>2, <1>7, LongDecodeRow
    <3>2. regs[SP] \in Word /\ regs[0] = 0
      BY RoleTypes DEF TypeInv, TypeOK
    <3>3. Out = Sum(regs[SP], 0)
      BY <3>1, <3>2 DEF Out, ALU, Wired, Selected
    <3> QED
      BY <3>2, <3>3, Sizes DEF Sum, Word
  <2> QED
    BY <1>4, <1>5, <2>1, <2>2, <2>3, <2>4, FallsOn DEF Fetching
<1> QED
  BY <1>1, <1>6, <1>7

LEMMA FallsDecodem ==
    ASSUME TypeInv, FallingEdge, icycle = "DECODEM"
    PROVE  /\ Goes("READ") /\ skipcycle' = SkipsLeft' /\ mar' = mar /\ mdr' = mdr
           /\ ir.op \in Direct =>
                 LET t == IF ir.op = "br.r" THEN PC ELSE ir.tgt
                 IN  /\ t # 0
                     /\ regs' = [IF skip THEN PcPlus2(regs) ELSE regs EXCEPT ![t] = Out]
           /\ ir.op \notin Direct =>
                 regs' = IF ir.op = "push" THEN [regs EXCEPT ![SP] = Sum(@, N - 2)] ELSE regs
<1>1. Latching("FE") /\ Running /\ ir \in Instr /\ ir.op \in Direct \cup ViaExec
  BY FallsOn, Kinds DEF Fetching
<1>2. Row = DecodeRow(ir.op) /\ Raised = DecodeRow(ir.op).sig \ LoadPos
  BY <1>1, RunningRow DEF Raised, Odd
<1>3. mar' = mar /\ mdr' = mdr
  BY <1>2, FallsOn DEF LoadPos, Fetching
<1>4. Goes("READ") /\ skipcycle' = 2 * NextState(Row)
  BY FallsOn, NextCycles DEF FallingEdge, Advance, Goes, Fetching
<1>5. SkipsLeft' = IF ir.op \in Direct THEN 4
                   ELSE IF ir.op \in FromImm \cup {"skip"} THEN 2 ELSE 0
  BY <1>4 DEF SkipsLeft, Goes
<1>6. CASE ir.op \in Direct
  <2>1. skipcycle' = 4
    BY <1>2, <1>4, <1>6, DirectRow DEF NextState
  <2>2. /\ "reg_load" \in Raised /\ "decr_sp" \notin Raised /\ "incr_sp" \notin Raised
        /\ Row.ws = IF ir.op = "br.r" THEN "pc" ELSE "tgt"
    BY <1>2, <1>6, DirectRow DEF LoadPos
  <2>3. Selected(Row.ws) = IF ir.op = "br.r" THEN PC ELSE ir.tgt
    BY <2>2 DEF Selected
  <2>4. /\ Selected(Row.ws) # 0
        /\ regs' = [IF skip THEN PcPlus2(regs) ELSE regs EXCEPT ![Selected(Row.ws)] = Out]
    BY <2>2, FallsOn DEF Fetching
  <2> QED
    BY <1>3, <1>4, <1>5, <1>6, <2>1, <2>3, <2>4
<1>7. CASE ir.op \in ViaExec
  <2>1. ir.op \notin Direct
    BY <1>7 DEF Direct, ViaExec, ViaRead, Alu3, Addskp, FromImm, BaseBP, Indexed, Shifts,
                AluImm, Addskpi
  <2>2. skipcycle' = SkipsLeft'
    <3>1. CASE ir.op \in ViaRead
      <4>1. ir.op \notin FromImm \cup {"skip"}
        BY <3>1 DEF ViaRead, FromImm, BaseBP, Indexed, Shifts, AluImm, Addskpi
      <4> QED
        BY <1>2, <1>4, <1>5, <1>7, <2>1, <3>1, <4>1, LongDecodeRow DEF NextState
    <3>2. CASE ir.op \in FromImm \cup {"skip"}
      <4>1. ir.op \notin ViaRead
        BY <3>2 DEF ViaRead, FromImm, BaseBP, Indexed, Shifts, AluImm, Addskpi
      <4> QED
        BY <1>2, <1>4, <1>5, <1>7, <2>1, <3>2, <4>1, LongDecodeRow DEF NextState
    <3> QED
      BY <1>7, <3>1, <3>2 DEF ViaExec
  <2>3. /\ "reg_load" \notin Raised /\ "incr_sp" \notin Raised
        /\ "decr_sp" \in Raised <=> ir.op = "push"
    BY <1>2, <1>7, LongDecodeRow DEF LoadPos, FromImm, BaseBP, Shifts, AluImm, Addskpi
  <2>4. ~skip
    BY <1>2, <1>7, LongDecodeRow, FallsOn DEF Fetching
  <2> QED
    BY <1>3, <1>4, <2>1, <2>2, <2>3, <2>4, FallsOn DEF Fetching
<1> QED
  BY <1>1, <1>6, <1>7

LEMMA FallsRead ==
    ASSUME TypeInv, FallingEdge, icycle = "READ"
    PROVE  /\ Goes("READM") /\ skipcycle' = 0 /\ regs' = regs
           /\ mar' = (IF "mar_load" \in ReadRow(ir.op).sig THEN Out ELSE mar)
           /\ mdr' = IF ir.op = "pop" THEN ReadRam(ram, mar, FALSE) ELSE mdr
<1>1. Latching("FE") /\ Running /\ ir.op \in ViaRead /\ ~skip
  BY FallsOn, RunningRow DEF Fetching, Odd
<1>2. Row = ReadRow(ir.op) /\ Raised = ReadRow(ir.op).sig \ LoadNeg
  BY <1>1, RunningRow DEF Raised, Odd
<1>3. /\ {"reg_load", "decr_sp", "incr_sp"} \cap Raised = {}
      /\ "mar_load" \in Raised <=> "mar_load" \in ReadRow(ir.op).sig
  BY <1>2 DEF LoadNeg
<1>4. Goes("READM") /\ skipcycle' = 0
  BY FallsOn, NextCycles DEF FallingEdge, Advance, Goes, Fetching
<1>5. "mdr_load" \in Raised <=> ir.op = "pop"
  BY <1>1, <1>2, ReadRows DEF LoadNeg, BaseBP, Indexed
<1>6. ir.op = "pop" => bus.mdrin = ReadRam(ram, mar, FALSE)
  <2> SUFFICES ASSUME ir.op = "pop"
               PROVE  bus.mdrin = ReadRam(ram, mar, FALSE)
    OBVIOUS
  <2>1. Row.sig = {"mdr_load", "reg_load", "re"} /\ Row.mdrs = "ram"
    BY <1>1, <1>2, ReadRows DEF BaseBP, Indexed
  <2>2. bus.mdrin = RAMout
    BY <1>1, <2>1, LatchedSignals, BusAfterFields
  <2>3. "re" \in Row.sig /\ ("be" \in Row.sig) = FALSE
    BY <2>1
  <2> QED
    BY <2>2, <2>3 DEF RAMout
<1> QED
  BY <1>1, <1>3, <1>4, <1>5, <1>6, FallsOn DEF Fetching

LEMMA FallsReadm ==
    ASSUME TypeInv, FallingEdge, icycle = "READM"
    PROVE  /\ Goes("EXECUTE") /\ skipcycle' = 0 /\ mar' = mar /\ mdr' = mdr
           /\ regs' = (IF ir.op = "pop" THEN [regs EXCEPT ![ir.tgt] = mdr] ELSE regs)
           /\ ir.op = "pop" => ir.tgt # 0
<1>1. Latching("FE") /\ Running /\ ir.op \in ViaRead
  BY FallsOn, RunningRow DEF Fetching
<1>2. Row = ReadRow(ir.op) /\ Raised = ReadRow(ir.op).sig \ LoadPos
  BY <1>1, RunningRow DEF Raised, Odd
<1>3. ~skip
  BY <1>1, <1>2, ReadRows, FallsOn DEF Fetching
<1>4. /\ "reg_load" \in Raised <=> ir.op = "pop"
      /\ Raised \subseteq {"reg_load", "re"}
  BY <1>1, <1>2, ReadRows DEF LoadPos, BaseBP, Indexed
<1>5. Goes("EXECUTE") /\ skipcycle' = 0
  BY FallsOn, NextCycles DEF FallingEdge, Advance, Goes, Fetching
<1>6. ir.op = "pop" => Out = mdr /\ Selected(Row.ws) = ir.tgt
  <2> SUFFICES ASSUME ir.op = "pop"
               PROVE  Out = mdr /\ Selected(Row.ws) = ir.tgt
    OBVIOUS
  <2>1. /\ Row.alu = "add" /\ Row.op0 = "mdr" /\ Row.op1 = "regr0" /\ Row.r0 = "reg0"
        /\ Row.ws = "tgt"
    BY <1>1, <1>2, ReadRows DEF BaseBP, Indexed
  <2>2. mdr \in Word /\ regs[0] = 0
    BY DEF TypeInv, TypeOK
  <2>3. Out = Sum(mdr, 0)
    BY <2>1, <2>2 DEF Out, ALU, Wired, Selected
  <2> QED
    BY <2>1, <2>2, <2>3, Sizes DEF Sum, Word, Selected
<1>7. mar' = mar /\ mdr' = mdr
  BY <1>4, FallsOn DEF Fetching
<1>8. /\ regs' = (IF ir.op = "pop" THEN [regs EXCEPT ![ir.tgt] = mdr] ELSE regs)
      /\ ir.op = "pop" => ir.tgt # 0
  <2>1. "decr_sp" \notin Raised /\ "incr_sp" \notin Raised
    BY <1>4
  <2> QED
    BY <1>3, <1>4, <1>6, <2>1, FallsOn DEF Fetching
<1> QED
  BY <1>5, <1>7, <1>8

LEMMA FallsExecute ==
    ASSUME TypeInv, FallingEdge, icycle = "EXECUTE"
    PROVE  /\ Goes("EXECUTEM") /\ skipcycle' = 0 /\ regs' = regs /\ mar' = mar
           /\ ir.op \in Loads => mdr' = ReadRam(ram, mar, ir.op \in ByteOps)
           /\ ir.op \in Stores \cup {"push"} => mdr' = Out
           /\ ir.op \notin Loads \cup Stores \cup {"push"} => mdr' = mdr
<1>1. Latching("FE") /\ Running /\ ir.op \in ViaExec /\ ~skip
  BY FallsOn, RunningRow DEF Fetching, Odd
<1>2. Row = ExecRow(ir.op) /\ Raised = ExecRow(ir.op).sig \ LoadNeg
  BY <1>1, RunningRow DEF Raised, Odd
<1>3. {"reg_load", "decr_sp", "incr_sp"} \cap Raised = {}
  BY <1>2 DEF LoadNeg
<1>4. Goes("EXECUTEM") /\ skipcycle' = 0
  BY FallsOn, NextCycles DEF FallingEdge, Advance, Goes, Fetching
<1>5. regs' = regs
  BY <1>1, <1>3, FallsOn DEF Fetching
<1>6. CASE ir.op \in Loads
  <2>1. /\ ExecRow(ir.op).sig = {"mdr_load", "reg_load", "re"}
                \cup (IF ir.op \in ByteOps THEN {"be"} ELSE {})
        /\ ExecRow(ir.op).mdrs = "ram"
    BY <1>6, MemoryExecRow
  <2>2. "mdr_load" \in Raised /\ "mar_load" \notin Raised
    BY <1>2, <2>1 DEF LoadNeg
  <2>3. bus.mdrin = RAMout
    BY <1>1, <1>2, <2>1, LatchedSignals, BusAfterFields
  <2>4. RAMout = ReadRam(ram, mar, ir.op \in ByteOps)
    <3>1. "re" \in Row.sig /\ ("be" \in Row.sig) = (ir.op \in ByteOps)
      BY <1>2, <2>1
    <3> QED
      BY <3>1 DEF RAMout
  <2>5. ir.op \notin Stores \cup {"push"}
    BY <1>6 DEF Loads, Stores
  <2> QED
    BY <1>4, <1>5, <1>6, <2>2, <2>3, <2>4, <2>5, FallsOn DEF Fetching
<1>7. CASE ir.op \in Stores \cup {"push"}
  <2>1. ir.op \notin Loads
    BY <1>7 DEF Loads, Stores
  <2>2. /\ ExecRow(ir.op).sig = {"mdr_load", "ram_load"}
                \cup (IF ir.op \in ByteOps THEN {"be"} ELSE {})
        /\ ExecRow(ir.op).mdrs = "alu"
    BY <1>7, <2>1, MemoryExecRow
  <2>3. "mdr_load" \in Raised /\ "mar_load" \notin Raised
    BY <1>2, <2>2 DEF LoadNeg
  <2>4. bus.mdrin = Out
    BY <1>1, <1>2, <2>2, LatchedSignals, BusAfterFields
  <2> QED
    BY <1>4, <1>5, <1>7, <2>1, <2>3, <2>4, FallsOn DEF Fetching
<1>8. CASE ir.op \notin Loads \cup Stores \cup {"push"}
  <2>1. ir.op \in FromImm \cup Shifts \cup {"skip", "pop", "brk"}
    BY <1>1, <1>8, Kinds DEF ViaExec, ViaRead
  <2>2. ExecRow(ir.op).sig \cap {"mdr_load", "mar_load"} = {}
    BY <2>1, ImmExecRow, OtherExecRow
  <2> QED
    BY <1>2, <1>4, <1>5, <1>8, <2>2, FallsOn DEF Fetching
<1> QED
  BY <1>6, <1>7, <1>8

LEMMA FallsExecutem ==
    ASSUME TypeInv, FallingEdge, icycle = "EXECUTEM"
    PROVE  /\ icycle' = "FETCH" /\ skipcycle' = 0 /\ ir' = ir /\ count' = count
           /\ ended' = "" /\ mar' = mar /\ mdr' = mdr
           /\ snap' = [regs |-> regs', ram |-> ram, before |-> snap.regs]
           /\ ir.op \in FromImm \cup Shifts =>
                 LET t == CASE ir.op = "br" -> PC
                            [] ir.op \in Shifts \cup {"addhi"} -> ir.tgt2
                            [] OTHER -> ir.tgt
                 IN  /\ t # 0
                     /\ regs' = [IF skip THEN PcPlus2(regs) ELSE regs EXCEPT ![t] = Out]
           /\ ir.op \in Loads =>
                 LET t == IF ir.op \in BaseBP THEN ir.tgt2 ELSE ir.tgt
                 IN  t # 0 /\ regs' = [regs EXCEPT ![t] = mdr]
           /\ ir.op \in Stores \cup {"push", "brk"} => regs' = regs
           /\ ir.op = "pop" => regs' = [regs EXCEPT ![SP] = Sum(@, 2)]
           /\ ir.op = "skip" => regs' = IF skip THEN PcPlus2(regs) ELSE regs
<1>1. Latching("FE") /\ Running /\ ir \in Instr /\ ir.op \in ViaExec
  BY FallsOn, RunningRow DEF Fetching
<1>2. Row = ExecRow(ir.op) /\ Raised = ExecRow(ir.op).sig \ LoadPos
  BY <1>1, RunningRow DEF Raised, Odd
<1>3. mar' = mar /\ mdr' = mdr /\ ir' = ir /\ count' = count /\ ended' = ""
  BY <1>2, FallsOn DEF LoadPos, Fetching
<1>4. /\ icycle' = "FETCH" /\ skipcycle' = 0
      /\ snap' = [regs |-> regs', ram |-> ram, before |-> snap.regs]
  BY FallsOn, NextCycles DEF FallingEdge, Advance, Fetching
<1>5. CASE ir.op \in FromImm \cup Shifts
  <2>1. Raised = {"reg_load"}
    BY <1>2, <1>5, ImmExecRow DEF LoadPos
  <2>2. Selected(Row.ws) = CASE ir.op = "br" -> PC
                             [] ir.op \in Shifts \cup {"addhi"} -> ir.tgt2
                             [] OTHER -> ir.tgt
    BY <1>2, <1>5, ImmExecRow DEF Selected, Shifts
  <2>3. ir.op \notin Loads \cup Stores \cup {"push", "brk", "pop", "skip"}
    BY <1>5 DEF FromImm, Shifts, Loads, Stores, AluImm, Addskpi
  <2>4. /\ Selected(Row.ws) # 0
        /\ regs' = [IF skip THEN PcPlus2(regs) ELSE regs EXCEPT ![Selected(Row.ws)] = Out]
    BY <2>1, FallsOn DEF Fetching
  <2> QED
    BY <1>3, <1>4, <1>5, <2>2, <2>3, <2>4
<1>6. CASE ir.op \in Loads
  <2>1. /\ Row.skipc = "none" /\ Row.alu = "add" /\ Row.op0 = "mdr" /\ Row.op1 = "regr0"
        /\ Row.r0 = "reg0" /\ Row.ws = IF ir.op \in BaseBP THEN "tgt2" ELSE "tgt"
    BY <1>2, <1>6, MemoryExecRow
  <2>2. "reg_load" \in Raised /\ "decr_sp" \notin Raised /\ "incr_sp" \notin Raised
    BY <1>2, <1>6, MemoryExecRow DEF LoadPos
  <2>3. Out = mdr
    <3>1. mdr \in Word /\ regs[0] = 0
      BY DEF TypeInv, TypeOK
    <3>2. Out = Sum(mdr, 0)
      BY <2>1, <3>1 DEF Out, ALU, Wired, Selected
    <3> QED
      BY <3>1, <3>2, Sizes DEF Sum, Word
  <2>4. ~skip /\ Selected(Row.ws) = IF ir.op \in BaseBP THEN ir.tgt2 ELSE ir.tgt
    BY <2>1, FallsOn DEF Selected, Fetching
  <2>5. Selected(Row.ws) # 0 /\ regs' = [regs EXCEPT ![Selected(Row.ws)] = mdr]
    BY <2>2, <2>3, <2>4, FallsOn DEF Fetching
  <2>6. ir.op \notin FromImm \cup Shifts \cup Stores \cup {"push", "brk", "pop", "skip"}
    BY <1>6 DEF FromImm, Shifts, Loads, Stores, AluImm, Addskpi
  <2>7. LET t == IF ir.op \in BaseBP THEN ir.tgt2 ELSE ir.tgt
        IN  t # 0 /\ regs' = [regs EXCEPT ![t] = mdr]
    BY <2>4, <2>5
  <2>8. /\ ir.op \notin FromImm \cup Shifts /\ ir.op \notin Stores \cup {"push", "brk"}
        /\ ir.op # "pop" /\ ir.op # "skip"
    BY <2>6
  <2> QED
    BY <1>3, <1>4, <2>7, <2>8
<1>7. CASE ir.op \in Stores \cup {"push"}
  <2>1. ir.op \notin FromImm \cup Shifts \cup Loads \cup {"brk", "pop", "skip"}
    BY <1>7 DEF FromImm, Shifts, Loads, Stores, AluImm, Addskpi
  <2>2. Raised \subseteq {"ram_load", "be"} /\ Row.skipc = "none"
    BY <1>2, <1>7, <2>1, MemoryExecRow DEF LoadPos
  <2>3. regs' = regs
    BY <2>2, FallsOn DEF Fetching
  <2> QED
    BY <1>3, <1>4, <1>7, <2>1, <2>3
<1>8. CASE ir.op \in {"pop", "brk", "skip"}
  <2>1. ir.op \notin FromImm \cup Shifts \cup Loads \cup Stores
    BY <1>8 DEF FromImm, Shifts, Loads, Stores, AluImm, Addskpi
  <2>2. Raised = CASE ir.op = "pop" -> {"incr_sp"} [] ir.op = "brk" -> {"brk"}
                   [] OTHER -> {}
    BY <1>2, <1>8, OtherExecRow DEF LoadPos
  <2>3. ir.op # "skip" => ~skip
    BY <1>2, <1>8, OtherExecRow, FallsOn DEF Fetching
  <2>4. regs' = IF ir.op = "pop" THEN [regs EXCEPT ![SP] = Sum(@, 2)]
                ELSE IF skip THEN PcPlus2(regs) ELSE regs
    BY <1>8, <2>2, <2>3, FallsOn DEF Fetching
  <2> QED
    BY <1>3, <1>4, <1>8, <2>1, <2>3, <2>4
<1> QED
  BY <1>1, <1>5, <1>6, <1>7, <1>8, Kinds DEF ViaExec, ViaRead

-----------------------------------------------------------------------------
\* Types, and the way through the cycles.

LEMMA WrittenType ==
    ASSUME NEW r \in [Regs -> Word], r[0] = 0, NEW t \in Regs, t # 0, NEW v \in Word
    PROVE  [r EXCEPT ![t] = v] \in [Regs -> Word] /\ [r EXCEPT ![t] = v][0] = 0
  BY RoleTypes

LEMMA CountedType ==
    ASSUME NEW r \in [Regs -> Word], r[0] = 0, NEW t \in Regs, t # 0, NEW d \in Word
    PROVE  /\ [r EXCEPT ![t] = Sum(@, d)] \in [Regs -> Word]
           /\ [r EXCEPT ![t] = Sum(@, d)][0] = 0
  BY RoleTypes, SumType

LEMMA PcPlus2Type ==
    ASSUME NEW r \in [Regs -> Word], r[0] = 0
    PROVE  PcPlus2(r) \in [Regs -> Word] /\ PcPlus2(r)[0] = 0
  BY CountedType, RoleTypes, Sizes DEF PcPlus2

LEMMA FallingRegs ==
    ASSUME TypeInv, FallingEdge
    PROVE  regs' \in [Regs -> Word] /\ regs'[0] = 0
<1>1. regs \in [Regs -> Word] /\ regs[0] = 0
  BY DEF TypeInv, TypeOK
<1>2. CASE icycle = "FETCH"
  BY <1>1, <1>2, FallsFetch
<1>3. CASE icycle = "FETCHM"
  BY <1>1, <1>3, FallsFetchm, PcPlus2Type
<1>4. CASE icycle \notin Fetching
  <2> DEFINE skipped == IF skip THEN PcPlus2(regs) ELSE regs
             written == IF "reg_load" \in Raised
                        THEN [skipped EXCEPT ![Selected(Row.ws)] = Out] ELSE skipped
             down == IF "decr_sp" \in Raised
                     THEN [written EXCEPT ![SP] = Sum(@, N - 2)] ELSE written
  <2>1. /\ Latching("FE") /\ Running
        /\ regs' = IF "incr_sp" \in Raised THEN [down EXCEPT ![SP] = Sum(@, 2)] ELSE down
        /\ "reg_load" \in Raised => Selected(Row.ws) # 0
    BY <1>4, FallsOn
  <2>2. skipped \in [Regs -> Word] /\ skipped[0] = 0
    BY <1>1, PcPlus2Type
  <2>3. Out \in Word /\ Selected(Row.ws) \in Regs
    BY <2>1, LatchedSignals, SelectedType
  <2> HIDE DEF skipped
  <2>4. written \in [Regs -> Word] /\ written[0] = 0
    BY <2>1, <2>2, <2>3, WrittenType
  <2> HIDE DEF written
  <2>5. down \in [Regs -> Word] /\ down[0] = 0
    BY <2>4, CountedType, RoleTypes, Sizes
  <2> HIDE DEF down
  <2> QED
    BY <2>1, <2>5, CountedType, RoleTypes, Sizes
<1> QED
  BY <1>2, <1>3, <1>4 DEF Fetching

LEMMA FallingFlow ==
    ASSUME TypeInv, FallingEdge
    PROVE  Flow' /\ icycle' \in Cycle /\ skipcycle' \in {0, 2, 4}
<1>1. /\ Latching("FE") /\ Running /\ phase' = "RE" /\ vcycle' = 0 /\ skip' = FALSE
      /\ count # MaxInstrs + 1
      /\ ir # None => ir \in Instrs /\ ir.op # "hlt"
  BY DEF FallingEdge, Latching, Advance, TypeInv, Flow, Running
<1>2. CASE icycle = "FETCH"
  <2>1. SkipsLeft' = 0
    BY <1>2, FallsFetch DEF Goes, SkipsLeft
  <2> QED
    BY <1>1, <1>2, <2>1, FallsFetch, NextCycles DEF Goes, Flow, Fetching
<1>3. CASE icycle = "FETCHM"
  <2>1. SkipsLeft' = 0 /\ ir' # None
    BY <1>3, FallsFetchm, InstrTypes DEF SkipsLeft
  <2>2. Plain("hlt").op = "hlt"
    BY DEF Plain
  <2> QED
    BY <1>1, <1>3, <2>1, <2>2, FallsFetchm, NextCycles DEF Flow, Fetching
<1>4. ASSUME icycle \notin Fetching
      PROVE  ir' = ir /\ ir' # None /\ count' = count /\ ended' = ""
  BY <1>4, FallsOn, InstrTypes
<1>5. CASE icycle = "DECODE"
  <2>1. SkipsLeft' = 0
    BY <1>5, FallsDecode DEF Goes, SkipsLeft
  <2> QED
    BY <1>1, <1>4, <1>5, <2>1, FallsDecode, NextCycles DEF Goes, Flow, Fetching
<1>6. CASE icycle = "DECODEM"
  <2>1. SkipsLeft' \in {0, 2, 4}
    BY <1>6, FallsDecodem DEF Goes, SkipsLeft
  <2> QED
    BY <1>1, <1>4, <1>6, <2>1, FallsDecodem, NextCycles DEF Goes, Flow, Fetching
<1>7. CASE icycle \in {"READ", "READM"}
  <2>1. ir.op \notin Direct \cup FromImm \cup {"skip"}
    BY <1>1, <1>7, RunningRow DEF ViaRead, Direct, Alu3, Addskp, FromImm, AluImm, Addskpi,
                                  BaseBP, Indexed, Shifts
  <2>2. /\ skipcycle' = 0 /\ icycle' = IF icycle = "READ" THEN "READM" ELSE "EXECUTE"
    BY <1>7, FallsRead, FallsReadm DEF Goes
  <2>3. SkipsLeft' = 0
    BY <1>4, <1>7, <2>1, <2>2 DEF SkipsLeft, Fetching
  <2> QED
    BY <1>1, <1>4, <1>7, <2>2, <2>3, NextCycles DEF Flow, Fetching
<1>8. CASE icycle \in {"EXECUTE", "EXECUTEM"}
  <2>1. ir.op \notin Direct
    BY <1>1, <1>8, RunningRow DEF ViaExec, ViaRead, Direct, Alu3, Addskp, FromImm, AluImm,
                                  Addskpi, BaseBP, Indexed, Shifts
  <2>2. /\ skipcycle' = 0 /\ icycle' = IF icycle = "EXECUTE" THEN "EXECUTEM" ELSE "FETCH"
    BY <1>8, FallsExecute, FallsExecutem DEF Goes
  <2>3. SkipsLeft' = 0
    BY <1>4, <1>8, <2>1, <2>2 DEF SkipsLeft, Fetching
  <2> QED
    BY <1>1, <1>4, <1>8, <2>2, <2>3, NextCycles DEF Flow, Fetching
<1> QED
  BY <1>2, <1>3, <1>5, <1>6, <1>7, <1>8, NextCycles DEF TypeInv, TypeOK

\* The immediate of addhi reaches the ALU as it is in the instruction.
LEMMA FallingShifted ==
    ASSUME TypeInv, FallingEdge
    PROVE  Shifted'
<1> SUFFICES ASSUME icycle \notin Fetching, ir.op = "addhi", icycle # "EXECUTEM"
             PROVE  Shifted'
  <2>1. icycle \in Fetching \cup {"EXECUTEM"} => icycle' \in {"FETCH", "FETCHM", "DECODE"}
    BY FallsFetch, FallsFetchm, FallsExecutem DEF Goes, Fetching
  <2>2. icycle \notin Fetching => ir' = ir
    BY FallsOn
  <2> QED
    BY <2>1, <2>2 DEF Shifted
<1>1. /\ Latching("FE") /\ Running /\ bus' = bus /\ ir' = ir
      /\ ir \in Instrs /\ ir \in Instr /\ ir # None
  BY FallsOn, InstrTypes DEF FallingEdge
<1>2. 0 < N \div Low /\ ir.imm < N \div Low
  <2>1. ir.imm \in Nat /\ ir.imm < N \div Low /\ N \div Low \in Nat
    BY <1>1, InstrTypes, Sizes DEF Instr, Word
  <2> QED
    BY <2>1
<1>3. ir.op \in FromImm /\ ir.op \notin ViaRead
  BY DEF FromImm, ViaRead, BaseBP, Indexed, Shifts
<1>4. CASE icycle = "DECODE"
  BY <1>1, <1>3, <1>4, FallsDecode DEF Goes, Shifted
<1>5. CASE icycle = "DECODEM"
  <2>1. icycle' = "READ" /\ mdr' = mdr /\ mdr = ir.imm
    BY <1>1, <1>5, FallsDecodem DEF Goes, TypeInv, Shifted
  <2>2. Row.op0 = "regr0" /\ Row.r0 = "reg0"
    BY <1>1, <1>3, <1>5, RunningRow, LongDecodeRow DEF ViaExec
  <2>3. bus.op0 = 0
    BY <1>1, <2>2, LatchedSignals DEF Wired, Selected, TypeInv, TypeOK
  <2> QED
    BY <1>1, <2>1, <2>3 DEF Shifted
<1>6. CASE icycle \in {"READ", "READM"}
  BY <1>1, <1>3, <1>6, RunningRow
<1>7. CASE icycle = "EXECUTE"
  <2>1. icycle' = "EXECUTEM" /\ mdr' = mdr
    BY <1>3, <1>7, FallsExecute DEF Goes, Loads, Stores, FromImm, AluImm, Addskpi
  <2> QED
    BY <1>1, <1>7, <2>1 DEF TypeInv, Shifted
<1> QED
  BY <1>4, <1>5, <1>6, <1>7, NextCycles DEF TypeInv, TypeOK, Fetching

LEMMA FallingTypes ==
    ASSUME TypeInv, FallingEdge
    PROVE  TypeInv'
<1>1. Latching("FE") /\ Running /\ Out \in Word /\ bus.aluout = Out /\ bus.mdrin \in Word
  BY LatchedSignals DEF FallingEdge, Latching
<1>2. regs' \in [Regs -> Word] /\ regs'[0] = 0
  BY FallingRegs
<1>3. Flow' /\ icycle' \in Cycle /\ skipcycle' \in 0 .. 4
  BY FallingFlow
<1>4. mar' \in Word /\ mdr' \in Word
  BY <1>1 DEF FallingEdge, TypeInv, TypeOK
<1>5. snap' \in [regs : [Regs -> Word], ram : [0 .. Half - 1 -> Word], before : [Regs -> Word]]
  BY <1>2 DEF FallingEdge, Advance, TypeInv, TypeOK
<1>6. ir' \in Instr \cup {None} /\ count' \in 0 .. MaxInstrs + 1
  <2>1. count \in 0 .. MaxInstrs + 1 /\ MaxInstrs \in Nat
    BY OldInitAssumption DEF TypeInv, TypeOK
  <2>2. CASE icycle = "FETCH"
    BY <2>1, <2>2, FallsFetch DEF Goes, TypeInv, TypeOK
  <2>3. CASE icycle = "FETCHM"
    <3>1. count' = count + 1 /\ count # MaxInstrs + 1 /\ ir' \in Instr
      BY <2>3, FallsFetchm, InstrTypes
    <3> QED
      BY <2>1, <3>1
  <2>4. CASE icycle \notin Fetching
    BY <2>1, <2>4, FallsOn
  <2> QED
    BY <2>2, <2>3, <2>4 DEF Fetching
<1>7. /\ vcycle' = 0 /\ phase' = "RE" /\ csbs' = CarryAfter /\ bus' = bus /\ skip' = FALSE
      /\ carry' = carry /\ ram' = ram
      /\ ended' \in {"", "halt", "no instruction", "write to R0", "unstable"}
  BY DEF FallingEdge, Latching, Advance
<1>8. breakp' \in BOOLEAN
  BY DEF FallingEdge, Advance
<1>9. vcycle' \in 0 .. MaxVcycles + 1
  BY <1>7, Bounds
<1>10. TypeOK'
  BY <1>2, <1>3, <1>4, <1>5, <1>6, <1>7, <1>8, <1>9, SkipAfterType DEF TypeInv, TypeOK
<1> QED
  BY <1>3, <1>10, FallingShifted DEF TypeInv

LEMMA RisingTypes ==
    ASSUME TypeInv, RisingEdge
    PROVE  TypeInv'
<1>1. Row' = Row /\ SkipsLeft' = SkipsLeft
  BY SameRow DEF RisingEdge
<1>2. ram' \in [0 .. Half - 1 -> Word]
  <2>1. ram \in [0 .. Half - 1 -> Word] /\ mar \in Word /\ mdr \in Word
    BY DEF TypeInv, TypeOK
  <2>2. ("be" \in Row.sig) \in BOOLEAN
    OBVIOUS
  <2>3. WriteRam(ram, mar, mdr, "be" \in Row.sig) \in [0 .. Half - 1 -> Word]
    BY <2>1, <2>2, WriteRamType
  <2> QED
    BY <2>1, <2>3 DEF RisingEdge, Writeram
<1>3. carry' \in BOOLEAN /\ csbs' \in BOOLEAN /\ breakp' \in BOOLEAN
  BY SkipAfterType DEF RisingEdge, Latching, WriteCR, TypeInv, TypeOK
<1>4. vcycle' \in 0 .. MaxVcycles + 1
  BY OldInitAssumption DEF RisingEdge, Latching
<1>5. TypeOK'
  BY <1>2, <1>3, <1>4 DEF RisingEdge, TypeInv, TypeOK
<1>6. Flow'
  BY <1>1 DEF RisingEdge, Latching, Running, TypeInv, Flow
<1> QED
  BY <1>5, <1>6 DEF RisingEdge, TypeInv, Shifted

LEMMA SkipCycleTypes ==
    ASSUME TypeInv, SkipCycle
    PROVE  TypeInv'
<1>1. /\ ended = "" /\ skipcycle # 0 /\ skipcycle = SkipsLeft
      /\ ir' = ir /\ bus' = bus /\ mdr' = mdr /\ vcycle' = vcycle /\ phase' = phase
      /\ skip' = skip /\ ended' = ended /\ count' = count
  <2>1. ~(0 > 0)
    OBVIOUS
  <2>2. skipcycle # 0
    BY <2>1 DEF SkipCycle
  <2> QED
    BY <2>2 DEF SkipCycle, clkvars, sigvars, machine, TypeInv, Flow
<1>2. icycle \in {"READ", "READM", "EXECUTE", "EXECUTEM"}
  BY <1>1, NextCycles DEF SkipsLeft, TypeInv, TypeOK
<1>3. icycle' = CASE icycle = "READ" -> "READM" [] icycle = "READM" -> "EXECUTE"
                  [] icycle = "EXECUTE" -> "EXECUTEM" [] OTHER -> "FETCH"
  BY <1>2, NextCycles DEF SkipCycle
<1>4. skipcycle' = SkipsLeft' /\ skipcycle' \in 0 .. 4
  <2>1. skipcycle' = IF icycle = "EXECUTEM" THEN 0 ELSE skipcycle - 1
    BY DEF SkipCycle
  <2>2. CASE icycle = "READ"
    <3>1. skipcycle = IF ir.op \in Direct THEN 4 ELSE 2
      BY <1>1, <2>2 DEF SkipsLeft
    <3>2. SkipsLeft' = IF ir.op \in Direct THEN 3
                       ELSE IF ir.op \in FromImm \cup {"skip"} THEN 1 ELSE 0
      BY <1>1, <1>3, <2>2 DEF SkipsLeft
    <3>3. ir.op \notin Direct => ir.op \in FromImm \cup {"skip"}
      BY <1>1, <2>2 DEF SkipsLeft
    <3> QED
      BY <2>1, <2>2, <3>1, <3>2, <3>3
  <2>3. CASE icycle = "READM"
    <3>1. skipcycle = IF ir.op \in Direct THEN 3 ELSE 1
      BY <1>1, <2>3 DEF SkipsLeft
    <3>2. SkipsLeft' = IF ir.op \in Direct THEN 2 ELSE 0
      BY <1>1, <1>3, <2>3 DEF SkipsLeft
    <3> QED
      BY <2>1, <2>3, <3>1, <3>2
  <2>4. CASE icycle = "EXECUTE"
    <3>1. skipcycle = 2 /\ ir.op \in Direct
      BY <1>1, <2>4 DEF SkipsLeft
    <3>2. SkipsLeft' = 1
      BY <1>1, <1>3, <2>4, <3>1 DEF SkipsLeft
    <3> QED
      BY <2>1, <2>4, <3>1, <3>2
  <2>5. CASE icycle = "EXECUTEM"
    <3>1. SkipsLeft' = 0
      BY <1>3, <2>5 DEF SkipsLeft
    <3> QED
      BY <2>1, <2>5, <3>1
  <2> QED
    BY <1>2, <2>2, <2>3, <2>4, <2>5
<1>5. ir # None /\ ir \in Instrs /\ ir.op # "hlt" /\ phase = "RE" /\ vcycle = 0 /\ ~skip
  BY <1>1, <1>2 DEF TypeInv, Flow, Fetching
<1>6. TypeOK'
  <2>1. icycle' \in Cycle
    BY <1>2, <1>3, NextCycles
  <2>2. snap' \in [regs : [Regs -> Word], ram : [0 .. Half - 1 -> Word],
                   before : [Regs -> Word]]
    BY DEF SkipCycle, TypeInv, TypeOK
  <2> QED
    BY <1>4, <2>1, <2>2 DEF SkipCycle, sigvars, machine, TypeInv, TypeOK
<1>7. Flow'
  BY <1>1, <1>4, <1>5 DEF TypeInv, Flow
<1>8. Shifted'
  <2>1. ir.op = "addhi" => ir.imm \in Nat /\ ir.imm < N \div Low /\ N \div Low \in Nat
    BY <1>5, InstrTypes, Sizes DEF Instr, Word
  <2>2. ir.op = "addhi" => 0 < N \div Low
    BY <2>1
  <2>3. ir.op = "addhi" => icycle \in {"READ", "READM"}
    BY <1>1, <1>2 DEF SkipsLeft, Direct, Alu3, Addskp
  <2> QED
    BY <1>1, <1>3, <1>5, <2>2, <2>3 DEF TypeInv, Shifted
<1> QED
  BY <1>6, <1>7, <1>8 DEF TypeInv

\* Where the simulator ends everything stays as it is.
LEMMA EndTypes ==
    ASSUME TypeInv, GiveUp \/ RefusesR0
    PROVE  TypeInv'
<1>1. /\ icycle' = icycle /\ ir' = ir /\ skipcycle' = skipcycle /\ skipcycle = 0 /\ ended = ""
      /\ ended' \in {"no instruction", "write to R0", "unstable"} /\ bus' = bus
      /\ regs' = regs /\ carry' = carry /\ mar' = mar /\ mdr' = mdr /\ ram' = ram
      /\ phase' = phase /\ skip' = skip /\ breakp' = breakp /\ snap' = snap /\ count' = count
  BY DEF GiveUp, RefusesR0, clkvars, sigvars, machine, Running, Latching
<1>2. vcycle' \in 0 .. MaxVcycles + 1 /\ csbs' \in BOOLEAN
  BY SkipAfterType, Bounds
     DEF GiveUp, RefusesR0, Latching, clkvars, sigvars, TypeInv, TypeOK
<1>3. Row' = Row /\ SkipsLeft' = SkipsLeft
  BY <1>1, SameRow
<1>4. TypeOK'
  BY <1>1, <1>2 DEF TypeInv, TypeOK
<1>5. Flow'
  BY <1>1, <1>3 DEF TypeInv, Flow
<1> QED
  BY <1>1, <1>4, <1>5 DEF TypeInv, Shifted

LEMMA InitTypeInv == Init => TypeInv
<1> SUFFICES ASSUME Init
             PROVE  TypeInv
  OBVIOUS
<1>1. /\ regs \in [Regs -> Word] /\ regs[0] = 0 /\ ram \in [0 .. Half - 1 -> Word]
      /\ mdr \in Word /\ 0 \in Word
  BY OldInitAssumption, Sizes DEF Init
<1>2. bus \in Bus
  BY <1>1 DEF Init, Bus
<1>3. TypeOK
  <2>1. snap \in [regs : [Regs -> Word], ram : [0 .. Half - 1 -> Word],
                  before : [Regs -> Word]]
    BY <1>1 DEF Init
  <2>2. vcycle \in 0 .. MaxVcycles + 1 /\ count \in 0 .. MaxInstrs + 1
    BY Bounds DEF Init
  <2>3. 0 \in 0 .. 4
    OBVIOUS
  <2>4. skipcycle \in 0 .. 4 /\ icycle \in Cycle
    BY <2>3, NextCycles DEF Init
  <2> QED
    BY <1>1, <1>2, <2>1, <2>2, <2>4 DEF Init, TypeOK
<1>4. SkipsLeft = 0
  BY DEF Init, SkipsLeft
<1>5. Flow
  BY <1>1, <1>4, Bounds DEF Init, Flow, Fetching
<1> QED
  BY <1>3, <1>5 DEF Init, TypeInv, Shifted

LEMMA StepTypeInv == TypeInv /\ [Next]_vars => TypeInv'
<1> SUFFICES ASSUME TypeInv, [Next]_vars
             PROVE  TypeInv'
  OBVIOUS
<1>1. CASE UNCHANGED vars
  <2>1. /\ UNCHANGED <<icycle, phase, vcycle, skipcycle, bus, skip, csbs, breakp>>
        /\ UNCHANGED <<regs, carry, mar, mdr, ir, ram, ended, snap, count>>
    BY <1>1 DEF vars, clkvars, sigvars, machine
  <2>2. Row' = Row /\ SkipsLeft' = SkipsLeft
    BY <2>1, SameRow
  <2> QED
    BY <2>1, <2>2 DEF TypeInv, TypeOK, Flow, Shifted
<1> QED
  BY <1>1, VcycleTypes, EndTypes, RisingTypes, FallingTypes, SkipCycleTypes DEF Next

\* Every value stays one of its kind, also what is on the buses while they settle.
THEOREM TypeCorrect == Spec => []TypeOK
  BY InitTypeInv, StepTypeInv, PTL DEF Spec, TypeInv

-----------------------------------------------------------------------------
\* The signals settle.

LEMMA InitSettling == Init => Settling
<1>1. ~(0 >= 1) /\ ~(0 >= 2) /\ ~(0 >= 3) /\ 0 =< 3 /\ "" # "unstable"
  OBVIOUS
<1> QED
  BY <1>1 DEF Init, Settling

\* A phase or a cycle begins.
LEMMA SettlingAnew ==
    ASSUME vcycle' = 0, ended' # "unstable"
    PROVE  Settling'
<1>1. ~(0 >= 1) /\ ~(0 >= 2) /\ ~(0 >= 3) /\ 0 =< 3
  OBVIOUS
<1> QED
  BY <1>1 DEF Settling

LEMMA VcycleSettles ==
    ASSUME TypeInv, Settling, Vcycle
    PROVE  Settling'
<1>1. /\ Running /\ vcycle' = vcycle + 1 /\ vcycle \in Nat /\ vcycle =< 3
      /\ bus' = BusAfter /\ skip' = SkipAfter /\ ~Settled /\ ended' = ended /\ ended # "unstable"
  <2>1. vcycle \in 0 .. MaxVcycles + 1
    BY DEF TypeInv, TypeOK
  <2>2. vcycle \in Nat
    BY <2>1, Bounds
  <2> QED
    BY <2>2 DEF Vcycle, Settling
<1>2. vcycle \in 0 .. 2
  BY <1>1 DEF Settling
<1>3. /\ Row' = Row /\ ir' = ir /\ regs' = regs /\ mdr' = mdr /\ mar' = mar /\ ram' = ram
      /\ carry' = carry /\ icycle' = icycle /\ icycle \in Cycle
  BY SameRow DEF Vcycle, machine, TypeInv, TypeOK
<1>4. Row.op0 \in {"regr0", "regr1", "mdr"} /\ Row.op1 \in {"regr0", "regr1", "mdr"}
  BY <1>1, RunningRow DEF RowFields
<1>5. Wired(Row.op0)' = Wired(Row.op0) /\ Wired(Row.op1)' = Wired(Row.op1)
  BY <1>3 DEF Wired, Selected
<1>6. /\ bus'.op0 = Wired(Row.op0)' /\ bus'.op1 = Wired(Row.op1)'
      /\ ir' # None => bus'.irimm = ir'.imm
  BY <1>1, <1>3, <1>4, <1>5, BusAfterFields
<1>7. ASSUME vcycle >= 1
      PROVE  bus'.op0 = bus.op0 /\ bus'.op1 = bus.op1 /\ bus'.irimm = bus.irimm
  <2>1. /\ bus.op0 = Wired(Row.op0) /\ bus.op1 = Wired(Row.op1)
        /\ ir # None => bus.irimm = ir.imm
    BY <1>7 DEF Settling
  <2>2. ir = None => BusAfter.irimm = bus.irimm
    BY DEF BusAfter
  <2> QED
    BY <1>1, <1>3, <1>5, <1>6, <2>1, <2>2
<1>8. vcycle' >= 2 => bus'.aluout = ALU(Row.alu, bus.op0, bus.op1) /\ bus'.op0 = bus.op0
                      /\ bus'.op1 = bus.op1
  <2>1. vcycle' >= 2 => vcycle >= 1
    BY <1>1, <1>2
  <2> QED
    BY <1>1, <1>7, <2>1, BusAfterFields
<1>9. ASSUME vcycle' >= 3
      PROVE  Settled'
  <2>1. vcycle >= 1 /\ vcycle >= 2
    BY <1>1, <1>2, <1>9
  <2>2. BusAfter' = bus'
    <3>1. RAMout' = RAMout
      BY <1>3 DEF RAMout
    <3>2. BusAfter' = BusAfter
      BY <1>3, <1>7, <2>1, <3>1 DEF BusAfter, Selected
    <3> QED
      BY <1>1, <3>2
  <2>3. bus'.aluout = bus.aluout
    BY <1>8, <1>1, <1>2, <2>1 DEF Settling
  <2>4. Chkskip(bus.aluout)' = Chkskip(bus.aluout)
    BY <1>3, <2>3 DEF Chkskip
  <2>5. icycle \in Odd => ~skip
    BY DEF TypeInv, Flow
  <2>6. SkipAfter' = skip'
    <3>1. CASE Row.skipc = "none"
      BY <1>3, <3>1 DEF SkipAfter
    <3>2. CASE Row.skipc # "none" /\ icycle \in Odd
      <4>1. SkipAfter = FALSE
        BY <2>5, <3>2 DEF SkipAfter
      <4>2. skip' = FALSE
        BY <1>1, <4>1
      <4> QED
        BY <1>3, <3>2, <4>2 DEF SkipAfter
    <3>3. CASE Row.skipc # "none" /\ icycle \notin Odd
      <4>1. SkipAfter = Chkskip(bus.aluout)
        BY <3>3 DEF SkipAfter, Chkskip, MicroDecides
      <4>2. SkipAfter' = Chkskip(bus.aluout)'
        BY <1>3, <3>3 DEF SkipAfter, Chkskip, MicroDecides
      <4> QED
        BY <1>1, <2>4, <4>1, <4>2
    <3> QED
      BY <3>1, <3>2, <3>3
  <2> QED
    BY <2>2, <2>6 DEF Settled
<1>10. vcycle' =< 3
  BY <1>1, <1>2
<1> QED
  BY <1>1, <1>3, <1>6, <1>8, <1>9, <1>10 DEF Settling

LEMMA StepSettling ==
    ASSUME MaxVcycles >= 3
    PROVE  TypeInv /\ Settling /\ [Next]_vars => Settling'
<1> SUFFICES ASSUME TypeInv, Settling, [Next]_vars
             PROVE  Settling'
  OBVIOUS
<1>1. CASE Vcycle
  BY <1>1, VcycleSettles
<1>2. CASE RisingEdge \/ RefusesR0 \/ FallingEdge
  <2>1. vcycle' = 0 /\ ended' # "unstable"
    BY <1>2 DEF RisingEdge, RefusesR0, FallingEdge, Latching, Settling
  <2> QED
    BY <2>1, SettlingAnew
<1>3. CASE SkipCycle
  <2>1. vcycle = 0
    <3>1. ~(0 > 0)
      OBVIOUS
    <3> QED
      BY <1>3, <3>1 DEF SkipCycle, TypeInv, Flow
  <2>2. vcycle' = 0 /\ ended' # "unstable"
    BY <1>3, <2>1 DEF SkipCycle, Settling
  <2> QED
    BY <2>2, SettlingAnew
<1>4. ASSUME UNCHANGED <<icycle, phase, vcycle, bus, skip, regs, carry, mar, mdr, ir, ram>>,
             ended' # "unstable"
      PROVE  Settling'
  <2>1. Row' = Row
    BY <1>4, SameRow
  <2>2. /\ Wired(Row.op0)' = Wired(Row.op0) /\ Wired(Row.op1)' = Wired(Row.op1)
        /\ BusAfter' = BusAfter /\ SkipAfter' = SkipAfter
    BY <1>4, <2>1 DEF Wired, Selected, BusAfter, RAMout, SkipAfter, Chkskip
  <2> QED
    BY <1>4, <2>1, <2>2 DEF Settling, Settled
<1>5. CASE GiveUp
  <2>1. ~(vcycle > MaxVcycles)
    <3>1. vcycle \in Nat /\ MaxVcycles \in Nat
      <4>1. vcycle \in 0 .. MaxVcycles + 1
        BY DEF TypeInv, TypeOK
      <4> QED
        BY <4>1, Bounds
    <3> QED
      BY <3>1 DEF Settling
  <2>2. ended' # "unstable"
    BY <1>5, <2>1 DEF GiveUp
  <2> QED
    BY <1>4, <1>5, <2>2 DEF GiveUp, clkvars, sigvars, machine
<1>6. CASE UNCHANGED vars
  BY <1>4, <1>6 DEF vars, clkvars, sigvars, machine, Settling
<1> QED
  BY <1>1, <1>2, <1>3, <1>5, <1>6 DEF Next

\* Three vcycles are enough, wherever an instruction takes its operands and
\* whatever the buses carried: the limit is met only if it is set below that.
THEOREM StabilizesHolds == MaxVcycles >= 3 => (Spec => []Stabilizes)
<1> SUFFICES ASSUME MaxVcycles >= 3
             PROVE  Spec => []Stabilizes
  OBVIOUS
<1>1. TypeInv /\ Settling /\ [Next]_vars => Settling'
  BY StepSettling
<1>2. Settling => Stabilizes
  BY DEF Settling, Stabilizes
<1> QED
  BY <1>1, <1>2, InitTypeInv, StepTypeInv, InitSettling, PTL DEF Spec

\* Each latch finds on the buses what follows from registers, RAM and row alone.
THEOREM SignalsSettleHolds == Spec => SignalsSettle
<1>1. TypeInv /\ [Next]_vars =>
        [ phase' # phase =>
            /\ bus.aluout = ALU(Row.alu, Wired(Row.op0), Wired(Row.op1))
            /\ skip = (Row.skipc # "none" /\ icycle \notin Odd /\ Chkskip(bus.aluout)) ]_vars
  <2> SUFFICES ASSUME TypeInv, Next, phase' # phase
               PROVE  /\ bus.aluout = ALU(Row.alu, Wired(Row.op0), Wired(Row.op1))
                      /\ skip = (Row.skipc # "none" /\ icycle \notin Odd /\ Chkskip(bus.aluout))
    OBVIOUS
  <2>1. RisingEdge \/ FallingEdge
    BY DEF Next, Vcycle, GiveUp, RefusesR0, SkipCycle, clkvars
  <2>2. Latching("RE") \/ Latching("FE")
    BY <2>1 DEF RisingEdge, FallingEdge
  <2> QED
    BY <2>2, LatchedSignals DEF Out
<1> QED
  BY <1>1, InitTypeInv, StepTypeInv, PTL DEF Spec, SignalsSettle

-----------------------------------------------------------------------------
\* The flag of brk.

Beyond == {"DECODEM", "READ", "READM", "EXECUTE", "EXECUTEM"}

\* From its DECODE on an instruction brk carries the flag, and no other does.
Broken ==
    /\ breakp => ir # None /\ ir.op = "brk" /\ icycle \notin Fetching
    /\ ended = "" /\ ir # None /\ ir.op = "brk" /\ icycle \in Beyond => breakp

LEMMA BrkRows ==
    ASSUME TypeInv, Running
    PROVE  /\ "brk" \in Row.sig => icycle \notin Fetching /\ ir # None /\ ir.op = "brk"
           /\ icycle = "DECODE" /\ ir.op = "brk" => "brk" \in Row.sig
<1>1. CASE icycle \in Fetching
  <2>1. "brk" \notin Row.sig
    <3>1. Row = FetchRow
      BY <1>1, RunningRow
    <3>2. FetchRow.sig = {"mar_load", "incr_pc", "ir_load", "re"}
      BY DEF FetchRow, Blank
    <3> QED
      BY <3>1, <3>2
  <2>2. icycle # "DECODE"
    BY <1>1 DEF Fetching
  <2> QED
    BY <2>1, <2>2
<1>2. CASE icycle \in {"DECODE", "DECODEM"}
  <2>1. Row = DecodeRow(ir.op) /\ ir.op \in Direct \cup ViaExec /\ ir # None
    BY <1>2, RunningRow, Kinds, InstrTypes DEF Fetching
  <2>2. CASE ir.op \in Direct
    BY <1>2, <2>1, <2>2, DirectRow DEF Fetching, Direct, Alu3, Addskp
  <2>3. CASE ir.op \in ViaExec
    BY <1>2, <2>1, <2>3, LongDecodeRow DEF Fetching, FromImm, BaseBP, Shifts, AluImm, Addskpi
  <2> QED
    BY <2>1, <2>2, <2>3
<1>3. CASE icycle \in {"READ", "READM"}
  BY <1>3, RunningRow, ReadRows
<1>4. CASE icycle \in {"EXECUTE", "EXECUTEM"}
  <2>1. Row = ExecRow(ir.op) /\ ir.op \in ViaExec /\ ir # None
    BY <1>4, RunningRow, InstrTypes DEF Fetching
  <2>2. CASE ir.op \in FromImm \cup Shifts
    BY <1>4, <2>1, <2>2, ImmExecRow
  <2>3. CASE ir.op \in Loads
    BY <1>4, <2>1, <2>3, MemoryExecRow
  <2>4. CASE ir.op \in (Stores \cup {"push"}) \ Loads
    BY <1>4, <2>1, <2>4, MemoryExecRow
  <2>5. CASE ir.op \in {"skip", "pop", "brk"}
    BY <1>4, <2>1, <2>5, OtherExecRow DEF Fetching
  <2> QED
    BY <2>1, <2>2, <2>3, <2>4, <2>5, Kinds DEF ViaExec, ViaRead
<1> QED
  BY <1>1, <1>2, <1>3, <1>4, NextCycles DEF TypeInv, TypeOK, Fetching

LEMMA StepBroken == TypeInv /\ Broken /\ [Next]_vars => Broken'
<1> SUFFICES ASSUME TypeInv, Broken, [Next]_vars
             PROVE  Broken'
  OBVIOUS
<1>1. CASE Vcycle \/ RisingEdge
  <2>1. /\ Running /\ breakp' = (breakp \/ "brk" \in Row.sig)
        /\ icycle' = icycle /\ ir' = ir /\ ended' = ended
    BY <1>1 DEF Vcycle, RisingEdge, Latching, machine
  <2>2. breakp' => breakp \/ "brk" \in Row.sig
    BY <2>1
  <2>3. breakp => breakp'
    BY <2>1
  <2> QED
    BY <2>1, <2>2, <2>3, BrkRows DEF Broken
<1>2. CASE FallingEdge
  <2>1. Running /\ breakp' = ((breakp \/ "brk" \in Row.sig) /\ icycle # "EXECUTEM")
    BY <1>2 DEF FallingEdge, Latching, Advance
  <2>2. breakp' => (breakp \/ "brk" \in Row.sig) /\ icycle # "EXECUTEM"
    BY <2>1
  <2>3. (breakp \/ "brk" \in Row.sig) /\ icycle # "EXECUTEM" => breakp'
    BY <2>1
  <2>4. CASE icycle \in Fetching
    <3>1. ~breakp'
      BY <2>1, <2>2, <2>4, BrkRows DEF Broken
    <3>2. icycle' \in {"FETCHM", "DECODE"}
      BY <1>2, <2>4, FallsFetch, FallsFetchm DEF Goes, Fetching
    <3> QED
      BY <3>1, <3>2 DEF Broken, Beyond
  <2>5. CASE icycle = "EXECUTEM"
    BY <1>2, <2>2, <2>5, FallsExecutem DEF Broken, Beyond
  <2>6. CASE icycle \notin Fetching \cup {"EXECUTEM"}
    <3>1. ir' = ir /\ ir \in Instr /\ ir # None /\ icycle' \notin Fetching
      BY <1>2, <2>6, FallsOn, InstrTypes, NextCycles DEF TypeInv, TypeOK, Fetching
    <3>2. icycle = "DECODE" \/ icycle \in Beyond
      BY <2>6, NextCycles DEF TypeInv, TypeOK, Fetching, Beyond
    <3>3. ir.op = "brk" => breakp'
      BY <2>1, <2>3, <2>6, <3>1, <3>2, BrkRows DEF Broken, Running
    <3>4. breakp' => ir.op = "brk"
      BY <2>1, <2>2, BrkRows DEF Broken
    <3> QED
      BY <3>1, <3>3, <3>4 DEF Broken
  <2> QED
    BY <2>4, <2>5, <2>6
<1>3. CASE SkipCycle
  <2>1. /\ ended = "" /\ skipcycle # 0 /\ skipcycle = SkipsLeft /\ ir' = ir /\ breakp' = breakp
    <3>1. ~(0 > 0)
      OBVIOUS
    <3> QED
      BY <1>3, <3>1 DEF SkipCycle, sigvars, machine, TypeInv, Flow
  <2>2. ir.op # "brk"
    BY <2>1 DEF SkipsLeft, Direct, Alu3, Addskp, FromImm, AluImm, Addskpi
  <2>3. ~breakp
    BY <2>2 DEF Broken
  <2> QED
    BY <2>1, <2>2, <2>3 DEF Broken
<1>4. CASE GiveUp \/ RefusesR0
  <2>1. icycle' = icycle /\ ir' = ir /\ breakp' = breakp
    BY <1>4 DEF GiveUp, RefusesR0, clkvars, sigvars, machine
  <2>2. ended' # ""
    BY <1>4 DEF GiveUp, RefusesR0
  <2> QED
    BY <2>1, <2>2 DEF Broken
<1>5. CASE UNCHANGED vars
  BY <1>5 DEF vars, clkvars, sigvars, machine, Broken
<1> QED
  BY <1>1, <1>2, <1>3, <1>4, <1>5 DEF Next

\* brk opens the prompt, once, and nothing else does.
THEOREM BreakIsPromptHolds == Spec => []BreakIsPrompt
<1>1. Init => Broken
  BY DEF Init, Broken, Beyond
<1>2. TypeInv /\ Broken => BreakIsPrompt
  BY DEF TypeInv, Flow, Broken, BreakIsPrompt, Fetching, Beyond
<1> QED
  BY <1>1, <1>2, InitTypeInv, StepTypeInv, StepBroken, PTL DEF Spec

-----------------------------------------------------------------------------
\* What the instruction makes of registers and RAM, and on the way to it.

\* What main.c's execution of ir amounts to.
Meant == Means(ir, snap.regs)

Pushed == [I!Fetched EXCEPT ![SP] = Diff(@, 2)]

Popped == [I!Fetched EXCEPT ![Meant.tgt] = ReadRam(snap.ram, I!Fetched[SP], FALSE)]

StoreValue ==
    CASE Meant.op = "push" -> Pushed[Meant.tgt]
      [] Meant.op \in {"stw0", "stb0"} -> 0
      [] Meant.op \in BaseBP \ {"stw0", "stb0"} -> I!Fetched[Meant.tgt2]
      [] OTHER -> I!Fetched[Meant.tgt]

StoreAddress == IF Meant.op = "push" THEN Pushed[SP] ELSE I!Address(Meant)

SkipHolds ==
    CASE Meant.op \in Addskp \cup Addskpi ->
            (I!Value(Meant, I!Fetched) = 0) = (Meant.op \in {"addskp.z", "addskpi.z"})
      [] Meant.op = "skip" ->
            LET x == I!Fetched[Meant.arg0]
                y == I!Fetched[Meant.arg1]
            IN  FsimDecides(Meant.cond, Diff(x, y), Borrow(x, y))
      [] OTHER -> FALSE

WithoutSkip ==
    CASE Meant.op \in Direct \cup FromImm \cup Shifts -> I!Computed(Meant)
      [] Meant.op \in Loads -> [I!Fetched EXCEPT ![I!Target(Meant)] =
                                   ReadRam(snap.ram, I!Address(Meant), Meant.op \in ByteOps)]
      [] Meant.op = "push" -> Pushed
      [] Meant.op = "pop"  -> [Popped EXCEPT ![SP] = Sum(@, 2)]
      [] OTHER          -> I!Fetched

RegsAfter == IF SkipHolds THEN I!IncrPc(WithoutSkip) ELSE WithoutSkip

RamAfter ==
    IF Meant.op \in Stores \cup {"push"}
    THEN WriteRam(snap.ram, StoreAddress, StoreValue, Meant.op \in ByteOps) ELSE snap.ram

\* Where the machine is on that way.
RegsSoFar ==
    CASE icycle \in Fetching -> snap.regs
      [] icycle \in {"READ", "READM", "EXECUTE", "EXECUTEM"} /\ ir.op \in Direct -> RegsAfter
      [] icycle \in {"READ", "READM", "EXECUTE", "EXECUTEM"} /\ ir.op = "push" -> Pushed
      [] icycle \in {"EXECUTE", "EXECUTEM"} /\ ir.op = "pop" -> Popped
      [] OTHER -> I!Fetched

RamSoFar == IF icycle = "EXECUTEM" /\ phase = "FE" THEN RamAfter ELSE snap.ram

Transfers ==
    /\ icycle \in Beyond /\ ir.op \in FromImm \cup Shifts => mdr = ir.imm
    /\ icycle \in {"DECODEM", "READ"} /\ ir.op \in BaseBP => mdr = ir.imm
    /\ icycle \in {"DECODEM", "READ"} /\ ir.op = "pop" => mar = I!Fetched[SP]
    /\ icycle = "READM" /\ ir.op = "pop" => mdr = ReadRam(snap.ram, I!Fetched[SP], FALSE)
    /\ icycle \in {"READM", "EXECUTE", "EXECUTEM"} =>
          /\ ir.op \in Loads \cup Stores => mar = I!Address(Meant)
          /\ ir.op = "push" => mar = Pushed[SP]
    /\ icycle = "EXECUTEM" /\ ir.op \in Loads =>
          mdr = ReadRam(snap.ram, I!Address(Meant), Meant.op \in ByteOps)
    /\ icycle = "EXECUTEM" /\ ir.op \in Stores \cup {"push"} => mdr = StoreValue
    /\ icycle = "EXECUTEM" \/ (icycle = "EXECUTE" /\ phase = "FE") =>
          (ir.op = "skip" => carry = Borrow(I!Fetched[ir.arg0], I!Fetched[ir.arg1]))

Progress == regs = RegsSoFar /\ ram = RamSoFar /\ Transfers

\* What is going to become of the instruction does not change under way.
LEMMA Kept ==
    ASSUME ir' = ir, snap' = snap
    PROVE  /\ I!Fetched' = I!Fetched /\ Pushed' = Pushed /\ Popped' = Popped
           /\ Meant' = Meant
           /\ StoreValue' = StoreValue /\ StoreAddress' = StoreAddress
           /\ I!Address(Meant)' = I!Address(Meant)
           /\ RegsAfter' = RegsAfter /\ RamAfter' = RamAfter
<1>0. Meant' = Meant
  BY DEF Meant
<1>1. I!Fetched' = I!Fetched
  BY DEF I!Fetched
<1>2. Pushed' = Pushed /\ Popped' = Popped
  BY <1>0, <1>1 DEF Pushed, Popped
<1>3. I!Address(Meant)' = I!Address(Meant)
  BY <1>0, <1>1 DEF I!Address
<1>4. StoreValue' = StoreValue /\ StoreAddress' = StoreAddress
  BY <1>0, <1>1, <1>2, <1>3 DEF StoreValue, StoreAddress
<1>5. SkipHolds' = SkipHolds
  BY <1>0, <1>1 DEF SkipHolds
<1>6. I!Computed(Meant)' = I!Computed(Meant)
  BY <1>0, <1>1 DEF I!Computed
<1>7. WithoutSkip' = WithoutSkip
  BY <1>0, <1>1, <1>2, <1>3, <1>6 DEF WithoutSkip
<1>8. RegsAfter' = RegsAfter
  BY <1>5, <1>7 DEF RegsAfter
<1>9. RamAfter' = RamAfter
  BY <1>0, <1>4 DEF RamAfter
<1> QED
  BY <1>0, <1>1, <1>2, <1>3, <1>4, <1>8, <1>9

\* Isa's instance computes with the operations of the words of this machine.
LEMMA SameWords == I!N = N /\ I!Word = Word
  BY DEF I!N, N, I!Word, Word

LEMMA SameSums ==
    \A x, y : I!Sum(x, y) = Sum(x, y) /\ I!Diff(x, y) = Diff(x, y) /\ I!Borrow(x, y) = Borrow(x, y)
  BY SameWords DEF I!Sum, Sum, I!Diff, Diff, I!Borrow, Borrow

LEMMA SameShifts ==
    \A x, y : I!Shl(x, y) = Shl(x, y) /\ I!Shr(x, y) = Shr(x, y) /\ I!AddHi(x, y) = AddHi(x, y)
  BY SameWords DEF I!Shl, Shl, I!Shr, Shr, I!AddHi, AddHi

LEMMA SameBytes ==
    /\ \A x : I!LowByte(x) = LowByte(x) /\ I!HighByte(x) = HighByte(x)
    /\ \A x : I!Sext(x) = Sext(x)
  BY SameWords DEF I!LowByte, LowByte, I!HighByte, HighByte, I!Sext, Sext

LEMMA SameRam ==
    /\ \A m, x, be : I!ReadRam(m, x, be) = ReadRam(m, x, be)
    /\ \A m, x, v, be : I!WriteRam(m, x, v, be) = WriteRam(m, x, v, be)
  BY SameBytes DEF I!ReadRam, ReadRam, I!WriteRam, WriteRam

LEMMA SameConds ==
    \A cond, d, c : I!FsimDecides(cond, d, c) = FsimDecides(cond, d, c)
  BY DEF I!FsimDecides, FsimDecides, I!Negative, Negative

LEMMA SumCommutes ==
    ASSUME NEW x \in Word, NEW y \in Word
    PROVE  Sum(x, y) = Sum(y, x) /\ Sum(x, 0) = x
  BY Sizes DEF Sum, Word

LEMMA SameInstr == I!Instr = Instr
<1>1. I!Op = Op /\ I!Regs = Regs /\ I!Cond = Cond
  BY DEF I!Op, Op, I!Alu3, Alu3, I!AluImm, AluImm, I!Addskp, Addskp, I!Addskpi, Addskpi,
         I!BaseBP, BaseBP, I!Indexed, Indexed, I!Regs, Regs, I!Cond, Cond
<1> QED
  BY <1>1, SameWords DEF I!Instr, Instr

LEMMA SameClasses ==
    /\ I!Alu3 = Alu3 /\ I!AluImm = AluImm /\ I!Addskp = Addskp /\ I!Addskpi = Addskpi
    /\ I!BaseBP = BaseBP /\ I!ByteOps = ByteOps
  BY DEF I!Alu3, Alu3, I!AluImm, AluImm, I!Addskp, Addskp, I!Addskpi, Addskpi,
         I!BaseBP, BaseBP, I!ByteOps, ByteOps

\* Both simulators decide a skip.c on the same difference and borrow alike.
LEMMA SameVerdict ==
    ASSUME NEW cond \in Cond, NEW d \in Word, NEW c \in BOOLEAN
    PROVE  /\ MicroDecides(cond, d, c) <=> FsimDecides(cond, d, c)
           /\ MicroDecides("EQ", d, c) <=> d = 0
           /\ MicroDecides("NEQ", d, c) <=> d # 0
  BY Sizes DEF MicroDecides, FsimDecides, Cond, Negative, Word

\* RegsAfter and RamAfter are what the instruction's action of Isa says.
LEMMA Executes ==
    ASSUME Meant \in Instr, Meant.op # "hlt", snap'.regs = RegsAfter, snap'.ram = RamAfter
    PROVE  I!Execute(Meant)
<1>0. Meant.op \in Op \ {"hlt"}
  BY DEF Instr
<1>1. CASE Meant.op \in Alu3 \cup AluImm \cup {"ldi", "sext", "addhi", "shl", "shr", "br", "br.r"}
  <2>1. ~SkipHolds /\ RamAfter = snap.ram
    BY <1>1 DEF SkipHolds, RamAfter, Stores, Alu3, AluImm, Addskp, Addskpi
  <2>2. WithoutSkip = I!Computed(Meant)
    BY <1>1 DEF WithoutSkip, Direct, FromImm, Shifts, Addskp, Addskpi, Alu3, AluImm, Loads
  <2>3. I!Compute(Meant)
    BY <1>1, <2>1, <2>2, SameClasses DEF I!Compute, RegsAfter
  <2> QED
    BY <2>3 DEF I!Execute
<1>2. CASE Meant.op \in Addskp \cup Addskpi
  <2>1. RamAfter = snap.ram
    BY <1>2 DEF RamAfter, Stores, Addskp, Addskpi
  <2>2. WithoutSkip = I!Computed(Meant)
    BY <1>2 DEF WithoutSkip, Direct, FromImm, Shifts, Addskp, Addskpi, Alu3, AluImm, Loads
  <2>3. SkipHolds = ((I!Value(Meant, I!Fetched) = 0) = (Meant.op \in {"addskp.z", "addskpi.z"}))
    BY <1>2 DEF SkipHolds, Addskp, Addskpi
  <2>4. I!AddSkip(Meant)
    BY <1>2, <2>1, <2>2, <2>3, SameClasses DEF I!AddSkip, RegsAfter
  <2> QED
    BY <2>4 DEF I!Execute
<1>3. CASE Meant.op = "skip"
  <2> DEFINE x == I!Fetched[Meant.arg0]
             y == I!Fetched[Meant.arg1]
  <2>1. RamAfter = snap.ram
    BY <1>3 DEF RamAfter, Stores
  <2>2. WithoutSkip = I!Fetched
    BY <1>3 DEF WithoutSkip, Direct, FromImm, Shifts, Alu3, Addskp, AluImm, Addskpi, Loads
  <2>3. SkipHolds = FsimDecides(Meant.cond, Diff(x, y), Borrow(x, y))
    BY <1>3 DEF SkipHolds, Addskp, Addskpi
  <2>4. I!FsimDecides(Meant.cond, I!Diff(x, y), I!Borrow(x, y)) = SkipHolds
    BY <2>3, SameSums, SameConds
  <2>5. I!SkipOn(Meant)
    BY <1>3, <2>1, <2>2, <2>4 DEF I!SkipOn, RegsAfter
  <2> QED
    BY <2>5 DEF I!Execute
<1>4. CASE Meant.op \in Loads
  <2>1. ~SkipHolds /\ RamAfter = snap.ram
    BY <1>4 DEF SkipHolds, RamAfter, Loads, Stores, Addskp, Addskpi
  <2>2. WithoutSkip = [I!Fetched EXCEPT ![I!Target(Meant)] =
                          ReadRam(snap.ram, I!Address(Meant), Meant.op \in ByteOps)]
    BY <1>4 DEF WithoutSkip, Direct, FromImm, Shifts, Alu3, Addskp, AluImm, Addskpi, Loads
  <2>3. I!ReadRam(snap.ram, I!Address(Meant), Meant.op \in I!ByteOps)
          = ReadRam(snap.ram, I!Address(Meant), Meant.op \in ByteOps)
    BY SameRam, SameClasses
  <2>4. I!LoadMem(Meant)
    BY <1>4, <2>1, <2>2, <2>3 DEF I!LoadMem, RegsAfter, Loads
  <2> QED
    BY <2>4 DEF I!Execute
<1>5. CASE Meant.op \in Stores
  <2> DEFINE v == IF Meant.op \in {"stw0", "stb0"} THEN 0
                  ELSE IF Meant.op \in BaseBP THEN I!Fetched[Meant.tgt2] ELSE I!Fetched[Meant.tgt]
  <2>1. ~SkipHolds /\ WithoutSkip = I!Fetched
    BY <1>5 DEF SkipHolds, WithoutSkip, Stores, Direct, FromImm, Shifts, Alu3, Addskp, AluImm,
                Addskpi, Loads
  <2>2. StoreValue = v /\ StoreAddress = I!Address(Meant)
    BY <1>5 DEF StoreValue, StoreAddress, Stores, BaseBP
  <2>3. RamAfter = WriteRam(snap.ram, I!Address(Meant), v, Meant.op \in ByteOps)
    BY <1>5, <2>2 DEF RamAfter
  <2>4. I!WriteRam(snap.ram, I!Address(Meant), v, Meant.op \in I!ByteOps) = RamAfter
    BY <2>3, SameRam, SameClasses
  <2>5. I!StoreMem(Meant)
    BY <1>5, <2>1, <2>4, SameClasses DEF I!StoreMem, RegsAfter, Stores
  <2> QED
    BY <2>5 DEF I!Execute
<1>6. CASE Meant.op = "push"
  <2>1. ~SkipHolds /\ WithoutSkip = Pushed
    BY <1>6 DEF SkipHolds, WithoutSkip, Direct, FromImm, Shifts, Alu3, Addskp, AluImm,
                Addskpi, Loads
  <2>2. Pushed = [I!Fetched EXCEPT ![SP] = I!Diff(@, 2)]
    BY SameSums DEF Pushed
  <2>3. (Meant.op \in ByteOps) = FALSE
    BY <1>6 DEF ByteOps
  <2>4. RamAfter = I!WriteRam(snap.ram, Pushed[SP], Pushed[Meant.tgt], FALSE)
    BY <1>6, <2>3, SameRam DEF RamAfter, StoreAddress, StoreValue, BaseBP
  <2>5. I!Push(Meant)
    BY <1>6, <2>1, <2>2, <2>4 DEF I!Push, RegsAfter
  <2> QED
    BY <2>5 DEF I!Execute
<1>7. CASE Meant.op = "pop"
  <2>1. ~SkipHolds /\ RamAfter = snap.ram
    BY <1>7 DEF SkipHolds, RamAfter, Stores, Addskp, Addskpi
  <2>2. WithoutSkip = [Popped EXCEPT ![SP] = I!Sum(@, 2)]
    BY <1>7, SameSums DEF WithoutSkip, Direct, FromImm, Shifts, Alu3, Addskp, AluImm, Addskpi,
                          Loads
  <2>3. Popped = [I!Fetched EXCEPT ![Meant.tgt] = I!ReadRam(snap.ram, I!Fetched[SP], FALSE)]
    BY SameRam DEF Popped
  <2>4. I!Pop(Meant)
    BY <1>7, <2>1, <2>2, <2>3 DEF I!Pop, RegsAfter
  <2> QED
    BY <2>4 DEF I!Execute
<1>8. CASE Meant.op = "brk"
  <2>1. ~SkipHolds /\ RamAfter = snap.ram
    BY <1>8 DEF SkipHolds, RamAfter, Stores, Addskp, Addskpi
  <2>2. WithoutSkip = I!Fetched
    BY <1>8 DEF WithoutSkip, Direct, FromImm, Shifts, Alu3, Addskp, AluImm, Addskpi, Loads
  <2>3. I!Break(Meant)
    BY <1>8, <2>1, <2>2 DEF I!Break, RegsAfter
  <2> QED
    BY <2>3 DEF I!Execute
<1> QED
  BY <1>0, <1>1, <1>2, <1>3, <1>4, <1>5, <1>6, <1>7, <1>8
     DEF Op, Loads, Stores, BaseBP, Indexed


-----------------------------------------------------------------------------
\* What the circuit computes is what the instruction meant computes.

\* A count that is one too long: N - 1 and N both shift out everything.
LEMMA OneMore ==
    ASSUME NEW x \in Word, NEW y \in Word
    PROVE  Shl(x, y + 1) = Shl(x, Longer(y)) /\ Shr(x, y + 1) = Shr(x, Longer(y))
<1>1. CASE y = N - 1
  <2>1. y + 1 = N /\ Longer(y) = N - 1
    BY <1>1, Sizes DEF Longer
  <2>2. N \in {N - 1, N} /\ N - 1 \in {N - 1, N}
    OBVIOUS
  <2> QED
    BY <2>1, <2>2, LongShiftsAssumption
<1>2. CASE y # N - 1
  BY <1>2 DEF Longer
<1> QED
  BY <1>1, <1>2

LEMMA LongerType == \A y \in Word : Longer(y) \in Word
  BY Sizes DEF Longer, Word

\* The machine's registers while the instruction is carried out.
LEMMA FetchedType ==
    ASSUME TypeInv
    PROVE  /\ I!Fetched \in [Regs -> Word] /\ I!Fetched = PcPlus2(snap.regs)
           /\ \A r \in Regs : I!Fetched[r] = IF r = PC THEN Sum(snap.regs[PC], 2)
                                             ELSE snap.regs[r]
<1>1. snap.regs \in [Regs -> Word]
  BY DEF TypeInv, TypeOK
<1>2. I!Fetched = PcPlus2(snap.regs)
  BY SameSums DEF I!Fetched, PcPlus2
<1>3. Sum(snap.regs[PC], 2) \in Word
  BY <1>1, SumType, RoleTypes, Sizes
<1> QED
  BY <1>1, <1>2, <1>3, RoleTypes DEF PcPlus2

LEMMA MeantIs ==
    ASSUME TypeInv, ir \in Instr
    PROVE  /\ Meant \in Instr
           /\ ir.op \notin Direct \cup Shifts \cup Addskpi => Meant = ir
           /\ ir.op \in Shifts => Meant = [ir EXCEPT !.imm = Longer(ir.imm)]
           /\ ir.op \in Addskpi =>
                 Meant = IF ir.tgt = PC THEN [ir EXCEPT !.op = "addi"] ELSE ir
           /\ ir.op \in Addskp =>
                 Meant = IF ir.tgt = PC THEN [ir EXCEPT !.op = "add"] ELSE ir
           /\ ir.op = "sext" => Meant = [ir EXCEPT !.op = "add", !.arg1 = 0]
           /\ ir.op \in {"add", "sub", "and", "or", "br.r"} => Meant = ir
           /\ ir.op \in {"shl.r", "shr.r"} =>
                 Meant = [Plain(IF ir.op = "shl.r" THEN "shl" ELSE "shr") EXCEPT
                    !.arg2 = ir.arg0, !.tgt2 = ir.tgt, !.imm = Longer(I!Fetched[ir.arg1])]
           /\ ir.op # "hlt" => Meant.op # "hlt"
<1> USE DEF Meant, Means
<1>0. ir.arg1 \in Regs /\ ir.imm \in Word /\ Longer(ir.imm) \in Word
  BY LongerType DEF Instr
<1>1. (IF ir.arg1 = PC THEN Sum(snap.regs[PC], 2) ELSE snap.regs[ir.arg1]) = I!Fetched[ir.arg1]
  BY <1>0, FetchedType
<1>2. I!Fetched[ir.arg1] \in Word /\ Longer(I!Fetched[ir.arg1]) \in Word
  BY <1>0, FetchedType, LongerType
<1>3. CASE ir.op \in {"shl.r", "shr.r"}
  <2>1. Meant = [Plain(IF ir.op = "shl.r" THEN "shl" ELSE "shr") EXCEPT
                    !.arg2 = ir.arg0, !.tgt2 = ir.tgt, !.imm = Longer(I!Fetched[ir.arg1])]
    BY <1>1, <1>3 DEF Addskp, Addskpi
  <2>2. Plain("shl") \in Instr /\ Plain("shr") \in Instr
    BY RoleTypes, Sizes DEF Plain, Instr, Op, Cond
  <2>3. ir.arg0 \in Regs /\ ir.tgt \in Regs
    BY DEF Instr
  <2>4. Meant \in Instr
    <3>1. \A j \in Instr, a, t \in Regs, n \in Word :
             [j EXCEPT !.arg2 = a, !.tgt2 = t, !.imm = n] \in Instr
      BY DEF Instr
    <3> HIDE DEF Meant
    <3> QED
      BY <1>2, <2>1, <2>2, <2>3, <3>1
  <2>5. Meant.op # "hlt"
    BY <2>1 DEF Plain
  <2> QED
    BY <1>3, <2>1, <2>4, <2>5 DEF Direct, Alu3, Shifts, Addskp, Addskpi
<1>4. CASE ir.op \in Shifts
  <2>1. Meant = [ir EXCEPT !.imm = Longer(ir.imm)]
    BY <1>4 DEF Shifts, Addskp, Addskpi
  <2>2. Meant \in Instr
    <3> HIDE DEF Meant
    <3> QED
      BY <1>0, <2>1 DEF Instr
  <2> QED
    BY <1>4, <2>1, <2>2 DEF Instr, Direct, Alu3, Shifts, Addskp, Addskpi
<1>5. CASE ir.op \in Addskp \cup Addskpi \cup {"sext"}
  <2>1. "add" \in Op /\ "addi" \in Op
    BY DEF Op, Alu3, AluImm
  <2>2. /\ ir.op \in Addskpi => Meant = IF ir.tgt = PC THEN [ir EXCEPT !.op = "addi"] ELSE ir
        /\ ir.op \in Addskp => Meant = IF ir.tgt = PC THEN [ir EXCEPT !.op = "add"] ELSE ir
        /\ ir.op = "sext" => Meant = [ir EXCEPT !.op = "add", !.arg1 = 0]
    BY <1>5 DEF Addskp, Addskpi
  <2>3. /\ [ir EXCEPT !.op = "addi"] \in Instr /\ [ir EXCEPT !.op = "add"] \in Instr
        /\ [ir EXCEPT !.op = "add", !.arg1 = 0] \in Instr
    BY <2>1, RoleTypes DEF Instr
  <2>4. Meant \in Instr /\ Meant.op # "hlt"
    BY <1>5, <2>2, <2>3 DEF Addskp, Addskpi, Instr
  <2> HIDE DEF Meant
  <2> QED
    BY <1>5, <2>2, <2>4 DEF Direct, Alu3, Shifts, Addskp, Addskpi
<1>6. CASE ir.op \notin {"shl.r", "shr.r", "sext"} \cup Shifts \cup Addskp \cup Addskpi
  <2>1. Meant = ir
    BY <1>6 DEF Shifts
  <2> QED
    BY <1>6, <2>1
<1> QED
  BY <1>3, <1>4, <1>5, <1>6

LEMMA DirectValue ==
    ASSUME TypeInv, Running, icycle = "DECODEM", ir \in Instr, ir.op \in Direct, regs = I!Fetched
    PROVE  /\ Out = I!Value(Meant, I!Fetched)
           /\ I!Target(Meant) = IF ir.op = "br.r" THEN PC ELSE ir.tgt
           /\ Meant.op \in Direct \cup Shifts
<1>1. Row = DecodeRow(ir.op)
  BY RunningRow
<1>2. /\ \A r \in Regs : regs[r] \in Word
      /\ ir.arg0 \in Regs /\ ir.arg1 \in Regs /\ ir.tgt \in Regs /\ regs[0] = 0 /\ 0 \in Regs
  BY RoleTypes DEF TypeInv, TypeOK, Instr
<1>3. CASE ir.op \in {"add", "sub"} \cup Addskp
  <2>1. /\ Row.r0 = "arg0" /\ Row.r1 = "arg1" /\ Row.op0 = "regr0" /\ Row.op1 = "regr1"
        /\ Row.alu = IF ir.op = "sub" THEN "sub" ELSE "add"
    BY <1>1, <1>3, DirectRow DEF Direct, Alu3, Addskp
  <2>2. Out = IF ir.op = "sub" THEN Diff(regs[ir.arg0], regs[ir.arg1])
              ELSE Sum(regs[ir.arg0], regs[ir.arg1])
    BY <2>1 DEF Out, ALU, Wired, Selected
  <2>3. CASE ir.op = "sub"
    <3>1. Meant = ir
      BY <2>3, MeantIs
    <3>2. I!Value(ir, regs) = Diff(regs[ir.arg0], regs[ir.arg1])
      BY <2>3, SameSums DEF I!Value
    <3> QED
      BY <2>2, <2>3, <3>1, <3>2 DEF I!Target, Direct, Alu3
  <2>4. CASE ir.op \in {"add", "addskp.z", "addskp.nz"}
    <3>1. /\ Meant.op \in {"add", "addskp.z", "addskp.nz"}
          /\ Meant.arg0 = ir.arg0 /\ Meant.arg1 = ir.arg1 /\ Meant.tgt = ir.tgt
      <4>1. Meant = ir \/ Meant = [ir EXCEPT !.op = "add"]
        BY <2>4, MeantIs DEF Addskp
      <4> QED
        BY <2>4, <4>1 DEF Instr
    <3>2. I!Value(Meant, regs) = Sum(regs[ir.arg0], regs[ir.arg1])
      BY <3>1, SameSums DEF I!Value
    <3> QED
      BY <2>2, <2>4, <3>1, <3>2 DEF I!Target, Direct, Alu3, Addskp
  <2> QED
    BY <1>3, <2>3, <2>4 DEF Addskp
<1>4. CASE ir.op \in {"shl.r", "shr.r"}
  <2>1. /\ Row.r0 = "arg0" /\ Row.r1 = "arg1" /\ Row.op0 = "regr0" /\ Row.op1 = "regr1"
        /\ Row.alu = IF ir.op = "shl.r" THEN "shl" ELSE "shr"
    BY <1>1, <1>4, DirectRow DEF Direct, Alu3, Addskp
  <2> DEFINE x == regs[ir.arg0]
             y == regs[ir.arg1]
  <2>2. Out = IF ir.op = "shl.r" THEN Shl(x, y + 1) ELSE Shr(x, y + 1)
    BY <2>1 DEF Out, ALU, Wired, Selected
  <2>3. /\ Meant.op = (IF ir.op = "shl.r" THEN "shl" ELSE "shr")
        /\ Meant.arg2 = ir.arg0 /\ Meant.tgt2 = ir.tgt /\ Meant.imm = Longer(y)
    BY <1>4, MeantIs DEF Plain
  <2>4. I!Value(Meant, regs) = IF ir.op = "shl.r" THEN Shl(x, Longer(y)) ELSE Shr(x, Longer(y))
    BY <1>4, <2>3, SameShifts DEF I!Value
  <2>5. x \in Word /\ y \in Word
    BY <1>2
  <2>6. Out = I!Value(Meant, regs)
    BY <1>4, <2>2, <2>4, <2>5, OneMore
  <2> QED
    BY <1>4, <2>3, <2>6 DEF I!Target, Shifts
<1>5. CASE ir.op \in {"and", "or"}
  <2>1. /\ Row.r0 = "arg1" /\ Row.r1 = "arg0" /\ Row.op0 = "regr0" /\ Row.op1 = "regr1"
        /\ Row.alu = ir.op
    BY <1>1, <1>5, DirectRow DEF Direct, Alu3, Addskp
  <2>2. Out = IF ir.op = "and" THEN BitAnd(regs[ir.arg1], regs[ir.arg0])
              ELSE BitOr(regs[ir.arg1], regs[ir.arg0])
    BY <1>5, <2>1 DEF Out, ALU, Wired, Selected
  <2>3. Meant = ir
    BY <1>5, MeantIs
  <2>4. I!Value(ir, regs) = IF ir.op = "and" THEN BitAnd(regs[ir.arg0], regs[ir.arg1])
                            ELSE BitOr(regs[ir.arg0], regs[ir.arg1])
    BY <1>5 DEF I!Value
  <2> QED
    BY <1>2, <1>5, <2>2, <2>3, <2>4, WordOpsAssumption DEF I!Target
<1>6. CASE ir.op \in {"sext", "br.r"}
  <2>1. /\ Row.r0 = IF ir.op = "sext" THEN "arg0" ELSE "tgt"
        /\ Row.r1 = "reg0" /\ Row.op0 = "regr0" /\ Row.op1 = "regr1" /\ Row.alu = "add"
    BY <1>1, <1>6, DirectRow DEF Direct, Alu3, Addskp
  <2>2. Out = Sum(regs[IF ir.op = "sext" THEN ir.arg0 ELSE ir.tgt], regs[0])
    BY <1>6, <2>1 DEF Out, ALU, Wired, Selected
  <2>3. CASE ir.op = "sext"
    <3>1. /\ Meant.op = "add" /\ Meant.arg0 = ir.arg0 /\ Meant.arg1 = 0 /\ Meant.tgt = ir.tgt
      BY <2>3, MeantIs DEF Instr
    <3>2. I!Value(Meant, regs) = Sum(regs[ir.arg0], regs[0])
      BY <3>1, SameSums DEF I!Value
    <3> QED
      BY <2>2, <2>3, <3>1, <3>2 DEF I!Target, Direct, Alu3
  <2>4. CASE ir.op = "br.r"
    <3>1. Meant = ir
      BY <2>4, MeantIs
    <3>2. I!Value(ir, regs) = regs[ir.tgt]
      BY <2>4 DEF I!Value
    <3>3. Out = regs[ir.tgt]
      BY <1>2, <2>2, <2>4, SumCommutes
    <3> QED
      BY <2>4, <3>1, <3>2, <3>3 DEF I!Target
  <2> QED
    BY <1>6, <2>3, <2>4
<1> QED
  BY <1>3, <1>4, <1>5, <1>6 DEF Direct, Alu3, Addskp

LEMMA ImmValue ==
    ASSUME TypeInv, Running, icycle = "EXECUTEM", ir \in Instr, ir.op \in FromImm \cup Shifts,
           mdr = ir.imm, regs = I!Fetched
    PROVE  /\ Out = I!Value(Meant, I!Fetched)
           /\ I!Target(Meant) = CASE ir.op = "br" -> PC
                                  [] ir.op \in Shifts \cup {"addhi"} -> ir.tgt2
                                  [] OTHER -> ir.tgt
           /\ Meant.op \in FromImm \cup Shifts
<1>1. Row = ExecRow(ir.op)
  BY RunningRow
<1>2. /\ \A r \in Regs : regs[r] \in Word
      /\ ir.arg1 \in Regs /\ ir.arg2 \in Regs /\ ir.tgt2 \in Regs /\ PC \in Regs
      /\ ir.imm \in Word /\ regs[0] = 0
  BY RoleTypes DEF TypeInv, TypeOK, Instr
<1>3. CASE ir.op \in {"ldi", "br", "addhi"}
  <2>1. /\ Row.op0 = "mdr" /\ Row.alu = IF ir.op = "addhi" THEN "addhi" ELSE "add"
        /\ ir.op = "ldi" => Row.op1 = "regr0" /\ Row.r0 = "reg0"
        /\ ir.op = "br" => Row.op1 = "regr0" /\ Row.r0 = "pc"
        /\ ir.op = "addhi" => Row.op1 = "regr1" /\ Row.r1 = "tgt2"
    BY <1>1, <1>3, ImmExecRow DEF FromImm, Shifts, AluImm, Addskpi
  <2>2. /\ Wired(Row.op0) = ir.imm
        /\ Wired(Row.op1) = CASE ir.op = "ldi" -> 0 [] ir.op = "br" -> regs[PC]
                              [] ir.op = "addhi" -> regs[ir.tgt2]
    BY <1>2, <1>3, <2>1 DEF Wired, Selected
  <2>3. Meant = ir
    BY <1>3, MeantIs DEF Direct, Alu3, Addskp, Addskpi, Shifts
  <2>4. Out = I!Value(ir, regs)
    BY SameSums, SameShifts, <1>2, <1>3, <2>1, <2>2, SumCommutes DEF Out, ALU, I!Value
  <2> QED
    BY <1>3, <2>3, <2>4 DEF I!Target, FromImm, Shifts
<1>4. CASE ir.op \in {"addi", "subi"}
  <2>1. /\ Row.op0 = "regr1" /\ Row.r1 = "arg1" /\ Row.op1 = "mdr"
        /\ Row.alu = IF ir.op = "subi" THEN "sub" ELSE "add"
    BY <1>1, <1>4, ImmExecRow DEF FromImm, Shifts, AluImm, Addskpi
  <2>2. Out = IF ir.op = "subi" THEN Diff(regs[ir.arg1], ir.imm) ELSE Sum(regs[ir.arg1], ir.imm)
    BY <1>4, <2>1 DEF Out, ALU, Wired, Selected
  <2>3. Meant = ir
    BY <1>4, MeantIs DEF Direct, Alu3, Addskp, Addskpi, Shifts
  <2>4. I!Value(ir, regs) = IF ir.op = "subi" THEN Diff(regs[ir.arg1], ir.imm)
                            ELSE Sum(ir.imm, regs[ir.arg1])
    BY <1>4, SameSums DEF I!Value
  <2>5. Out = I!Value(Meant, regs)
    BY <1>2, <2>2, <2>3, <2>4, SumCommutes
  <2> QED
    BY <1>4, <2>3, <2>5 DEF I!Target, FromImm, AluImm, Shifts
<1>7. CASE ir.op \in Addskpi
  <2>1. Row.op0 = "mdr" /\ Row.r1 = "arg1" /\ Row.op1 = "regr1" /\ Row.alu = "add"
    BY <1>1, <1>7, ImmExecRow DEF FromImm, Shifts, AluImm, Addskpi
  <2>2. Out = Sum(ir.imm, regs[ir.arg1])
    BY <2>1 DEF Out, ALU, Wired, Selected
  <2>3. /\ Meant.op \in {"addi", "addskpi.z", "addskpi.nz"}
        /\ Meant.arg1 = ir.arg1 /\ Meant.imm = ir.imm /\ Meant.tgt = ir.tgt
    <3>1. Meant = ir \/ Meant = [ir EXCEPT !.op = "addi"]
      BY <1>7, MeantIs
    <3> QED
      BY <1>7, <3>1 DEF Instr, Addskpi
  <2>4. I!Value(Meant, regs) = Sum(ir.imm, regs[ir.arg1])
    BY <2>3, SameSums DEF I!Value
  <2> QED
    BY <1>7, <2>2, <2>3, <2>4 DEF I!Target, FromImm, AluImm, Addskpi, Shifts
<1>5. CASE ir.op \in {"andi", "ori"}
  <2>1. /\ Row.op0 = "regr0" /\ Row.r0 = "arg1" /\ Row.op1 = "mdr"
        /\ Row.alu = IF ir.op = "andi" THEN "and" ELSE "or"
    BY <1>1, <1>5, ImmExecRow DEF FromImm, Shifts, AluImm, Addskpi
  <2>2. Out = IF ir.op = "andi" THEN BitAnd(regs[ir.arg1], ir.imm)
              ELSE BitOr(regs[ir.arg1], ir.imm)
    BY <1>5, <2>1 DEF Out, ALU, Wired, Selected
  <2>3. Meant = ir
    BY <1>5, MeantIs DEF Direct, Alu3, Addskp, Addskpi, Shifts
  <2>4. I!Value(ir, regs) = IF ir.op = "andi" THEN BitAnd(ir.imm, regs[ir.arg1])
                            ELSE BitOr(ir.imm, regs[ir.arg1])
    BY <1>5 DEF I!Value
  <2> QED
    BY <1>2, <1>5, <2>2, <2>3, <2>4, WordOpsAssumption DEF I!Target, FromImm, AluImm, Shifts
<1>6. CASE ir.op \in Shifts
  <2>1. Row.op0 = "regr0" /\ Row.r0 = "arg2" /\ Row.op1 = "mdr" /\ Row.alu = ir.op
    BY <1>1, <1>6, ImmExecRow DEF FromImm, Shifts, AluImm, Addskpi
  <2>2. Out = IF ir.op = "shl" THEN Shl(regs[ir.arg2], ir.imm + 1)
              ELSE Shr(regs[ir.arg2], ir.imm + 1)
    BY <1>6, <2>1 DEF Out, ALU, Wired, Selected, Shifts
  <2>3. /\ Meant.op = ir.op /\ Meant.arg2 = ir.arg2 /\ Meant.tgt2 = ir.tgt2
        /\ Meant.imm = Longer(ir.imm)
    BY <1>6, MeantIs DEF Instr
  <2>4. I!Value(Meant, regs) = IF ir.op = "shl" THEN Shl(regs[ir.arg2], Longer(ir.imm))
                               ELSE Shr(regs[ir.arg2], Longer(ir.imm))
    BY <1>6, <2>3, SameShifts DEF I!Value, Shifts
  <2>5. Out = I!Value(Meant, regs)
    BY <1>2, <2>2, <2>4, OneMore
  <2> QED
    BY <1>6, <2>3, <2>5 DEF I!Target, Shifts
<1> QED
  BY <1>3, <1>4, <1>5, <1>6, <1>7 DEF FromImm, AluImm

LEMMA IncrPcIsPlus2 == \A r : I!IncrPc(r) = PcPlus2(r)
  BY SameSums DEF I!IncrPc, PcPlus2

\* A skip counts before the result is written, which a target PC overrides.
LEMMA DirectResult ==
    ASSUME TypeInv, FallingEdge, icycle = "DECODEM", ir.op \in Direct, regs = I!Fetched
    PROVE  regs' = RegsAfter
<1> DEFINE t == IF ir.op = "br.r" THEN PC ELSE ir.tgt
<1>1. /\ Latching("FE") /\ Running /\ ir \in Instr /\ icycle \notin Fetching
      /\ skip = (Row.skipc # "none" /\ icycle \notin Odd /\ Chkskip(Out))
  BY FallsOn DEF Fetching
<1>2. /\ Out = I!Value(Meant, I!Fetched) /\ I!Target(Meant) = t
      /\ Meant.op \in Direct \cup Shifts /\ Out \in Word
  BY <1>1, DirectValue, LatchedSignals
<1>3. t \in Regs /\ I!Fetched \in [Regs -> Word]
  BY <1>1, RoleTypes, FetchedType DEF Instr
<1>4. regs' = [IF skip THEN PcPlus2(I!Fetched) ELSE I!Fetched EXCEPT ![t] = Out]
  BY FallsDecodem
<1>5. WithoutSkip = [I!Fetched EXCEPT ![t] = Out]
  <2>1. WithoutSkip = I!Computed(Meant)
    BY <1>2 DEF WithoutSkip, Direct, FromImm, Shifts, Alu3, Addskp, AluImm, Addskpi, Loads
  <2> QED
    BY <1>2, <2>1 DEF I!Computed
<1>6. Row.skipc = CASE ir.op = "addskp.z" -> "zr" [] ir.op = "addskp.nz" -> "nzr"
                    [] OTHER -> "none"
  BY <1>1, RunningRow, DirectRow
<1>7. CASE ir.op \notin Addskp
  <2>1. ~skip
    BY <1>1, <1>6, <1>7 DEF Addskp
  <2>2. Meant.op \notin Addskp \cup Addskpi \cup {"skip"}
    <3>1. Meant = ir \/ Meant.op \in Shifts \/ Meant.op = "add"
      <4>1. CASE ir.op \in {"add", "sub", "and", "or", "br.r"}
        BY <1>1, <4>1, MeantIs
      <4>2. CASE ir.op = "sext"
        BY <1>1, <4>2, MeantIs DEF Instr
      <4>3. CASE ir.op \in {"shl.r", "shr.r"}
        BY <1>1, <4>3, MeantIs DEF Plain, Shifts
      <4> QED
        BY <1>7, <4>1, <4>2, <4>3 DEF Direct, Alu3
    <3> QED
      BY <1>7, <3>1 DEF Direct, Alu3, Addskp, Addskpi, Shifts
  <2>3. ~SkipHolds
    BY <2>2 DEF SkipHolds
  <2> QED
    BY <1>4, <1>5, <2>1, <2>3 DEF RegsAfter
<1>8. CASE ir.op \in Addskp
  <2>1. t = ir.tgt
    BY <1>8 DEF Addskp
  <2>2. Chkskip(Out) <=> (Out = 0) = (ir.op = "addskp.z")
    <3>1. carry \in BOOLEAN /\ "EQ" \in Cond
      BY DEF TypeInv, TypeOK, Cond
    <3>2. /\ MicroDecides("EQ", Out, carry) <=> Out = 0
          /\ MicroDecides("NEQ", Out, carry) <=> Out # 0
      BY <1>2, <3>1, SameVerdict
    <3>3. CASE ir.op = "addskp.z"
      BY <1>6, <3>2, <3>3 DEF Chkskip
    <3>4. CASE ir.op = "addskp.nz"
      BY <1>6, <3>2, <3>4 DEF Chkskip
    <3> QED
      BY <1>8, <3>3, <3>4 DEF Addskp
  <2>3. skip <=> (Out = 0) = (ir.op = "addskp.z")
    BY <1>1, <1>6, <1>8, <2>2 DEF Addskp, Odd
  <2>4. CASE t = PC
    <3>1. Meant = [ir EXCEPT !.op = "add"]
      BY <1>1, <1>8, <2>1, <2>4, MeantIs
    <3>2. ~SkipHolds
      BY <1>1, <3>1 DEF SkipHolds, Addskp, Addskpi, Instr
    <3>3. regs' = [I!Fetched EXCEPT ![t] = Out]
      BY <1>2, <1>3, <1>4, <2>4, RoleTypes DEF PcPlus2
    <3> QED
      BY <1>5, <3>2, <3>3 DEF RegsAfter
  <2>5. CASE t # PC
    <3>1. Meant = ir
      BY <1>1, <1>8, <2>1, <2>5, MeantIs
    <3>2. SkipHolds <=> (Out = 0) = (ir.op = "addskp.z")
      BY <1>2, <1>8, <3>1 DEF SkipHolds, Addskp, Addskpi
    <3>3. regs' = IF skip THEN PcPlus2([I!Fetched EXCEPT ![t] = Out])
                  ELSE [I!Fetched EXCEPT ![t] = Out]
      <4> HIDE DEF t
      <4>1. [PcPlus2(I!Fetched) EXCEPT ![t] = Out] = PcPlus2([I!Fetched EXCEPT ![t] = Out])
        BY <1>2, <1>3, <2>5, RoleTypes DEF PcPlus2
      <4> QED
        BY <1>4, <4>1
    <3> QED
      BY <1>5, <2>3, <3>2, <3>3, IncrPcIsPlus2 DEF RegsAfter
  <2> QED
    BY <2>4, <2>5
<1> QED
  BY <1>7, <1>8

LEMMA ImmResult ==
    ASSUME TypeInv, FallingEdge, icycle = "EXECUTEM", ir.op \in FromImm \cup Shifts,
           mdr = ir.imm, regs = I!Fetched
    PROVE  regs' = RegsAfter
<1> DEFINE t == CASE ir.op = "br" -> PC
                  [] ir.op \in Shifts \cup {"addhi"} -> ir.tgt2
                  [] OTHER -> ir.tgt
<1>1. /\ Latching("FE") /\ Running /\ ir \in Instr /\ icycle \notin Fetching
      /\ skip = (Row.skipc # "none" /\ icycle \notin Odd /\ Chkskip(Out))
  BY FallsOn DEF Fetching
<1>2. /\ Out = I!Value(Meant, I!Fetched) /\ I!Target(Meant) = t
      /\ Meant.op \in FromImm \cup Shifts /\ Out \in Word
  BY <1>1, ImmValue, LatchedSignals
<1>3. t \in Regs /\ I!Fetched \in [Regs -> Word]
  BY <1>1, RoleTypes, FetchedType DEF Instr, Shifts
<1>4. regs' = [IF skip THEN PcPlus2(I!Fetched) ELSE I!Fetched EXCEPT ![t] = Out]
  BY FallsExecutem
<1>5. WithoutSkip = [I!Fetched EXCEPT ![t] = Out]
  <2>1. WithoutSkip = I!Computed(Meant)
    BY <1>2 DEF WithoutSkip, Direct, FromImm, Shifts, Alu3, Addskp, AluImm, Addskpi, Loads
  <2> QED
    BY <1>2, <2>1 DEF I!Computed
<1>6. Row.skipc = CASE ir.op = "addskpi.z" -> "zr" [] ir.op = "addskpi.nz" -> "nzr"
                    [] OTHER -> "none"
  BY <1>1, RunningRow, ImmExecRow
<1>7. CASE ir.op \notin Addskpi
  <2>1. ~skip
    BY <1>1, <1>6, <1>7 DEF Addskpi
  <2>2. Meant.op = ir.op
    <3>1. CASE ir.op \in Shifts
      BY <1>1, <3>1, MeantIs DEF Instr
    <3>2. CASE ir.op \notin Shifts
      BY <1>1, <1>7, <3>2, MeantIs DEF FromImm, AluImm, Direct, Alu3, Addskp, Addskpi
    <3> QED
      BY <3>1, <3>2
  <2>3. ~SkipHolds
    BY <1>7, <2>2 DEF SkipHolds, Addskp, Addskpi, FromImm, Shifts, AluImm
  <2> QED
    BY <1>4, <1>5, <2>1, <2>3 DEF RegsAfter
<1>8. CASE ir.op \in Addskpi
  <2>1. t = ir.tgt
    BY <1>8 DEF Addskpi, Shifts
  <2>2. Chkskip(Out) <=> (Out = 0) = (ir.op = "addskpi.z")
    <3>1. carry \in BOOLEAN /\ "EQ" \in Cond
      BY DEF TypeInv, TypeOK, Cond
    <3>2. /\ MicroDecides("EQ", Out, carry) <=> Out = 0
          /\ MicroDecides("NEQ", Out, carry) <=> Out # 0
      BY <1>2, <3>1, SameVerdict
    <3>3. CASE ir.op = "addskpi.z"
      BY <1>6, <3>2, <3>3 DEF Chkskip
    <3>4. CASE ir.op = "addskpi.nz"
      BY <1>6, <3>2, <3>4 DEF Chkskip
    <3> QED
      BY <1>8, <3>3, <3>4 DEF Addskpi
  <2>3. skip <=> (Out = 0) = (ir.op = "addskpi.z")
    BY <1>1, <1>6, <1>8, <2>2 DEF Addskpi, Odd
  <2>4. CASE t = PC
    <3>1. Meant = [ir EXCEPT !.op = "addi"]
      BY <1>1, <1>8, <2>1, <2>4, MeantIs
    <3>2. ~SkipHolds
      BY <1>1, <3>1 DEF SkipHolds, Addskp, Addskpi, Instr
    <3>3. regs' = [I!Fetched EXCEPT ![t] = Out]
      BY <1>2, <1>3, <1>4, <2>4, RoleTypes DEF PcPlus2
    <3> QED
      BY <1>5, <3>2, <3>3 DEF RegsAfter
  <2>5. CASE t # PC
    <3>1. Meant = ir
      BY <1>1, <1>8, <2>1, <2>5, MeantIs
    <3>2. SkipHolds <=> (Out = 0) = (ir.op = "addskpi.z")
      BY <1>2, <1>8, <3>1 DEF SkipHolds, Addskp, Addskpi
    <3>3. regs' = IF skip THEN PcPlus2([I!Fetched EXCEPT ![t] = Out])
                  ELSE [I!Fetched EXCEPT ![t] = Out]
      <4> HIDE DEF t
      <4>1. [PcPlus2(I!Fetched) EXCEPT ![t] = Out] = PcPlus2([I!Fetched EXCEPT ![t] = Out])
        BY <1>2, <1>3, <2>5, RoleTypes DEF PcPlus2
      <4> QED
        BY <1>4, <4>1
    <3> QED
      BY <1>5, <2>3, <3>2, <3>3, IncrPcIsPlus2 DEF RegsAfter
  <2> QED
    BY <2>4, <2>5
<1> QED
  BY <1>7, <1>8

\* skip.c finds the borrow of its own subtraction, written at the rising edge of EXECUTE.
LEMMA SkipResult ==
    ASSUME TypeInv, FallingEdge, icycle = "EXECUTEM", ir.op = "skip", regs = I!Fetched,
           carry = Borrow(I!Fetched[ir.arg0], I!Fetched[ir.arg1])
    PROVE  regs' = RegsAfter
<1> DEFINE x == I!Fetched[ir.arg0]
           y == I!Fetched[ir.arg1]
<1>1. /\ Running /\ ir \in Instr /\ icycle \notin Fetching
      /\ skip = (Row.skipc # "none" /\ icycle \notin Odd /\ Chkskip(Out))
  BY FallsOn DEF Fetching
<1>2. x \in Word /\ y \in Word /\ ir.cond \in Cond /\ carry \in BOOLEAN
  BY <1>1 DEF TypeInv, TypeOK, Instr
<1>3. /\ Row.alu = "sub" /\ Row.skipc = "cond" /\ Row.op0 = "regr0" /\ Row.r0 = "arg0"
      /\ Row.op1 = "regr1" /\ Row.r1 = "arg1"
  BY <1>1, RunningRow, OtherExecRow
<1>4. Out = Diff(x, y) /\ Diff(x, y) \in Word
  BY <1>2, <1>3, SumType DEF Out, ALU, Wired, Selected
<1>5. MicroDecides(ir.cond, Diff(x, y), carry) <=> FsimDecides(ir.cond, Diff(x, y), carry)
  BY <1>2, <1>4, SameVerdict
<1>6. skip <=> MicroDecides(ir.cond, Diff(x, y), carry)
  BY <1>1, <1>3, <1>4 DEF Chkskip, Odd
<1>7. Meant = ir
  BY <1>1, MeantIs DEF Direct, Alu3, Addskp, Addskpi, Shifts
<1>8. SkipHolds = FsimDecides(ir.cond, Diff(x, y), Borrow(x, y))
  BY <1>7 DEF SkipHolds, Addskp, Addskpi
<1>9. WithoutSkip = I!Fetched
  BY <1>7 DEF WithoutSkip, Direct, FromImm, Shifts, Alu3, Addskp, AluImm, Addskpi, Loads
<1>10. regs' = IF skip THEN PcPlus2(I!Fetched) ELSE I!Fetched
  BY FallsExecutem
<1> QED
  BY <1>5, <1>6, <1>8, <1>9, <1>10, IncrPcIsPlus2 DEF RegsAfter

-----------------------------------------------------------------------------
\* Each step brings registers, RAM and latches as far as Progress says.

LEMMA FallsKeep ==
    ASSUME FallingEdge
    PROVE  phase = "FE" /\ phase' = "RE" /\ ram' = ram /\ carry' = carry
  BY DEF FallingEdge, Latching

LEMMA MeantSame ==
    ASSUME TypeInv, ir \in Instr,
           ir.op \in Loads \cup Stores \cup {"push", "pop", "brk", "skip"}
    PROVE  Meant = ir
  BY MeantIs DEF Loads, Stores, Direct, Alu3, Addskp, Addskpi, Shifts

LEMMA ProgressFetch ==
    ASSUME TypeInv, Progress, FallingEdge, icycle = "FETCH"
    PROVE  Progress'
<1>1. icycle' = "FETCHM" /\ regs' = regs /\ snap' = snap /\ ram' = ram
  BY FallsFetch, FallsKeep DEF Goes
<1>2. regs = snap.regs /\ ram = snap.ram
  BY DEF Progress, RegsSoFar, RamSoFar, Fetching
<1> QED
  BY <1>1, <1>2 DEF Progress, RegsSoFar, RamSoFar, Transfers, Fetching, Beyond

LEMMA ProgressFetchm ==
    ASSUME TypeInv, Progress, FallingEdge, icycle = "FETCHM"
    PROVE  Progress'
<1>1. icycle' = "DECODE" /\ regs' = PcPlus2(regs) /\ snap' = snap /\ ram' = ram
  BY FallsFetchm, FallsKeep
<1>2. regs = snap.regs /\ ram = snap.ram
  BY DEF Progress, RegsSoFar, RamSoFar, Fetching
<1>3. regs' = I!Fetched'
  BY <1>1, <1>2, SameSums DEF PcPlus2, I!Fetched
<1> QED
  BY <1>1, <1>2, <1>3 DEF Progress, RegsSoFar, RamSoFar, Transfers, Fetching, Beyond

LEMMA ProgressDecode ==
    ASSUME TypeInv, Progress, FallingEdge, icycle = "DECODE"
    PROVE  Progress'
<1>1. /\ icycle' = "DECODEM" /\ ir' = ir /\ regs' = regs /\ snap' = snap /\ ram' = ram
      /\ mar' = IF ir.op = "pop" THEN regs[SP] ELSE mar
      /\ mdr' = IF ir.op \in FromImm \cup BaseBP \cup Shifts THEN ir.imm ELSE mdr
  BY FallsDecode, FallsKeep DEF Goes
<1>2. regs = I!Fetched /\ ram = snap.ram
  BY DEF Progress, RegsSoFar, RamSoFar, Fetching
<1>3. I!Fetched' = I!Fetched
  BY <1>1, Kept
<1> QED
  BY <1>1, <1>2, <1>3 DEF Progress, RegsSoFar, RamSoFar, Transfers, Fetching

LEMMA ProgressDecodem ==
    ASSUME TypeInv, Progress, FallingEdge, icycle = "DECODEM"
    PROVE  Progress'
<1>1. /\ icycle' = "READ" /\ ir' = ir /\ snap' = snap /\ ram' = ram /\ mar' = mar /\ mdr' = mdr
      /\ phase' = "RE"
  BY FallsDecodem, FallsKeep DEF Goes
<1>2. regs = I!Fetched /\ ram = snap.ram
  BY DEF Progress, RegsSoFar, RamSoFar, Fetching
<1>3. Transfers'
  <2>1. I!Fetched' = I!Fetched
    BY <1>1, Kept
  <2> QED
    BY <1>1, <2>1 DEF Progress, Transfers, Beyond
<1>4. ram' = RamSoFar'
  BY <1>1, <1>2 DEF RamSoFar
<1>5. regs' = RegsSoFar'
  <2>1. CASE ir.op \in Direct
    <3>1. regs' = RegsAfter
      BY <1>2, <2>1, DirectResult
    <3> QED
      BY <1>1, <2>1, <3>1, Kept DEF RegsSoFar, Fetching, Direct, Alu3, Addskp
  <2>2. CASE ir.op = "push"
    <3>1. ir.op \notin Direct
      BY <2>2 DEF Direct, Alu3, Addskp
    <3>2. regs' = [I!Fetched EXCEPT ![SP] = Sum(@, N - 2)]
      BY <1>2, <2>2, <3>1, FallsDecodem
    <3>3. I!Fetched[SP] \in Word
      BY <1>2, RoleTypes DEF TypeInv, TypeOK
    <3>4. Sum(I!Fetched[SP], N - 2) = Diff(I!Fetched[SP], 2)
      BY <3>3, Sizes DEF Sum, Diff, Word
    <3>5. regs' = Pushed
      BY <3>2, <3>4 DEF Pushed
    <3> QED
      BY <1>1, <2>2, <3>1, <3>5, Kept DEF RegsSoFar, Fetching
  <2>3. CASE ir.op \notin Direct \cup {"push"}
    <3>1. regs' = I!Fetched
      BY <1>2, <2>3, FallsDecodem
    <3> QED
      BY <1>1, <2>3, <3>1, Kept DEF RegsSoFar, Fetching
  <2> QED
    BY <2>1, <2>2, <2>3
<1> QED
  BY <1>3, <1>4, <1>5 DEF Progress

\* The address that READ computes.
LEMMA ReadAddress ==
    ASSUME TypeInv, Running, icycle = "READ", ir \in Instr,
           regs = IF ir.op = "push" THEN Pushed ELSE I!Fetched,
           ir.op \in BaseBP => mdr = ir.imm
    PROVE  /\ ir.op \in Loads \cup Stores => Out = I!Address(Meant)
           /\ ir.op = "push" => Out = Pushed[SP]
<1>1. Row = ReadRow(ir.op) /\ ir.op \in ViaRead
  BY RunningRow
<1>2. \A r \in Regs : regs[r] \in Word
  BY DEF TypeInv, TypeOK
<1>3. ASSUME ir.op \in BaseBP
      PROVE  Out = I!Address(Meant)
  <2>1. Row.op0 = "mdr" /\ Row.r0 = "bp" /\ Row.op1 = "regr0" /\ Row.alu = "add"
    BY <1>1, <1>3, ReadRows DEF BaseBP, Indexed
  <2>2. Out = Sum(ir.imm, regs[BP])
    BY <1>3, <2>1 DEF Out, ALU, Wired, Selected
  <2>3. regs = I!Fetched /\ ir.imm \in Word /\ I!Fetched[BP] \in Word
    BY <1>2, <1>3, RoleTypes DEF Instr, BaseBP
  <2>4. Meant = ir
    BY <1>3, MeantIs DEF BaseBP, Direct, Alu3, Addskp, Addskpi, Shifts
  <2>5. I!Address(ir) = Sum(I!Fetched[BP], ir.imm)
    BY <1>3, SameSums, SameClasses DEF I!Address
  <2> QED
    BY <2>2, <2>3, <2>4, <2>5, SumCommutes
<1>4. ASSUME ir.op \in Indexed
      PROVE  Out = I!Address(Meant)
  <2>1. /\ Row.op0 = "regr0" /\ Row.r0 = "arg0" /\ Row.op1 = "regr1" /\ Row.r1 = "arg1"
        /\ Row.alu = "add"
    BY <1>1, <1>4, ReadRows DEF BaseBP, Indexed
  <2>2. Out = Sum(regs[ir.arg0], regs[ir.arg1])
    BY <2>1 DEF Out, ALU, Wired, Selected
  <2>3. regs = I!Fetched
    BY <1>4 DEF Indexed
  <2>4. Meant = ir
    BY <1>4, MeantIs DEF Indexed, Direct, Alu3, Addskp, Addskpi, Shifts
  <2>5. I!Address(ir) = Sum(I!Fetched[ir.arg0], I!Fetched[ir.arg1])
    BY <1>4, SameSums DEF I!Address, I!BaseBP, Indexed
  <2> QED
    BY <2>2, <2>3, <2>4, <2>5
<1>5. ASSUME ir.op = "push"
      PROVE  Out = Pushed[SP]
  <2>1. /\ Row.op0 = "regr0" /\ Row.r0 = "sp" /\ Row.op1 = "regr1" /\ Row.r1 = "reg0"
        /\ Row.alu = "add"
    BY <1>1, <1>5, ReadRows DEF BaseBP, Indexed
  <2>2. Out = Sum(regs[SP], regs[0])
    BY <2>1 DEF Out, ALU, Wired, Selected
  <2>3. regs[SP] \in Word /\ regs[0] = 0
    BY <1>2, RoleTypes DEF TypeInv, TypeOK
  <2> QED
    BY <1>5, <2>2, <2>3, SumCommutes
<1> QED
  BY <1>3, <1>4, <1>5, Kinds

LEMMA ProgressRead ==
    ASSUME TypeInv, Progress, FallingEdge, icycle = "READ"
    PROVE  Progress'
<1>1. /\ icycle' = "READM" /\ ir' = ir /\ regs' = regs /\ snap' = snap /\ ram' = ram
      /\ mar' = (IF "mar_load" \in ReadRow(ir.op).sig THEN Out ELSE mar)
      /\ mdr' = IF ir.op = "pop" THEN ReadRam(ram, mar, FALSE) ELSE mdr
  BY FallsRead, FallsKeep DEF Goes
<1>2. Running /\ ir \in Instr /\ ir.op \in ViaRead
  BY FallsOn, RunningRow DEF Fetching
<1>3. ir.op \notin Direct \cup FromImm \cup {"skip"}
  BY <1>2 DEF ViaRead, Direct, FromImm, Alu3, AluImm, Addskp, Addskpi, BaseBP, Indexed, Shifts
<1>4. regs = (IF ir.op = "push" THEN Pushed ELSE I!Fetched) /\ ram = snap.ram
  BY <1>3 DEF Progress, RegsSoFar, RamSoFar, Fetching
<1>5. regs' = RegsSoFar'
  BY <1>1, <1>3, <1>4, Kept DEF RegsSoFar, Fetching
<1>6. ram' = RamSoFar'
  BY <1>1, <1>4 DEF RamSoFar
<1>7. ir.op \in Loads \cup Stores \cup {"push"} => mar' = Out
  BY <1>1, <1>2, ReadRows, Kinds
<1>8. /\ ir.op \in Loads \cup Stores => mar' = I!Address(Meant)
      /\ ir.op = "push" => mar' = Pushed[SP]
  BY <1>2, <1>4, <1>7, ReadAddress DEF Progress, Transfers
<1>9. /\ ir.op \in Shifts => mdr' = ir.imm
      /\ ir.op = "pop" => mdr' = ReadRam(snap.ram, I!Fetched[SP], FALSE)
  BY <1>1, <1>4 DEF Progress, Transfers, Beyond, Shifts
<1>10. Transfers'
  BY <1>1, <1>3, <1>8, <1>9, Kept DEF Transfers
<1> QED
  BY <1>5, <1>6, <1>10 DEF Progress

LEMMA ProgressReadm ==
    ASSUME TypeInv, Progress, FallingEdge, icycle = "READM"
    PROVE  Progress'
<1>1. /\ icycle' = "EXECUTE" /\ ir' = ir /\ snap' = snap /\ ram' = ram /\ phase' = "RE"
      /\ mar' = mar /\ mdr' = mdr
      /\ regs' = (IF ir.op = "pop" THEN [regs EXCEPT ![ir.tgt] = mdr] ELSE regs)
  BY FallsReadm, FallsKeep DEF Goes
<1>2. Running /\ ir \in Instr /\ ir.op \in ViaRead
  BY FallsOn, RunningRow DEF Fetching
<1>3. ir.op \notin Direct
  BY <1>2 DEF ViaRead, Direct, Alu3, Addskp, BaseBP, Indexed, Shifts
<1>4. regs = (IF ir.op = "push" THEN Pushed ELSE I!Fetched) /\ ram = snap.ram
  BY <1>3 DEF Progress, RegsSoFar, RamSoFar, Fetching
<1>5. ram' = RamSoFar'
  BY <1>1, <1>4 DEF RamSoFar
<1>6. regs' = RegsSoFar'
  <2>1. CASE ir.op = "pop"
    <3>1. Meant = ir /\ mdr = ReadRam(snap.ram, I!Fetched[SP], FALSE)
      BY <1>2, <2>1, MeantSame DEF Progress, Transfers
    <3>2. regs' = Popped
      BY <1>1, <1>4, <2>1, <3>1 DEF Popped
    <3> QED
      BY <1>1, <1>3, <2>1, <3>2, Kept DEF RegsSoFar, Fetching
  <2>2. CASE ir.op # "pop"
    BY <1>1, <1>3, <1>4, <2>2, Kept DEF RegsSoFar, Fetching
  <2> QED
    BY <2>1, <2>2
<1>7. Transfers'
  BY <1>1, Kept DEF Progress, Transfers, Beyond
<1> QED
  BY <1>5, <1>6, <1>7 DEF Progress

\* The value on its way to RAM, which the ALU passes on.
LEMMA ExecuteStores ==
    ASSUME TypeInv, Running, icycle = "EXECUTE", ir \in Instr, ir.op \in Stores \cup {"push"},
           regs = IF ir.op = "push" THEN Pushed ELSE I!Fetched
    PROVE  Out = StoreValue
<1>1. Row = ExecRow(ir.op) /\ ir.op \notin Loads /\ Meant = ir
  BY RunningRow, MeantSame DEF Stores, Loads
<1>2. /\ \A r \in Regs : regs[r] \in Word
      /\ regs[0] = 0 /\ 0 \in Regs /\ ir.tgt \in Regs /\ ir.tgt2 \in Regs
  BY RoleTypes DEF TypeInv, TypeOK, Instr
<1>3. /\ Row.alu = "add" /\ Row.op0 = "regr0" /\ Row.op1 = "regr1" /\ Row.r1 = "reg0"
      /\ Row.r0 = CASE ir.op \in {"stw0", "stb0"} -> "reg0"
                    [] ir.op \in {"stw", "stb"} -> "tgt2"
                    [] OTHER -> "tgt"
  BY <1>1, MemoryExecRow
<1>4. Out = Sum(regs[Selected(Row.r0)], 0)
  BY <1>2, <1>3 DEF Out, ALU, Wired, Selected
<1>5. regs[Selected(Row.r0)] = StoreValue /\ regs[Selected(Row.r0)] \in Word
  <2>1. CASE ir.op = "push"
    BY <1>1, <1>2, <1>3, <2>1 DEF Selected, StoreValue, BaseBP
  <2>2. CASE ir.op \in {"stw0", "stb0"}
    BY <1>1, <1>2, <1>3, <2>2, Sizes DEF Selected, StoreValue
  <2>3. CASE ir.op \in {"stw", "stb"}
    BY <1>1, <1>2, <1>3, <2>3 DEF Selected, StoreValue, BaseBP
  <2>4. CASE ir.op \in {"stw.b", "stb.b"}
    BY <1>1, <1>2, <1>3, <2>4 DEF Selected, StoreValue, BaseBP
  <2> QED
    BY <2>1, <2>2, <2>3, <2>4 DEF Stores
<1> QED
  BY <1>4, <1>5, SumCommutes

LEMMA ProgressExecute ==
    ASSUME TypeInv, Progress, FallingEdge, icycle = "EXECUTE"
    PROVE  Progress'
<1>1. /\ icycle' = "EXECUTEM" /\ ir' = ir /\ snap' = snap /\ ram' = ram /\ regs' = regs
      /\ mar' = mar /\ carry' = carry /\ phase = "FE" /\ phase' = "RE"
  BY FallsExecute, FallsKeep DEF Goes
<1>2. Running /\ ir \in Instr /\ ir.op \in ViaExec
  BY FallsOn, RunningRow DEF Fetching
<1>3. ir.op \notin Direct
  BY <1>2 DEF ViaExec, ViaRead, FromImm, Direct, Alu3, Addskp, BaseBP, Indexed, Shifts,
              AluImm, Addskpi
<1>4. ram = snap.ram
  BY DEF Progress, RamSoFar
<1>5. regs' = RegsSoFar' /\ ram' = RamSoFar'
  BY <1>1, <1>4, Kept DEF Progress, RegsSoFar, RamSoFar, Fetching
<1>6. ir.op \in Loads =>
         mdr' = ReadRam(snap.ram, I!Address(Meant), Meant.op \in ByteOps)
  <2> SUFFICES ASSUME ir.op \in Loads
               PROVE  mdr' = ReadRam(snap.ram, I!Address(Meant), Meant.op \in ByteOps)
    OBVIOUS
  <2>1. mdr' = ReadRam(ram, mar, ir.op \in ByteOps)
    BY FallsExecute
  <2>2. Meant = ir /\ mar = I!Address(Meant)
    BY <1>2, MeantSame DEF Progress, Transfers
  <2> QED
    BY <1>4, <2>1, <2>2
<1>7. ir.op \in Stores \cup {"push"} => mdr' = StoreValue
  <2> SUFFICES ASSUME ir.op \in Stores \cup {"push"}
               PROVE  mdr' = StoreValue
    OBVIOUS
  <2>1. mdr' = Out
    BY FallsExecute
  <2>2. regs = IF ir.op = "push" THEN Pushed ELSE I!Fetched
    BY <1>3 DEF Progress, RegsSoFar, Fetching, Stores
  <2> QED
    BY <1>2, <2>1, <2>2, ExecuteStores
<1>8. ir.op \in FromImm \cup Shifts => mdr' = ir.imm
  <2>1. ir.op \in FromImm \cup Shifts => ir.op \notin Loads \cup Stores \cup {"push"}
    BY DEF FromImm, Shifts, AluImm, Addskpi, Loads, Stores
  <2> QED
    BY <2>1, FallsExecute DEF Progress, Transfers, Beyond
<1>9. Transfers'
  BY <1>1, <1>6, <1>7, <1>8, Kept DEF Progress, Transfers
<1> QED
  BY <1>5, <1>9 DEF Progress

\* Where an instruction ends, the registers and the RAM are the next one's.
LEMMA ProgressToFetch ==
    ASSUME icycle' = "FETCH", snap'.regs = regs', snap'.ram = ram'
    PROVE  Progress'
  BY DEF Progress, RegsSoFar, RamSoFar, Transfers, Fetching, Beyond

LEMMA ProgressExecutem ==
    ASSUME TypeInv, FallingEdge, icycle = "EXECUTEM"
    PROVE  Progress'
<1>1. /\ icycle' = "FETCH" /\ ram' = ram
      /\ snap' = [regs |-> regs', ram |-> ram, before |-> snap.regs]
  BY FallsExecutem, FallsKeep
<1> QED
  BY <1>1, ProgressToFetch

\* RAM is written in EXECUTEM only, by a store or a push.
LEMMA RaisedWrites ==
    ASSUME TypeInv, Running
    PROVE  /\ "ram_load" \in Raised <=> icycle = "EXECUTEM" /\ ir.op \in Stores \cup {"push"}
           /\ icycle = "EXECUTEM" /\ ir.op \in Stores \cup {"push"} =>
                 ("be" \in Row.sig <=> ir.op \in ByteOps)
<1>1. /\ icycle \notin Fetching => ir \in Instr /\ ir.op \in Op \ {"hlt"}
      /\ icycle \in {"FETCH", "FETCHM", "DECODE", "DECODEM", "READ", "READM", "EXECUTE",
                     "EXECUTEM"}
  BY RunningRow, NextCycles DEF TypeInv, TypeOK
<1>2. CASE icycle \in Odd
  BY <1>2 DEF Raised, LoadNeg, Odd
<1>3. CASE icycle = "FETCHM"
  <2>1. Row = FetchRow
    BY <1>3, RunningRow DEF Fetching
  <2> QED
    BY <1>3, <2>1 DEF Raised, FetchRow, Blank, Odd
<1>4. CASE icycle = "DECODEM"
  <2>1. Row = DecodeRow(ir.op)
    BY <1>4, RunningRow
  <2>2. "ram_load" \notin Row.sig
    <3>1. CASE ir.op \in Direct
      BY <2>1, <3>1, DirectRow
    <3>2. CASE ir.op \in ViaExec
      BY <2>1, <3>2, LongDecodeRow
    <3> QED
      BY <1>1, <1>4, <3>1, <3>2, Kinds DEF Fetching
  <2> QED
    BY <1>4, <2>2 DEF Raised
<1>5. CASE icycle = "READM"
  <2>1. "ram_load" \notin Row.sig
    BY <1>5, RunningRow, ReadRows
  <2> QED
    BY <1>5, <2>1 DEF Raised
<1>6. CASE icycle = "EXECUTEM"
  <2>1. Row = ExecRow(ir.op) /\ ir.op \in ViaExec /\ Raised = Row.sig \ LoadPos
    BY <1>6, RunningRow DEF Raised, Odd
  <2>2. CASE ir.op \in FromImm \cup Shifts
    <3>1. ir.op \notin Stores \cup {"push"}
      BY <2>2 DEF FromImm, Shifts, AluImm, Addskpi, Stores
    <3> QED
      BY <2>1, <2>2, <3>1, ImmExecRow
  <2>3. CASE ir.op \in Loads
    <3>1. ir.op \notin Stores \cup {"push"}
      BY <2>3 DEF Loads, Stores
    <3> QED
      BY <2>1, <2>3, <3>1, MemoryExecRow
  <2>4. CASE ir.op \in Stores \cup {"push"}
    <3>1. ir.op \notin Loads
      BY <2>4 DEF Loads, Stores
    <3>2. ExecRow(ir.op).sig = {"mdr_load", "ram_load"}
                \cup (IF ir.op \in ByteOps THEN {"be"} ELSE {})
      BY <2>4, <3>1, MemoryExecRow
    <3> QED
      BY <1>6, <2>1, <2>4, <3>2 DEF LoadPos
  <2>5. CASE ir.op \in {"pop", "brk", "skip"}
    <3>1. ir.op \notin Stores \cup {"push"}
      BY <2>5 DEF Stores
    <3> QED
      BY <2>1, <2>5, <3>1, OtherExecRow
  <2> QED
    BY <2>1, <2>2, <2>3, <2>4, <2>5, Kinds DEF ViaExec, ViaRead
<1> QED
  BY <1>1, <1>2, <1>3, <1>4, <1>5, <1>6 DEF Odd

LEMMA RamKept ==
    ASSUME TypeInv, ir \in Instr, ir.op \notin Stores \cup {"push"}
    PROVE  RamAfter = snap.ram
<1>1. Meant.op \in {ir.op, "shl", "shr", "add", "addi"}
  <2>1. CASE ir.op \in Addskp \cup Addskpi
    <3>1. Meant \in {ir, [ir EXCEPT !.op = "add"], [ir EXCEPT !.op = "addi"]}
      BY <2>1, MeantIs
    <3> QED
      BY <3>1 DEF Instr
  <2>2. CASE ir.op \in Shifts \cup {"sext"}
    BY <2>2, MeantIs DEF Instr
  <2>3. CASE ir.op \in {"shl.r", "shr.r"}
    BY <2>3, MeantIs DEF Plain
  <2>4. CASE ir.op \notin Addskp \cup Addskpi \cup Shifts \cup {"sext", "shl.r", "shr.r"}
    <3>1. Meant = ir
      BY <2>4, MeantIs DEF Direct, Alu3
    <3> QED
      BY <3>1
  <2> QED
    BY <2>1, <2>2, <2>3, <2>4
<1> QED
  BY <1>1 DEF RamAfter, Stores

LEMMA ProgressRises ==
    ASSUME TypeInv, Progress, RisingEdge
    PROVE  Progress'
<1>1. /\ phase = "RE" /\ phase' = "FE" /\ icycle' = icycle /\ regs' = regs /\ mar' = mar
      /\ mdr' = mdr /\ ir' = ir /\ snap' = snap /\ ram' = Writeram /\ carry' = WriteCR
      /\ Latching("RE") /\ Running
  BY DEF RisingEdge, Latching
<1>2. ram = snap.ram
  BY <1>1 DEF Progress, RamSoFar
<1>3. regs' = RegsSoFar'
  BY <1>1, Kept DEF Progress, RegsSoFar
<1>4. ram' = RamSoFar'
  <2>1. CASE icycle = "EXECUTEM" /\ ir.op \in Stores \cup {"push"}
    <3>1. ir \in Instr
      BY <1>1, <2>1, RunningRow DEF Fetching
    <3>2. Meant = ir
      BY <2>1, <3>1, MeantSame
    <3>3. ram' = WriteRam(ram, mar, mdr, "be" \in Row.sig)
      BY <1>1, <2>1, RaisedWrites DEF Writeram
    <3>4. mar = StoreAddress /\ mdr = StoreValue
      BY <2>1, <3>2 DEF Progress, Transfers, StoreAddress, Stores
    <3>5. ("be" \in Row.sig) = (ir.op \in ByteOps)
      BY <1>1, <2>1, RaisedWrites
    <3>6. ram' = RamAfter
      BY <1>2, <2>1, <3>2, <3>3, <3>4, <3>5 DEF RamAfter
    <3> QED
      BY <1>1, <2>1, <3>6, Kept DEF RamSoFar
  <2>2. CASE icycle = "EXECUTEM" /\ ir.op \notin Stores \cup {"push"}
    <3>1. ir \in Instr
      BY <1>1, <2>2, RunningRow DEF Fetching
    <3>2. ram' = ram /\ RamAfter = snap.ram
      BY <1>1, <2>2, <3>1, RaisedWrites, RamKept DEF Writeram
    <3> QED
      BY <1>1, <1>2, <2>2, <3>2, Kept DEF RamSoFar
  <2>3. CASE icycle # "EXECUTEM"
    <3>1. ram' = ram
      BY <1>1, <2>3, RaisedWrites DEF Writeram
    <3> QED
      BY <1>1, <1>2, <2>3, <3>1 DEF RamSoFar
  <2> QED
    BY <2>1, <2>2, <2>3
<1>5. ASSUME icycle = "EXECUTE", ir.op = "skip"
      PROVE  carry' = Borrow(I!Fetched[ir.arg0], I!Fetched[ir.arg1])
  <2>1. regs = I!Fetched
    BY <1>5 DEF Progress, RegsSoFar, Fetching, Direct, Alu3, Addskp
  <2>2. /\ Row.alu = "sub" /\ Row.op0 = "regr0" /\ Row.r0 = "arg0"
        /\ Row.op1 = "regr1" /\ Row.r1 = "arg1"
    BY <1>1, <1>5, RunningRow, OtherExecRow
  <2>3. bus.op0 = regs[ir.arg0] /\ bus.op1 = regs[ir.arg1]
    BY <1>1, <2>2, LatchedSignals DEF Wired, Selected
  <2> QED
    BY <1>1, <1>5, <2>1, <2>2, <2>3 DEF WriteCR, CarryAfter
<1>6. carry' = carry \/ icycle = "EXECUTE"
  BY <1>1 DEF WriteCR
<1>7. Transfers'
  BY <1>1, <1>5, <1>6, Kept DEF Progress, Transfers
<1> QED
  BY <1>3, <1>4, <1>7 DEF Progress

\* Between the edges, and where the simulator ends, nothing of this changes.
LEMMA ProgressWaits ==
    ASSUME TypeInv, Progress, Vcycle \/ GiveUp \/ RefusesR0 \/ UNCHANGED vars
    PROVE  Progress'
<1>1. /\ icycle' = icycle /\ phase' = phase /\ regs' = regs /\ ram' = ram /\ carry' = carry
      /\ mar' = mar /\ mdr' = mdr /\ ir' = ir /\ snap' = snap
  BY DEF Vcycle, GiveUp, RefusesR0, vars, clkvars, machine
<1>2. regs' = RegsSoFar' /\ ram' = RamSoFar'
  BY <1>1, Kept DEF Progress, RegsSoFar, RamSoFar
<1>3. Transfers'
  BY <1>1, Kept DEF Progress, Transfers
<1> QED
  BY <1>2, <1>3 DEF Progress

\* Cycles are skipped of the instructions that have finished in DECODEM, to the
\* end, and of those that have nothing to read, up to EXECUTE.
LEMMA SkipsOn ==
    ASSUME TypeInv, SkipCycle
    PROVE  /\ ir \in Instr /\ phase = "RE" /\ phase' = "RE"
           /\ regs' = regs /\ ram' = ram /\ mar' = mar /\ mdr' = mdr /\ carry' = carry /\ ir' = ir
           /\ \/ icycle = "READ" /\ icycle' = "READM" /\ ir.op \in Direct \cup FromImm \cup {"skip"}
              \/ icycle = "READM" /\ icycle' = "EXECUTE"
                 /\ ir.op \in Direct \cup FromImm \cup {"skip"}
              \/ icycle = "EXECUTE" /\ icycle' = "EXECUTEM" /\ ir.op \in Direct
              \/ icycle = "EXECUTEM" /\ icycle' = "FETCH" /\ ir.op \in Direct
           /\ snap' = IF icycle = "EXECUTEM"
                      THEN [regs |-> regs, ram |-> ram, before |-> snap.regs] ELSE snap
<1>1. skipcycle # 0 /\ skipcycle = SkipsLeft
  <2>1. ~(0 > 0)
    OBVIOUS
  <2> QED
    BY <2>1 DEF SkipCycle, TypeInv, Flow
<1>2. icycle \in {"READ", "READM", "EXECUTE", "EXECUTEM"}
  BY <1>1, NextCycles DEF SkipsLeft, TypeInv, TypeOK
<1>3. /\ icycle \in {"READ", "READM"} => ir.op \in Direct \cup FromImm \cup {"skip"}
      /\ icycle \in {"EXECUTE", "EXECUTEM"} => ir.op \in Direct
  BY <1>1 DEF SkipsLeft
<1>4. icycle' = NextCycle(icycle)
  BY DEF SkipCycle
<1>5. ir \in Instr /\ phase = "RE"
  BY <1>1, <1>2, InstrTypes DEF SkipCycle, TypeInv, Flow, Fetching
<1>6. /\ phase' = phase /\ regs' = regs /\ ram' = ram /\ mar' = mar /\ mdr' = mdr
      /\ carry' = carry /\ ir' = ir
      /\ snap' = IF icycle = "EXECUTEM"
                 THEN [regs |-> regs, ram |-> ram, before |-> snap.regs] ELSE snap
  BY DEF SkipCycle, machine
<1> QED
  BY <1>2, <1>3, <1>4, <1>5, <1>6, NextCycles

LEMMA ProgressSkips ==
    ASSUME TypeInv, Progress, SkipCycle
    PROVE  Progress'
<1>1. CASE icycle = "EXECUTEM"
  <2>1. icycle' = "FETCH" /\ snap' = [regs |-> regs', ram |-> ram', before |-> snap.regs]
    BY <1>1, SkipsOn
  <2> QED
    BY <2>1, ProgressToFetch
<1>2. CASE icycle # "EXECUTEM"
  <2>1. ir.op \notin Loads \cup Stores \cup {"push", "pop"} /\ ir.op \notin Shifts \cup BaseBP
    BY <1>2, SkipsOn DEF Direct, FromImm, Alu3, AluImm, Addskp, Addskpi, Loads, Stores, BaseBP,
                         Shifts
  <2>2. snap' = snap /\ ir' = ir
    BY <1>2, SkipsOn
  <2>3. regs' = RegsSoFar'
    <3>1. regs = IF ir.op \in Direct THEN RegsAfter ELSE I!Fetched
      BY <1>2, <2>1, SkipsOn DEF Progress, RegsSoFar, Fetching
    <3> QED
      BY <1>2, <2>1, <2>2, <3>1, SkipsOn, Kept DEF RegsSoFar, Fetching
  <2>4. ram' = RamSoFar'
    BY <2>2, SkipsOn DEF Progress, RamSoFar
  <2>5. icycle' # "EXECUTEM" \/ ir.op # "skip"
    BY SkipsOn DEF Direct, Alu3, Addskp
  <2>6. ir.op \in FromImm => mdr' = ir.imm
    BY SkipsOn DEF Progress, Transfers, Beyond
  <2>7. Transfers'
    BY <1>2, <2>1, <2>2, <2>5, <2>6, SkipsOn DEF Transfers
  <2> QED
    BY <2>3, <2>4, <2>7 DEF Progress
<1> QED
  BY <1>1, <1>2

LEMMA InitProgress == Init => Progress
<1> SUFFICES ASSUME Init
             PROVE  Progress
  OBVIOUS
<1>1. /\ icycle = "FETCH" /\ snap = [regs |-> regs, ram |-> ram, before |-> regs]
      /\ ir = None /\ regs \in InitRegs /\ ram \in InitRam
  BY DEF Init
<1> QED
  BY <1>1 DEF Progress, RegsSoFar, RamSoFar, Transfers, Fetching, Beyond

LEMMA StepProgress == TypeInv /\ Progress /\ [Next]_vars => Progress'
<1> SUFFICES ASSUME TypeInv, Progress, [Next]_vars
             PROVE  Progress'
  OBVIOUS
<1>1. CASE Vcycle \/ GiveUp \/ RefusesR0 \/ UNCHANGED vars
  BY <1>1, ProgressWaits
<1>2. CASE RisingEdge
  BY <1>2, ProgressRises
<1>3. CASE FallingEdge
  BY <1>3, ProgressFetch, ProgressFetchm, ProgressDecode, ProgressDecodem, ProgressRead,
     ProgressReadm, ProgressExecute, ProgressExecutem, NextCycles DEF TypeInv, TypeOK
<1>4. CASE SkipCycle
  BY <1>4, ProgressSkips
<1> QED
  BY <1>1, <1>2, <1>3, <1>4 DEF Next

-----------------------------------------------------------------------------
\* The instruction set of fsim, step by step.

LEMMA MeansType == \A i \in Instr, r \in [Regs -> Word] : Means(i, r) \in Instr
<1> SUFFICES ASSUME NEW i \in Instr, NEW r \in [Regs -> Word]
             PROVE  Means(i, r) \in Instr
  OBVIOUS
<1> DEFINE by == IF i.arg1 = PC THEN Sum(r[PC], 2) ELSE r[i.arg1]
           j == Plain(IF i.op = "shl.r" THEN "shl" ELSE "shr")
<1>1. Longer(i.imm) \in Word /\ Longer(by) \in Word
  <2>1. i.imm \in Word /\ r[i.arg1] \in Word /\ r[PC] \in Word
    BY RoleTypes DEF Instr
  <2>2. Sum(r[PC], 2) \in Word
    BY <2>1, SumType, Sizes
  <2> QED
    BY <2>1, <2>2, LongerType
<1>2. j \in Instr
  BY RoleTypes, Sizes DEF Plain, Instr, Op, Cond
<1>3. \A n \in Word, a, t \in Regs, k \in Instr :
         /\ [k EXCEPT !.imm = n] \in Instr
         /\ [k EXCEPT !.arg2 = a, !.tgt2 = t, !.imm = n] \in Instr
  BY DEF Instr
<1>4. /\ [i EXCEPT !.op = "add", !.arg1 = 0] \in Instr /\ [i EXCEPT !.op = "add"] \in Instr
      /\ [i EXCEPT !.op = "addi"] \in Instr
  BY RoleTypes DEF Instr, Op, Alu3, AluImm
<1>5. [j EXCEPT !.arg2 = i.arg0, !.tgt2 = i.tgt, !.imm = Longer(by)] \in Instr
  <2>1. i.arg0 \in Regs /\ i.tgt \in Regs
    BY DEF Instr
  <2> HIDE DEF j, by
  <2> QED
    BY <1>1, <1>2, <1>3, <2>1
<1>6. [i EXCEPT !.imm = Longer(i.imm)] \in Instr
  BY <1>1 DEF Instr
<1> QED
  BY <1>4, <1>5, <1>6 DEF Means

\* The cycle that ends an instruction, skipped or not.
LEMMA EndsInFetch ==
    ASSUME TypeInv, Progress, FallingEdge \/ SkipCycle, icycle = "EXECUTEM"
    PROVE  /\ icycle' = "FETCH" /\ ir' = ir /\ ir \in Instr /\ ir.op # "hlt"
           /\ snap'.regs = RegsAfter /\ snap'.ram = RamAfter /\ snap'.before = snap.regs
<1>1. CASE FallingEdge
  <2>1. /\ icycle' = "FETCH" /\ ir' = ir
        /\ snap' = [regs |-> regs', ram |-> ram, before |-> snap.regs]
    BY <1>1, FallsExecutem
  <2>2. phase = "FE" /\ Running /\ ir \in Instr /\ ir.op # "hlt" /\ ir.op \in ViaExec
    BY <1>1, FallsOn, FallsKeep, RunningRow DEF Fetching
  <2>3. ram = RamAfter
    BY <2>2 DEF Progress, RamSoFar
  <2>4. ir.op \notin Direct
    BY <2>2 DEF ViaExec, ViaRead, FromImm, Direct, Alu3, Addskp, BaseBP, Indexed, Shifts,
                AluImm, Addskpi
  <2>5. regs = CASE ir.op = "push" -> Pushed [] ir.op = "pop" -> Popped [] OTHER -> I!Fetched
    BY <2>4 DEF Progress, RegsSoFar, Fetching
  <2>6. regs' = RegsAfter
    <3>1. CASE ir.op \in FromImm \cup Shifts
      <4>1. regs = I!Fetched /\ mdr = ir.imm
        BY <2>5, <3>1 DEF FromImm, Shifts, AluImm, Addskpi, Progress, Transfers, Beyond
      <4> QED
        BY <1>1, <3>1, <4>1, ImmResult
    <3>2. CASE ir.op \in Loads
      <4>1. Meant = ir /\ regs = I!Fetched
        BY <2>2, <2>5, <3>2, MeantSame DEF Loads
      <4>2. I!Target(ir) = IF ir.op \in BaseBP THEN ir.tgt2 ELSE ir.tgt
        BY <3>2 DEF I!Target, Loads, BaseBP
      <4>3. regs' = [I!Fetched EXCEPT ![I!Target(ir)] =
                        ReadRam(snap.ram, I!Address(ir), ir.op \in ByteOps)]
        BY <1>1, <3>2, <4>1, <4>2, FallsExecutem DEF Progress, Transfers
      <4>4. WithoutSkip = [I!Fetched EXCEPT ![I!Target(ir)] =
                              ReadRam(snap.ram, I!Address(ir), ir.op \in ByteOps)]
        BY <3>2, <4>1 DEF WithoutSkip, Direct, FromImm, Shifts, Alu3, Addskp, AluImm, Addskpi,
                          Loads
      <4>5. ~SkipHolds
        BY <3>2, <4>1 DEF SkipHolds, Loads, Addskp, Addskpi
      <4> QED
        BY <4>3, <4>4, <4>5 DEF RegsAfter
    <3>3. CASE ir.op \in Stores \cup {"push", "brk"}
      <4>1. Meant = ir
        BY <2>2, <3>3, MeantSame
      <4>2. regs' = IF ir.op = "push" THEN Pushed ELSE I!Fetched
        BY <1>1, <2>5, <3>3, FallsExecutem DEF Stores
      <4>3. WithoutSkip = IF ir.op = "push" THEN Pushed ELSE I!Fetched
        BY <3>3, <4>1 DEF WithoutSkip, Direct, FromImm, Shifts, Alu3, Addskp, AluImm, Addskpi,
                          Loads, Stores
      <4>4. ~SkipHolds
        BY <3>3, <4>1 DEF SkipHolds, Stores, Addskp, Addskpi
      <4> QED
        BY <4>2, <4>3, <4>4 DEF RegsAfter
    <3>4. CASE ir.op = "pop"
      <4>1. Meant = ir /\ regs = Popped
        BY <2>2, <2>5, <3>4, MeantSame
      <4>2. regs' = [Popped EXCEPT ![SP] = Sum(@, 2)]
        BY <1>1, <3>4, <4>1, FallsExecutem
      <4>3. WithoutSkip = [Popped EXCEPT ![SP] = Sum(@, 2)]
        BY <3>4, <4>1 DEF WithoutSkip, Direct, FromImm, Shifts, Alu3, Addskp, AluImm, Addskpi,
                          Loads
      <4>4. ~SkipHolds
        BY <3>4, <4>1 DEF SkipHolds, Addskp, Addskpi
      <4> QED
        BY <4>2, <4>3, <4>4 DEF RegsAfter
    <3>5. CASE ir.op = "skip"
      <4>1. regs = I!Fetched /\ carry = Borrow(I!Fetched[ir.arg0], I!Fetched[ir.arg1])
        BY <2>5, <3>5 DEF Progress, Transfers
      <4> QED
        BY <1>1, <3>5, <4>1, SkipResult
    <3> QED
      BY <2>2, <3>1, <3>2, <3>3, <3>4, <3>5, Kinds DEF ViaExec, ViaRead
  <2> QED
    BY <2>1, <2>2, <2>3, <2>6
<1>2. CASE SkipCycle
  <2>1. /\ icycle' = "FETCH" /\ ir' = ir /\ ir \in Instr /\ ir.op \in Direct
        /\ snap' = [regs |-> regs, ram |-> ram, before |-> snap.regs] /\ phase = "RE"
    BY <1>2, SkipsOn
  <2>2. regs = RegsAfter /\ ram = snap.ram
    BY <2>1 DEF Progress, RegsSoFar, RamSoFar, Fetching, Direct, Alu3, Addskp
  <2>3. RamAfter = snap.ram /\ ir.op # "hlt"
    BY <2>1, RamKept DEF Direct, Alu3, Addskp, Stores
  <2> QED
    BY <2>1, <2>2, <2>3
<1> QED
  BY <1>1, <1>2

\* No other step ends an instruction.
LEMMA OnlyThere ==
    ASSUME TypeInv, [Next]_vars, ~((FallingEdge \/ SkipCycle) /\ icycle = "EXECUTEM")
    PROVE  /\ snap' = snap
           /\ \/ icycle' = icycle /\ ir' = ir
              \/ icycle' # "FETCH"
<1>1. CASE FallingEdge
  BY <1>1, FallsFetch, FallsFetchm, FallsDecode, FallsDecodem, FallsRead, FallsReadm,
     FallsExecute, NextCycles DEF Goes, TypeInv, TypeOK
<1>2. CASE SkipCycle
  BY <1>2, SkipsOn
<1>3. CASE Vcycle \/ RisingEdge \/ GiveUp \/ RefusesR0 \/ UNCHANGED vars
  BY <1>3 DEF Vcycle, RisingEdge, Latching, GiveUp, RefusesR0, vars, clkvars, machine
<1> QED
  BY <1>1, <1>2, <1>3 DEF Next

LEMMA StepImplements ==
    ASSUME TypeInv, Progress, [Next]_vars
    PROVE  [I!INext]_(I!ivars)
<1> DEFINE last == IF icycle = "FETCH" /\ ir # None THEN Means(ir, snap.before) ELSE None
<1>1. CASE (FallingEdge \/ SkipCycle) /\ icycle = "EXECUTEM"
  <2>1. I!Execute(Meant)
    BY <1>1, EndsInFetch, MeantIs, Executes
  <2>2. last = None
    BY <1>1
  <2>3. last' = Meant
    BY <1>1, EndsInFetch, InstrTypes DEF Meant
  <2>4. Meant \in I!Instr
    BY <1>1, EndsInFetch, MeantIs, SameInstr
  <2>5. last' \in I!Instr /\ I!Execute(last')
    BY <2>1, <2>3, <2>4
  <2>6. I!ExecuteNext
    BY <2>2, <2>5 DEF I!ExecuteNext
  <2> QED
    BY <2>6 DEF I!INext
<1>2. CASE ~((FallingEdge \/ SkipCycle) /\ icycle = "EXECUTEM")
  <2>1. snap' = snap /\ ((icycle' = icycle /\ ir' = ir) \/ icycle' # "FETCH")
    BY <1>2, OnlyThere
  <2>2. CASE last # None /\ last' = None
    BY <2>1, <2>2 DEF I!INext, I!FetchNext
  <2>3. CASE last = None \/ last' # None
    <3>1. last' = last
      BY <2>1, <2>3
    <3> QED
      BY <2>1, <3>1 DEF I!ivars
  <2> QED
    BY <2>2, <2>3
<1> QED
  BY <1>1, <1>2

\* With the differences that Means() lists the older microcode simulator carries
\* out the instruction set of fsim, whatever the program and the word's width.
THEOREM Refinement == Spec => ImplementsIsa
<1>1. Init => snap.regs \in InitRegs /\ snap.ram \in InitRam
              /\ (IF icycle = "FETCH" /\ ir # None THEN Means(ir, snap.before) ELSE None) = None
  <2> SUFFICES ASSUME Init
               PROVE  snap.regs \in InitRegs /\ snap.ram \in InitRam /\ ir = None
    OBVIOUS
  <2>1. snap = [regs |-> regs, ram |-> ram, before |-> regs]
    BY DEF Init
  <2>2. regs \in InitRegs /\ ram \in InitRam /\ ir = None
    BY DEF Init
  <2> QED
    BY <2>1, <2>2
<1>2. TypeInv /\ Progress /\ [Next]_vars => [I!INext]_(I!ivars)
  BY StepImplements
<1> QED
  BY <1>1, <1>2, InitTypeInv, StepTypeInv, InitProgress, StepProgress, PTL
     DEF Spec, ImplementsIsa, I!ISpec
============================================================================
