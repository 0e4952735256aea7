-------------------------- MODULE MicroCpu_proofs --------------------------
(***************************************************************************)
(* Theorems about MicroCpu, for every width of a word, every program, any   *)
(* number of instructions and any contents of registers and RAM.            *)
(***************************************************************************)
EXTENDS MicroCpu, Microcode_proofs

\* The way an instruction takes through the states, and the immediate on its
\* way from DECODE to where it is used.
Flow ==
    /\ BreakIsLost
    /\ state = "FETCH" => mar = regs[PC]
    /\ state = "FETCHM" => ir \in Instrs \cup {Plain("hlt")}
    /\ state \in {"DECODE", "DECODEM"} => ir \in Instrs /\ ir.op # "hlt"
    /\ state \in {"READ", "READM"} => ir \in Instrs /\ ir.op \in ViaRead
    /\ state \in {"EXEC", "EXECM"} => ir \in Instrs /\ ir.op \in ViaExec
    /\ state \in {"DECODE", "DECODEM", "EXEC"} /\ ir.op \in FromImm => mdr = ir.imm
    /\ count = MaxInstrs + 1 => state = "FETCHM" /\ ir.op = "hlt"

\* Once a phase has cleared the signals, nothing is left of the last one's.
Clean == cleared => ~breek

TypeInv == TypeOK /\ Flow /\ Clean

LEMMA RoleTypes ==
    /\ 0 \in Regs /\ BP \in Regs /\ SP \in Regs /\ PC \in Regs
    /\ BP # 0 /\ SP # 0 /\ PC # 0
  BY WordOpsAssumption DEF Regs

LEMMA InstrTypes ==
    /\ Instrs \subseteq Instr /\ None \notin Instr /\ Plain("hlt") \in Instr
    /\ \A i \in Instrs : i.op = "addhi" => i.imm < N \div Low
<1>1. "hlt" \in Op /\ "EQ" \in Cond /\ 0 \in Word
  BY Sizes DEF Op, Cond
<1> QED
  BY <1>1, InstrsAssumption, RoleTypes DEF Plain, Instr

LEMMA SelectedType ==
    ASSUME NEW r \in Selections, ir \in Instr
    PROVE  Selected(r) \in Regs
  BY RoleTypes DEF Selections, Selected, Instr

LEMMA OperandType ==
    ASSUME TypeOK, NEW s, Row(s) \in RowFields, ir \in Instr
    PROVE  Op0(s) \in Word /\ Op1(s) \in Word
<1>1. Selected(Row(s).r0) \in Regs /\ Selected(Row(s).r1) \in Regs
  BY SelectedType DEF RowFields
<1>2. Row(s).op0 \in {"regr0", "regr1", "mdr"} /\ Row(s).op1 \in {"regr0", "regr1", "mdr"}
  BY DEF RowFields
<1> QED
  BY <1>1, <1>2 DEF Op0, Op1, Operand, TypeOK

LEMMA ALUoutType ==
    ASSUME TypeOK, NEW s, Row(s) \in RowFields, ir \in Instr,
           Row(s).alu = "addhi" => Op0(s) < N \div Low
    PROVE  ALUout(s) \in Word
<1>1. Op0(s) \in Word /\ Op1(s) \in Word
  BY OperandType
<1>2. Op1(s) \in Nat
  BY <1>1 DEF Word
<1>3. /\ Sext(Op0(s)) \in Word /\ Sum(Op0(s), Op1(s)) \in Word
      /\ Diff(Op0(s), Op1(s)) \in Word
  BY <1>1, SextType, SumType
<1>4. BitAnd(Op0(s), Op1(s)) \in Word /\ BitOr(Op0(s), Op1(s)) \in Word
  BY <1>1, WordOpsAssumption
<1>5. Shl(Op0(s), Op1(s)) \in Word /\ Shr(Op0(s), Op1(s)) \in Word
  BY <1>1, <1>2, ShiftType
<1>6. Row(s).alu = "addhi" => AddHi(Op0(s), Op1(s)) \in Word
  BY <1>1, AddHiType
<1>7. Row(s).alu \in {"add", "sub", "and", "or", "shl", "shr", "addhi"}
  BY DEF RowFields
<1> QED
  BY <1>3, <1>4, <1>5, <1>6, <1>7 DEF ALUout

\* FETCH needs no instruction: it puts the PC through the ALU.
LEMMA FetchAddress ==
    ASSUME TypeOK
    PROVE  ALUout("FETCH") = regs[PC] /\ regs[PC] \in Word
<1>1. Op0("FETCH") = regs[PC] /\ Op1("FETCH") = 0
  BY DEF Op0, Op1, Operand, Row, FetchRow, Blank, Selected, TypeOK
<1>2. regs[PC] \in Word
  BY RoleTypes DEF TypeOK
<1>3. Sum(regs[PC], 0) = regs[PC]
  BY <1>2, Sizes DEF Sum, Word
<1> QED
  BY <1>1, <1>2, <1>3 DEF ALUout, Row, FetchRow, Blank

LEMMA AddType ==
    ASSUME NEW r \in [Regs -> Word], r[0] = 0, NEW k \in Regs \ {0}, NEW d \in Word
    PROVE  Add(r, k, d) \in [Regs -> Word] /\ Add(r, k, d)[0] = 0
  BY SumType, RoleTypes DEF Add

LEMMA LatchedType ==
    ASSUME TypeOK, NEW s,
           "reg_load" \in Raised(s) => ALUout(s) \in Word /\ Selected(Row(s).ws) \in Regs
    PROVE  Latched(s) \in [Regs -> Word] /\ Latched(s)[0] = 0
<1> DEFINE t == Selected(Row(s).ws)
           written == IF "reg_load" \in Raised(s) /\ t # 0
                      THEN [regs EXCEPT ![t] = ALUout(s)] ELSE regs
           pc == IF s \in Second /\ ("incr_pc" \in Raised(s) \/ Skips(s))
                 THEN Add(written, PC, 2) ELSE written
           down == IF "decr_sp" \in Raised(s) THEN Add(pc, SP, N - 2) ELSE pc
<1>1. written \in [Regs -> Word] /\ written[0] = 0
  BY RoleTypes DEF TypeOK
<1>2. pc \in [Regs -> Word] /\ pc[0] = 0
  <2> HIDE DEF written
  <2> QED
    BY <1>1, AddType, RoleTypes, Sizes
<1>3. down \in [Regs -> Word] /\ down[0] = 0
  <2> HIDE DEF pc
  <2> QED
    BY <1>2, AddType, RoleTypes, Sizes
<1>4. Latched(s) = IF "incr_sp" \in Raised(s) THEN Add(down, SP, 2) ELSE down
  BY DEF Latched
<1>5. Add(down, SP, 2) \in [Regs -> Word] /\ Add(down, SP, 2)[0] = 0
  <2> HIDE DEF down
  <2> QED
    BY <1>3, AddType, RoleTypes, Sizes
<1> HIDE DEF down
<1> QED
  BY <1>3, <1>4, <1>5

-----------------------------------------------------------------------------
\* What each falling edge does, by the state it leaves.

Written(t, v) == IF t # 0 THEN [regs EXCEPT ![t] = v] ELSE regs

Stays == mar' = mar /\ mdr' = mdr /\ ir' = ir /\ snap' = snap

LEMMA LeavesFetch ==
    ASSUME TypeInv, Negedge, state = "FETCH"
    PROVE  /\ state' = "FETCHM" /\ ir' \in Instrs \cup {Plain("hlt")}
           /\ regs' = Add(regs, PC, 2)
           /\ mar' = mar /\ mdr' = mdr /\ snap' = snap
<1>1. state' = "FETCHM"
  BY DEF Negedge, Fsm
<1>2. Raised("FETCHM") = {"incr_pc", "ir_load", "re"}
  BY DEF Raised, Row, FetchRow, Blank, Base, Loadpos
<1>3. Row("FETCHM").skipc = "none"
  BY DEF Row, FetchRow, Blank
<1>4. regs' = Latched("FETCHM")
  BY <1>1 DEF Negedge
<1>5. regs' = Add(regs, PC, 2)
  BY <1>2, <1>3, <1>4 DEF Latched, Second, Skips
<1> QED
  BY <1>1, <1>2, <1>5 DEF Negedge

LEMMA LeavesFetchm ==
    ASSUME TypeInv, Negedge, state = "FETCHM"
    PROVE  /\ state' = "DECODE" /\ ir \in Instrs /\ ir.op \in Op \ {"hlt"}
           /\ regs' = regs /\ ir' = ir /\ snap' = snap
           /\ mar' = IF ir.op = "pop" THEN regs[SP] ELSE mar
           /\ mdr' = IF ir.op \in FromImm \cup BaseBP \cup Shifts THEN ir.imm ELSE mdr
<1>1. state' = "DECODE" /\ ir \in Instrs /\ ir.op \in Op \ {"hlt"}
  <2>1. ir \in Instr /\ ir # None /\ (ir = Plain("hlt") => ir.op = "hlt")
    BY InstrTypes DEF TypeInv, Flow, Plain
  <2> QED
    BY <2>1 DEF Negedge, Fsm, TypeInv, Flow, Instr
<1>2. Row("DECODE") = DecodeRow(ir.op) /\ Raised("DECODE") = DecodeRow(ir.op).sig \ Loadneg
  BY DEF Row, Raised, Base
<1>3. regs[0] = 0 /\ regs[SP] \in Word /\ Sum(regs[SP], 0) = regs[SP]
  BY RoleTypes, Sizes DEF TypeInv, TypeOK, Sum, Word
<1>4. CASE ir.op \in Direct
  <2>1. Raised("DECODE") \subseteq {"sext"}
    BY <1>2, <1>4, DirectRow DEF Loadneg
  <2>2. ir.op \notin FromImm \cup BaseBP \cup Shifts \cup {"pop"}
    BY <1>4 DEF Direct, Alu3, Addskp, FromImm, BaseBP, Shifts, AluImm, Addskpi
  <2>3. regs' = regs
    BY <1>1, <2>1 DEF Negedge, Latched, Second
  <2> QED
    BY <1>1, <2>1, <2>2, <2>3 DEF Negedge
<1>5. CASE ir.op \in ViaExec
  <2> DEFINE sig == DecodeRow(ir.op).sig
  <2>1. Raised("DECODE") = sig \ {"decr_sp"} /\ "reg_load" \notin sig /\ "incr_sp" \notin sig
        /\ "ir_load" \notin sig
    BY <1>2, <1>5, LongDecodeRow DEF Loadneg
  <2>2. regs' = regs /\ ir' = ir /\ snap' = snap
    BY <1>1, <2>1 DEF Negedge, Latched, Second
  <2>3. "mdr_load" \in Raised("DECODE") <=> ir.op \in FromImm \cup BaseBP \cup Shifts
    <3>1. CASE ir.op \in FromImm \cup BaseBP \cup Shifts
      BY <1>5, <2>1, <3>1, LongDecodeRow DEF FromImm, BaseBP, Shifts, AluImm, Addskpi
    <3>2. CASE ir.op \notin FromImm \cup BaseBP \cup Shifts
      BY <1>5, <2>1, <3>2, LongDecodeRow
    <3> QED
      BY <3>1, <3>2
  <2>4. "mar_load" \in Raised("DECODE") <=> ir.op = "pop"
    BY <1>5, <2>1, LongDecodeRow DEF FromImm, BaseBP, Shifts, AluImm, Addskpi
  <2>5. MDRin("DECODE") = ir.imm
    BY <1>2, <1>5, LongDecodeRow DEF MDRin
  <2>6. ir.op = "pop" => ALUout("DECODE") = regs[SP]
    <3> SUFFICES ASSUME ir.op = "pop"
                 PROVE  ALUout("DECODE") = regs[SP]
      OBVIOUS
    <3>1. /\ DecodeRow("pop").sig = {"mar_load"} /\ DecodeRow("pop").alu = "add"
          /\ DecodeRow("pop").op0 = "regr0" /\ DecodeRow("pop").r0 = "sp"
          /\ DecodeRow("pop").op1 = "regr1" /\ DecodeRow("pop").r1 = "reg0"
      BY <1>5, LongDecodeRow DEF FromImm, BaseBP, Shifts, AluImm, Addskpi
    <3>2. Op0("DECODE") = regs[SP] /\ Op1("DECODE") = 0
      BY <1>2, <1>3, <3>1 DEF Op0, Op1, Operand, Selected
    <3> QED
      BY <1>2, <1>3, <3>1, <3>2 DEF ALUout
  <2> QED
    BY <1>1, <2>2, <2>3, <2>4, <2>5, <2>6 DEF Negedge
<1> QED
  BY <1>1, <1>4, <1>5, Kinds

\* The PC after a row that may skip.
LEMMA LeavesDecode ==
    ASSUME TypeInv, Negedge, state = "DECODE"
    PROVE  /\ state' = "DECODEM" /\ Stays
           /\ ir.op \in Direct =>
                 LET w == Written(IF ir.op = "br.r" THEN PC ELSE ir.tgt, ALUout("DECODEM"))
                 IN  regs' = IF Skips("DECODEM") THEN Add(w, PC, 2) ELSE w
           /\ ir.op \notin Direct =>
                 regs' = IF ir.op = "push" THEN Add(regs, SP, N - 2) ELSE regs
<1>1. state' = "DECODEM" /\ ir \in Instrs /\ ir.op \in Op \ {"hlt"}
  BY InstrTypes DEF Negedge, Fsm, TypeInv, Flow, Instr
<1>2. Row("DECODEM") = DecodeRow(ir.op) /\ Raised("DECODEM") = DecodeRow(ir.op).sig \ Loadpos
  BY DEF Row, Raised, Base
<1>3. regs' = Latched("DECODEM")
  BY <1>1 DEF Negedge
<1>4. CASE ir.op \in Direct
  <2>1. "reg_load" \in Raised("DECODEM") /\ Raised("DECODEM") \subseteq {"reg_load", "sext"}
    BY <1>2, <1>4, DirectRow DEF Loadpos
  <2>2. Selected(Row("DECODEM").ws) = IF ir.op = "br.r" THEN PC ELSE ir.tgt
    BY <1>2, <1>4, DirectRow DEF Selected
  <2>3. Stays
    BY <1>1, <2>1 DEF Negedge, Stays
  <2>4. /\ {"incr_pc", "decr_sp", "incr_sp"} \cap Raised("DECODEM") = {}
        /\ "DECODEM" \in Second
    BY <2>1 DEF Second
  <2>5. Latched("DECODEM") =
          LET w == Written(IF ir.op = "br.r" THEN PC ELSE ir.tgt, ALUout("DECODEM"))
          IN  IF Skips("DECODEM") THEN Add(w, PC, 2) ELSE w
    BY <2>1, <2>2, <2>4 DEF Latched, Written
  <2> QED
    BY <1>1, <1>3, <1>4, <2>3, <2>5
<1>5. CASE ir.op \in ViaExec
  <2>1. Raised("DECODEM") = DecodeRow(ir.op).sig \ {"mar_load", "mdr_load"}
    BY <1>2 DEF Loadpos
  <2>2. /\ "decr_sp" \in Raised("DECODEM") <=> ir.op = "push"
        /\ Raised("DECODEM") \subseteq {"decr_sp", "brk"}
    BY <1>5, <2>1, LongDecodeRow DEF FromImm, BaseBP, Shifts, AluImm, Addskpi
  <2>3. Stays
    BY <1>1, <2>2 DEF Negedge, Stays
  <2>4. ~Skips("DECODEM")
    BY <1>2, <1>5, LongDecodeRow DEF Skips
  <2>5. ir.op \notin Direct
    BY <1>5 DEF Direct, ViaExec, ViaRead, Alu3, Addskp, FromImm, BaseBP, Indexed, Shifts,
                AluImm, Addskpi
  <2> QED
    BY <1>1, <1>3, <2>2, <2>3, <2>4, <2>5 DEF Latched
<1> QED
  BY <1>1, <1>4, <1>5, Kinds

LEMMA LeavesDecodem ==
    ASSUME TypeInv, Negedge, state = "DECODEM"
    PROVE  \/ /\ state' = "FETCH" /\ ir.op \in Direct
              /\ regs' = regs /\ mar' = regs[PC] /\ mdr' = mdr /\ ir' = ir
              /\ snap' = [regs |-> regs', ram |-> ram]
           \/ state' = "READ" /\ ir.op \in ViaRead /\ regs' = regs /\ ir' = ir /\ snap' = snap
              /\ mar' = (IF "mar_load" \in ReadRow(ir.op).sig THEN ALUout("READ") ELSE mar)
              /\ mdr' = IF ir.op = "pop" THEN ReadRam(ram, mar, FALSE) ELSE mdr
           \/ state' = "EXEC" /\ ir.op \in FromImm \cup {"skip"} /\ regs' = regs /\ Stays
<1>1. ir \in Instr /\ ir.op \in Op \ {"hlt"}
  BY InstrTypes DEF TypeInv, Flow, Instr
<1>2. state' = DecodeRow(ir.op).skipstate
  BY DEF Negedge, Fsm, Row
<1>3. CASE ir.op \in Direct
  <2>1. state' = "FETCH"
    BY <1>2, <1>3, DirectRow
  <2>2. Raised("FETCH") = {"mar_load", "re"}
    BY DEF Raised, Row, FetchRow, Blank, Base, Loadneg
  <2>3. regs' = regs
    BY <2>1, <2>2 DEF Negedge, Latched, Second
  <2>4. mar' = regs[PC] /\ mdr' = mdr /\ ir' = ir /\ snap' = [regs |-> regs', ram |-> ram]
    BY <2>1, <2>2, FetchAddress DEF Negedge, TypeInv
  <2> QED
    BY <1>3, <2>1, <2>3, <2>4
<1>4. CASE ir.op \in ViaRead
  <2>1. state' = "READ"
    BY <1>2, <1>4, LongDecodeRow DEF ViaExec
  <2>2. Row("READ") = ReadRow(ir.op) /\ Raised("READ") = ReadRow(ir.op).sig \ Loadneg
    BY DEF Row, Raised, Base
  <2>3. Raised("READ") \cap {"reg_load", "ir_load", "decr_sp", "incr_sp"} = {}
    BY <2>2 DEF Loadneg
  <2>4. regs' = regs
    BY <2>1, <2>3 DEF Negedge, Latched, Second
  <2>5. "mar_load" \in Raised("READ") <=> "mar_load" \in ReadRow(ir.op).sig
    BY <2>2 DEF Loadneg
  <2>6. "mdr_load" \in Raised("READ") <=> ir.op = "pop"
    BY <1>4, <2>2, ReadRows DEF Loadneg, BaseBP, Indexed
  <2>7. ir.op = "pop" => MDRin("READ") = ReadRam(ram, mar, FALSE)
    <3> SUFFICES ASSUME ir.op = "pop"
                 PROVE  MDRin("READ") = ReadRam(ram, mar, FALSE)
      OBVIOUS
    <3>1. ReadRow("pop").sig = {"mdr_load", "reg_load", "re"} /\ ReadRow("pop").mdrs = "ram"
      BY <1>4, ReadRows DEF BaseBP, Indexed
    <3>2. "re" \in Row("READ").sig /\ ("be" \in Row("READ").sig) = FALSE
      BY <2>2, <3>1
    <3> QED
      BY <2>2, <3>1, <3>2 DEF MDRin, RAMout
  <2> QED
    BY <1>4, <2>1, <2>3, <2>4, <2>5, <2>6, <2>7 DEF Negedge
<1>5. CASE ir.op \in FromImm \cup {"skip"}
  <2>1. state' = "EXEC"
    BY <1>2, <1>5, LongDecodeRow DEF ViaExec, ViaRead, FromImm, BaseBP, Indexed, Shifts, AluImm,
                                     Addskpi
  <2>2. ExecRow(ir.op).sig \subseteq {"reg_load"}
    BY <1>5, ImmExecRow, OtherExecRow
  <2>3. Raised("EXEC") = {}
    BY <2>2 DEF Row, Raised, Base, Loadneg
  <2> QED
    BY <1>5, <2>1, <2>3 DEF Negedge, Latched, Second, Stays
<1> QED
  BY <1>1, <1>3, <1>4, <1>5, Kinds DEF ViaExec

LEMMA LeavesRead ==
    ASSUME TypeInv, Negedge, state = "READ"
    PROVE  /\ state' = "READM" /\ Stays
           /\ regs' = IF ir.op = "pop" THEN Written(ir.tgt, mdr) ELSE regs
<1>1. state' = "READM" /\ ir \in Instr /\ ir.op \in ViaRead
  BY InstrTypes DEF Negedge, Fsm, TypeInv, Flow
<1>2. Row("READM") = ReadRow(ir.op) /\ Raised("READM") = ReadRow(ir.op).sig \ Loadpos
  BY DEF Row, Raised, Base
<1>3. /\ "reg_load" \in Raised("READM") <=> ir.op = "pop"
      /\ Raised("READM") \subseteq {"reg_load", "re"}
  BY <1>1, <1>2, ReadRows DEF Loadpos, BaseBP, Indexed
<1>4. ~Skips("READM") /\ regs' = Latched("READM")
  BY <1>1, <1>2, ReadRows DEF Skips, Negedge
<1>5. Stays
  BY <1>1, <1>3 DEF Negedge, Stays
<1>6. CASE ir.op = "pop"
  <2>1. Op0("READM") = mdr /\ Op1("READM") = 0 /\ Selected(Row("READM").ws) = ir.tgt
    BY <1>1, <1>2, <1>6, ReadRows DEF Op0, Op1, Operand, Selected, TypeInv, TypeOK
  <2>2. Sum(mdr, 0) = mdr
    BY Sizes DEF Sum, Word, TypeInv, TypeOK
  <2>3. ALUout("READM") = mdr
    BY <1>1, <1>2, <1>6, <2>1, <2>2, ReadRows DEF ALUout
  <2> QED
    BY <1>1, <1>3, <1>4, <1>5, <1>6, <2>1, <2>3 DEF Latched, Written
<1>7. CASE ir.op # "pop"
  BY <1>1, <1>3, <1>4, <1>5, <1>7 DEF Latched
<1> QED
  BY <1>6, <1>7

LEMMA LeavesReadm ==
    ASSUME TypeInv, Negedge, state = "READM"
    PROVE  /\ state' = "EXEC" /\ regs' = regs /\ mar' = mar /\ ir' = ir /\ snap' = snap
           /\ mdr' = CASE ir.op \in Loads -> ReadRam(ram, mar, ir.op \in ByteOps)
                       [] ir.op \in Stores \cup {"push"} -> ALUout("EXEC")
                       [] OTHER -> mdr
<1>1. state' = "EXEC" /\ ir \in Instr /\ ir.op \in ViaRead
  BY InstrTypes DEF Negedge, Fsm, TypeInv, Flow
<1>2. Row("EXEC") = ExecRow(ir.op) /\ Raised("EXEC") = ExecRow(ir.op).sig \ Loadneg
  BY DEF Row, Raised, Base
<1>3. regs' = regs /\ ir' = ir
  BY <1>1, <1>2 DEF Negedge, Latched, Second, Loadneg
<1>4. snap' = snap
  BY <1>1 DEF Negedge
<1>5. CASE ir.op \in Loads
  <2>1. /\ ExecRow(ir.op).sig = {"mdr_load", "reg_load", "re"}
                \cup (IF ir.op \in ByteOps THEN {"be"} ELSE {})
        /\ ExecRow(ir.op).mdrs = "ram"
    BY <1>5, MemoryExecRow
  <2>2. "mdr_load" \in Raised("EXEC") /\ "mar_load" \notin Raised("EXEC")
    BY <1>2, <2>1 DEF Loadneg
  <2>3. MDRin("EXEC") = ReadRam(ram, mar, ir.op \in ByteOps)
    BY <1>2, <2>1 DEF MDRin, RAMout
  <2> QED
    BY <1>1, <1>3, <1>4, <1>5, <2>2, <2>3 DEF Negedge, Loads, Stores
<1>6. CASE ir.op \in Stores \cup {"push"}
  <2>0. ir.op \notin Loads
    BY <1>6 DEF Loads, Stores
  <2>1. /\ ExecRow(ir.op).sig = {"mdr_load", "ram_load"}
                \cup (IF ir.op \in ByteOps THEN {"be"} ELSE {})
        /\ ExecRow(ir.op).mdrs = "alu"
    BY <1>6, <2>0, MemoryExecRow
  <2>2. "mdr_load" \in Raised("EXEC") /\ "mar_load" \notin Raised("EXEC")
    BY <1>2, <2>1 DEF Loadneg
  <2>3. MDRin("EXEC") = ALUout("EXEC")
    BY <1>2, <2>1 DEF MDRin
  <2> QED
    BY <1>1, <1>3, <1>4, <1>6, <2>0, <2>2, <2>3 DEF Negedge
<1>7. CASE ir.op \in Shifts \cup {"pop", "brk"}
  <2>1. ExecRow(ir.op).sig \cap {"mdr_load", "mar_load"} = {}
    BY <1>7, ImmExecRow, OtherExecRow
  <2> QED
    BY <1>1, <1>2, <1>3, <1>4, <1>7, <2>1 DEF Negedge, Loads, Stores, Shifts
<1> QED
  BY <1>1, <1>5, <1>6, <1>7, Kinds DEF ViaRead

LEMMA LeavesExec ==
    ASSUME TypeInv, Negedge, state = "EXEC"
    PROVE  /\ state' = "EXECM" /\ Stays
           /\ ir.op \in FromImm \cup Shifts =>
                 LET w == Written(CASE ir.op = "br" -> PC
                                    [] ir.op \in Shifts \cup {"addhi"} -> ir.tgt2
                                    [] OTHER -> ir.tgt, ALUout("EXECM"))
                 IN  regs' = IF Skips("EXECM") THEN Add(w, PC, 2) ELSE w
           /\ ir.op \in Loads =>
                 regs' = Written(IF ir.op \in BaseBP THEN ir.tgt2 ELSE ir.tgt, mdr)
           /\ ir.op \in Stores \cup {"push", "brk"} => regs' = regs
           /\ ir.op = "pop" => regs' = Add(regs, SP, 2)
           /\ ir.op = "skip" => regs' = IF Skips("EXECM") THEN Add(regs, PC, 2) ELSE regs
<1>1. state' = "EXECM" /\ ir \in Instr /\ ir.op \in ViaExec
  BY InstrTypes DEF Negedge, Fsm, TypeInv, Flow
<1>2. Row("EXECM") = ExecRow(ir.op) /\ Raised("EXECM") = ExecRow(ir.op).sig \ Loadpos
  BY DEF Row, Raised, Base
<1>3. regs' = Latched("EXECM") /\ snap' = snap /\ "EXECM" \in Second
  BY <1>1 DEF Negedge, Second
<1>4. mar' = mar /\ mdr' = mdr
  BY <1>1, <1>2 DEF Negedge, Loadpos
<1>5. CASE ir.op \in FromImm \cup Shifts
  <2>1. Raised("EXECM") = {"reg_load"}
    BY <1>2, <1>5, ImmExecRow DEF Loadpos
  <2>2. Selected(Row("EXECM").ws) = CASE ir.op = "br" -> PC
                                      [] ir.op \in Shifts \cup {"addhi"} -> ir.tgt2
                                      [] OTHER -> ir.tgt
    BY <1>2, <1>5, ImmExecRow DEF Selected, Shifts
  <2>3. ir.op \notin Loads \cup Stores \cup {"push", "brk", "pop", "skip"}
    BY <1>5 DEF FromImm, Shifts, Loads, Stores, AluImm, Addskpi
  <2>4. Stays
    BY <1>1, <1>3, <1>4, <2>1 DEF Negedge, Stays
  <2> QED
    BY <1>1, <1>3, <1>5, <2>1, <2>2, <2>3, <2>4 DEF Latched, Written
<1>6. CASE ir.op \in Loads
  <2>1. "reg_load" \in Raised("EXECM") /\ Raised("EXECM") \subseteq {"reg_load", "re", "be"}
    BY <1>2, <1>6, MemoryExecRow DEF Loadpos
  <2>2. ~Skips("EXECM")
    BY <1>2, <1>6, MemoryExecRow DEF Skips
  <2>3. Selected(Row("EXECM").ws) = IF ir.op \in BaseBP THEN ir.tgt2 ELSE ir.tgt
    BY <1>2, <1>6, MemoryExecRow DEF Selected
  <2>4. Op0("EXECM") = mdr /\ Op1("EXECM") = 0
    BY <1>2, <1>6, MemoryExecRow DEF Op0, Op1, Operand, Selected, TypeInv, TypeOK
  <2>5. Sum(mdr, 0) = mdr
    BY Sizes DEF Sum, Word, TypeInv, TypeOK
  <2>6. ALUout("EXECM") = mdr
    <3>1. Row("EXECM").alu = "add" /\ "sext" \notin Row("EXECM").sig
      BY <1>2, <1>6, MemoryExecRow
    <3> QED
      BY <2>4, <2>5, <3>1 DEF ALUout
  <2>7. ir.op \notin FromImm \cup Shifts \cup Stores \cup {"push", "brk", "pop", "skip"}
    BY <1>6 DEF FromImm, Shifts, Loads, Stores, AluImm, Addskpi
  <2>8. Stays
    BY <1>1, <1>3, <1>4, <2>1 DEF Negedge, Stays
  <2>9. Latched("EXECM") = Written(IF ir.op \in BaseBP THEN ir.tgt2 ELSE ir.tgt, mdr)
    <3>1. /\ "reg_load" \in Raised("EXECM")
          /\ {"incr_pc", "decr_sp", "incr_sp"} \cap Raised("EXECM") = {}
      BY <2>1
    <3> QED
      BY <2>2, <2>3, <2>6, <3>1 DEF Latched, Written
  <2> QED
    BY <1>3, <1>6, <2>7, <2>8, <2>9, <1>1
<1>7. CASE ir.op \in Stores \cup {"push"}
  <2>1. ir.op \notin FromImm \cup Shifts \cup Loads \cup {"brk", "pop", "skip"}
    BY <1>7 DEF FromImm, Shifts, Loads, Stores, AluImm, Addskpi
  <2>2. Raised("EXECM") \subseteq {"ram_load", "be"} /\ ~Skips("EXECM")
    BY <1>2, <1>7, <2>1, MemoryExecRow DEF Loadpos, Skips
  <2>3. Stays
    BY <1>1, <1>3, <1>4, <2>2 DEF Negedge, Stays
  <2> QED
    BY <1>1, <1>3, <1>7, <2>1, <2>2, <2>3 DEF Latched
<1>8. CASE ir.op \in {"pop", "brk", "skip"}
  <2>1. ir.op \notin FromImm \cup Shifts \cup Loads \cup Stores
    BY <1>8 DEF FromImm, Shifts, Loads, Stores, AluImm, Addskpi
  <2>2. Raised("EXECM") = CASE ir.op = "pop" -> {"incr_sp"} [] ir.op = "brk" -> {"brk"}
                            [] OTHER -> {}
    BY <1>2, <1>8, OtherExecRow DEF Loadpos
  <2>3. ir.op # "skip" => ~Skips("EXECM")
    BY <1>2, <1>8, OtherExecRow DEF Skips
  <2>4. Stays
    BY <1>1, <1>3, <1>4, <1>8, <2>2 DEF Negedge, Stays
  <2> QED
    BY <1>1, <1>3, <1>8, <2>1, <2>2, <2>3, <2>4 DEF Latched
<1> QED
  BY <1>1, <1>5, <1>6, <1>7, <1>8, Kinds DEF ViaExec, ViaRead

LEMMA LeavesExecm ==
    ASSUME TypeInv, Negedge, state = "EXECM"
    PROVE  /\ state' = "FETCH" /\ regs' = regs /\ mar' = regs[PC] /\ mdr' = mdr
           /\ ir' = ir /\ snap' = [regs |-> regs', ram |-> ram]
<1>1. state' = "FETCH"
  BY DEF Negedge, Fsm, TypeInv, Clean
<1>2. Raised("FETCH") = {"mar_load", "re"}
  BY DEF Raised, Row, FetchRow, Blank, Base, Loadneg
<1>3. regs' = regs
  BY <1>1, <1>2 DEF Negedge, Latched, Second
<1> QED
  BY <1>1, <1>2, <1>3, FetchAddress DEF Negedge, TypeInv

-----------------------------------------------------------------------------
\* Types, and the way through the states.

LEMMA AddsType ==
    ASSUME TypeInv, ir \in Instr, NEW s, Row(s) \in RowFields, Row(s).alu # "addhi"
    PROVE  ALUout(s) \in Word
  BY ALUoutType DEF TypeInv

LEMMA WrittenType ==
    ASSUME TypeOK, NEW t \in Regs, NEW v \in Word
    PROVE  Written(t, v) \in [Regs -> Word] /\ Written(t, v)[0] = 0
  BY RoleTypes DEF Written, TypeOK

LEMMA DecodemValueType ==
    ASSUME TypeInv, ir \in Instr, ir.op \in Direct
    PROVE  ALUout("DECODEM") \in Word
<1>1. Row("DECODEM") \in RowFields
  BY RowTypes, Kinds DEF Row, Direct, Alu3, Addskp
<1>2. Row("DECODEM").alu # "addhi"
  BY DirectRow DEF Row
<1> QED
  BY <1>1, <1>2, AddsType

LEMMA ReadValueType ==
    ASSUME TypeInv, ir \in Instr, ir.op \in ViaRead
    PROVE  ALUout("READ") \in Word
<1>1. Row("READ") \in RowFields
  BY RowTypes, Kinds DEF Row, ViaExec
<1>2. Row("READ").alu # "addhi"
  BY ReadRows DEF Row
<1> QED
  BY <1>1, <1>2, AddsType

LEMMA ExecValueType ==
    ASSUME TypeInv, state = "EXEC", ir.op \in FromImm \cup Shifts
    PROVE  ALUout("EXECM") \in Word
<1>1. ir \in Instrs /\ ir \in Instr
  BY InstrTypes DEF TypeInv, Flow
<1>2. Row("EXECM") = ExecRow(ir.op) /\ Row("EXECM") \in RowFields
  BY RowTypes, Kinds DEF Row, ViaExec, ViaRead
<1>3. CASE ir.op = "addhi"
  <2>1. mdr = ir.imm
    BY <1>3 DEF TypeInv, Flow, FromImm
  <2>2. Op0("EXECM") = mdr
    BY <1>2, <1>3, ImmExecRow DEF Op0, Operand
  <2> QED
    BY <1>1, <1>2, <1>3, <2>1, <2>2, InstrTypes, ALUoutType DEF TypeInv
<1>4. CASE ir.op # "addhi"
  <2>1. Row("EXECM").alu # "addhi"
    BY <1>2, <1>4, ImmExecRow DEF Shifts
  <2> QED
    BY <1>1, <1>2, <2>1, AddsType
<1> QED
  BY <1>3, <1>4

LEMMA StoreValueType ==
    ASSUME TypeInv, ir \in Instr, ir.op \in Stores \cup {"push"}
    PROVE  ALUout("EXEC") \in Word
<1>1. Row("EXEC") = ExecRow(ir.op) /\ Row("EXEC") \in RowFields
  BY RowTypes, Kinds DEF Row, ViaExec, ViaRead, Instr
<1>2. Row("EXEC").alu # "addhi"
  BY <1>1, MemoryExecRow
<1> QED
  BY <1>1, <1>2, AddsType

\* The registers and latches after a falling edge.
LEMMA NegedgeTypes ==
    ASSUME TypeInv, Negedge
    PROVE  /\ regs' \in [Regs -> Word] /\ regs'[0] = 0
           /\ mar' \in Word /\ mdr' \in Word /\ ir' \in Instr \cup {None}
           /\ Flow'
<1> USE DEF Flow, BreakIsLost, Base, Second
<1>0. /\ state \in Base \cup Second /\ mar \in Word /\ mdr \in Word
      /\ regs \in [Regs -> Word] /\ regs[0] = 0 /\ ram \in [0 .. Half - 1 -> Word]
      /\ regs[PC] \in Word /\ regs[SP] \in Word /\ count \in 0 .. MaxInstrs + 1
      /\ ir \in Instr \cup {None} /\ MaxInstrs \in Nat
  BY RoleTypes, InitAssumption DEF TypeInv, TypeOK
<1>1. \A i \in Instr : i.tgt \in Regs /\ i.tgt2 \in Regs /\ i.imm \in Word
  BY DEF Instr
<1>c. count' = MaxInstrs + 1 => state' = "FETCHM" /\ ir' = Plain("hlt")
  <2>1. count = MaxInstrs + 1 => state = "FETCHM" /\ ir.op = "hlt" /\ ir # None
    BY InstrTypes DEF TypeInv, Plain
  <2>2. count # MaxInstrs + 1
    BY <2>1 DEF Negedge
  <2>3. CASE state' = "FETCHM"
    <3>1. "ir_load" \in Raised(state')
      BY <2>3 DEF Raised, Row, FetchRow, Blank, Loadpos
    <3> QED
      BY <2>2, <2>3, <3>1, <1>0 DEF Negedge
  <2>4. CASE state' # "FETCHM"
    BY <2>2, <2>4 DEF Negedge
  <2> QED
    BY <2>3, <2>4
<1>d. count' = MaxInstrs + 1 => state' = "FETCHM" /\ ir'.op = "hlt"
  BY <1>c DEF Plain
<1>a. /\ Add(regs, PC, 2) \in [Regs -> Word] /\ Add(regs, PC, 2)[0] = 0
      /\ Add(regs, SP, N - 2) \in [Regs -> Word] /\ Add(regs, SP, N - 2)[0] = 0
  BY <1>0, AddType, RoleTypes, Sizes
<1>2. CASE state = "FETCH"
  BY <1>0, <1>2, <1>a, <1>d, LeavesFetch, InstrTypes
<1>3. CASE state = "FETCHM"
  BY <1>0, <1>1, <1>3, <1>d, LeavesFetchm, InstrTypes DEF Shifts
<1>4. CASE state = "DECODE"
  <2>1. ir \in Instrs /\ ir \in Instr /\ ir.op \in Op \ {"hlt"}
    BY <1>4, InstrTypes DEF TypeInv, Instr
  <2>2. regs' \in [Regs -> Word] /\ regs'[0] = 0
    <3>1. CASE ir.op \in Direct
      <4> DEFINE w == Written(IF ir.op = "br.r" THEN PC ELSE ir.tgt, ALUout("DECODEM"))
      <4>1. w \in [Regs -> Word] /\ w[0] = 0
        BY <1>1, <2>1, <3>1, DecodemValueType, WrittenType, RoleTypes DEF TypeInv
      <4>2. regs' = IF Skips("DECODEM") THEN Add(w, PC, 2) ELSE w
        BY <1>4, <3>1, LeavesDecode
      <4> HIDE DEF w
      <4> QED
        BY <4>1, <4>2, AddType, RoleTypes, Sizes
    <3>2. CASE ir.op \notin Direct
      BY <1>0, <1>4, <1>a, <3>2, LeavesDecode
    <3> QED
      BY <3>1, <3>2
  <2> QED
    BY <1>0, <1>4, <1>d, <2>1, <2>2, LeavesDecode DEF Stays, TypeInv
<1>5. CASE state = "DECODEM"
  <2>1. ir \in Instrs /\ ir \in Instr /\ ir.op \in Op \ {"hlt"}
    BY <1>5, InstrTypes DEF TypeInv, Instr
  <2>2. ir.op \in ViaRead => ALUout("READ") \in Word
    BY <2>1, ReadValueType
  <2>3. ReadRam(ram, mar, FALSE) \in Word
    BY <1>0, ReadRamType
  <2>4. ir.op \in FromImm => mdr = ir.imm
    BY <1>5 DEF TypeInv
  <2> QED
    BY <1>0, <1>5, <1>d, <2>1, <2>2, <2>3, <2>4, LeavesDecodem DEF Stays, ViaExec
<1>6. CASE state = "READ"
  <2>1. ir \in Instrs /\ ir \in Instr /\ ir.op \in ViaRead
    BY <1>6, InstrTypes DEF TypeInv, Instr
  <2>2. Written(ir.tgt, mdr) \in [Regs -> Word] /\ Written(ir.tgt, mdr)[0] = 0
    BY <1>0, <1>1, <2>1, WrittenType DEF TypeInv
  <2> QED
    BY <1>0, <1>6, <1>d, <2>1, <2>2, LeavesRead DEF Stays
<1>7. CASE state = "READM"
  <2>1. ir \in Instrs /\ ir \in Instr /\ ir.op \in ViaRead
    BY <1>7, InstrTypes DEF TypeInv, Instr
  <2>2. ir.op \in Stores \cup {"push"} => ALUout("EXEC") \in Word
    BY <2>1, StoreValueType
  <2>3. \A be \in BOOLEAN : ReadRam(ram, mar, be) \in Word
    BY <1>0, ReadRamType
  <2>4. mdr' \in Word
    <3>1. CASE ir.op \in Loads
      <4>1. mdr' = ReadRam(ram, mar, ir.op \in ByteOps)
        BY <1>7, <3>1, LeavesReadm DEF Loads, Stores
      <4>2. (ir.op \in ByteOps) \in BOOLEAN
        OBVIOUS
      <4> QED
        BY <2>3, <4>1, <4>2
    <3>2. CASE ir.op \in Stores \cup {"push"}
      BY <1>7, <2>2, <3>2, LeavesReadm DEF Loads, Stores
    <3>3. CASE ir.op \notin Loads \cup Stores \cup {"push"}
      BY <1>0, <1>7, <3>3, LeavesReadm
    <3> QED
      BY <3>1, <3>2, <3>3
  <2>5. ir.op \notin FromImm
    BY <2>1 DEF ViaRead, FromImm, BaseBP, Indexed, Shifts, AluImm, Addskpi
  <2> QED
    BY <1>0, <1>7, <1>d, <2>1, <2>4, <2>5, LeavesReadm DEF ViaExec
<1>8. CASE state = "EXEC"
  <2>1. ir \in Instrs /\ ir \in Instr /\ ir.op \in ViaExec
    BY <1>8, InstrTypes DEF TypeInv, Instr
  <2>2. regs' \in [Regs -> Word] /\ regs'[0] = 0
    <3>1. CASE ir.op \in FromImm \cup Shifts
      <4> DEFINE t == CASE ir.op = "br" -> PC
                        [] ir.op \in Shifts \cup {"addhi"} -> ir.tgt2
                        [] OTHER -> ir.tgt
                 w == Written(t, ALUout("EXECM"))
      <4>1. t \in Regs
        BY <1>1, <2>1, RoleTypes
      <4>2. w \in [Regs -> Word] /\ w[0] = 0
        BY <1>8, <3>1, <4>1, ExecValueType, WrittenType DEF TypeInv
      <4>3. regs' = IF Skips("EXECM") THEN Add(w, PC, 2) ELSE w
        BY <1>8, <3>1, LeavesExec
      <4> HIDE DEF w
      <4> QED
        BY <4>2, <4>3, AddType, RoleTypes, Sizes
    <3>2. CASE ir.op \in Loads
      <4>1. regs' = Written(IF ir.op \in BaseBP THEN ir.tgt2 ELSE ir.tgt, mdr)
        BY <1>8, <3>2, LeavesExec
      <4> QED
        BY <1>0, <1>1, <2>1, <4>1, WrittenType DEF TypeInv
    <3>3. CASE ir.op \in Stores \cup {"push", "brk", "pop", "skip"}
      <4>1. /\ Add(regs, SP, 2) \in [Regs -> Word] /\ Add(regs, SP, 2)[0] = 0
            /\ Add(regs, PC, 2) \in [Regs -> Word] /\ Add(regs, PC, 2)[0] = 0
        BY <1>0, AddType, RoleTypes, Sizes
      <4> QED
        BY <1>0, <1>8, <3>3, <4>1, LeavesExec
    <3> QED
      BY <2>1, <3>1, <3>2, <3>3, Kinds DEF ViaExec, ViaRead
  <2> QED
    BY <1>0, <1>8, <1>d, <2>1, <2>2, LeavesExec DEF Stays
<1>9. CASE state = "EXECM"
  BY <1>0, <1>9, <1>d, LeavesExecm
<1> QED
  BY <1>0, <1>2, <1>3, <1>4, <1>5, <1>6, <1>7, <1>8, <1>9

\* The rising edge writes words to RAM and moves nothing else the way depends on.
LEMMA PosedgeTypes ==
    ASSUME TypeInv, Posedge
    PROVE  /\ ram' \in [0 .. Half - 1 -> Word] /\ carry' \in BOOLEAN /\ breek' \in BOOLEAN
           /\ Flow'
<1>1. ram \in [0 .. Half - 1 -> Word] /\ mar \in Word /\ mdr \in Word
  BY DEF TypeInv, TypeOK
<1>2. WriteRam(ram, mar, mdr, "be" \in Raised(state)) \in [0 .. Half - 1 -> Word]
  <2>1. ("be" \in Raised(state)) \in BOOLEAN
    OBVIOUS
  <2> QED
    BY <1>1, <2>1, WriteRamType
<1>3. ram' \in [0 .. Half - 1 -> Word]
  BY <1>1, <1>2 DEF Posedge
<1>4. CarryShouldBeSet(state) \in BOOLEAN
  <2>1. CASE Row(state).alu = "add"
    BY <2>1 DEF CarryShouldBeSet
  <2>2. CASE Row(state).alu = "sub"
    BY <2>2 DEF CarryShouldBeSet, Borrow
  <2>3. CASE Row(state).alu \notin {"add", "sub"}
    BY <2>3 DEF CarryShouldBeSet
  <2> QED
    BY <2>1, <2>2, <2>3
<1>5. carry' \in BOOLEAN /\ breek' \in BOOLEAN
  BY <1>4 DEF Posedge, TypeInv, TypeOK
<1>6. Flow'
  BY DEF Posedge, TypeInv, Flow, BreakIsLost
<1> QED
  BY <1>3, <1>5, <1>6

LEMMA InitTypeInv == Init => TypeInv
<1> SUFFICES ASSUME Init
             PROVE  TypeInv
  OBVIOUS
<1>1. /\ regs \in [Regs -> Word] /\ regs[0] = 0 /\ mar \in Word
      /\ ram \in [0 .. Half - 1 -> Word] /\ mdr \in Word /\ count \in 0 .. MaxInstrs + 1
  BY InitAssumption, RoleTypes DEF Init
<1>3. TypeOK
  BY <1>1 DEF Init, TypeOK, Base, Second
<1>2. Flow /\ Clean
  BY InitAssumption DEF Init, Flow, BreakIsLost, Clean
<1> QED
  BY <1>2, <1>3 DEF TypeInv

LEMMA StepTypeInv == TypeInv /\ [Next]_vars => TypeInv'
<1> SUFFICES ASSUME TypeInv, [Next]_vars
             PROVE  TypeInv'
  OBVIOUS
<1>1. CASE Posedge
  <2>1. Clean' /\ cleared' \in BOOLEAN
    BY <1>1 DEF Posedge, Clean
  <2> QED
    BY <1>1, <2>1, PosedgeTypes DEF Posedge, TypeInv, TypeOK
<1>2. CASE Negedge
  <2>1. snap' \in [regs : [Regs -> Word], ram : [0 .. Half - 1 -> Word]]
    BY <1>2, NegedgeTypes DEF Negedge, TypeInv, TypeOK
  <2>2. state' \in Base \cup Second \cup {"BREAK", "ZERO_STATE"}
    BY <1>2, LeavesFetch, LeavesFetchm, LeavesDecode, LeavesDecodem, LeavesRead, LeavesReadm,
       LeavesExec, LeavesExecm DEF TypeInv, TypeOK, Flow, BreakIsLost, Base, Second
  <2>3. count' \in 0 .. MaxInstrs + 1
    <3>1. count \in 0 .. MaxInstrs + 1 /\ MaxInstrs \in Nat
      BY InitAssumption DEF TypeInv, TypeOK
    <3>2. count # MaxInstrs + 1
      <4>1. count = MaxInstrs + 1 => ir.op = "hlt" /\ ir # None
        BY InstrTypes DEF TypeInv, Flow, Plain
      <4> QED
        BY <1>2, <4>1 DEF Negedge
    <3> QED
      BY <1>2, <3>1, <3>2 DEF Negedge
  <2>4. breek' \in BOOLEAN /\ cleared' \in BOOLEAN /\ Clean'
    <3>1. breek' \in BOOLEAN
      BY <1>2 DEF Negedge
    <3>2. cleared' = FALSE
      BY <1>2 DEF Negedge
    <3> QED
      BY <3>1, <3>2 DEF Clean
  <2> QED
    BY <1>2, <2>1, <2>2, <2>3, <2>4, NegedgeTypes DEF Negedge, TypeInv, TypeOK
<1>3. CASE UNCHANGED vars
  BY <1>3 DEF vars, TypeInv, TypeOK, Flow, BreakIsLost, Clean
<1>4. CASE ClearSig
  <2>1. TypeOK'
    BY <1>4 DEF ClearSig, TypeInv, TypeOK
  <2>2. Flow'
    BY <1>4 DEF ClearSig, TypeInv, Flow, BreakIsLost
  <2> QED
    BY <1>4, <2>1, <2>2 DEF ClearSig, TypeInv, Clean
<1> QED
  BY <1>1, <1>2, <1>3, <1>4 DEF Next

\* Every value stays one of its kind: no sum, shift or borrow leaves the words, and
\* no address the RAM.
THEOREM TypeCorrect == Spec => []TypeOK
  BY InitTypeInv, StepTypeInv, PTL DEF Spec, TypeInv

\* brk never stops the machine, whatever the program: its signal, raised in EXEC and
\* EXECM, is cleared before the next phase's state machine could see it.
THEOREM BreakIsLostHolds == Spec => []BreakIsLost
<1>1. TypeInv => BreakIsLost
  BY DEF TypeInv, Flow
<1> QED
  BY <1>1, InitTypeInv, StepTypeInv, PTL DEF Spec

\* Every instruction is fetched from the address its predecessor has left in the PC.
THEOREM FetchesAtPcHolds == Spec => FetchesAtPc
<1>1. TypeInv /\ [Next]_vars
        => [state # "FETCHM" /\ state' = "FETCHM" => mar = regs[PC]]_vars
  <2> SUFFICES ASSUME TypeInv, Next, state # "FETCHM", state' = "FETCHM"
               PROVE  mar = regs[PC]
    OBVIOUS
  <2>1. Negedge
    BY DEF Next, Posedge, ClearSig
  <2>2. state = "FETCH"
    BY <2>1, LeavesFetchm, LeavesDecode, LeavesDecodem, LeavesRead, LeavesReadm,
       LeavesExec, LeavesExecm DEF TypeInv, TypeOK, Flow, BreakIsLost, Base, Second
  <2> QED
    BY <2>2 DEF TypeInv, Flow
<1> QED
  BY <1>1, InitTypeInv, StepTypeInv, PTL DEF Spec, FetchesAtPc

-----------------------------------------------------------------------------
\* What the instruction makes of registers and RAM, and on the way to it.

Pushed == [I!Fetched EXCEPT ![SP] = Diff(@, 2)]

Popped == [I!Fetched EXCEPT ![ir.tgt] = ReadRam(snap.ram, I!Fetched[SP], FALSE)]

StoreValue ==
    CASE ir.op = "push" -> Pushed[ir.tgt]
      [] ir.op \in {"stw0", "stb0"} -> 0
      [] ir.op \in BaseBP \ {"stw0", "stb0"} -> I!Fetched[ir.tgt2]
      [] OTHER -> I!Fetched[ir.tgt]

StoreAddress == IF ir.op = "push" THEN Pushed[SP] ELSE I!Address(ir)

SkipHolds ==
    CASE ir.op \in Addskp \cup Addskpi ->
            (I!Value(ir, I!Fetched) = 0) = (ir.op \in {"addskp.z", "addskpi.z"})
      [] ir.op = "skip" ->
            LET x == I!Fetched[ir.arg0]
                y == I!Fetched[ir.arg1]
            IN  FsimDecides(ir.cond, Diff(x, y), Borrow(x, y))
      [] OTHER -> FALSE

WithoutSkip ==
    CASE ir.op \in Direct \cup FromImm \cup Shifts -> I!Computed(ir)
      [] ir.op \in Loads -> [I!Fetched EXCEPT ![I!Target(ir)] =
                                ReadRam(snap.ram, I!Address(ir), ir.op \in ByteOps)]
      [] ir.op = "push" -> Pushed
      [] ir.op = "pop"  -> [Popped EXCEPT ![SP] = Sum(@, 2)]
      [] OTHER          -> I!Fetched

RegsAfter == IF SkipHolds THEN I!IncrPc(WithoutSkip) ELSE WithoutSkip

RamAfter ==
    IF ir.op \in Stores \cup {"push"}
    THEN WriteRam(snap.ram, StoreAddress, StoreValue, ir.op \in ByteOps) ELSE snap.ram

\* Where the machine is on that way.
RegsSoFar ==
    CASE state = "FETCH" -> snap.regs
      [] state = "DECODEM" /\ ir.op \in Direct -> RegsAfter
      [] state = "EXECM" -> RegsAfter
      [] state \in {"DECODEM", "READ", "READM", "EXEC"} /\ ir.op = "push" -> Pushed
      [] state \in {"READM", "EXEC"} /\ ir.op = "pop" -> Popped
      [] OTHER -> I!Fetched

RamSoFar == IF state = "EXECM" /\ clk = "NEGEDGE" THEN RamAfter ELSE snap.ram

Transfers ==
    /\ state \in {"DECODE", "DECODEM", "READ", "READM", "EXEC"} /\ ir.op \in Shifts
          => mdr = ir.imm
    /\ state \in {"DECODE", "DECODEM"} /\ ir.op \in BaseBP => mdr = ir.imm
    /\ state \in {"DECODE", "DECODEM"} /\ ir.op = "pop" => mar = I!Fetched[SP]
    /\ state = "READ" /\ ir.op = "pop" => mdr = ReadRam(snap.ram, I!Fetched[SP], FALSE)
    /\ state \in {"READ", "READM", "EXEC", "EXECM"} =>
          /\ ir.op \in Loads \cup Stores => mar = I!Address(ir)
          /\ ir.op = "push" => mar = Pushed[SP]
    /\ state = "EXEC" /\ ir.op \in Loads =>
          mdr = ReadRam(snap.ram, I!Address(ir), ir.op \in ByteOps)
    /\ state \in {"EXEC", "EXECM"} /\ ir.op \in Stores \cup {"push"} => mdr = StoreValue
    /\ state = "EXEC" /\ clk = "NEGEDGE" /\ ir.op = "skip" =>
          carry = Borrow(I!Fetched[ir.arg0], I!Fetched[ir.arg1])

Progress == regs = RegsSoFar /\ ram = RamSoFar /\ Transfers

\* No instruction has its result sent to R0, which main2.c does not write.
NoResultToR0 ==
    \A i \in Instrs : i.op \notin Stores \cup {"push", "brk", "skip", "hlt"} => I!Target(i) # 0
-----------------------------------------------------------------------------
\* What is going to become of the instruction does not change under way.
LEMMA Kept ==
    ASSUME ir' = ir, snap' = snap
    PROVE  /\ I!Fetched' = I!Fetched /\ Pushed' = Pushed /\ Popped' = Popped
           /\ StoreValue' = StoreValue /\ StoreAddress' = StoreAddress
           /\ I!Address(ir)' = I!Address(ir)
           /\ RegsAfter' = RegsAfter /\ RamAfter' = RamAfter
<1>1. I!Fetched' = I!Fetched
  BY DEF I!Fetched
<1>2. Pushed' = Pushed /\ Popped' = Popped
  BY <1>1 DEF Pushed, Popped
<1>3. I!Address(ir)' = I!Address(ir)
  BY <1>1 DEF I!Address
<1>4. StoreValue' = StoreValue /\ StoreAddress' = StoreAddress
  BY <1>1, <1>2, <1>3 DEF StoreValue, StoreAddress
<1>5. SkipHolds' = SkipHolds
  BY <1>1 DEF SkipHolds
<1>6. I!Computed(ir)' = I!Computed(ir)
  BY <1>1 DEF I!Computed
<1>7. WithoutSkip' = WithoutSkip
  BY <1>1, <1>2, <1>3, <1>6 DEF WithoutSkip
<1>8. RegsAfter' = RegsAfter
  BY <1>5, <1>7 DEF RegsAfter
<1>9. RamAfter' = RamAfter
  BY <1>4 DEF RamAfter
<1> QED
  BY <1>1, <1>2, <1>3, <1>4, <1>8, <1>9

\* Isa's instance computes with the operations of the words of this machine.
LEMMA SameWords == I!N = N /\ I!Word = Word
  BY DEF I!N, N, I!Word, Word

LEMMA SameSums ==
    \A x, y : I!Sum(x, y) = Sum(x, y) /\ I!Diff(x, y) = Diff(x, y) /\ I!Borrow(x, y) = Borrow(x, y)
  BY SameWords DEF I!Sum, Sum, I!Diff, Diff, I!Borrow, Borrow

LEMMA SameShifts ==
    \A x, y : I!Shl(x, y) = Shl(x, y) /\ I!Shr(x, y) = Shr(x, y) /\ I!AddHi(x, y) = AddHi(x, y)
  BY SameWords DEF I!Shl, Shl, I!Shr, Shr, I!AddHi, AddHi

LEMMA SameBytes ==
    /\ \A x : I!LowByte(x) = LowByte(x) /\ I!HighByte(x) = HighByte(x)
    /\ \A x : I!Sext(x) = Sext(x)
  BY SameWords DEF I!LowByte, LowByte, I!HighByte, HighByte, I!Sext, Sext

LEMMA SameRam ==
    /\ \A m, x, be : I!ReadRam(m, x, be) = ReadRam(m, x, be)
    /\ \A m, x, v, be : I!WriteRam(m, x, v, be) = WriteRam(m, x, v, be)
  BY SameBytes DEF I!ReadRam, ReadRam, I!WriteRam, WriteRam

LEMMA SameConds ==
    \A cond, d, c : I!FsimDecides(cond, d, c) = FsimDecides(cond, d, c)
  BY DEF I!FsimDecides, FsimDecides, I!Negative, Negative

LEMMA SumCommutes ==
    ASSUME NEW x \in Word, NEW y \in Word
    PROVE  Sum(x, y) = Sum(y, x) /\ Sum(x, 0) = x
  BY Sizes DEF Sum, Word

\* The ALU computes what the instruction computes.
LEMMA DecodemValue ==
    ASSUME TypeInv, ir \in Instr, ir.op \in Direct
    PROVE  ALUout("DECODEM") = I!Value(ir, regs)
<1>1. Row("DECODEM") = DecodeRow(ir.op)
  BY DEF Row
<1>2. /\ \A r \in Regs : regs[r] \in Word
      /\ ir.arg0 \in Regs /\ ir.arg1 \in Regs /\ ir.tgt \in Regs /\ regs[0] = 0
  BY DEF TypeInv, TypeOK, Instr
<1>3. CASE ir.op \in {"add", "sub", "shl.r", "shr.r"} \cup Addskp
  <2>1. LET row == Row("DECODEM")
        IN  /\ row.r0 = "arg0" /\ row.r1 = "arg1" /\ row.op0 = "regr0" /\ row.op1 = "regr1"
            /\ "sext" \notin row.sig
            /\ row.alu = CASE ir.op = "sub" -> "sub" [] ir.op = "shl.r" -> "shl"
                           [] ir.op = "shr.r" -> "shr" [] OTHER -> "add"
    BY <1>1, <1>3, DirectRow DEF Direct, Alu3, Addskp
  <2>2. Op0("DECODEM") = regs[ir.arg0] /\ Op1("DECODEM") = regs[ir.arg1]
    BY <2>1 DEF Op0, Op1, Operand, Selected
  <2> QED
    BY SameSums, SameShifts, SameBytes, <1>3, <2>1, <2>2 DEF ALUout, I!Value, Addskp
<1>4. CASE ir.op \in {"and", "or"}
  <2>1. LET row == Row("DECODEM")
        IN  /\ row.r0 = "arg1" /\ row.r1 = "arg0" /\ row.op0 = "regr0" /\ row.op1 = "regr1"
            /\ row.alu = ir.op
    BY <1>1, <1>4, DirectRow DEF Direct, Alu3, Addskp
  <2>2. Op0("DECODEM") = regs[ir.arg1] /\ Op1("DECODEM") = regs[ir.arg0]
    BY <2>1 DEF Op0, Op1, Operand, Selected
  <2> QED
    BY SameSums, SameShifts, SameBytes, <1>2, <1>4, <2>1, <2>2, WordOpsAssumption DEF ALUout, I!Value
<1>5. CASE ir.op = "sext"
  <2>1. LET row == Row("DECODEM")
        IN  row.r0 = "arg0" /\ row.op0 = "regr0" /\ "sext" \in row.sig /\ row.alu = "add"
    BY <1>1, <1>5, DirectRow DEF Direct, Alu3, Addskp
  <2>2. Op0("DECODEM") = regs[ir.arg0]
    BY <2>1 DEF Op0, Operand, Selected
  <2> QED
    BY SameSums, SameShifts, SameBytes, <1>5, <2>1, <2>2 DEF ALUout, I!Value
<1>6. CASE ir.op = "br.r"
  <2>1. LET row == Row("DECODEM")
        IN  /\ row.r0 = "tgt" /\ row.r1 = "reg0" /\ row.op0 = "regr0" /\ row.op1 = "regr1"
            /\ "sext" \notin row.sig /\ row.alu = "add"
    BY <1>1, <1>6, DirectRow DEF Direct, Alu3, Addskp
  <2>2. Op0("DECODEM") = regs[ir.tgt] /\ Op1("DECODEM") = 0
    BY <1>2, <2>1 DEF Op0, Op1, Operand, Selected
  <2> QED
    BY SameSums, SameShifts, SameBytes, <1>2, <1>6, <2>1, <2>2, SumCommutes, Sizes DEF ALUout, I!Value
<1> QED
  BY <1>3, <1>4, <1>5, <1>6 DEF Direct, Alu3, Addskp

LEMMA ExecmValue ==
    ASSUME TypeInv, ir \in Instr, ir.op \in FromImm \cup Shifts, mdr = ir.imm
    PROVE  ALUout("EXECM") = I!Value(ir, regs)
<1>1. Row("EXECM") = ExecRow(ir.op)
  BY DEF Row
<1>2. /\ \A r \in Regs : regs[r] \in Word
      /\ ir.arg1 \in Regs /\ ir.arg2 \in Regs /\ ir.tgt2 \in Regs /\ PC \in Regs
      /\ ir.imm \in Word /\ regs[0] = 0
  BY RoleTypes DEF TypeInv, TypeOK, Instr
<1>3. "sext" \notin Row("EXECM").sig
  BY <1>1, ImmExecRow
<1>4. CASE ir.op \in {"ldi", "br", "addhi"}
  <2>1. LET row == Row("EXECM")
        IN  /\ row.op0 = "mdr" /\ row.alu = IF ir.op = "addhi" THEN "addhi" ELSE "add"
            /\ ir.op = "ldi" => row.op1 = "regr0" /\ row.r0 = "reg0"
            /\ ir.op = "br" => row.op1 = "regr0" /\ row.r0 = "pc"
            /\ ir.op = "addhi" => row.op1 = "regr1" /\ row.r1 = "tgt2"
    BY <1>1, <1>4, ImmExecRow DEF FromImm, Shifts, AluImm, Addskpi
  <2>2. /\ Op0("EXECM") = ir.imm
        /\ Op1("EXECM") = CASE ir.op = "ldi" -> 0 [] ir.op = "br" -> regs[PC]
                            [] ir.op = "addhi" -> regs[ir.tgt2]
    BY <1>2, <1>4, <2>1 DEF Op0, Op1, Operand, Selected
  <2> QED
    BY SameSums, SameShifts, SameBytes, <1>2, <1>3, <1>4, <2>1, <2>2, SumCommutes DEF ALUout, I!Value
<1>5. CASE ir.op \in {"addi", "subi"}
  <2>1. LET row == Row("EXECM")
        IN  /\ row.op0 = "regr1" /\ row.r1 = "arg1" /\ row.op1 = "mdr"
            /\ row.alu = IF ir.op = "subi" THEN "sub" ELSE "add"
    BY <1>1, <1>5, ImmExecRow DEF FromImm, Shifts, AluImm, Addskpi
  <2>2. Op0("EXECM") = regs[ir.arg1] /\ Op1("EXECM") = ir.imm
    BY <2>1 DEF Op0, Op1, Operand, Selected
  <2> QED
    BY SameSums, SameShifts, SameBytes, <1>2, <1>3, <1>5, <2>1, <2>2, SumCommutes DEF ALUout, I!Value
<1>6. CASE ir.op \in {"andi", "ori"}
  <2>1. LET row == Row("EXECM")
        IN  /\ row.op0 = "regr0" /\ row.r0 = "arg1" /\ row.op1 = "mdr"
            /\ row.alu = IF ir.op = "andi" THEN "and" ELSE "or"
    BY <1>1, <1>6, ImmExecRow DEF FromImm, Shifts, AluImm, Addskpi
  <2>2. Op0("EXECM") = regs[ir.arg1] /\ Op1("EXECM") = ir.imm
    BY <2>1 DEF Op0, Op1, Operand, Selected
  <2> QED
    BY SameSums, SameShifts, SameBytes, <1>2, <1>6, <2>1, <2>2, WordOpsAssumption DEF ALUout, I!Value
<1>7. CASE ir.op \in Addskpi
  <2>1. LET row == Row("EXECM")
        IN  row.op0 = "mdr" /\ row.op1 = "regr1" /\ row.r1 = "arg1" /\ row.alu = "add"
    BY <1>1, <1>7, ImmExecRow DEF FromImm, Shifts, AluImm, Addskpi
  <2>2. Op0("EXECM") = ir.imm /\ Op1("EXECM") = regs[ir.arg1]
    BY <2>1 DEF Op0, Op1, Operand, Selected
  <2> QED
    BY SameSums, SameShifts, SameBytes, <1>3, <1>7, <2>1, <2>2 DEF ALUout, I!Value, Addskpi
<1>8. CASE ir.op \in Shifts
  <2>1. LET row == Row("EXECM")
        IN  row.op0 = "regr0" /\ row.r0 = "arg2" /\ row.op1 = "mdr" /\ row.alu = ir.op
    BY <1>1, <1>8, ImmExecRow DEF FromImm, Shifts, AluImm, Addskpi
  <2>2. Op0("EXECM") = regs[ir.arg2] /\ Op1("EXECM") = ir.imm
    BY <2>1 DEF Op0, Op1, Operand, Selected
  <2> QED
    BY SameSums, SameShifts, SameBytes, <1>8, <2>1, <2>2 DEF ALUout, I!Value, Shifts
<1> QED
  BY <1>4, <1>5, <1>6, <1>7, <1>8 DEF FromImm, AluImm

\* Both simulators decide a skip.c on the same difference and borrow alike.
LEMMA SameVerdict ==
    ASSUME NEW cond \in Cond, NEW d \in Word, NEW c \in BOOLEAN
    PROVE  /\ MicroDecides(cond, d, c) <=> FsimDecides(cond, d, c)
           /\ MicroDecides("EQ", d, c) <=> d = 0
           /\ MicroDecides("NEQ", d, c) <=> d # 0
  BY Sizes DEF MicroDecides, FsimDecides, Cond, Negative, Word

\* The row after which the value is written skips as the instruction does.
LEMMA DecodemSkips ==
    ASSUME TypeInv, ir \in Instr, ir.op \in Direct, regs = I!Fetched
    PROVE  Skips("DECODEM") <=> SkipHolds
<1>1. ALUout("DECODEM") = I!Value(ir, I!Fetched) /\ ALUout("DECODEM") \in Word
  BY DecodemValue, DecodemValueType
<1>2. carry \in BOOLEAN /\ "EQ" \in Cond
  BY DEF TypeInv, TypeOK, Cond
<1>3. Row("DECODEM").skipc = CASE ir.op = "addskp.z" -> "zr" [] ir.op = "addskp.nz" -> "nzr"
                               [] OTHER -> "none"
  BY DirectRow DEF Row
<1>4. /\ MicroDecides("EQ", ALUout("DECODEM"), carry) <=> I!Value(ir, I!Fetched) = 0
      /\ MicroDecides("NEQ", ALUout("DECODEM"), carry) <=> I!Value(ir, I!Fetched) # 0
  BY <1>1, <1>2, SameVerdict
<1>5. CASE ir.op \in Addskp
  BY <1>3, <1>4, <1>5 DEF Skips, SkipHolds, Addskp, Addskpi
<1>6. CASE ir.op \notin Addskp
  BY <1>3, <1>6 DEF Skips, SkipHolds, Addskp, Addskpi, Direct, Alu3
<1> QED
  BY <1>5, <1>6

LEMMA ExecmSkips ==
    ASSUME TypeInv, state = "EXEC", ir \in Instr, ir.op \in FromImm \cup Shifts, mdr = ir.imm,
           regs = I!Fetched
    PROVE  Skips("EXECM") <=> SkipHolds
<1>1. ALUout("EXECM") = I!Value(ir, I!Fetched) /\ ALUout("EXECM") \in Word
  BY ExecmValue, ExecValueType
<1>2. carry \in BOOLEAN /\ "EQ" \in Cond
  BY DEF TypeInv, TypeOK, Cond
<1>3. Row("EXECM").skipc = CASE ir.op = "addskpi.z" -> "zr" [] ir.op = "addskpi.nz" -> "nzr"
                             [] OTHER -> "none"
  BY ImmExecRow DEF Row
<1>4. /\ MicroDecides("EQ", ALUout("EXECM"), carry) <=> I!Value(ir, I!Fetched) = 0
      /\ MicroDecides("NEQ", ALUout("EXECM"), carry) <=> I!Value(ir, I!Fetched) # 0
  BY <1>1, <1>2, SameVerdict
<1>5. CASE ir.op \in Addskpi
  BY <1>3, <1>4, <1>5 DEF Skips, SkipHolds, Addskp, Addskpi
<1>6. CASE ir.op \notin Addskpi
  BY <1>3, <1>6 DEF Skips, SkipHolds, Addskp, Addskpi, FromImm, Shifts, AluImm
<1> QED
  BY <1>5, <1>6

\* skip.c finds in CR the borrow of its own subtraction, written when EXEC was left.
LEMMA SkipSkips ==
    ASSUME TypeInv, ir \in Instr, ir.op = "skip", regs = I!Fetched,
           carry = Borrow(I!Fetched[ir.arg0], I!Fetched[ir.arg1])
    PROVE  Skips("EXECM") <=> SkipHolds
<1> DEFINE x == I!Fetched[ir.arg0]
           y == I!Fetched[ir.arg1]
<1>1. x \in Word /\ y \in Word /\ ir.cond \in Cond /\ carry \in BOOLEAN
  BY DEF TypeInv, TypeOK, Instr
<1>2. LET row == Row("EXECM")
      IN  /\ row.alu = "sub" /\ row.skipc = "cond" /\ row.op0 = "regr0" /\ row.r0 = "arg0"
          /\ row.op1 = "regr1" /\ row.r1 = "arg1"
  BY OtherExecRow DEF Row
<1>3. Op0("EXECM") = x /\ Op1("EXECM") = y
  BY <1>2 DEF Op0, Op1, Operand, Selected
<1>4. ALUout("EXECM") = Diff(x, y) /\ Diff(x, y) \in Word
  BY <1>1, <1>2, <1>3, SumType DEF ALUout
<1>5. MicroDecides(ir.cond, Diff(x, y), carry) <=> FsimDecides(ir.cond, Diff(x, y), carry)
  BY <1>1, <1>4, SameVerdict
<1>6. Skips("EXECM") <=> MicroDecides(ir.cond, Diff(x, y), carry)
  BY <1>2, <1>4 DEF Skips
<1>7. SkipHolds = FsimDecides(ir.cond, Diff(x, y), Borrow(x, y))
  BY DEF SkipHolds, Addskp, Addskpi
<1> QED
  BY <1>5, <1>6, <1>7

-----------------------------------------------------------------------------
\* Each step brings registers, RAM and latches as far as Progress says.

LEMMA TargetOf ==
    ASSUME NoResultToR0, ir \in Instrs,
           ir.op \notin Stores \cup {"push", "brk", "skip", "hlt"}
    PROVE  I!Target(ir) # 0
  BY DEF NoResultToR0

LEMMA IncrPcIsAdd == \A r : I!IncrPc(r) = Add(r, PC, 2)
  BY SameSums DEF I!IncrPc, Add

LEMMA ProgressFetch ==
    ASSUME TypeInv, Progress, Negedge, state = "FETCH"
    PROVE  Progress'
<1>1. /\ state' = "FETCHM" /\ regs' = Add(regs, PC, 2) /\ snap' = snap /\ ram' = ram
  BY LeavesFetch DEF Negedge
<1>2. regs = snap.regs /\ ram = snap.ram
  BY DEF Progress, RegsSoFar, RamSoFar
<1>3. regs' = I!Fetched'
  BY <1>1, <1>2, SameSums DEF Add, I!Fetched
<1> QED
  BY <1>1, <1>2, <1>3 DEF Progress, RegsSoFar, RamSoFar, Transfers

LEMMA ProgressFetchm ==
    ASSUME TypeInv, Progress, Negedge, state = "FETCHM"
    PROVE  Progress'
<1>1. state' = "DECODE" /\ regs' = regs /\ ir' = ir /\ snap' = snap /\ ram' = ram
  BY LeavesFetchm DEF Negedge
<1>2. regs = I!Fetched /\ ram = snap.ram
  BY DEF Progress, RegsSoFar, RamSoFar
<1>3. /\ ir.op \in Shifts \cup BaseBP => mdr' = ir.imm
      /\ ir.op = "pop" => mar' = I!Fetched[SP]
  BY <1>2, LeavesFetchm
<1>4. I!Fetched' = I!Fetched
  BY <1>1, Kept
<1> QED
  BY <1>1, <1>2, <1>3, <1>4 DEF Progress, RegsSoFar, RamSoFar, Transfers

LEMMA ProgressDecode ==
    ASSUME TypeInv, Progress, NoResultToR0, Negedge, state = "DECODE"
    PROVE  Progress'
<1>1. /\ state' = "DECODEM" /\ ir' = ir /\ snap' = snap /\ ram' = ram
      /\ mar' = mar /\ mdr' = mdr
  BY LeavesDecode DEF Negedge, Stays
<1>2. regs = I!Fetched /\ ram = snap.ram
  BY DEF Progress, RegsSoFar, RamSoFar
<1>3. ir \in Instrs /\ ir \in Instr
  BY InstrTypes DEF TypeInv, Flow
<1>4. Transfers'
  BY <1>1, Kept DEF Progress, Transfers
<1>5. ram' = RamSoFar'
  BY <1>1, <1>2 DEF RamSoFar
<1>6. regs' = RegsSoFar'
  <2>1. CASE ir.op \in Direct
    <3>1. I!Target(ir) = IF ir.op = "br.r" THEN PC ELSE ir.tgt
      BY <2>1 DEF I!Target, Direct, Alu3, Addskp
    <3>2. I!Target(ir) # 0
      BY <1>3, <2>1, TargetOf DEF Direct, Alu3, Addskp, Stores
    <3>3. Written(I!Target(ir), ALUout("DECODEM")) = I!Computed(ir)
      BY <1>2, <1>3, <2>1, <3>2, DecodemValue DEF Written, I!Computed
    <3>4. regs' = IF SkipHolds THEN Add(I!Computed(ir), PC, 2) ELSE I!Computed(ir)
      BY <1>2, <1>3, <2>1, <3>1, <3>3, LeavesDecode, DecodemSkips
    <3>5. WithoutSkip = I!Computed(ir)
      BY <2>1 DEF WithoutSkip, Direct, Alu3, Addskp, Loads
    <3>6. regs' = RegsAfter
      BY <3>4, <3>5, IncrPcIsAdd DEF RegsAfter
    <3> QED
      BY <1>1, <2>1, <3>6, Kept DEF RegsSoFar, Direct, Alu3, Addskp
  <2>2. CASE ir.op = "push"
    <3>1. ir.op \notin Direct
      BY <2>2 DEF Direct, Alu3, Addskp
    <3>2. regs' = Add(I!Fetched, SP, N - 2)
      BY <1>2, <2>2, <3>1, LeavesDecode
    <3>3. I!Fetched[SP] \in Word
      BY <1>2, RoleTypes DEF TypeInv, TypeOK
    <3>4. Sum(I!Fetched[SP], N - 2) = Diff(I!Fetched[SP], 2)
      BY <3>3, Sizes DEF Sum, Diff, Word
    <3>5. regs' = Pushed
      BY <3>2, <3>4 DEF Add, Pushed
    <3> QED
      BY <1>1, <2>2, <3>1, <3>5, Kept DEF RegsSoFar
  <2>3. CASE ir.op \notin Direct \cup {"push"}
    <3>1. regs' = I!Fetched
      BY <1>2, <2>3, LeavesDecode
    <3> QED
      BY <1>1, <2>3, <3>1, Kept DEF RegsSoFar
  <2> QED
    BY <2>1, <2>2, <2>3
<1> QED
  BY <1>4, <1>5, <1>6 DEF Progress

\* Where an instruction ends, the registers and the RAM are the next one's.
LEMMA ProgressToFetch ==
    ASSUME state' = "FETCH", snap' = [regs |-> regs', ram |-> ram], ram' = ram
    PROVE  Progress'
  BY DEF Progress, RegsSoFar, RamSoFar, Transfers

LEMMA ProgressDecodem ==
    ASSUME TypeInv, Progress, Negedge, state = "DECODEM"
    PROVE  Progress'
<1>1. ram' = ram /\ ram = snap.ram
  BY DEF Negedge, Progress, RamSoFar
<1>2. ir \in Instrs /\ ir \in Instr
  BY InstrTypes DEF TypeInv, Flow
<1>3. CASE state' = "FETCH"
  <2>1. snap' = [regs |-> regs', ram |-> ram]
    BY <1>3, LeavesDecodem
  <2> QED
    BY <1>1, <1>3, <2>1, ProgressToFetch
<1>4. CASE state' = "READ"
  <2>1. /\ ir.op \in ViaRead /\ regs' = regs /\ ir' = ir /\ snap' = snap
        /\ mar' = (IF "mar_load" \in ReadRow(ir.op).sig THEN ALUout("READ") ELSE mar)
        /\ mdr' = IF ir.op = "pop" THEN ReadRam(ram, mar, FALSE) ELSE mdr
    BY <1>4, LeavesDecodem
  <2>2. regs = (IF ir.op = "push" THEN Pushed ELSE I!Fetched) /\ Row("READ") = ReadRow(ir.op)
    BY <2>1 DEF Progress, RegsSoFar, ViaRead, BaseBP, Indexed, Shifts, Direct, Alu3, Addskp, Row
  <2>3. regs' = RegsSoFar' /\ ram' = RamSoFar'
    BY <1>1, <1>4, <2>1, <2>2, Kept DEF RegsSoFar, RamSoFar
  <2>4. \A r \in Regs : regs[r] \in Word
    BY DEF TypeInv, TypeOK
  <2>5. ASSUME ir.op \in Loads \cup Stores
        PROVE  mar' = I!Address(ir)
    <3>1. CASE ir.op \in BaseBP
      <4>1. LET row == ReadRow(ir.op)
            IN  /\ row.op0 = "mdr" /\ row.r0 = "bp" /\ row.op1 = "regr0" /\ row.alu = "add"
                /\ row.sig = {"mar_load"}
        BY <2>1, <3>1, ReadRows DEF BaseBP, Indexed
      <4>2. Op0("READ") = ir.imm /\ Op1("READ") = I!Fetched[BP]
        BY <2>2, <3>1, <4>1 DEF Op0, Op1, Operand, Selected, Progress, Transfers, BaseBP
      <4>3. ALUout("READ") = Sum(ir.imm, I!Fetched[BP])
        BY <2>2, <4>1, <4>2 DEF ALUout
      <4>4. ir.imm \in Word /\ I!Fetched[BP] \in Word
        BY <1>2, <2>2, <2>4, <3>1, RoleTypes DEF Instr, BaseBP
      <4>5. I!Address(ir) = Sum(I!Fetched[BP], ir.imm)
        BY <3>1, SameSums DEF I!Address, I!BaseBP, BaseBP
      <4> QED
        BY <2>1, <4>1, <4>3, <4>4, <4>5, SumCommutes
    <3>2. CASE ir.op \in Indexed
      <4>1. LET row == ReadRow(ir.op)
            IN  /\ row.op0 = "regr0" /\ row.r0 = "arg0" /\ row.op1 = "regr1" /\ row.r1 = "arg1"
                /\ row.alu = "add" /\ row.sig = {"mar_load"}
        BY <2>1, <3>2, ReadRows DEF BaseBP, Indexed
      <4>2. Op0("READ") = I!Fetched[ir.arg0] /\ Op1("READ") = I!Fetched[ir.arg1]
        BY <2>2, <3>2, <4>1 DEF Op0, Op1, Operand, Selected, Indexed
      <4>3. ALUout("READ") = Sum(I!Fetched[ir.arg0], I!Fetched[ir.arg1])
        BY <2>2, <4>1, <4>2 DEF ALUout
      <4>4. I!Address(ir) = Sum(I!Fetched[ir.arg0], I!Fetched[ir.arg1])
        BY <3>2, SameSums DEF I!Address, I!BaseBP, Indexed
      <4> QED
        BY <2>1, <4>1, <4>3, <4>4
    <3> QED
      BY <2>5, <3>1, <3>2, Kinds
  <2>6. ASSUME ir.op = "push"
        PROVE  mar' = Pushed[SP]
    <3>1. LET row == ReadRow("push")
          IN  /\ row.op0 = "regr0" /\ row.r0 = "sp" /\ row.op1 = "regr1" /\ row.r1 = "reg0"
              /\ row.alu = "add" /\ row.sig = {"mar_load"}
      BY <2>1, <2>6, ReadRows DEF BaseBP, Indexed
    <3>2. Op0("READ") = Pushed[SP] /\ Op1("READ") = 0 /\ Pushed[SP] \in Word
      BY <2>2, <2>4, <2>6, <3>1, RoleTypes DEF Op0, Op1, Operand, Selected, TypeInv, TypeOK
    <3> QED
      BY <2>1, <2>2, <2>6, <3>1, <3>2, SumCommutes, Sizes DEF ALUout
  <2>7. ASSUME ir.op = "pop"
        PROVE  mdr' = ReadRam(snap.ram, I!Fetched[SP], FALSE)
    BY <1>1, <2>1, <2>7 DEF Progress, Transfers
  <2>8. ir.op \in Shifts => mdr' = ir.imm
    BY <2>1 DEF Progress, Transfers, Shifts
  <2>9. Transfers'
    BY <1>4, <2>1, <2>5, <2>6, <2>7, <2>8, Kept DEF Transfers
  <2> QED
    BY <2>3, <2>9 DEF Progress
<1>5. CASE state' = "EXEC"
  <2>1. ir.op \in FromImm \cup {"skip"} /\ regs' = regs /\ ir' = ir /\ snap' = snap
    BY <1>5, LeavesDecodem DEF Stays
  <2>2. ir.op \notin Direct \cup Shifts \cup Loads \cup Stores \cup {"push", "pop"}
    BY <2>1 DEF FromImm, Direct, Shifts, Loads, Stores, Alu3, Addskp, AluImm, Addskpi
  <2>3. regs = I!Fetched
    BY <2>2 DEF Progress, RegsSoFar
  <2>4. regs' = RegsSoFar' /\ ram' = RamSoFar'
    BY <1>1, <1>5, <2>1, <2>2, <2>3, Kept DEF RegsSoFar, RamSoFar
  <2>5. clk' = "POSEDGE"
    BY DEF Negedge
  <2>6. Transfers'
    BY <1>5, <2>1, <2>2, <2>5 DEF Transfers
  <2> QED
    BY <2>4, <2>6 DEF Progress
<1> QED
  BY <1>3, <1>4, <1>5, LeavesDecodem

LEMMA ProgressRead ==
    ASSUME TypeInv, Progress, NoResultToR0, Negedge, state = "READ"
    PROVE  Progress'
<1>1. /\ state' = "READM" /\ ir' = ir /\ snap' = snap /\ mar' = mar /\ mdr' = mdr
      /\ ram' = ram /\ regs' = IF ir.op = "pop" THEN Written(ir.tgt, mdr) ELSE regs
  BY LeavesRead DEF Negedge, Stays
<1>2. ir \in Instrs /\ ir.op \in ViaRead
  BY DEF TypeInv, Flow
<1>3. ir.op \notin Direct
  BY <1>2 DEF ViaRead, Direct, Alu3, Addskp, BaseBP, Indexed, Shifts
<1>4. regs = (IF ir.op = "push" THEN Pushed ELSE I!Fetched) /\ ram = snap.ram
  BY <1>3 DEF Progress, RegsSoFar, RamSoFar
<1>5. Transfers'
  BY <1>1, Kept DEF Progress, Transfers
<1>6. ram' = RamSoFar'
  BY <1>1, <1>4 DEF RamSoFar
<1>7. regs' = RegsSoFar'
  <2>1. CASE ir.op = "pop"
    <3>1. ir.tgt # 0
      BY <1>2, <2>1, TargetOf DEF Stores, I!Target
    <3>2. regs' = Popped
      BY <1>1, <1>4, <2>1, <3>1 DEF Written, Popped, Progress, Transfers
    <3> QED
      BY <1>1, <2>1, <3>2, Kept DEF RegsSoFar
  <2>2. CASE ir.op # "pop"
    BY <1>1, <1>3, <1>4, <2>2, Kept DEF RegsSoFar
  <2> QED
    BY <2>1, <2>2
<1> QED
  BY <1>5, <1>6, <1>7 DEF Progress

\* The value on its way to RAM, which the ALU passes on.
LEMMA ExecStores ==
    ASSUME TypeInv, Progress, state = "READM", ir \in Instr, ir.op \in Stores \cup {"push"}
    PROVE  ALUout("EXEC") = StoreValue
<1>1. Row("EXEC") = ExecRow(ir.op) /\ ir.op \notin Loads /\ ir.op \notin Direct
      /\ ir.op # "pop"
  BY DEF Row, Stores, Loads, Direct, Alu3, Addskp
<1>2. regs = IF ir.op = "push" THEN Pushed ELSE I!Fetched
  BY <1>1 DEF Progress, RegsSoFar
<1>3. /\ \A r \in Regs : regs[r] \in Word
      /\ regs[0] = 0 /\ ir.tgt \in Regs /\ ir.tgt2 \in Regs
  BY DEF TypeInv, TypeOK, Instr
<1>4. LET row == Row("EXEC")
      IN  /\ row.alu = "add" /\ "sext" \notin row.sig
          /\ row.op0 = "regr0" /\ row.op1 = "regr1" /\ row.r1 = "reg0"
          /\ row.r0 = CASE ir.op \in {"stw0", "stb0"} -> "reg0"
                        [] ir.op \in {"stw", "stb"} -> "tgt2"
                        [] OTHER -> "tgt"
  BY <1>1, MemoryExecRow
<1>5. Op1("EXEC") = 0
  BY <1>3, <1>4 DEF Op1, Operand, Selected
<1>6. Op0("EXEC") = StoreValue /\ Op0("EXEC") \in Word
  <2>1. CASE ir.op = "push"
    BY <1>2, <1>3, <1>4, <2>1 DEF Op0, Operand, Selected, StoreValue, BaseBP
  <2>2. CASE ir.op \in {"stw0", "stb0"}
    BY <1>3, <1>4, <2>2, Sizes DEF Op0, Operand, Selected, StoreValue
  <2>3. CASE ir.op \in {"stw", "stb"}
    BY <1>2, <1>3, <1>4, <2>3 DEF Op0, Operand, Selected, StoreValue, BaseBP
  <2>4. CASE ir.op \in {"stw.b", "stb.b"}
    BY <1>2, <1>3, <1>4, <2>4 DEF Op0, Operand, Selected, StoreValue, BaseBP
  <2> QED
    BY <2>1, <2>2, <2>3, <2>4 DEF Stores
<1> QED
  BY <1>4, <1>5, <1>6, SumCommutes DEF ALUout

LEMMA ProgressReadm ==
    ASSUME TypeInv, Progress, Negedge, state = "READM"
    PROVE  Progress'
<1>1. /\ state' = "EXEC" /\ regs' = regs /\ mar' = mar /\ ir' = ir /\ snap' = snap
      /\ ram' = ram /\ clk' = "POSEDGE"
  BY LeavesReadm DEF Negedge
<1>2. ir \in Instr /\ ir.op \in ViaRead
  BY InstrTypes DEF TypeInv, Flow
<1>3. ram = snap.ram
  BY DEF Progress, RamSoFar
<1>4. regs' = RegsSoFar' /\ ram' = RamSoFar'
  BY <1>1, <1>3, Kept DEF Progress, RegsSoFar, RamSoFar
<1>5. ir.op \in Loads => mdr' = ReadRam(snap.ram, I!Address(ir), ir.op \in ByteOps)
  BY <1>3, LeavesReadm DEF Progress, Transfers, Loads, Stores
<1>6. ir.op \in Stores \cup {"push"} => mdr' = StoreValue
  <2> SUFFICES ASSUME ir.op \in Stores \cup {"push"}
               PROVE  mdr' = StoreValue
    OBVIOUS
  <2>1. mdr' = ALUout("EXEC")
    BY LeavesReadm DEF Loads, Stores
  <2> QED
    BY <1>2, <2>1, ExecStores
<1>7. ir.op \in Shifts => mdr' = ir.imm
  BY LeavesReadm DEF Progress, Transfers, Shifts, Loads, Stores
<1>8. Transfers'
  BY <1>1, <1>5, <1>6, <1>7, Kept DEF Progress, Transfers
<1> QED
  BY <1>4, <1>8 DEF Progress

LEMMA ProgressExec ==
    ASSUME TypeInv, Progress, NoResultToR0, Negedge, state = "EXEC"
    PROVE  Progress'
<1>1. /\ state' = "EXECM" /\ ir' = ir /\ snap' = snap /\ mar' = mar /\ mdr' = mdr
      /\ ram' = ram /\ clk' = "POSEDGE" /\ clk = "NEGEDGE"
  BY LeavesExec DEF Negedge, Stays
<1>2. ir \in Instrs /\ ir \in Instr /\ ir.op \in ViaExec
  BY InstrTypes DEF TypeInv, Flow
<1>3. ir.op \notin Direct
  BY <1>2 DEF ViaExec, ViaRead, FromImm, Direct, Alu3, Addskp, BaseBP, Indexed, Shifts,
              AluImm, Addskpi
<1>4. /\ regs = CASE ir.op = "push" -> Pushed [] ir.op = "pop" -> Popped
                  [] OTHER -> I!Fetched
      /\ ram = snap.ram
  BY <1>3 DEF Progress, RegsSoFar, RamSoFar
<1>5. Transfers'
  BY <1>1, Kept DEF Progress, Transfers
<1>6. ram' = RamSoFar'
  BY <1>1, <1>4 DEF RamSoFar
<1>7. regs' = RegsAfter
  <2>1. CASE ir.op \in FromImm \cup Shifts
    <3>1. /\ ir.op \notin {"push", "pop", "brk", "skip", "hlt"} /\ ir.op \notin Stores
      BY <2>1 DEF FromImm, Shifts, AluImm, Addskpi, Stores
    <3>2. regs = I!Fetched /\ I!Target(ir) # 0
      BY <1>2, <1>4, <3>1, TargetOf
    <3>3. I!Target(ir) = CASE ir.op = "br" -> PC
                           [] ir.op \in Shifts \cup {"addhi"} -> ir.tgt2
                           [] OTHER -> ir.tgt
      BY <2>1 DEF I!Target, FromImm, Shifts, AluImm, Addskpi
    <3>4. mdr = ir.imm
      BY <2>1 DEF Progress, Transfers, TypeInv, Flow
    <3>5. Written(I!Target(ir), ALUout("EXECM")) = I!Computed(ir)
      BY <1>2, <2>1, <3>2, <3>4, ExecmValue DEF Written, I!Computed
    <3>6. Skips("EXECM") <=> SkipHolds
      BY <1>2, <2>1, <3>2, <3>4, ExecmSkips
    <3>7. regs' = IF SkipHolds THEN Add(I!Computed(ir), PC, 2) ELSE I!Computed(ir)
      BY <2>1, <3>3, <3>5, <3>6, LeavesExec
    <3>8. WithoutSkip = I!Computed(ir)
      BY <2>1 DEF WithoutSkip, FromImm, Shifts, AluImm, Addskpi, Loads
    <3> QED
      BY <3>7, <3>8, IncrPcIsAdd DEF RegsAfter
  <2>2. CASE ir.op \in Loads
    <3>1. ir.op \notin {"push", "pop", "brk", "skip", "hlt"} /\ ir.op \notin Stores
      BY <2>2 DEF Loads, Stores
    <3>2. regs = I!Fetched /\ I!Target(ir) # 0
      BY <1>2, <1>4, <3>1, TargetOf
    <3>3. I!Target(ir) = IF ir.op \in BaseBP THEN ir.tgt2 ELSE ir.tgt
      BY <2>2 DEF I!Target, Loads, BaseBP
    <3>4. regs' = [I!Fetched EXCEPT ![I!Target(ir)] =
                      ReadRam(snap.ram, I!Address(ir), ir.op \in ByteOps)]
      BY <2>2, <3>2, <3>3, LeavesExec DEF Written, Progress, Transfers
    <3>5. WithoutSkip = [I!Fetched EXCEPT ![I!Target(ir)] =
                            ReadRam(snap.ram, I!Address(ir), ir.op \in ByteOps)]
      BY <2>2 DEF WithoutSkip, Direct, FromImm, Shifts, Alu3, Addskp, AluImm, Addskpi, Loads
    <3>6. ~SkipHolds
      BY <2>2 DEF SkipHolds, Loads, Addskp, Addskpi
    <3> QED
      BY <3>4, <3>5, <3>6 DEF RegsAfter
  <2>3. CASE ir.op \in Stores \cup {"push", "brk"}
    <3>1. regs' = IF ir.op = "push" THEN Pushed ELSE I!Fetched
      BY <1>4, <2>3, LeavesExec DEF Stores
    <3>2. WithoutSkip = IF ir.op = "push" THEN Pushed ELSE I!Fetched
      BY <2>3 DEF WithoutSkip, Direct, FromImm, Shifts, Alu3, Addskp, AluImm, Addskpi, Loads,
                  Stores
    <3>3. ~SkipHolds
      BY <2>3 DEF SkipHolds, Stores, Addskp, Addskpi
    <3> QED
      BY <3>1, <3>2, <3>3 DEF RegsAfter
  <2>4. CASE ir.op = "pop"
    <3>1. regs' = [Popped EXCEPT ![SP] = Sum(@, 2)]
      BY <1>4, <2>4, LeavesExec DEF Add
    <3>2. WithoutSkip = [Popped EXCEPT ![SP] = Sum(@, 2)]
      BY <2>4 DEF WithoutSkip, Direct, FromImm, Shifts, Alu3, Addskp, AluImm, Addskpi, Loads
    <3>3. ~SkipHolds
      BY <2>4 DEF SkipHolds, Addskp, Addskpi
    <3> QED
      BY <3>1, <3>2, <3>3 DEF RegsAfter
  <2>5. CASE ir.op = "skip"
    <3>1. regs = I!Fetched /\ carry = Borrow(I!Fetched[ir.arg0], I!Fetched[ir.arg1])
      BY <1>1, <1>4, <2>5 DEF Progress, Transfers
    <3>2. Skips("EXECM") <=> SkipHolds
      BY <1>2, <2>5, <3>1, SkipSkips
    <3>3. WithoutSkip = I!Fetched
      BY <2>5 DEF WithoutSkip, Direct, FromImm, Shifts, Alu3, Addskp, AluImm, Addskpi, Loads
    <3> QED
      BY <2>5, <3>1, <3>2, <3>3, IncrPcIsAdd, LeavesExec DEF RegsAfter
  <2> QED
    BY <1>2, <2>1, <2>2, <2>3, <2>4, <2>5, Kinds DEF ViaExec, ViaRead
<1>8. regs' = RegsSoFar'
  BY <1>1, <1>7, Kept DEF RegsSoFar
<1> QED
  BY <1>5, <1>6, <1>8 DEF Progress

LEMMA ProgressExecm ==
    ASSUME TypeInv, Negedge, state = "EXECM"
    PROVE  Progress'
<1>1. state' = "FETCH" /\ snap' = [regs |-> regs', ram |-> ram] /\ ram' = ram
  BY LeavesExecm DEF Negedge
<1> QED
  BY <1>1, ProgressToFetch

\* RAM is written in EXECM only, by a store or a push.
LEMMA RaisedWrites ==
    ASSUME TypeInv
    PROVE  /\ "ram_load" \in Raised(state) <=> state = "EXECM" /\ ir.op \in Stores \cup {"push"}
           /\ "ram_load" \in Raised(state) => ("be" \in Raised(state) <=> ir.op \in ByteOps)
<1>1. /\ state \in Base \cup Second
      /\ state # "FETCH" /\ state # "FETCHM" => ir \in Instr /\ ir.op \in Op \ {"hlt"}
  <2>1. "hlt" \notin ViaRead /\ "hlt" \notin ViaExec
    BY DEF ViaRead, ViaExec, FromImm, BaseBP, Indexed, Shifts, AluImm, Addskpi
  <2>2. state \in Base \cup Second
    BY DEF TypeInv, TypeOK, Flow, BreakIsLost
  <2>3. state \notin {"FETCH", "FETCHM"} => ir \in Instrs /\ ir.op # "hlt"
    BY <2>1, <2>2 DEF TypeInv, Flow, Base, Second
  <2> QED
    BY <2>2, <2>3, InstrTypes DEF Instr
<1>2. CASE state \in Base
  BY <1>2 DEF Raised, Loadneg, Base
<1>3. CASE state = "FETCHM"
  BY <1>3 DEF Raised, Row, FetchRow, Blank, Base
<1>4. CASE state = "DECODEM"
  <2>1. Raised(state) = DecodeRow(ir.op).sig \ Loadpos
    BY <1>4 DEF Raised, Row, Base
  <2>2. CASE ir.op \in Direct
    BY <1>4, <2>1, <2>2, DirectRow
  <2>3. CASE ir.op \in ViaExec
    BY <1>4, <2>1, <2>3, LongDecodeRow
  <2> QED
    BY <1>1, <1>4, <2>2, <2>3, Kinds
<1>5. CASE state = "READM"
  <2>1. Raised(state) = ReadRow(ir.op).sig \ Loadpos /\ ir.op \in ViaRead
    BY <1>5 DEF Raised, Row, Base, TypeInv, Flow
  <2> QED
    BY <1>5, <2>1, ReadRows
<1>6. CASE state = "EXECM"
  <2>1. Raised(state) = ExecRow(ir.op).sig \ Loadpos /\ ir.op \in ViaExec
    BY <1>6 DEF Raised, Row, Base, TypeInv, Flow
  <2>2. CASE ir.op \in FromImm \cup Shifts
    <3>1. ir.op \notin Stores \cup {"push"}
      BY <2>2 DEF FromImm, Shifts, AluImm, Addskpi, Stores
    <3> QED
      BY <2>1, <2>2, <3>1, ImmExecRow
  <2>3. CASE ir.op \in Loads
    <3>1. ir.op \notin Stores \cup {"push"}
      BY <2>3 DEF Loads, Stores
    <3> QED
      BY <2>1, <2>3, <3>1, MemoryExecRow
  <2>4. CASE ir.op \in Stores \cup {"push"}
    <3>1. ir.op \notin Loads
      BY <2>4 DEF Loads, Stores
    <3>2. ExecRow(ir.op).sig = {"mdr_load", "ram_load"}
                \cup (IF ir.op \in ByteOps THEN {"be"} ELSE {})
      BY <2>4, <3>1, MemoryExecRow
    <3> QED
      BY <1>6, <2>1, <2>4, <3>2 DEF Loadpos
  <2>5. CASE ir.op \in {"pop", "brk", "skip"}
    <3>1. ir.op \notin Stores \cup {"push"}
      BY <2>5 DEF Stores
    <3> QED
      BY <2>1, <2>5, <3>1, OtherExecRow
  <2> QED
    BY <2>1, <2>2, <2>3, <2>4, <2>5, Kinds DEF ViaExec, ViaRead
<1> QED
  BY <1>1, <1>2, <1>3, <1>4, <1>5, <1>6 DEF Second

LEMMA ProgressPosedge ==
    ASSUME TypeInv, Progress, Posedge
    PROVE  Progress'
<1>1. /\ clk = "POSEDGE" /\ clk' = "NEGEDGE" /\ state' = state /\ regs' = regs
      /\ mar' = mar /\ mdr' = mdr /\ ir' = ir /\ snap' = snap
  BY DEF Posedge
<1>2. ram = snap.ram
  BY <1>1 DEF Progress, RamSoFar
<1>3. regs' = RegsSoFar'
  BY <1>1, Kept DEF Progress, RegsSoFar
<1>4. ram' = RamSoFar'
  <2>1. CASE state = "EXECM" /\ ir.op \in Stores \cup {"push"}
    <3>1. ram' = WriteRam(ram, mar, mdr, "be" \in Raised(state))
      BY <2>1, RaisedWrites DEF Posedge
    <3>2. mar = StoreAddress /\ mdr = StoreValue
      BY <2>1 DEF Progress, Transfers, StoreAddress, Stores
    <3>3. ("be" \in Raised(state)) = (ir.op \in ByteOps)
      BY <2>1, RaisedWrites
    <3>4. ram' = RamAfter
      BY <1>2, <2>1, <3>1, <3>2, <3>3 DEF RamAfter
    <3> QED
      BY <1>1, <2>1, <3>4, Kept DEF RamSoFar
  <2>2. CASE ~(state = "EXECM" /\ ir.op \in Stores \cup {"push"})
    <3>1. ram' = ram
      BY <2>2, RaisedWrites DEF Posedge
    <3>2. state = "EXECM" => RamAfter = snap.ram
      BY <2>2 DEF RamAfter
    <3> QED
      BY <1>1, <1>2, <3>1, <3>2, Kept DEF RamSoFar
  <2> QED
    BY <2>1, <2>2
<1>5. ASSUME state = "EXEC", ir.op = "skip"
      PROVE  carry' = Borrow(I!Fetched[ir.arg0], I!Fetched[ir.arg1])
  <2>1. regs = I!Fetched
    BY <1>5 DEF Progress, RegsSoFar
  <2>2. LET row == Row("EXEC")
        IN  /\ row.alu = "sub" /\ row.op0 = "regr0" /\ row.r0 = "arg0"
            /\ row.op1 = "regr1" /\ row.r1 = "arg1"
    BY <1>5, OtherExecRow DEF Row
  <2>3. Op0("EXEC") = regs[ir.arg0] /\ Op1("EXEC") = regs[ir.arg1]
    BY <2>2 DEF Op0, Op1, Operand, Selected
  <2> QED
    BY <1>5, <2>1, <2>2, <2>3 DEF Posedge, CarryShouldBeSet
<1>6. Transfers'
  BY <1>1, <1>5, Kept DEF Progress, Transfers
<1> QED
  BY <1>3, <1>4, <1>6 DEF Progress

LEMMA InitProgress == Init => Progress
  BY DEF Init, Progress, RegsSoFar, RamSoFar, Transfers

LEMMA StepProgress == TypeInv /\ Progress /\ NoResultToR0 /\ [Next]_vars => Progress'
<1> SUFFICES ASSUME TypeInv, Progress, NoResultToR0, [Next]_vars
             PROVE  Progress'
  OBVIOUS
<1>1. CASE Posedge
  BY <1>1, ProgressPosedge
<1>2. CASE Negedge
  BY <1>2, ProgressFetch, ProgressFetchm, ProgressDecode, ProgressDecodem, ProgressRead,
     ProgressReadm, ProgressExec, ProgressExecm
     DEF TypeInv, TypeOK, Flow, BreakIsLost, Base, Second
<1>3. CASE UNCHANGED vars \/ ClearSig
  <2>1. /\ clk' = clk /\ state' = state /\ regs' = regs /\ ram' = ram /\ carry' = carry
        /\ mar' = mar /\ mdr' = mdr /\ ir' = ir /\ snap' = snap
    BY <1>3 DEF vars, ClearSig
  <2> QED
    BY <2>1, Kept DEF Progress, RegsSoFar, RamSoFar, Transfers
<1> QED
  BY <1>1, <1>2, <1>3 DEF Next

-----------------------------------------------------------------------------
\* The instruction set of fsim, step by step.

LEMMA SameInstr == I!Instr = Instr
<1>1. I!Op = Op /\ I!Regs = Regs /\ I!Cond = Cond
  BY DEF I!Op, Op, I!Alu3, Alu3, I!AluImm, AluImm, I!Addskp, Addskp, I!Addskpi, Addskpi,
         I!BaseBP, BaseBP, I!Indexed, Indexed, I!Regs, Regs, I!Cond, Cond
<1> QED
  BY <1>1, SameWords DEF I!Instr, Instr

LEMMA SameClasses ==
    /\ I!Alu3 = Alu3 /\ I!AluImm = AluImm /\ I!Addskp = Addskp /\ I!Addskpi = Addskpi
    /\ I!BaseBP = BaseBP /\ I!ByteOps = ByteOps
  BY DEF I!Alu3, Alu3, I!AluImm, AluImm, I!Addskp, Addskp, I!Addskpi, Addskpi,
         I!BaseBP, BaseBP, I!ByteOps, ByteOps

\* RegsAfter and RamAfter are what the instruction's action of Isa says.
LEMMA Executes ==
    ASSUME ir \in Instr, ir.op # "hlt", snap'.regs = RegsAfter, snap'.ram = RamAfter
    PROVE  I!Execute(ir)
<1>0. ir.op \in Op \ {"hlt"}
  BY DEF Instr
<1>1. CASE ir.op \in Alu3 \cup AluImm \cup {"ldi", "sext", "addhi", "shl", "shr", "br", "br.r"}
  <2>1. ~SkipHolds /\ RamAfter = snap.ram
    BY <1>1 DEF SkipHolds, RamAfter, Stores, Alu3, AluImm, Addskp, Addskpi
  <2>2. WithoutSkip = I!Computed(ir)
    BY <1>1 DEF WithoutSkip, Direct, FromImm, Shifts, Addskp, Addskpi, Alu3, AluImm, Loads
  <2>3. I!Compute(ir)
    BY <1>1, <2>1, <2>2, SameClasses DEF I!Compute, RegsAfter
  <2> QED
    BY <2>3 DEF I!Execute
<1>2. CASE ir.op \in Addskp \cup Addskpi
  <2>1. RamAfter = snap.ram
    BY <1>2 DEF RamAfter, Stores, Addskp, Addskpi
  <2>2. WithoutSkip = I!Computed(ir)
    BY <1>2 DEF WithoutSkip, Direct, FromImm, Shifts, Addskp, Addskpi, Alu3, AluImm, Loads
  <2>3. SkipHolds = ((I!Value(ir, I!Fetched) = 0) = (ir.op \in {"addskp.z", "addskpi.z"}))
    BY <1>2 DEF SkipHolds, Addskp, Addskpi
  <2>4. I!AddSkip(ir)
    BY <1>2, <2>1, <2>2, <2>3, SameClasses DEF I!AddSkip, RegsAfter
  <2> QED
    BY <2>4 DEF I!Execute
<1>3. CASE ir.op = "skip"
  <2> DEFINE x == I!Fetched[ir.arg0]
             y == I!Fetched[ir.arg1]
  <2>1. RamAfter = snap.ram
    BY <1>3 DEF RamAfter, Stores
  <2>2. WithoutSkip = I!Fetched
    BY <1>3 DEF WithoutSkip, Direct, FromImm, Shifts, Alu3, Addskp, AluImm, Addskpi, Loads
  <2>3. SkipHolds = FsimDecides(ir.cond, Diff(x, y), Borrow(x, y))
    BY <1>3 DEF SkipHolds, Addskp, Addskpi
  <2>4. I!FsimDecides(ir.cond, I!Diff(x, y), I!Borrow(x, y)) = SkipHolds
    BY <2>3, SameSums, SameConds
  <2>5. I!SkipOn(ir)
    BY <1>3, <2>1, <2>2, <2>4 DEF I!SkipOn, RegsAfter
  <2> QED
    BY <2>5 DEF I!Execute
<1>4. CASE ir.op \in Loads
  <2>1. ~SkipHolds /\ RamAfter = snap.ram
    BY <1>4 DEF SkipHolds, RamAfter, Loads, Stores, Addskp, Addskpi
  <2>2. WithoutSkip = [I!Fetched EXCEPT ![I!Target(ir)] =
                          ReadRam(snap.ram, I!Address(ir), ir.op \in ByteOps)]
    BY <1>4 DEF WithoutSkip, Direct, FromImm, Shifts, Alu3, Addskp, AluImm, Addskpi, Loads
  <2>3. I!ReadRam(snap.ram, I!Address(ir), ir.op \in I!ByteOps)
          = ReadRam(snap.ram, I!Address(ir), ir.op \in ByteOps)
    BY SameRam, SameClasses
  <2>4. I!LoadMem(ir)
    BY <1>4, <2>1, <2>2, <2>3 DEF I!LoadMem, RegsAfter, Loads
  <2> QED
    BY <2>4 DEF I!Execute
<1>5. CASE ir.op \in Stores
  <2> DEFINE v == IF ir.op \in {"stw0", "stb0"} THEN 0
                  ELSE IF ir.op \in BaseBP THEN I!Fetched[ir.tgt2] ELSE I!Fetched[ir.tgt]
  <2>1. ~SkipHolds /\ WithoutSkip = I!Fetched
    BY <1>5 DEF SkipHolds, WithoutSkip, Stores, Direct, FromImm, Shifts, Alu3, Addskp, AluImm,
                Addskpi, Loads
  <2>2. StoreValue = v /\ StoreAddress = I!Address(ir)
    BY <1>5 DEF StoreValue, StoreAddress, Stores, BaseBP
  <2>3. RamAfter = WriteRam(snap.ram, I!Address(ir), v, ir.op \in ByteOps)
    BY <1>5, <2>2 DEF RamAfter
  <2>4. I!WriteRam(snap.ram, I!Address(ir), v, ir.op \in I!ByteOps) = RamAfter
    BY <2>3, SameRam, SameClasses
  <2>5. I!StoreMem(ir)
    BY <1>5, <2>1, <2>4, SameClasses DEF I!StoreMem, RegsAfter, Stores
  <2> QED
    BY <2>5 DEF I!Execute
<1>6. CASE ir.op = "push"
  <2>1. ~SkipHolds /\ WithoutSkip = Pushed
    BY <1>6 DEF SkipHolds, WithoutSkip, Direct, FromImm, Shifts, Alu3, Addskp, AluImm,
                Addskpi, Loads
  <2>2. Pushed = [I!Fetched EXCEPT ![SP] = I!Diff(@, 2)]
    BY SameSums DEF Pushed
  <2>3. (ir.op \in ByteOps) = FALSE
    BY <1>6 DEF ByteOps
  <2>4. RamAfter = I!WriteRam(snap.ram, Pushed[SP], Pushed[ir.tgt], FALSE)
    BY <1>6, <2>3, SameRam DEF RamAfter, StoreAddress, StoreValue, BaseBP
  <2>5. I!Push(ir)
    BY <1>6, <2>1, <2>2, <2>4 DEF I!Push, RegsAfter
  <2> QED
    BY <2>5 DEF I!Execute
<1>7. CASE ir.op = "pop"
  <2>1. ~SkipHolds /\ RamAfter = snap.ram
    BY <1>7 DEF SkipHolds, RamAfter, Stores, Addskp, Addskpi
  <2>2. WithoutSkip = [Popped EXCEPT ![SP] = I!Sum(@, 2)]
    BY <1>7, SameSums DEF WithoutSkip, Direct, FromImm, Shifts, Alu3, Addskp, AluImm, Addskpi,
                          Loads
  <2>3. Popped = [I!Fetched EXCEPT ![ir.tgt] = I!ReadRam(snap.ram, I!Fetched[SP], FALSE)]
    BY SameRam DEF Popped
  <2>4. I!Pop(ir)
    BY <1>7, <2>1, <2>2, <2>3 DEF I!Pop, RegsAfter
  <2> QED
    BY <2>4 DEF I!Execute
<1>8. CASE ir.op = "brk"
  <2>1. ~SkipHolds /\ RamAfter = snap.ram
    BY <1>8 DEF SkipHolds, RamAfter, Stores, Addskp, Addskpi
  <2>2. WithoutSkip = I!Fetched
    BY <1>8 DEF WithoutSkip, Direct, FromImm, Shifts, Alu3, Addskp, AluImm, Addskpi, Loads
  <2>3. I!Break(ir)
    BY <1>8, <2>1, <2>2 DEF I!Break, RegsAfter
  <2> QED
    BY <2>3 DEF I!Execute
<1> QED
  BY <1>0, <1>1, <1>2, <1>3, <1>4, <1>5, <1>6, <1>7, <1>8
     DEF Op, Loads, Stores, BaseBP, Indexed

\* What an instruction has not reached when its states are over it does not change.
LEMMA EndsInFetch ==
    ASSUME TypeInv, Progress, Negedge, state' = "FETCH"
    PROVE  /\ ir' = ir /\ ir \in Instr /\ ir.op # "hlt" /\ state # "FETCH"
           /\ snap'.regs = RegsAfter /\ snap'.ram = RamAfter
<1>1. state \in {"DECODEM", "EXECM"} /\ clk = "NEGEDGE"
  BY LeavesFetch, LeavesFetchm, LeavesDecode, LeavesRead, LeavesReadm, LeavesExec
     DEF Negedge, TypeInv, TypeOK, Flow, BreakIsLost, Base, Second
<1>2. CASE state = "DECODEM"
  <2>1. ir.op \in Direct /\ regs' = regs /\ ir' = ir /\ snap' = [regs |-> regs', ram |-> ram]
    BY <1>2, LeavesDecodem
  <2>2. RamAfter = snap.ram
    BY <2>1 DEF RamAfter, Direct, Stores, Alu3, Addskp
  <2>3. regs = RegsAfter /\ ram = snap.ram
    BY <1>2, <2>1 DEF Progress, RegsSoFar, RamSoFar, Direct, Alu3, Addskp
  <2> QED
    BY <1>2, <2>1, <2>2, <2>3, InstrTypes DEF TypeInv, Flow
<1>3. CASE state = "EXECM"
  <2>1. regs' = regs /\ ir' = ir /\ snap' = [regs |-> regs', ram |-> ram]
    BY <1>3, LeavesExecm
  <2>2. regs = RegsAfter /\ ram = RamAfter
    BY <1>1, <1>3 DEF Progress, RegsSoFar, RamSoFar
  <2>3. ir.op # "hlt"
    BY <1>1, InstrTypes DEF Negedge, TypeInv, Flow
  <2> QED
    BY <1>3, <2>1, <2>2, <2>3, InstrTypes DEF TypeInv, Flow
<1> QED
  BY <1>1, <1>2, <1>3

LEMMA StepImplements ==
    ASSUME TypeInv, Progress, [Next]_vars
    PROVE  [I!INext]_(I!ivars)
<1>1. CASE Posedge
  BY <1>1 DEF Posedge, I!ivars
<1>2. CASE Negedge /\ state' = "FETCH"
  <2>1. I!Execute(ir)
    BY <1>2, EndsInFetch, Executes
  <2>2. I!ExecuteNext
    BY <1>2, <2>1, EndsInFetch, SameInstr DEF I!ExecuteNext
  <2> QED
    BY <2>2 DEF I!INext
<1>3. CASE Negedge /\ state' # "FETCH"
  <2>1. snap' = snap
    BY <1>3 DEF Negedge
  <2>2. CASE state = "FETCH" /\ ir # None
    BY <1>3, <2>1, <2>2 DEF I!INext, I!FetchNext
  <2>3. CASE state # "FETCH" \/ ir = None
    BY <1>3, <2>1, <2>3 DEF I!ivars
  <2> QED
    BY <2>2, <2>3
<1>4. CASE UNCHANGED vars \/ ClearSig
  BY <1>4 DEF vars, ClearSig, I!ivars
<1> QED
  BY <1>1, <1>2, <1>3, <1>4 DEF Next

\* The microcode simulator carries out the instruction set of fsim, for programs
\* that send no result to R0.
THEOREM Refinement == NoResultToR0 => (Spec => ImplementsIsa)
<1> SUFFICES ASSUME NoResultToR0
             PROVE  Spec => ImplementsIsa
  OBVIOUS
<1>1. Init => snap.regs \in InitRegs /\ snap.ram \in InitRam
              /\ (IF state = "FETCH" THEN ir ELSE None) = None
  BY DEF Init
<1>2. TypeInv /\ Progress /\ [Next]_vars => [I!INext]_(I!ivars)
  BY StepImplements
<1>3. TypeInv /\ Progress /\ [Next]_vars => Progress'
  BY StepProgress
<1> QED
  BY <1>1, <1>2, <1>3, InitTypeInv, StepTypeInv, InitProgress, PTL
     DEF Spec, ImplementsIsa, I!ISpec
============================================================================
