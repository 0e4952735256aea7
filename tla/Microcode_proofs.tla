-------------------------- MODULE Microcode_proofs --------------------------
(***************************************************************************)
(* Lemmas about the operations on words and about the rows of the           *)
(* microcode, for every width of a word.                                    *)
(***************************************************************************)
EXTENDS Microcode, FiniteSetTheorems, TLAPS

LEMMA Sizes ==
    /\ Half \in Nat /\ Half > 0 /\ N \in Nat /\ N > 0 /\ N = 2 * Half
    /\ ByteSize \in Nat /\ ByteSize > 2 /\ ByteSize * ByteSize = N
    /\ N >= 9 /\ N - 2 \in Word /\ 2 \in Word /\ 0 \in Word
    /\ Low \in Nat /\ Low > 0
<1>1. /\ Half \in Nat /\ Half > 0 /\ N \in Nat /\ N > 0 /\ N = 2 * Half
      /\ ByteSize \in Nat /\ ByteSize > 2 /\ ByteSize * ByteSize = N
      /\ Low \in Nat /\ Low > 0
  BY HalfAssumption, WordOpsAssumption DEF N
<1>2. \A k \in Nat : k > 2 => k * k >= 9
  OBVIOUS
<1>3. N >= 9
  BY <1>1, <1>2
<1> QED
  BY <1>1, <1>3 DEF Word

-----------------------------------------------------------------------------
\* A power of two is the number of subsets of a finite set.
LEMMA PowerOfTwo ==
    ASSUME NEW n \in Nat
    PROVE  2 ^ n \in Nat \ {0}
<1>1. IsFiniteSet(1 .. n) /\ Cardinality(1 .. n) = n
  BY FS_Interval
<1>2. IsFiniteSet(SUBSET (1 .. n)) /\ Cardinality(SUBSET (1 .. n)) = 2 ^ n
  BY <1>1, FS_SUBSET
<1>3. SUBSET (1 .. n) # {}
  OBVIOUS
<1> QED
  BY <1>2, <1>3, FS_CardinalityType, FS_EmptySet

LEMMA Quotient ==
    ASSUME NEW x \in Nat, NEW b \in Nat, b > 0
    PROVE  x \div b \in 0 .. x /\ x % b \in 0 .. b - 1
  OBVIOUS

LEMMA ByteTypes ==
    ASSUME NEW w \in Word
    PROVE  HighByte(w) \in 0 .. ByteSize - 1 /\ LowByte(w) \in 0 .. ByteSize - 1
<1>1. w \in Nat /\ w < ByteSize * ByteSize
  BY Sizes DEF Word
<1>2. w = ByteSize * (w \div ByteSize) + (w % ByteSize)
  BY <1>1, Sizes
<1>3. w \div ByteSize \in Nat /\ w % ByteSize \in 0 .. ByteSize - 1
  BY <1>1, Sizes
<1>4. w \div ByteSize < ByteSize
  BY <1>1, <1>2, <1>3, Sizes
<1> QED
  BY <1>3, <1>4, Sizes DEF HighByte, LowByte

LEMMA BytePairType ==
    ASSUME NEW h \in 0 .. ByteSize - 1, NEW l \in 0 .. ByteSize - 1
    PROVE  h * ByteSize + l \in Word
<1>0. \A k, m, n \in Nat : k <= m => k * n <= m * n
  OBVIOUS
<1>1. h * ByteSize <= (ByteSize - 1) * ByteSize
  BY <1>0, Sizes
<1>2. (ByteSize - 1) * ByteSize = N - ByteSize
  BY Sizes
<1> QED
  BY <1>1, <1>2, Sizes DEF Word

LEMMA SumType ==
    ASSUME NEW x \in Word, NEW y \in Word
    PROVE  Sum(x, y) \in Word /\ Diff(x, y) \in Word /\ Borrow(x, y) \in BOOLEAN
  BY Sizes DEF Sum, Diff, Borrow, Word

LEMMA ShiftType ==
    ASSUME NEW x \in Word, NEW n \in Nat
    PROVE  Shl(x, n) \in Word /\ Shr(x, n) \in Word
<1>1. 2 ^ n \in Nat \ {0}
  BY PowerOfTwo
<1>2. x * (2 ^ n) \in Nat
  BY <1>1 DEF Word
<1>3. (x * (2 ^ n)) % N \in 0 .. N - 1
  BY <1>2, Sizes
<1>4. x \div (2 ^ n) \in 0 .. x
  BY <1>1, Quotient DEF Word
<1> QED
  BY <1>3, <1>4, Sizes DEF Shl, Shr, Word

LEMMA SextType ==
    ASSUME NEW x \in Word
    PROVE  Sext(x) \in Word
<1>1. \A k \in Nat : k > 2 => k <= k * k
  OBVIOUS
<1> QED
  BY <1>1, ByteTypes, Sizes DEF Sext, Word

LEMMA AddHiType ==
    ASSUME NEW imm \in Word, NEW x \in Word, imm < N \div Low
    PROVE  AddHi(imm, x) \in Word
<1>1. N = Low * (N \div Low) + (N % Low) /\ N % Low \in 0 .. Low - 1 /\ N \div Low \in Nat
  BY Sizes
<1>2. imm \in Nat /\ x \in Nat /\ imm + 1 <= N \div Low
  BY <1>1 DEF Word
<1>3. Low * (imm + 1) <= Low * (N \div Low)
  <2>1. \A k, m, n \in Nat : k <= m => n * k <= n * m
    OBVIOUS
  <2> QED
    BY <1>1, <1>2, <2>1, Sizes
<1>4. Low * (imm + 1) = imm * Low + Low
  BY <1>2, Sizes
<1>5. x % Low \in 0 .. Low - 1
  BY <1>2, Sizes
<1>6. imm * Low \in Nat
  BY <1>2, Sizes
<1> QED
  BY <1>1, <1>3, <1>4, <1>5, <1>6, Sizes DEF AddHi, Word

LEMMA ReadRamType ==
    ASSUME NEW m \in [0 .. Half - 1 -> Word], NEW a \in Word, NEW be \in BOOLEAN
    PROVE  ReadRam(m, a, be) \in Word
<1>1. a \div 2 \in 0 .. Half - 1
  BY Sizes DEF Word
<1>2. 0 .. ByteSize - 1 \subseteq Word
  <2>1. \A k \in Nat : k > 2 => k <= k * k
    OBVIOUS
  <2> QED
    BY <2>1, Sizes DEF Word
<1> QED
  BY <1>1, <1>2, ByteTypes DEF ReadRam

LEMMA WriteRamType ==
    ASSUME NEW m \in [0 .. Half - 1 -> Word], NEW a \in Word, NEW v \in Word,
           NEW be \in BOOLEAN
    PROVE  WriteRam(m, a, v, be) \in [0 .. Half - 1 -> Word]
<1>1. a \div 2 \in 0 .. Half - 1
  BY Sizes DEF Word
<1>2. (HighByte(m[a \div 2]) * ByteSize) + LowByte(v) \in Word
  BY <1>1, ByteTypes, BytePairType
<1>3. (LowByte(v) * ByteSize) + LowByte(m[a \div 2]) \in Word
  BY <1>1, ByteTypes, BytePairType
<1> QED
  BY <1>1, <1>2, <1>3 DEF WriteRam

-----------------------------------------------------------------------------
\* The operations by the way they take through the rows.

Direct == Alu3 \cup Addskp \cup {"sext", "br.r"}   \* done in DECODE
Loads == {"ldw", "ldb", "ldw.b", "ldb.b"}
Stores == {"stw", "stb", "stw0", "stb0", "stw.b", "stb.b"}
FromImm == AluImm \cup Addskpi \cup {"ldi", "br", "addhi"}  \* done in EXEC, READ left out
Shifts == {"shl", "shr"}
ViaRead == BaseBP \cup Indexed \cup Shifts \cup {"push", "pop", "brk"}
ViaExec == FromImm \cup {"skip"} \cup ViaRead

LEMMA Kinds ==
    /\ Op = Direct \cup ViaExec \cup {"hlt"}
    /\ Loads \cup Stores = BaseBP \cup Indexed
  BY DEF Op, Direct, Loads, Stores, FromImm, Shifts, ViaRead, ViaExec, Alu3, AluImm,
         Addskp, Addskpi, BaseBP, Indexed

Selections == {"reg0", "bp", "sp", "pc", "arg0", "arg1", "arg2", "tgt", "tgt2"}

RowSignals == {"mar_load", "mdr_load", "ir_load", "reg_load", "ram_load", "incr_pc", "incr_sp",
            "decr_sp", "re", "be", "sext", "brk"}

RowFields == [sig : SUBSET RowSignals, r0 : Selections, r1 : Selections, ws : Selections,
              mdrs : {"imm", "ram", "alu"}, op0 : {"regr0", "regr1", "mdr"},
              op1 : {"regr0", "regr1", "mdr"}, skipc : {"none", "zr", "nzr", "cond"},
              alu : {"add", "sub", "and", "or", "shl", "shr", "addhi"},
              skipstate : {"READ", "EXEC", "FETCH"}]

LEMMA RowTypes ==
    /\ FetchRow \in RowFields
    /\ \A op \in Op \ {"hlt"} : DecodeRow(op) \in RowFields
    /\ \A op \in Op : ReadRow(op) \in RowFields /\ ExecRow(op) \in RowFields
<1> USE DEF Blank, Ports, RowFields, Selections, RowSignals
<1>1. FetchRow \in RowFields
  BY DEF FetchRow
<1>2. ASSUME NEW op \in Op \ {"hlt"}
      PROVE  DecodeRow(op) \in RowFields
  <2>1. CASE op \in Direct
    <3>1. \A a, b \in Selections, f \in {"add", "sub", "and", "or", "shl", "shr"} :
             AluRow(a, b, f) \in RowFields
      <4>1. "reg0" \in Selections /\ "tgt" \in Selections
        OBVIOUS
      <4>2. {"reg_load"} \in SUBSET RowSignals /\ {} \in SUBSET RowSignals
        OBVIOUS
      <4> HIDE DEF Selections, RowSignals
      <4> QED
        BY <4>1, <4>2 DEF AluRow
    <3>2. \A r \in RowFields : /\ [r EXCEPT !.skipc = "none"] \in RowFields
                               /\ [r EXCEPT !.skipc = "zr"] \in RowFields
                               /\ [r EXCEPT !.skipc = "nzr"] \in RowFields
                               /\ [r EXCEPT !.ws = "pc"] \in RowFields
                               /\ [r EXCEPT !.sig = {"reg_load", "sext"}] \in RowFields
      OBVIOUS
    <3> HIDE DEF RowFields
    <3> QED
      BY <2>1, <3>1, <3>2 DEF DecodeRow, Direct, Alu3, AluImm, Addskp, Addskpi, BaseBP, Indexed
  <2>2. CASE op \in ViaExec
    <3> USE DEF DecodeRow, FromImm, Shifts, AluImm, Addskpi, BaseBP, Indexed
    <3>1. CASE op \in FromImm
      BY <3>1
    <3>2. CASE op \in BaseBP \cup Shifts
      BY <3>2
    <3>3. CASE op \in Indexed \cup {"skip"}
      BY <3>3
    <3>4. CASE op \in {"push", "pop", "brk"}
      BY <3>4
    <3> QED
      BY <2>2, <3>1, <3>2, <3>3, <3>4 DEF ViaExec, ViaRead
  <2> QED
    BY <2>1, <2>2, Kinds
<1>3. ASSUME NEW op \in Op
      PROVE  ReadRow(op) \in RowFields
  BY DEF ReadRow, BaseBP, Indexed
<1>4. ASSUME NEW op \in Op
      PROVE  ExecRow(op) \in RowFields
  BY DEF ExecRow, FromMdr, LoadRow, StoreRow, Addskpi, ByteOps
<1> QED
  BY <1>1, <1>2, <1>3, <1>4

\* The add.., shift.r, sext and br.r rows: the ALU's result is written in DECODEM.
LEMMA DirectRow ==
    ASSUME NEW op \in Direct
    PROVE  LET row == DecodeRow(op)
           IN  /\ row.sig = IF op = "sext" THEN {"reg_load", "sext"} ELSE {"reg_load"}
               /\ row.ws = IF op = "br.r" THEN "pc" ELSE "tgt"
               /\ row.r0 = CASE op \in {"and", "or"} -> "arg1"
                             [] op = "br.r" -> "tgt"
                             [] OTHER -> "arg0"
               /\ row.r1 = CASE op \in {"and", "or"} -> "arg0"
                             [] op \in {"sext", "br.r"} -> "reg0"
                             [] OTHER -> "arg1"
               /\ row.op0 = "regr0" /\ row.op1 = "regr1"
               /\ row.skipc = CASE op = "addskp.z" -> "zr" [] op = "addskp.nz" -> "nzr"
                                [] OTHER -> "none"
               /\ row.alu = CASE op \in {"sub", "and", "or"} -> op
                              [] op = "shl.r" -> "shl" [] op = "shr.r" -> "shr"
                              [] OTHER -> "add"
               /\ row.skipstate = "FETCH"
  BY DEF DecodeRow, Direct, Alu3, Addskp, AluRow, Ports, Blank, AluImm, Addskpi, BaseBP, Indexed

LEMMA LongDecodeRow ==
    ASSUME NEW op \in ViaExec
    PROVE  LET row == DecodeRow(op)
           IN  /\ row.sig = CASE op \in FromImm \cup BaseBP \cup Shifts -> {"mdr_load"}
                              [] op = "push" -> {"decr_sp"}
                              [] op = "pop"  -> {"mar_load"}
                              [] op = "brk"  -> {"brk"}
                              [] OTHER       -> {}
               /\ row.mdrs = "imm" /\ row.skipc = "none" /\ row.ws = "reg0"
               /\ row.skipstate = IF op \in ViaRead THEN "READ" ELSE "EXEC"
               /\ row.alu = "add" /\ row.r1 = "reg0"
               /\ row.op0 = IF op = "ldi" THEN "mdr" ELSE "regr0"
               /\ op = "pop" => row.r0 = "sp" /\ row.op1 = "regr1"
               /\ op # "pop" => row.r0 = "reg0"
  BY DEF DecodeRow, ViaExec, ViaRead, FromImm, Shifts, Alu3, AluImm, Addskp, Addskpi, BaseBP,
         Indexed, Blank, Ports

LEMMA ReadRows ==
    ASSUME NEW op \in ViaRead
    PROVE  LET row == ReadRow(op)
           IN  /\ row.sig = CASE op \in BaseBP \cup Indexed \cup {"push"} -> {"mar_load"}
                              [] op = "pop" -> {"mdr_load", "reg_load", "re"}
                              [] OTHER      -> {}
               /\ row.skipc = "none" /\ row.alu = "add"
               /\ op \in BaseBP =>
                     row.op0 = "mdr" /\ row.r0 = "bp" /\ row.op1 = "regr0"
               /\ op \in Indexed =>
                     /\ row.op0 = "regr0" /\ row.r0 = "arg0"
                     /\ row.op1 = "regr1" /\ row.r1 = "arg1"
               /\ op = "push" =>
                     /\ row.op0 = "regr0" /\ row.r0 = "sp"
                     /\ row.op1 = "regr1" /\ row.r1 = "reg0"
               /\ op = "pop" =>
                     /\ row.op0 = "mdr" /\ row.op1 = "regr0" /\ row.r0 = "reg0"
                     /\ row.ws = "tgt" /\ row.mdrs = "ram"
  BY DEF ReadRow, ViaRead, Shifts, BaseBP, Indexed, Blank, Ports

LEMMA MemoryExecRow ==
    ASSUME NEW op \in Loads \cup Stores \cup {"push"}
    PROVE  LET row == ExecRow(op)
               be == IF op \in ByteOps THEN {"be"} ELSE {}
           IN  /\ row.skipc = "none" /\ row.alu = "add"
               /\ op \in Loads =>
                     /\ row.sig = {"mdr_load", "reg_load", "re"} \cup be
                     /\ row.op0 = "mdr" /\ row.op1 = "regr0" /\ row.r0 = "reg0"
                     /\ row.mdrs = "ram"
                     /\ row.ws = IF op \in BaseBP THEN "tgt2" ELSE "tgt"
               /\ op \notin Loads =>
                     /\ row.sig = {"mdr_load", "ram_load"} \cup be
                     /\ row.op0 = "regr0" /\ row.op1 = "regr1" /\ row.r1 = "reg0"
                     /\ row.mdrs = "alu"
                     /\ row.r0 = CASE op \in {"stw0", "stb0"} -> "reg0"
                                   [] op \in {"stw", "stb"} -> "tgt2"
                                   [] OTHER -> "tgt"
<1> USE DEF Loads, Stores, BaseBP
<1>1. CASE op \in {"ldw", "ldb"}
  <2>1. ExecRow(op) = LoadRow("tgt2", op)
    BY <1>1 DEF ExecRow, Addskpi
  <2> QED
    BY <1>1, <2>1 DEF LoadRow, FromMdr, Blank
<1>2. CASE op \in {"ldw.b", "ldb.b"}
  <2>1. ExecRow(op) = LoadRow("tgt", op)
    BY <1>2 DEF ExecRow, Addskpi
  <2> QED
    BY <1>2, <2>1 DEF LoadRow, FromMdr, Blank
<1>3. CASE op \in {"stw", "stb"}
  <2>1. ExecRow(op) = StoreRow("tgt2", op)
    BY <1>3 DEF ExecRow, Addskpi
  <2> QED
    BY <1>3, <2>1 DEF StoreRow, Ports, Blank
<1>4. CASE op \in {"stw0", "stb0"}
  <2>1. ExecRow(op) = StoreRow("reg0", op)
    BY <1>4 DEF ExecRow, Addskpi
  <2> QED
    BY <1>4, <2>1 DEF StoreRow, Ports, Blank
<1>5. CASE op \in {"stw.b", "stb.b", "push"}
  <2>1. ExecRow(op) = StoreRow("tgt", op)
    BY <1>5 DEF ExecRow, Addskpi
  <2> QED
    BY <1>5, <2>1 DEF StoreRow, Ports, Blank
<1> QED
  BY <1>1, <1>2, <1>3, <1>4, <1>5

LEMMA ImmExecRow ==
    ASSUME NEW op \in FromImm \cup Shifts
    PROVE  LET row == ExecRow(op)
           IN  /\ row.sig = {"reg_load"}
               /\ row.ws = CASE op = "br" -> "pc"
                             [] op \in Shifts \cup {"addhi"} -> "tgt2"
                             [] OTHER -> "tgt"
               /\ row.skipc = CASE op = "addskpi.z" -> "zr" [] op = "addskpi.nz" -> "nzr"
                                [] OTHER -> "none"
               /\ row.alu = CASE op \in Shifts \cup {"addhi"} -> op
                              [] op = "subi" -> "sub"
                              [] op = "andi" -> "and"
                              [] op = "ori" -> "or"
                              [] OTHER -> "add"
               /\ op \in {"ldi", "br", "addhi"} \cup Addskpi => row.op0 = "mdr"
               /\ op = "ldi" => row.op1 = "regr0" /\ row.r0 = "reg0"
               /\ op = "br" => row.op1 = "regr0" /\ row.r0 = "pc"
               /\ op = "addhi" => row.op1 = "regr1" /\ row.r1 = "tgt2"
               /\ op \in Addskpi => row.op1 = "regr1" /\ row.r1 = "arg1"
               /\ op \in {"addi", "subi"} =>
                     row.op0 = "regr1" /\ row.r1 = "arg1" /\ row.op1 = "mdr"
               /\ op \in {"andi", "ori"} =>
                     row.op0 = "regr0" /\ row.r0 = "arg1" /\ row.op1 = "mdr"
               /\ op \in Shifts =>
                     row.op0 = "regr0" /\ row.r0 = "arg2" /\ row.op1 = "mdr"
<1> USE DEF ExecRow, FromImm, Shifts, AluImm, Addskpi, FromMdr, Blank
<1>1. CASE op \in {"ldi", "br", "addhi"}
  BY <1>1
<1>2. CASE op \in AluImm
  BY <1>2
<1>3. CASE op \in Addskpi
  BY <1>3
<1>4. CASE op \in Shifts
  BY <1>4
<1> QED
  BY <1>1, <1>2, <1>3, <1>4

LEMMA OtherExecRow ==
    /\ LET row == ExecRow("skip")
       IN  /\ row.sig = {} /\ row.alu = "sub" /\ row.skipc = "cond"
           /\ row.op0 = "regr0" /\ row.r0 = "arg0"
           /\ row.op1 = "regr1" /\ row.r1 = "arg1"
    /\ \A op \in {"pop", "brk"} :
          ExecRow(op).skipc = "none" /\ ExecRow(op).alu = "add"
    /\ ExecRow("pop").sig = {"incr_sp"} /\ ExecRow("brk").sig = {"brk"}
  BY DEF ExecRow, Addskpi, Blank, Ports
=============================================================================
