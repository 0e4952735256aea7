----------------------------- MODULE Microcode -----------------------------
(***************************************************************************)
(* The microcode of micro/micro.mx, which both microcode simulators        *)
(* (main2.c and the older main.c) load: for each operation a row for each  *)
(* of DECODE, READ and EXEC, and one for the fetch.                        *)
(***************************************************************************)
EXTENDS WordOps

\* A row names the signals it raises, the registers of the two
\* read ports and of the write port, the source of MDR, the ALU's operands and
\* function, the skip it checks for and the state that follows DECODEM (field skipstate,
\* 0 to 2 in micro.mx).

Blank == [sig |-> {}, r0 |-> "reg0", r1 |-> "reg0", ws |-> "reg0", mdrs |-> "imm",
          op0 |-> "regr0", op1 |-> "regr0", skipc |-> "none", alu |-> "add",
          skipstate |-> "READ"]

\* Both ports to the ALU.
Ports(a, b) == [Blank EXCEPT !.r0 = a, !.r1 = b, !.op1 = "regr1"]

AluRow(a, b, f) ==
    [Ports(a, b) EXCEPT !.alu = f, !.ws = "tgt", !.sig = {"reg_load"},
                        !.skipstate = "FETCH"]

FetchRow == [Blank EXCEPT !.r1 = "pc", !.op0 = "regr1",
                          !.sig = {"mar_load", "incr_pc", "ir_load", "re"}]

DecodeRow(op) ==
    CASE op \in {"add", "addskp.z", "addskp.nz"} ->
            [AluRow("arg0", "arg1", "add") EXCEPT
                !.skipc = IF op = "add" THEN "none"
                          ELSE IF op = "addskp.z" THEN "zr" ELSE "nzr"]
      [] op = "sub"            -> AluRow("arg0", "arg1", "sub")
      [] op \in {"and", "or"}  -> AluRow("arg1", "arg0", op)
      [] op = "shl.r"          -> AluRow("arg0", "arg1", "shl")
      [] op = "shr.r"          -> AluRow("arg0", "arg1", "shr")
      [] op = "sext"           -> [AluRow("arg0", "reg0", "add") EXCEPT
                                      !.sig = {"reg_load", "sext"}]
      [] op = "br.r"           -> [AluRow("tgt", "reg0", "add") EXCEPT !.ws = "pc"]
      [] op \in {"ldi", "br", "addhi"} \cup AluImm \cup Addskpi ->
            [Blank EXCEPT !.sig = {"mdr_load"}, !.skipstate = "EXEC",
                          !.op0 = IF op = "ldi" THEN "mdr" ELSE "regr0"]
      [] op \in BaseBP \cup {"shl", "shr"} -> [Blank EXCEPT !.sig = {"mdr_load"}]
      [] op = "skip"           -> [Blank EXCEPT !.skipstate = "EXEC"]
      [] op = "push"           -> [Blank EXCEPT !.sig = {"decr_sp"}]
      [] op = "pop"            -> [Ports("sp", "reg0") EXCEPT !.sig = {"mar_load"}]
      [] op = "brk"            -> [Blank EXCEPT !.sig = {"brk"}]
      [] op \in Indexed        -> Blank

ReadRow(op) ==
    CASE op \in BaseBP  -> [Blank EXCEPT !.r0 = "bp", !.op0 = "mdr", !.sig = {"mar_load"}]
      [] op \in Indexed -> [Ports("arg0", "arg1") EXCEPT !.sig = {"mar_load"}]
      [] op = "push"    -> [Ports("sp", "reg0") EXCEPT !.sig = {"mar_load"}]
      [] op = "pop"     -> [Blank EXCEPT !.op0 = "mdr", !.ws = "tgt", !.mdrs = "ram",
                                         !.sig = {"mdr_load", "reg_load", "re"}]
      [] OTHER          -> Blank

FromMdr(r) == [Blank EXCEPT !.op0 = "mdr", !.ws = r, !.sig = {"reg_load"}]

LoadRow(r, op) ==
    [FromMdr(r) EXCEPT !.mdrs = "ram",
        !.sig = {"mdr_load", "reg_load", "re"} \cup (IF op \in ByteOps THEN {"be"} ELSE {})]

StoreRow(r, op) ==
    [Ports(r, "reg0") EXCEPT !.mdrs = "alu",
        !.sig = {"mdr_load", "ram_load"} \cup (IF op \in ByteOps THEN {"be"} ELSE {})]

ExecRow(op) ==
    CASE op = "ldi" -> FromMdr("tgt")
      [] op = "br"  -> [FromMdr("pc") EXCEPT !.r0 = "pc"]
      [] op \in {"ldw", "ldb"}     -> LoadRow("tgt2", op)
      [] op \in {"ldw.b", "ldb.b"} -> LoadRow("tgt", op)
      [] op \in {"stw", "stb"}     -> StoreRow("tgt2", op)
      [] op \in {"stw0", "stb0"}   -> StoreRow("reg0", op)
      [] op \in {"stw.b", "stb.b", "push"} -> StoreRow("tgt", op)
      [] op = "skip" -> [Ports("arg0", "arg1") EXCEPT !.alu = "sub", !.skipc = "cond"]
      [] op \in {"addi", "subi"} ->
            [Blank EXCEPT !.r1 = "arg1", !.op0 = "regr1", !.op1 = "mdr", !.ws = "tgt",
                          !.alu = IF op = "addi" THEN "add" ELSE "sub",
                          !.sig = {"reg_load"}]
      [] op \in {"andi", "ori"} ->
            [Blank EXCEPT !.r0 = "arg1", !.op1 = "mdr", !.ws = "tgt",
                          !.alu = IF op = "andi" THEN "and" ELSE "or",
                          !.sig = {"reg_load"}]
      [] op \in Addskpi ->
            [FromMdr("tgt") EXCEPT !.r1 = "arg1", !.op1 = "regr1",
                                   !.skipc = IF op = "addskpi.z" THEN "zr" ELSE "nzr"]
      [] op = "addhi" -> [FromMdr("tgt2") EXCEPT !.r1 = "tgt2", !.op1 = "regr1",
                                                 !.alu = "addhi"]
      [] op \in {"shl", "shr"} ->
            [Blank EXCEPT !.r0 = "arg2", !.op1 = "mdr", !.ws = "tgt2", !.alu = op,
                          !.sig = {"reg_load"}]
      [] op = "pop"  -> [Blank EXCEPT !.sig = {"incr_sp"}]
      [] op = "brk"  -> [Blank EXCEPT !.sig = {"brk"}]
      [] OTHER       -> Blank
=============================================================================
