------------------------------- MODULE Parser -------------------------------
(***************************************************************************)
(* The parser of a line of tokens (src/sim/aslib/parser.cpp).  A line is   *)
(* refused when the parser pushes an error: which one, and at what column, *)
(* is left out.                                                            *)
(***************************************************************************)
EXTENDS Lexer, InstructionBits

\* A parsed line.  The fields a kind does not use keep their defaults.
Refused ==
    [kind |-> "Refused", label |-> "", number |-> 0, target |-> "",
     instruction |-> [name |-> "HALT", scalar |-> FALSE, rd |-> 0, rs1 |-> 0, rs2 |-> 0, imm |-> 0]]

Types(tokens) == [k \in DOMAIN tokens |-> tokens[k].type]

IsRtype(name) == name \in RegisterOps \union {"SX_SLT"}
IsItypeArithmetic(name) == name \in ImmediateOps \union {"SX_SLTI"}
IsMemory(name) == name \in LoadNames \union StoreNames

\* The operands a mnemonic may have, up to the end of the line.  Branches
\* are mnemonics that no rule of parse_instruction is for.
Syntaxes(name) ==
    LET register == <<"Register", "Comma">>
        indirect == register \o <<"Immediate", "Lparen", "Register", "Rparen">>
    IN  CASE name = "HALT" -> {<<>>}
          [] IsItypeArithmetic(name) -> {register \o register \o <<"Immediate">>}
          [] IsRtype(name) -> {register \o register \o <<"Register">>}
          [] IsMemory(name) -> {indirect}
          [] name \in UpperNames \union {"JAL"} -> {register \o <<"Immediate">>}
          [] name = "JALR" -> {indirect, register \o <<"LabelRef">>}
          [] OTHER -> {}

\* Mnemonic::is_scalar.
IsScalar(m) == m.scalar \/ m.name \in VectorScalarOps \union BranchOps \union JumpOps

\* CHECK_REG: the k-th register of an instruction is of the right file.
CheckRegister_AllAlike(m, k, register) ==
    m.name \in JumpOps \/ (register.file = "s") = IsScalar(m)

CheckRegister(m, k, register) ==
    LET wanted == IF m.name \in VectorScalarOps THEN k = 1 ELSE IsScalar(m)
    IN  m.name \in JumpOps \/ (register.file = "s") = wanted

\* expect<T> for each operand in turn, and then the end of the line.
ParseInstruction(m, operands) ==
    LET only(type) == SelectSeq(operands, LAMBDA t : t.type = type)
        registers == only("Register")
        number(k) == IF k <= Len(registers) THEN registers[k].register.number ELSE 0
        store == m.name \in StoreNames
    IN  IF Types(operands) \in Syntaxes(m.name)
            /\ \A k \in DOMAIN registers : CheckRegister(m, k, registers[k].register)
        THEN [Refused EXCEPT
                !.kind = "Instruction",
                !.target = IF only("LabelRef") = <<>> THEN "" ELSE only("LabelRef")[1].name,
                !.instruction =
                    [name |-> m.name, scalar |-> m.scalar,
                     rd |-> IF store THEN 0 ELSE number(1),
                     rs1 |-> number(2),
                     rs2 |-> IF store THEN number(1) ELSE number(3),
                     imm |-> IF only("Immediate") = <<>> THEN 0 ELSE only("Immediate")[1].value]]
        ELSE Refused

ParseDirectiveLine(tokens) ==
    IF Types(Tail(tokens)) = <<"Immediate">> /\ tokens[2].value >= 1
    THEN [Refused EXCEPT !.kind = tokens[1].type, !.number = tokens[2].value]
    ELSE Refused

\* parse_line; there is at least one token.  A label may stand alone, or
\* before an instruction, but not before a directive.
ParseLine(tokens) ==
    LET labelled == Head(tokens).type = "Label"
        rest == IF labelled THEN Tail(tokens) ELSE tokens
        label == IF labelled THEN Head(tokens).name ELSE ""
        line ==
            CASE rest = <<>> -> [Refused EXCEPT !.kind = "JustLabel"]
              [] rest # <<>> /\ Head(rest).type = "Mnemonic" ->
                    ParseInstruction(Head(rest), Tail(rest))
              [] rest # <<>> /\ ~labelled
                    /\ Head(rest).type \in {"BlocksDirective", "WarpsDirective"} ->
                    ParseDirectiveLine(rest)
              [] OTHER -> Refused
    IN  [line EXCEPT !.label = label]
=============================================================================
