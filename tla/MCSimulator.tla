---------------------------- MODULE MCSimulator ----------------------------
(***************************************************************************)
(* Programs, data files and requests for model-checking Simulator.tla,     *)
(* with what their author means by them, which is computed here from what  *)
(* each line says and without regard to how it is read.                    *)
(***************************************************************************)
EXTENDS Simulator

Instr(name, scalar, regs, imm) ==
    [name |-> name, scalar |-> scalar, rd |-> regs[1], rs1 |-> regs[2], rs2 |-> regs[3], imm |-> imm]

-----------------------------------------------------------------------------
(* Spelling.                                                               *)

Digits(n, base) ==
    LET length == CHOOSE l \in 1 .. 9 : base^l > n /\ (l = 1 \/ base^(l - 1) <= n)
    IN  [k \in 1 .. length |-> (n \div base^(length - k)) % base]

Decimal(n) == IF n < 0 THEN Numeral(TRUE, "", Digits(-n, 10)) ELSE Numeral(FALSE, "", Digits(n, 10))
Hex(n) == Numeral(FALSE, "0x", Digits(n, 16))
Octal(n) == Numeral(FALSE, "", <<0>> \o Digits(n, 8))

Mnemonic(name, scalar) == WordLexeme(name, name, scalar, NoRegister, ~scalar)
Reg(file, n) == WordLexeme("register", "", FALSE, Register(file, n), TRUE)
Comma == Mark(",")
Colon == Mark(":")

\* The syntaxes of README.md.
Write(i, number, target) ==
    LET scalarFile == IF i.scalar \/ i.name \in JumpOps THEN "s" ELSE "x"
        target_file == IF i.name \in VectorScalarOps THEN "s" ELSE scalarFile
        source_file == IF i.name \in VectorScalarOps THEN "x" ELSE scalarFile
        rd == Reg(target_file, i.rd)
        rs1 == Reg(source_file, i.rs1)
        rs2 == Reg(source_file, i.rs2)
        indirect == <<number, Mark("("), rs1, Mark(")")>>
        operands ==
            CASE i.name = "HALT" -> <<>>
              [] i.name \in LoadNames -> <<rd, Comma>> \o indirect
              [] i.name \in StoreNames -> <<rs2, Comma>> \o indirect
              [] i.name = "JALR" -> IF target = "" THEN <<rd, Comma>> \o indirect
                                    ELSE <<rd, Comma, NameWord(target)>>
              [] i.name \in UpperNames \union {"JAL"} -> <<rd, Comma, number>>
              [] i.name \in RegisterOps \union {"SX_SLT"} -> <<rd, Comma, rs1, Comma, rs2>>
              [] OTHER -> <<rd, Comma, rs1, Comma, number>>
    IN  <<Mnemonic(i.name, i.scalar)>> \o operands

-----------------------------------------------------------------------------
(* Lines, each with what it says.                                          *)

HaltCode == Instr("HALT", FALSE, <<0, 0, 0>>, 0)

Line(kind, text, label, number, code, target) ==
    [kind |-> kind, text |-> text, label |-> label, number |-> number, code |-> code, target |-> target]

Blank(text) == Line("blank", text, "", 0, HaltCode, "")
Mistake(text) == Line("mistake", text, "", 0, HaltCode, "")
LabelLine(label) == Line("label", <<WithColon(NameWord(label))>>, label, 0, HaltCode, "")
DirectiveLine(kind, number) ==
    Line(kind, <<Directive(kind), Decimal(number)>>, "", number, HaltCode, "")
Code(i) == Line("code", Write(i, Decimal(i.imm), ""), "", 0, i, "")
CodeAs(i, numeral) == Line("code", Write(i, numeral, ""), "", 0, i, "")
JumpTo(target) ==
    LET i == Instr("JALR", FALSE, <<5, 0, 0>>, 0)
    IN  Line("code", Write(i, Decimal(0), target), "", 0, i, target)
Labelled(label, l) ==
    [l EXCEPT !.label = label, !.text = <<WithColon(NameWord(label))>> \o @]
Commented(l) == [l EXCEPT !.text = @ \o <<Mark("#"), NameWord("comment"), Mark("$")>>]

AddLine == Code(Instr("ADD", FALSE, <<5, 6, 7>>, 0))
HaltLine == Code(HaltCode)

-----------------------------------------------------------------------------
(* What a file means.                                                      *)

CodeBefore(lines, k) == Cardinality({j \in 1 .. k - 1 : lines[j].kind = "code"})

\* A second declaration is a mistake of the line it is on.
Mistakes(lines) ==
    {k \in DOMAIN lines :
        \/ lines[k].kind = "mistake"
        \/ \E j \in 1 .. k - 1 : \/ lines[k].label # "" /\ lines[j].label = lines[k].label
                                 \/ lines[k].kind \in {"blocks", "warps"}
                                        /\ lines[j].kind = lines[k].kind}

Labels(lines) ==
    [l \in {lines[k].label : k \in DOMAIN lines} \ {""} |->
        CodeBefore(lines, CHOOSE k \in DOMAIN lines :
            lines[k].label = l /\ \A j \in 1 .. k - 1 : lines[j].label # l)]

LastNumber(lines, kind) ==
    LET given == {k \in DOMAIN lines : lines[k].kind = kind}
    IN  IF given = {} THEN 1 ELSE lines[Max(given)].number

FieldWidth(i) == CASE i.name \in UpperNames -> 20 [] i.name = "JAL" -> 21 [] OTHER -> 12

Encodable(i) == {i.rd, i.rs1, i.rs2} \subseteq 0 .. 31 /\ i.imm \in 0 .. 2^FieldWidth(i) - 1

\* A data line: its text, whether it is a record, and which.
Datum(text, ok, address, value) == [text |-> text, ok |-> ok, address |-> address, value |-> value]

DataOf(lines) ==
    [a \in {lines[k].address : k \in DOMAIN lines} |->
        lines[Max({k \in DOMAIN lines : lines[k].address = a})].value]

NoFile == [found |-> FALSE, lines |-> <<>>]
File(lines) == [found |-> TRUE, lines |-> [k \in DOMAIN lines |-> lines[k].text]]

\* dataLines is a sequence of at most one data file.
MainInput(lines, dataFiles) ==
    LET labels == Labels(lines)
        code == SelectSeq(lines, LAMBDA l : l.kind = "code")
        records == IF dataFiles = <<>> THEN <<>> ELSE dataFiles[1]
        declared(k) == code[k].target \in DOMAIN labels \union {""}
        meantCode(k) == IF code[k].target \in DOMAIN labels
                        THEN [code[k].code EXCEPT !.imm = labels[code[k].target]]
                        ELSE code[k].code
    IN  [host |-> "main", requests |-> <<>>,
         files |-> <<File(lines)>> \o [k \in DOMAIN dataFiles |-> File(dataFiles[k])],
         meant |->
            [mistakes |-> Mistakes(lines), labels |-> labels,
             program |-> [k \in DOMAIN code |-> meantCode(k)],
             blocks |-> LastNumber(lines, "blocks"), warps |-> LastNumber(lines, "warps"),
             data |-> DataOf(records),
             wellFormed |-> /\ Mistakes(lines) = {}
                            /\ \A k \in DOMAIN code : declared(k) /\ Encodable(meantCode(k))
                            /\ \A k \in DOMAIN records : records[k].ok]]

BadCommandLine(files) ==
    [MainInput(<<>>, <<>>) EXCEPT !.files = files, !.meant.wellFormed = FALSE]

TestInput(requests) ==
    LET code(k) == requests[k].code
        scalar(k) == LET c == requests[k].conversions IN c # <<>> /\ c[Len(c)] = "make_scalar"
        fits(i) == Encodable(i) /\ (i.name \in ShiftNames => i.imm < 32)
    IN  [host |-> "test", files |-> <<>>, requests |-> requests,
         meant |-> [MainInput(<<>>, <<>>).meant EXCEPT
            !.program = [k \in DOMAIN requests |-> [code(k) EXCEPT !.scalar = scalar(k) \/ @]],
            !.wellFormed = \A k \in DOMAIN requests : code(k).name \in BranchOps \/ fits(code(k))]]

-----------------------------------------------------------------------------
(* One instruction at a time: every mnemonic, registers with no, some and  *)
(* all bits set, immediates at both ends of every width.                   *)

TwoFormNames ==
    ImmediateOps \union RegisterOps \union LoadNames \union StoreNames \union UpperNames
ImmediateNames == Names \ (RegisterOps \union BranchOps \union {"SX_SLT", "HALT"})

Triples == {<<0, 0, 0>>, <<9, 31, 0>>, <<31, 9, 31>>}
Immediates == {0, 1, 31, 32, 2046, 2048, 4095, 4096, 524288, 1048575, 1048576, 2097150, 2097152}

\* The operands that a mnemonic has not are 0.
Singles(names, scalars, triples, immediates) ==
    LET only(name, t) ==
            CASE name \in RegisterOps \union {"SX_SLT"} -> t
              [] name \in StoreNames -> <<0, t[2], t[3]>>
              [] name \in UpperNames \union {"JAL"} -> <<t[1], 0, 0>>
              [] name \in {"HALT"} \union BranchOps -> <<0, 0, 0>>
              [] OTHER -> <<t[1], t[2], 0>>
    IN  {Instr(n, s /\ n \in TwoFormNames, only(n, t), IF n \in ImmediateNames THEN i ELSE 0) :
            n \in names, s \in scalars, t \in triples, i \in immediates}

SingleTests ==
    {TestInput(<<[code |-> i, conversions |-> <<>>]>>) : i \in Singles(Names, {FALSE}, Triples, Immediates)}
    \union {TestInput(<<[code |-> i, conversions |-> c]>>) :
                i \in Singles(TwoFormNames, {FALSE}, {<<9, 31, 0>>}, {0, 2048}),
                c \in {<<"make_scalar">>, <<"make_scalar", "make_vector">>}}

SinglePrograms ==
    {MainInput(<<Code(i)>>, <<>>) :
        i \in Singles(Names \ BranchOps, {FALSE}, Triples, Immediates \union {-1})
              \union Singles(Names \ BranchOps, BOOLEAN, {<<9, 31, 0>>, <<32, 1, 2>>, <<1, 2, 32>>}, {7})}

-----------------------------------------------------------------------------
(* Files.                                                                  *)

AddImmediate(n) == Instr("ADDI", FALSE, <<5, 6, 0>>, n)
MnemonicOf(name) == Mnemonic(name, FALSE)

\* All files of three of these lines.
Lines ==
    {Blank(<<>>), Commented(Blank(<<>>)), LabelLine("a"), Labelled("a", AddLine), Labelled("b", HaltLine),
     Commented(JumpTo("a")), JumpTo("b"), DirectiveLine("blocks", 2), DirectiveLine("warps", 3),
     Mistake(<<Mark("$")>>)}

ThreeLines == {MainInput(<<l1, l2, l3>>, <<>>) : l1 \in Lines, l2 \in Lines, l3 \in Lines}

x(n) == Reg("x", n)
s(n) == Reg("s", n)

\* Ways to get a line wrong.
WrongLines ==
    {Mistake(t) : t \in {
        <<Directive("blocks")>>, <<Directive("threads"), Decimal(1)>>, <<Directive(""), Decimal(1)>>,
        <<Directive("blocks"), Decimal(0)>>, <<Directive("warps"), Decimal(-42)>>,
        <<Directive("blocks"), Decimal(2), Decimal(3)>>,
        <<WithColon(NameWord("a")), Directive("blocks"), Decimal(2)>>,
        <<NameWord("addd"), x(5), Comma, x(6), Comma, x(7)>>,
        <<MnemonicOf("BEQ"), s(1), Comma, s(2), Comma, NameWord("a")>>,
        <<MnemonicOf("ADD"), x(5), Comma, x(6), Comma, s(7)>>,
        <<MnemonicOf("ADD"), x(5), Comma, x(6)>>,
        <<MnemonicOf("ADD"), x(5), x(6), x(7)>>,
        <<MnemonicOf("ADD"), x(5), Comma, x(6), Comma, x(7), Comma>>,
        <<Mnemonic("ADDI", TRUE), x(5), Comma, x(6), Comma, Decimal(1)>>,
        <<MnemonicOf("ADDI"), x(5), Comma, x(6), Comma, x(7)>>,
        <<MnemonicOf("SX_SLT"), x(5), Comma, x(6), Comma, x(7)>>,
        <<MnemonicOf("SX_SLTI"), s(5), Comma, s(6), Comma, Decimal(1)>>,
        <<MnemonicOf("SW"), s(5), Comma, Decimal(0), Mark("("), x(6), Mark(")")>>,
        <<MnemonicOf("LW"), x(5), Comma, Decimal(0), Comma, x(6)>>,
        <<MnemonicOf("JAL"), s(5), Comma, NameWord("a")>>,
        <<MnemonicOf("JALR"), s(5), Comma, Reg("s", 1)>>,
        <<MnemonicOf("HALT"), Decimal(0)>>,
        <<WithColon(Mnemonic("ADDI", TRUE)), MnemonicOf("HALT")>>,
        <<MnemonicOf("HALT"), Mark("$")>>}}

\* Numbers that parse_num refuses: no digits, digits of another base, and
\* numbers too large whose digits are then read as something else.
WrongNumbers ==
    {Numeral(FALSE, "0x", <<>>), Numeral(TRUE, "", <<>>), Numeral(FALSE, "0b", <<1, 2>>),
     Numeral(FALSE, "", <<0, 8>>), Numeral(FALSE, "", <<1, 10, 2>>), Numeral(FALSE, "0b", <<1, 9, 0, 10>>),
     Numeral(FALSE, "0x", <<15, 15, 15, 15, 15, 15, 15, 15>>),
     Numeral(FALSE, "0x", <<8, 0, 0, 0, 0, 0, 0, 0>>)}

TooLargeDecimal == Numeral(FALSE, "", <<2, 1, 4, 7, 4, 8, 3, 6, 4, 8>>)

WithNumber(numeral) ==
    Mistake(<<MnemonicOf("ADDI"), x(5), Comma, x(6), Comma, numeral>>)

\* A label that looks like a register can be declared, but not jumped to.
RegisterLike == WordLexeme("s1_loop", "", FALSE, Register("s", 1), TRUE)
RegisterLikeLabel ==
    [HaltLine EXCEPT !.label = "s1_loop", !.text = <<WithColon(RegisterLike)>> \o @]

WrongPrograms ==
    {MainInput(<<RegisterLikeLabel>>, <<>>),
     MainInput(<<RegisterLikeLabel, Mistake(<<MnemonicOf("JALR"), s(5), Comma, RegisterLike>>)>>, <<>>)}
    \union
    {MainInput(<<HaltLine, l, HaltLine>>, <<>>) :
        l \in WrongLines \union {WithNumber(n) : n \in WrongNumbers}}

\* The same number in every base, and the example of README.md.
Spellings ==
    {MainInput(<<CodeAs(AddImmediate(42), n)>>, <<>>) :
        n \in {Decimal(42), Hex(42), Octal(42), Numeral(FALSE, "0b", <<1, 0, 1, 0, 1, 0>>)}}

ReadmeExample ==
    <<DirectiveLine("blocks", 32), DirectiveLine("warps", 12), Blank(<<>>),
      Commented(Blank(<<>>)), Commented(JumpTo("label")),
      Labelled("label", Code(Instr("ADDI", FALSE, <<5, 1, 0>>, 1))),
      Code(Instr("SX_SLTI", FALSE, <<1, 5, 0>>, 5)),
      Code(Instr("SW", FALSE, <<0, 1, 5>>, 0)), HaltLine>>

DataFiles ==
    LET two == Datum(<<Decimal(2), Colon, Hex(31)>>, TRUE, 2, 31)
        again == Datum(<<Octal(2), Colon, Decimal(-7), NameWord("seven")>>, TRUE, 2, -7)
    IN  {<<two, again>>, <<again, two>>, <<two, Datum(<<>>, FALSE, 0, 0)>>, <<>>,
         <<Datum(<<Decimal(1)>>, FALSE, 0, 0)>>,
         <<Datum(<<NameWord("one"), Colon, Decimal(1)>>, FALSE, 0, 0)>>,
         <<Datum(<<Decimal(1), Colon>>, FALSE, 0, 0)>>,
         <<Datum(<<Decimal(1), Colon, TooLargeDecimal>>, FALSE, 0, 0)>>}

WithData ==
    {MainInput(<<HaltLine>>, <<d>>) : d \in DataFiles} \union {MainInput(ReadmeExample, <<>>)}

CommandLines ==
    {BadCommandLine(f) : f \in {<<>>, <<NoFile>>, <<File(<<>>), NoFile>>, <<NoFile, File(<<>>)>>,
                                <<File(<<>>), File(<<>>), File(<<>>)>>}}

Endless == {MainInput(<<HaltLine, WithNumber(TooLargeDecimal)>>, <<>>)}

LongTest == TestInput([k \in 1 .. 3 |-> [code |-> AddImmediate(k), conversions |-> <<>>]])

AllInputs == SingleTests \union SinglePrograms \union ThreeLines \union WrongPrograms \union Spellings
                \union WithData \union CommandLines \union {LongTest} \union Endless
=============================================================================
