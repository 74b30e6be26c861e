------------------------------- MODULE Lexer -------------------------------
(***************************************************************************)
(* Words, numbers and tokens of a line of assembly text                    *)
(* (src/sim/aslib/lexer.cpp, parser_utils.cpp), and of a data file, whose  *)
(* numbers are read by the same function.                                  *)
(*                                                                         *)
(* A line is a sequence of lexemes: the longest runs of characters that    *)
(* the lexer looks at together, white space left out.                      *)
(*   a word      what chop_while takes: its text, and what the functions   *)
(*               that classify a text say of this one;                     *)
(*   a numeral   a sign, a radix prefix and the run of digits, hexadecimal *)
(*               ones included, that parse_num looks at; without a prefix  *)
(*               a run that begins with 0 is octal;                        *)
(*   a directive the text after a ".";                                     *)
(*   a mark      any other character.                                      *)
(***************************************************************************)
EXTENDS Integers, Sequences, SequencesExt

NoRegister == [file |-> "none", number |-> 0]
Register(file, number) == [file |-> file, number |-> number]

\* The text is a mnemonic, or "" if str_to_mnemonic finds none; it has the
\* prefix "s."; str_to_reg makes it this register; all characters are label
\* characters; and a ":" follows.
WordLexeme(text, mnemonic, prefix, register, plain) ==
    [kind |-> "word", text |-> text, mnemonic |-> mnemonic, prefix |-> prefix,
     register |-> register, plain |-> plain, colon |-> FALSE]

NameWord(text) == WordLexeme(text, "", FALSE, NoRegister, TRUE)
WithColon(word) == [word EXCEPT !.colon = TRUE]

Numeral(negative, radix, digits) ==
    [kind |-> "numeral", negative |-> negative, radix |-> radix, digits |-> digits]
Directive(text) == [kind |-> "directive", text |-> text]
Mark(char) == [kind |-> "mark", char |-> char]

-----------------------------------------------------------------------------
(* parse_num.  The result has the value, if there is one, and what is left *)
(* of the text for the next call.                                          *)

MaxWord == 2147483647
TooLarge == -1
NoNumber == [ok |-> FALSE, value |-> 0]

Base(n) ==
    CASE n.radix = "0x" -> 16
      [] n.radix = "0b" -> 2
      [] OTHER -> IF Len(n.digits) > 1 /\ n.digits[1] = 0 THEN 8 ELSE 10

\* std::from_chars into an int32_t.
Magnitude(digits, base) ==
    FoldLeft(LAMBDA v, d : IF v = TooLarge \/ v > (MaxWord - d) \div base
                           THEN TooLarge ELSE v * base + d, 0, digits)

\* The digits that are left begin a word if the first is a letter.
Leftover(digits) ==
    CASE digits = <<>> -> <<>>
      [] digits # <<>> /\ digits[1] < 10 -> <<Numeral(FALSE, "", digits)>>
      [] OTHER -> <<NameWord("letters")>>

\* What is left when the digit at position first is none of the base.
AfterBadDigit_All(digits, first) == digits
AfterBadDigit(digits, first) == SubSeq(digits, first, Len(digits))

\* A number that is too large is not consumed, only its sign and prefix are.
ParseNum(n) ==
    LET base == Base(n)
        bad == {k \in DOMAIN n.digits : n.digits[k] >= base}
        first == CHOOSE k \in bad : \A j \in bad : k <= j
        value == Magnitude(n.digits, base)
        Fails(rest) == [ok |-> FALSE, value |-> 0, rest |-> Leftover(rest)]
    IN  CASE bad # {} -> Fails(AfterBadDigit(n.digits, first))
          [] bad = {} /\ n.digits = <<>> -> Fails(<<>>)
          [] bad = {} /\ n.digits # <<>> /\ value = TooLarge -> Fails(n.digits)
          [] OTHER -> [ok |-> TRUE, value |-> IF n.negative THEN -value ELSE value,
                       rest |-> <<>>]

\* A text that does not begin with a numeral holds no number; what follows
\* the numeral is not looked at.
NumberIn(text) ==
    IF text # <<>> /\ Head(text).kind = "numeral"
    THEN LET n == ParseNum(Head(text)) IN [ok |-> n.ok, value |-> n.value]
    ELSE NoNumber

-----------------------------------------------------------------------------
(* next_token.                                                             *)

Token(type) == [type |-> type]
NoToken == Token("none")
ImmediateToken(value) == [type |-> "Immediate", value |-> value]
RegisterToken(register) == [type |-> "Register", register |-> register]
MnemonicToken(name, scalar) == [type |-> "Mnemonic", name |-> name, scalar |-> scalar]
LabelToken(name) == [type |-> "Label", name |-> name]
LabelRefToken(name) == [type |-> "LabelRef", name |-> name]

\* Registers are tried before label references: a label that looks like a
\* register can be declared but not be referred to.
ParseKeyword(w) ==
    LET isMnemonic == ~w.colon /\ w.mnemonic # ""
        isLabel == w.colon /\ w.plain
        isRegister == ~isLabel /\ w.register # NoRegister
    IN  CASE isMnemonic -> MnemonicToken(w.mnemonic, w.prefix)
          [] isLabel -> LabelToken(w.text)
          [] isRegister -> RegisterToken(w.register)
          [] ~(isMnemonic \/ isLabel \/ isRegister) ->
                IF w.plain THEN LabelRefToken(w.text) ELSE NoToken

ParseDirective(d) ==
    CASE d.text = "blocks" -> Token("BlocksDirective")
      [] d.text = "warps" -> Token("WarpsDirective")
      [] OTHER -> NoToken

ParseMark(m) ==
    CASE m.char = "(" -> Token("Lparen")
      [] m.char = ")" -> Token("Rparen")
      [] m.char = "," -> Token("Comma")
      [] OTHER -> NoToken

\* The rest of the line is a comment, or empty.
AtEnd(text) == text # <<>> => Head(text) = Mark("#")

\* One token, or the error NoToken, and the rest of the text.
NextToken(text) ==
    LET first == Head(text)
        number == ParseNum(first)
    IN  IF first.kind = "numeral"
        THEN [token |-> IF number.ok THEN ImmediateToken(number.value) ELSE NoToken,
              rest |-> number.rest \o Tail(text)]
        ELSE [token |-> CASE first.kind = "word" -> ParseKeyword(first)
                          [] first.kind = "directive" -> ParseDirective(first)
                          [] first.kind = "mark" -> ParseMark(first),
              rest |-> Tail(text)]
=============================================================================
