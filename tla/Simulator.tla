----------------------------- MODULE Simulator -----------------------------
(***************************************************************************)
(* A host program from its start to its exit.  It is the simulator         *)
(* (src/sim/main.cpp), which reads a data file, assembles a program        *)
(* (parse_program and translate_to_binary in src/sim/aslib), loads both,   *)
(* launches the kernel and runs the clock; or one of the tests of          *)
(* src/test/gpu, which builds its program with the constructors of         *)
(* src/sim/simlib/instructions.hpp instead.  A step is a data record, a    *)
(* token, a line, an instruction or a clock cycle.                         *)
(*                                                                         *)
(* The GPU does as it likes behind its ports: it fetches from any address  *)
(* and may be done after any cycle.  One channel of the instruction memory *)
(* stands for all; the data memory's are in DataMemorySystem.tla.          *)
(***************************************************************************)
EXTENDS Parser

CONSTANTS
    Inputs,             \* see below
    MaxCycles,          \* the limit given to simulate
    Nothing             \* the address on a channel without a request

(* An input has                                                            *)
(*   host      "main" or "test";                                           *)
(*   files     the files on the command line, program first: whether each  *)
(*             is found, and its lines, sequences of lexemes;              *)
(*   requests  of a test, the instructions it pushes, and the conversions  *)
(*             (make_scalar, make_vector) each then goes through;          *)
(*   meant     what its author means by it, which the program cannot see:  *)
(*             the lines in error, the instructions, labels, blocks, warps *)
(*             and data, and whether all of it can be encoded.             *)

ASSUME SimulatorAssumption ==
    /\ MaxCycles \in Nat
    /\ \A i \in Inputs : i.host \in {"main", "test"}

\* A test means its instruction to have the prefix if the last conversion sets
\* it.  What has no other form is not converted.
Requested(request) ==
    LET conversions == request.conversions
    IN  [request.code EXCEPT
            !.scalar = conversions # <<>> /\ conversions[Len(conversions)] = "make_scalar"]

RequestRecords ==
    {r \in [code : InstructionRecords, conversions : Seq({"make_scalar", "make_vector"})] :
        /\ ~r.code.scalar
        /\ r.code.name \in ScalarOps \union VectorScalarOps => r.conversions = <<>>}

ASSUME InputsAssumption ==
    \A i \in Inputs :
        /\ i.meant.program \in Seq(InstructionRecords)
        /\ i.host = "test" =>
               /\ i.requests \in Seq(RequestRecords)
               /\ i.meant.program = [k \in DOMAIN i.requests |-> Requested(i.requests[k])]

VARIABLES
    input,
    phase,              \* what the host program is doing
    status,             \* its exit status
    line,               \* line_nr, or the number of records or requests done
    rest,               \* Lexer::source of this line
    tokens,             \* collect_tokens' result so far
    errors,             \* the lines of parse_program's errors
    program,            \* instructions, label_mappings, block_count, warp_count
    machine_code,
    data,               \* the data memory's container
    memory,             \* the instruction memory's
    gpu                 \* ports of the GPU, and the cycles it has run; read_data
                        \* answers the request for the address answered

vars == <<input, phase, status, line, rest, tokens, errors, program,
          machine_code, data, memory, gpu>>

reading == <<line, rest, tokens>>
assembling == <<errors, program>>
machine == <<data, memory, gpu>>

EmptyMap == [k \in {} |-> 0]
Update(f, k, v) == [j \in DOMAIN f \union {k} |-> IF j = k THEN v ELSE f[j]]

\* Program.  A number of blocks or warps that no directive gave is 0 here.
EmptyProgram == [instructions |-> <<>>, labels |-> EmptyMap, blocks |-> 0, warps |-> 0]

Init ==
    /\ input \in Inputs
    /\ phase = "start" /\ status = 0
    /\ line = 0 /\ rest = <<>> /\ tokens = <<>>
    /\ errors = {}
    /\ program = EmptyProgram
    /\ machine_code = <<>>
    /\ data = EmptyMap
    /\ memory = EmptyMap
    /\ gpu = [blocks |-> 0, warps |-> 0, cycle |-> 0, execution_done |-> FALSE,
              read_address |-> Nothing, read_ready |-> FALSE, read_data |-> {},
              answered |-> Nothing]

Exit(code) == phase' = "exited" /\ status' = code
Abort == phase' = "aborted" /\ UNCHANGED status
GoOn(next) == phase' = next /\ UNCHANGED status

-----------------------------------------------------------------------------
(* The command line and the data file.                                     *)

Source == input.files[1]
DataFile == input.files[2]

Start ==
    /\ phase = "start"
    /\ CASE input.host = "test" -> GoOn("building")
         [] input.host = "main" /\ Len(input.files) \notin {1, 2} -> Exit(1)
         [] input.host = "main" /\ Len(input.files) = 1 -> GoOn("opening")
         [] input.host = "main" /\ Len(input.files) = 2 ->
                IF DataFile.found THEN GoOn("data") ELSE Exit(1)
    /\ UNCHANGED <<input, reading, assembling, machine_code, machine>>

\* data_reader's parse_line: two numbers around the first ":".
Record(text) ==
    LET colons == {k \in DOMAIN text : text[k] = Mark(":")}
        first == CHOOSE k \in colons : \A j \in colons : k <= j
        address == NumberIn(SubSeq(text, 1, first - 1))
        value == NumberIn(SubSeq(text, first + 1, Len(text)))
    IN  IF colons # {} /\ address.ok /\ value.ok
        THEN [ok |-> TRUE, address |-> address.value, value |-> value.value]
        ELSE [ok |-> FALSE, address |-> 0, value |-> 0]

\* A later record for an address replaces an earlier one.
Store_FirstWins(container, record) ==
    IF record.address \in DOMAIN container THEN container
    ELSE Update(container, record.address, record.value)

Store(container, record) == Update(container, record.address, record.value)

ReadDataLine ==
    /\ phase = "data" /\ line < Len(DataFile.lines)
    /\ LET record == Record(DataFile.lines[line + 1])
       IN  IF record.ok
           THEN /\ data' = Store(data, record)
                /\ line' = line + 1
                /\ UNCHANGED <<phase, status>>
           ELSE Exit(1) /\ UNCHANGED <<data, line>>
    /\ UNCHANGED <<input, rest, tokens, assembling, machine_code, memory, gpu>>

DataRead ==
    /\ phase = "data" /\ line = Len(DataFile.lines)
    /\ GoOn("opening") /\ line' = 0
    /\ UNCHANGED <<input, rest, tokens, assembling, machine_code, machine>>

-----------------------------------------------------------------------------
(* parse_program.                                                          *)

OpenSource ==
    /\ phase = "opening"
    /\ IF Source.found THEN GoOn("lines") ELSE Exit(1)
    /\ UNCHANGED <<input, reading, assembling, machine_code, machine>>

NextLine ==
    /\ phase = "lines" /\ line < Len(Source.lines)
    /\ line' = line + 1
    /\ rest' = Source.lines[line + 1]
    /\ tokens' = <<>>
    /\ GoOn("lexing")
    /\ UNCHANGED <<input, assembling, machine_code, machine>>

\* The loop of collect_tokens.  An error does not end it: a number that is
\* not consumed is met again.
Lex ==
    /\ phase = "lexing" /\ ~AtEnd(rest)
    /\ LET next == NextToken(rest)
       IN  /\ rest' = next.rest
           /\ IF next.token = NoToken
              THEN errors' = errors \union {line} /\ UNCHANGED tokens
              ELSE tokens' = Append(tokens, next.token) /\ UNCHANGED errors
    /\ UNCHANGED <<input, phase, status, line, program, machine_code, machine>>

\* add_label: a label names the instruction that comes next.
LabelsAfter_Late(parsed) ==
    IF parsed.label = "" \/ parsed.label \in DOMAIN program.labels THEN program.labels
    ELSE Update(program.labels, parsed.label,
                Len(program.instructions) + IF parsed.kind = "Instruction" THEN 1 ELSE 0)

LabelsAfter(parsed) ==
    IF parsed.label = "" \/ parsed.label \in DOMAIN program.labels THEN program.labels
    ELSE Update(program.labels, parsed.label, Len(program.instructions))

\* A second declaration of a label, of the blocks or of the warps.
Duplicate(parsed) ==
    \/ parsed.label \in DOMAIN program.labels
    \/ parsed.kind = "BlocksDirective" /\ program.blocks # 0
    \/ parsed.kind = "WarpsDirective" /\ program.warps # 0

EndOfLine ==
    /\ phase = "lexing" /\ AtEnd(rest)
    /\ IF tokens = <<>>
       THEN UNCHANGED <<errors, program>>
       ELSE LET parsed == ParseLine(tokens)
            IN  IF parsed.kind = "Refused"
                THEN errors' = errors \union {line} /\ UNCHANGED program
                ELSE /\ errors' = errors \union (IF Duplicate(parsed) THEN {line} ELSE {})
                     /\ program' =
                          [instructions |->
                               IF parsed.kind = "Instruction"
                               THEN Append(program.instructions,
                                           [code |-> parsed.instruction, target |-> parsed.target])
                               ELSE program.instructions,
                           labels |-> LabelsAfter(parsed),
                           blocks |-> IF parsed.kind = "BlocksDirective"
                                      THEN parsed.number ELSE program.blocks,
                           warps |-> IF parsed.kind = "WarpsDirective"
                                     THEN parsed.number ELSE program.warps]
    /\ rest' = <<>>
    /\ GoOn("lines")
    /\ UNCHANGED <<input, line, tokens, machine_code, machine>>

\* print_error ends the program with an assertion, at the first error.
AllParsed ==
    /\ phase = "lines" /\ line = Len(Source.lines)
    /\ IF errors = {} THEN GoOn("translating") ELSE Abort
    /\ UNCHANGED <<input, reading, assembling, machine_code, machine>>

-----------------------------------------------------------------------------
(* translate_to_binary.                                                    *)

\* The instruction with the address its label stands for.
Resolve_Unresolved(i) == i.code
Resolve(i) ==
    IF i.target = "" THEN i.code ELSE [i.code EXCEPT !.imm = program.labels[i.target]]

\* A label that is not declared throws out of .at(); the rest are assertions.
Translate ==
    /\ phase = "translating" /\ Len(machine_code) < Len(program.instructions)
    /\ LET i == program.instructions[Len(machine_code) + 1]
           form == EmitterForm(i.code.name)
       IN  IF /\ i.target \in DOMAIN program.labels \union {""}
              /\ Accepts(form, Resolve(i))
           THEN /\ machine_code' = Append(machine_code, Build(form, Resolve(i)))
                /\ UNCHANGED <<phase, status>>
           ELSE Abort /\ UNCHANGED machine_code
    /\ UNCHANGED <<input, reading, assembling, machine>>

-----------------------------------------------------------------------------
(* The program that a test builds: constructors, and push_instruction.     *)

Convert(w, conversions) ==
    LET after[k \in 0 .. Len(conversions)] ==
            IF k = 0 THEN w
            ELSE IF conversions[k] = "make_scalar" THEN MakeScalar(after[k - 1])
                 ELSE MakeVector(after[k - 1])
    IN  after[Len(conversions)]

PushInstruction ==
    /\ phase = "building" /\ line < Len(input.requests)
    /\ LET request == input.requests[line + 1]
           form == Constructor(request.code.name)
       IN  IF Accepts(form, request.code)
           THEN /\ memory' = Update(memory, line, Convert(Build(form, request.code), request.conversions))
                /\ line' = line + 1
                /\ UNCHANGED <<phase, status>>
           ELSE Abort /\ UNCHANGED <<memory, line>>
    /\ UNCHANGED <<input, rest, tokens, assembling, machine_code, data, gpu>>

-----------------------------------------------------------------------------
(* Launch and simulation.                                                  *)

OrOne(n) == IF n = 0 THEN 1 ELSE n

\* Loading the program, and set_kernel_config.  Tests push their programs,
\* and launch one block of one warp.
Launch ==
    /\ \/ /\ phase = "translating" /\ Len(machine_code) = Len(program.instructions)
          /\ memory' = [a \in 0 .. Len(machine_code) - 1 |-> machine_code[a + 1]]
       \/ /\ phase = "building" /\ line = Len(input.requests)
          /\ UNCHANGED memory
    /\ gpu' = [gpu EXCEPT !.blocks = OrOne(program.blocks), !.warps = OrOne(program.warps)]
    /\ GoOn("simulating")
    /\ UNCHANGED <<input, reading, assembling, machine_code, data>>

\* InstructionMemory::process.  A word that was never written is 0, as is
\* what lies beyond the last address.
Fetch(address) == IF address \in DOMAIN memory THEN memory[address] ELSE {}

\* One turn of the loop in simulate: the memories answer, the clock ticks.
Cycle ==
    /\ phase = "simulating" /\ gpu.cycle < MaxCycles /\ ~gpu.execution_done
    /\ \E address \in {Nothing} \union 0 .. Cardinality(DOMAIN memory), done \in BOOLEAN :
          gpu' = [gpu EXCEPT
                    !.cycle = @ + 1,
                    !.read_ready = gpu.read_address # Nothing,
                    !.read_data = IF gpu.read_address = Nothing THEN @ ELSE Fetch(gpu.read_address),
                    !.answered = IF gpu.read_address = Nothing THEN @ ELSE gpu.read_address,
                    !.read_address = address,
                    !.execution_done = done]
    /\ UNCHANGED <<input, phase, status, reading, assembling, machine_code, data, memory>>

\* A kernel that is done after the last cycle is not noticed any more.
ExitStatus_Unchecked == 0
ExitStatus == IF gpu.cycle < MaxCycles THEN 0 ELSE 1

Finish ==
    /\ phase = "simulating"
    /\ gpu.execution_done \/ gpu.cycle = MaxCycles
    /\ Exit(ExitStatus)
    /\ UNCHANGED <<input, reading, assembling, machine_code, machine>>

Next ==
    \/ Start \/ ReadDataLine \/ DataRead
    \/ OpenSource \/ NextLine \/ Lex \/ EndOfLine \/ AllParsed
    \/ Translate \/ PushInstruction
    \/ Launch \/ Cycle \/ Finish

\* The host program is sequential code that nothing stops.
Spec == Init /\ [][Next]_vars /\ WF_vars(Next)

-----------------------------------------------------------------------------
(* What is right.                                                          *)

Phases == {"start", "data", "opening", "lines", "lexing", "translating", "building",
           "simulating", "exited", "aborted"}

\* Typing: lines in range, words of 32 bits, numbers of a directive positive.
TypeOK ==
    /\ phase \in Phases /\ status \in {0, 1}
    /\ line \in Nat /\ errors \subseteq 1 .. line
    /\ program.blocks \in Nat /\ program.warps \in Nat
    /\ \A l \in DOMAIN program.labels : program.labels[l] \in 0 .. Len(program.instructions)
    /\ \A k \in DOMAIN machine_code : machine_code[k] \subseteq BitPositions
    /\ \A a \in DOMAIN memory : memory[a] \subseteq BitPositions
    /\ gpu.cycle \in 0 .. MaxCycles /\ gpu.read_data \subseteq BitPositions

SourceRead ==
    /\ input.host = "main" /\ phase \in {"lines", "translating", "simulating"}
    /\ line = Len(Source.lines)

Failed == phase = "aborted" \/ (phase = "exited" /\ gpu.cycle = 0)

\* When parse_program has read the file, its errors name exactly the lines
\* that are wrong, be it by themselves or because an earlier line has declared
\* the same: no mistake is overlooked and no line is blamed for another's.
ErrorsAreTheMistakes == SourceRead => errors = input.meant.mistakes

\* Every label of a correct file is mapped to the number of instructions
\* before it, whether it stands alone, before its instruction or at the end,
\* and whatever comments, empty lines and directives lie between.
LabelsNameInstructions ==
    SourceRead /\ errors = {} => program.labels = input.meant.labels

\* The instructions of a file that is run are those that its author wrote, in
\* their order and complete: the mnemonic and its prefix, each operand in the
\* register or immediate it belongs to, and for a label the address of the
\* instruction after it.
ProgramIsAsWritten ==
    phase = "simulating" /\ input.host = "main" =>
        input.meant.program =
            [k \in DOMAIN program.instructions |-> Resolve(program.instructions[k])]

\* README.md: "The program will fail if the assembly code contained in the
\* input file is ill-formed."  The kernel is launched if the program and the
\* data are well-formed and can be encoded, and only then.
RunsWhatIsWellFormed ==
    /\ phase = "simulating" => input.meant.wellFormed
    /\ Failed /\ MaxCycles > 0 => ~input.meant.wellFormed

\* The kernel configuration and the data memory at the launch are what the
\* directives, wherever they stand, and the last records for each address say.
LaunchIsAsWritten ==
    phase = "simulating" =>
        /\ gpu.blocks = input.meant.blocks /\ gpu.warps = input.meant.warps
        /\ data = input.meant.data

\* An instruction's address in the program, and the word the GPU gets when it
\* fetches there: the decoder reads from it the operation, registers, signed
\* immediate and jump target that the line or the constructor was given, for
\* all the encoding can carry.  The emitter drops the prefix "s.".
WordsDecodeAsWritten ==
    phase = "simulating" /\ gpu.read_ready /\ gpu.answered < Len(input.meant.program) =>
        LET i == input.meant.program[gpu.answered + 1]
        IN  Carried(i) /\ ~(input.host = "main" /\ i.scalar /\ i.name \notin ScalarOps)
                => DecodesAs(gpu.read_data, i)

\* The exit status is 0 only after execution_done was raised in time, and 1
\* after a launch only when every cycle has been run.
StatusTellsTheTruth ==
    phase = "exited" =>
        /\ status = 0 => gpu.execution_done /\ gpu.cycle < MaxCycles
        /\ status = 1 /\ gpu.cycle > 0 => gpu.cycle = MaxCycles

Ended == phase \in {"exited", "aborted"}

\* Every number in the source fits a word.
Readable ==
    input.host = "main" /\ input.files # <<>> =>
        \A k \in DOMAIN Source.lines : \A j \in DOMAIN Source.lines[k] :
            LET l == Source.lines[k][j]
            IN  l.kind = "numeral" => Magnitude(l.digits, Base(l)) # TooLarge

\* The host program comes to an end, whatever errors its files have and
\* whatever the GPU does, if no number in the source is too large: every
\* error leaves collect_tokens with less text than before.
ReadableRunsEnd == Readable => <>Ended

\* The same for every source.  README.md: "The program will fail if the
\* assembly code contained in the input file is ill-formed."
EveryRunEnds == <>Ended

\* README.md: "In order to turn the instruction from vector to scalar you can
\* add the `s.` prefix."
PrefixMakesScalar ==
    phase = "simulating" /\ gpu.read_ready /\ gpu.answered < Len(input.meant.program) =>
        LET i == input.meant.program[gpu.answered + 1]
        IN  input.host = "main" /\ i.scalar /\ Carried(i) => DecodesAs(gpu.read_data, i)

\* README.md gives loads and stores the syntax "<mnemonic> <rd>, <imm>(<rs1>)":
\* a vector store is decoded with the register and the offset it was given.
StoresKeepTheirOperands ==
    phase = "simulating" /\ gpu.read_ready /\ gpu.answered < Len(input.meant.program) =>
        LET i == input.meant.program[gpu.answered + 1]
        IN  i.name \in StoreNames /\ ~i.scalar => DecodesAs(gpu.read_data, i)
=============================================================================
