--------------------------- MODULE SimulatorProofs ---------------------------
(***************************************************************************)
(* What a host program's exit status says, for all inputs and any limit    *)
(* on the number of cycles; and that the GPU fetches the words of the      *)
(* instructions meant, whatever a file or a test holds.                    *)
(***************************************************************************)
EXTENDS Simulator, EncodingProofs

\* The clock does not run before the launch, and not beyond the limit; gpu keeps
\* the ports the exit status depends on.
ClockInvariant ==
    /\ input \in Inputs
    /\ {"cycle", "execution_done"} \subseteq DOMAIN gpu
    /\ gpu.cycle \in 0 .. MaxCycles
    /\ phase \notin {"simulating", "exited"} => gpu.cycle = 0 /\ ~gpu.execution_done
    /\ StatusTellsTheTruth

-----------------------------------------------------------------------------
\* Steps before the launch leave the GPU alone and can only exit with an error.
BeforeLaunch ==
    /\ phase \notin {"simulating", "exited"}
    /\ UNCHANGED <<input, gpu>>
    /\ \/ phase' \notin {"simulating", "exited"}
       \/ phase' = "exited" /\ status' = 1

\* Reading, assembling and building are such steps.
LEMMA HostPrepares ==
  ASSUME input \in Inputs,
         Start \/ ReadDataLine \/ DataRead \/ OpenSource \/ NextLine \/ Lex
           \/ EndOfLine \/ AllParsed \/ Translate \/ PushInstruction
  PROVE  BeforeLaunch
<1> USE DEF BeforeLaunch, Exit, Abort, GoOn, machine
<1>1. CASE Start
  <2>1. phase = "start" /\ UNCHANGED <<input, gpu>>
    BY <1>1 DEF Start
  <2>2. \/ phase' \in {"building", "opening", "data"}
        \/ phase' = "exited" /\ status' = 1
    <3>1. CASE input.host = "test"
      BY <1>1, <3>1 DEF Start
    <3>2. CASE input.host = "main"
      <4>1. \/ Len(input.files) \notin {1, 2}
            \/ Len(input.files) = 1
            \/ Len(input.files) = 2
        OBVIOUS
      <4> QED
        BY <1>1, <3>2, <4>1 DEF Start
    <3> QED
      BY <3>1, <3>2, SimulatorAssumption
  <2> QED
    BY <2>1, <2>2
<1>2. CASE ReadDataLine
  BY <1>2 DEF ReadDataLine
<1>3. CASE DataRead
  BY <1>3 DEF DataRead
<1>4. CASE OpenSource
  BY <1>4 DEF OpenSource
<1>5. CASE NextLine
  BY <1>5 DEF NextLine
<1>6. CASE Lex
  BY <1>6 DEF Lex
<1>7. CASE EndOfLine
  BY <1>7 DEF EndOfLine
<1>8. CASE AllParsed
  BY <1>8 DEF AllParsed
<1>9. CASE Translate
  BY <1>9 DEF Translate
<1>10. CASE PushInstruction
  BY <1>10 DEF PushInstruction
<1> QED
  BY <1>1, <1>2, <1>3, <1>4, <1>5, <1>6, <1>7, <1>8, <1>9, <1>10

\* Every step keeps the clock and the status in agreement.
LEMMA StepKeepsClock ==
  ASSUME ClockInvariant, [Next]_vars
  PROVE  ClockInvariant'
<1>1. CASE BeforeLaunch
  BY <1>1 DEF BeforeLaunch, ClockInvariant, StatusTellsTheTruth
<1>2. CASE Launch
  <2>1. phase \in {"translating", "building"} /\ phase' = "simulating" /\ input' = input
    BY <1>2 DEF Launch, GoOn
  <2>2. /\ DOMAIN gpu' = DOMAIN gpu
        /\ gpu'.cycle = gpu.cycle /\ gpu'.execution_done = gpu.execution_done
    BY <1>2 DEF Launch, ClockInvariant
  <2> QED
    BY <2>1, <2>2 DEF ClockInvariant, StatusTellsTheTruth
<1>3. CASE Cycle
  <2>1. phase = "simulating" /\ phase' = "simulating" /\ gpu.cycle < MaxCycles /\ input' = input
    BY <1>3 DEF Cycle
  <2>2. DOMAIN gpu' = DOMAIN gpu /\ gpu'.cycle = gpu.cycle + 1
    BY <1>3 DEF Cycle, ClockInvariant
  <2>3. gpu'.cycle \in 0 .. MaxCycles
    BY <2>1, <2>2, SimulatorAssumption DEF ClockInvariant
  <2> QED
    BY <2>1, <2>2, <2>3 DEF ClockInvariant, StatusTellsTheTruth
<1>4. CASE Finish
  <2>1. /\ gpu.execution_done \/ gpu.cycle = MaxCycles
        /\ phase' = "exited" /\ status' = ExitStatus
        /\ gpu' = gpu /\ input' = input
    BY <1>4 DEF Finish, Exit, machine
  <2>2. CASE gpu.cycle < MaxCycles
    BY <2>1, <2>2, SimulatorAssumption DEF ClockInvariant, StatusTellsTheTruth, ExitStatus
  <2>3. CASE ~(gpu.cycle < MaxCycles)
    BY <2>1, <2>3, SimulatorAssumption DEF ClockInvariant, StatusTellsTheTruth, ExitStatus
  <2> QED
    BY <2>2, <2>3
<1>5. CASE UNCHANGED vars
  BY <1>5 DEF vars, ClockInvariant, StatusTellsTheTruth
<1>6. input \in Inputs
  BY DEF ClockInvariant
<1> QED
  BY <1>1, <1>2, <1>3, <1>4, <1>5, <1>6, HostPrepares DEF Next

\* sim.hpp 199 looks at execution_done before it ticks, and main exits with 0
\* exactly when simulate came to an end in time: a status of 0 means that the
\* kernel is done, and 1 after a launch that every cycle has been run.
THEOREM StatusIsTrue == Spec => []StatusTellsTheTruth
<1>1. Init => ClockInvariant
  BY SimulatorAssumption DEF Init, ClockInvariant, StatusTellsTheTruth
<1>2. ClockInvariant /\ [Next]_vars => ClockInvariant'
  BY StepKeepsClock
<1>3. ClockInvariant => StatusTellsTheTruth
  BY DEF ClockInvariant
<1> QED
  BY <1>1, <1>2, <1>3, PTL DEF Spec

-----------------------------------------------------------------------------
\* Of several conversions of a word the last one counts.
LEMMA LastConversionCounts ==
  ASSUME NEW w, NEW c \in Seq({"make_scalar", "make_vector"})
  PROVE  /\ c = <<>> => Convert(w, c) = w
         /\ c # <<>> /\ c[Len(c)] = "make_scalar" => Convert(w, c) = MakeScalar(w)
         /\ c # <<>> /\ c[Len(c)] # "make_scalar" => Convert(w, c) = MakeVector(w)
<1> DEFINE step(u, k) == IF c[k] = "make_scalar" THEN MakeScalar(u) ELSE MakeVector(u)
           Upto(b, s) == s = [k \in 0 .. b |-> IF k = 0 THEN w ELSE step(s[k - 1], k)]
           n == Len(c)
           T == {b \in 0 .. n : \E s : Upto(b, s)}
           after == CHOOSE s : Upto(n, s)
<1>0. n \in Nat
  OBVIOUS
<1> HIDE DEF n, step
<1>1. 0 \in T
  <2> DEFINE s == [k \in 0 .. 0 |-> w]
  <2>1. Upto(0, s)
    OBVIOUS
  <2> HIDE DEF s
  <2> QED
    BY <2>1, <1>0
<1>2. ASSUME NEW b \in 0 .. n - 1, b \in T
      PROVE  b + 1 \in T
  <2>1. PICK s : Upto(b, s)
    BY <1>2
  <2> DEFINE u == [k \in 0 .. b + 1 |-> IF k = 0 THEN w ELSE step(s[k - 1], k)]
  <2>2. \A k \in 0 .. b : u[k] = s[k]
    BY <2>1, <1>0
  <2>3. Upto(b + 1, u)
    <3>1. \A k \in 0 .. b + 1 : k # 0 => k - 1 \in 0 .. b
      BY <1>0
    <3>2. \A k \in 0 .. b + 1 : (IF k = 0 THEN w ELSE step(s[k - 1], k)) = IF k = 0 THEN w ELSE step(u[k - 1], k)
      <4> HIDE DEF u
      <4> QED
        BY <2>2, <3>1
    <3> QED
      BY <3>2, Zenon
  <2>4. b + 1 \in 0 .. n
    BY <1>0
  <2> HIDE DEF u
  <2> QED
    BY <2>3, <2>4
<1>3. \A k \in 0 .. n : k \in T
  <2> HIDE DEF T
  <2> QED
    BY <1>0, <1>1, <1>2, IndexInduction
<1>4. \E s : Upto(n, s)
  BY <1>0, <1>3
<1>5. Upto(n, after)
  <2> HIDE DEF Upto
  <2> QED
    BY <1>4, Zenon
<1>6. Convert(w, c) = after[n]
  BY Zenon DEF Convert, n, step
<1> HIDE DEF after
<1>7. after[0] = w /\ \A k \in 0 .. n - 1 : after[k + 1] = step(after[k], k + 1)
  <2>1. \A k \in 0 .. n - 1 : k + 1 \in 0 .. n /\ k + 1 # 0 /\ (k + 1) - 1 = k
    BY <1>0
  <2>2. 0 \in 0 .. n
    BY <1>0
  <2> QED
    BY <1>5, <2>1, <2>2
<1>8. \A k \in 0 .. n : after[k] \ {6} = w \ {6}
  <2> DEFINE S == {k \in 0 .. n : after[k] \ {6} = w \ {6}}
  <2>1. 0 \in S
    BY <1>0, <1>7
  <2>2. ASSUME NEW k \in 0 .. n - 1, k \in S
        PROVE  k + 1 \in S
    <3>1. after[k + 1] = after[k] \union {6} \/ after[k + 1] = after[k] \ {6}
      BY <1>7 DEF step, MakeScalar, MakeVector
    <3>2. after[k + 1] \ {6} = after[k] \ {6}
      BY <3>1
    <3> QED
      BY <2>2, <3>2, <1>0
  <2> HIDE DEF S
  <2>3. \A k \in 0 .. n : k \in S
    BY <1>0, <2>1, <2>2, IndexInduction
  <2> QED
    BY <2>3 DEF S
<1>9. c = <<>> => n = 0
  BY DEF n
<1>10. c # <<>> => n - 1 \in 0 .. n /\ n - 1 \in 0 .. n - 1 /\ (n - 1) + 1 = n
  BY <1>0 DEF n
<1>11. c # <<>> => after[n] = step(after[n - 1], n) /\ after[n - 1] \ {6} = w \ {6}
  BY <1>7, <1>8, <1>10
<1>12. ASSUME c # <<>>
       PROVE  /\ c[n] = "make_scalar" => after[n] = MakeScalar(w)
              /\ c[n] # "make_scalar" => after[n] = MakeVector(w)
  BY <1>11, <1>12 DEF step, MakeScalar, MakeVector
<1> QED
  BY <1>6, <1>7, <1>9, <1>12 DEF n

\* The word a test pushes.
LEMMA PushedWord ==
  ASSUME NEW r \in RequestRecords, Accepts(Constructor(r.code.name), r.code), Carried(Requested(r))
  PROVE  DecodesAs(Convert(Build(Constructor(r.code.name), r.code), r.conversions), Requested(r))
<1> DEFINE i == Requested(r)
           c == r.conversions
           form == Constructor(r.code.name)
           w == Build(form, r.code)
<1>1. /\ r.code \in InstructionRecords /\ ~r.code.scalar /\ c \in Seq({"make_scalar", "make_vector"})
      /\ r.code.name \in ScalarOps \union VectorScalarOps => c = <<>>
  BY DEF RequestRecords
<1>2. /\ i.name = r.code.name
      /\ i.rd = r.code.rd /\ i.rs1 = r.code.rs1 /\ i.rs2 = r.code.rs2 /\ i.imm = r.code.imm
      /\ i.scalar = (c # <<>> /\ c[Len(c)] = "make_scalar")
  BY <1>1 DEF Requested, InstructionRecords
<1>3. i \in InstructionRecords
  <2>1. i \in [name : Names, scalar : BOOLEAN, rd : Int, rs1 : Int, rs2 : Int, imm : Int]
    BY <1>1 DEF Requested, InstructionRecords
  <2>2. i.name \in VectorScalarOps => ~i.scalar
    BY <1>1, <1>2
  <2> HIDE DEF i
  <2> QED
    BY <2>1, <2>2 DEF InstructionRecords
<1>4. i.name \notin BranchOps
  BY DEF Carried
<1>5. Accepts(form, i) /\ Build(form, i) = w
  <2>1. Accepts(form, i) <=> Accepts(form, r.code)
    <3> HIDE DEF i, form
    <3> QED
      BY <1>2, Zenon DEF Accepts
  <2>2. Build(form, i) = w
    <3> HIDE DEF i, form
    <3> QED
      BY <1>2, Zenon DEF Build
  <2> QED
    BY <2>1, <2>2
<1>6. form = Constructor(i.name)
  BY <1>2
<1>7. DecodesAs(Encoded(form, i), i)
  <2> HIDE DEF i, form
  <2> QED
    BY <1>3, <1>5, <1>6, EncodingIsRight DEF i
<1>8. c # <<>> => 6 \notin w
  <2>1. form \in {"U", "J", "S", "R", "I", "SHIFT", "NONE"}
    BY <1>2, <1>4 DEF Constructor
  <2>2. 6 \in w <=> i.name \in OneFormNames
    <3> HIDE DEF i, form
    <3> QED
      BY <1>3, <1>4, <1>5, <2>1, BuiltWord
  <2>3. OneFormNames \subseteq ScalarOps \union VectorScalarOps
    BY DEF OneFormNames, ScalarOps
  <2> QED
    BY <1>1, <1>2, <2>2, <2>3
<1>9. Convert(w, c) = Encoded(form, i)
  <2> HIDE DEF i, form, w
  <2>1. CASE c = <<>>
    BY <2>1, <1>1, <1>2, <1>5, LastConversionCounts DEF Encoded
  <2>2. CASE c # <<>> /\ c[Len(c)] = "make_scalar"
    BY <2>2, <1>1, <1>2, <1>5, LastConversionCounts DEF Encoded
  <2>3. CASE c # <<>> /\ c[Len(c)] # "make_scalar"
    <3>1. Convert(w, c) = MakeVector(w) /\ ~i.scalar
      BY <2>3, <1>1, <1>2, LastConversionCounts
    <3>2. MakeVector(w) = w
      BY <2>3, <1>8 DEF MakeVector
    <3> QED
      BY <3>1, <3>2, <1>5 DEF Encoded
  <2> QED
    BY <2>1, <2>2, <2>3
<1> QED
  BY <1>7, <1>9

\* The word the emitter writes, which has no prefix of its own.
LEMMA EmittedWord ==
  ASSUME NEW i \in InstructionRecords, Accepts(EmitterForm(i.name), i), Carried(i),
         ~(i.scalar /\ i.name \notin ScalarOps)
  PROVE  DecodesAs(Build(EmitterForm(i.name), i), i)
<1> DEFINE form == EmitterForm(i.name)
           j == [i EXCEPT !.scalar = FALSE]
<1>1. /\ j.name = i.name /\ ~j.scalar
      /\ j.rd = i.rd /\ j.rs1 = i.rs1 /\ j.rs2 = i.rs2 /\ j.imm = i.imm
      /\ j \in InstructionRecords
  BY DEF InstructionRecords
<1>2. Accepts(form, j) /\ Build(form, j) = Build(form, i) /\ Carried(j) /\ form = EmitterForm(j.name)
  <2>1. Accepts(form, j) <=> Accepts(form, i)
    <3> HIDE DEF j, form
    <3> QED
      BY <1>1, Zenon DEF Accepts
  <2>2. Build(form, j) = Build(form, i)
    <3> HIDE DEF j, form
    <3> QED
      BY <1>1, Zenon DEF Build
  <2>3. Carried(j)
    <3> HIDE DEF j
    <3> QED
      BY <1>1 DEF Carried
  <2>4. form = EmitterForm(j.name)
    BY <1>1
  <2> QED
    BY <2>1, <2>2, <2>3, <2>4
<1>3. DecodesAs(Build(form, i), j)
  <2>1. Encoded(form, j) = Build(form, i)
    BY <1>1, <1>2 DEF Encoded
  <2> HIDE DEF j, form
  <2>2. DecodesAs(Encoded(form, j), j)
    BY <1>1, <1>2, EncodingIsRight
  <2> QED
    BY <2>1, <2>2
<1>4. MeantControls(j) = MeantControls(i)
  <2>1. (j.scalar \/ j.name \in ScalarOps) = (i.scalar \/ i.name \in ScalarOps)
    BY <1>1 DEF InstructionRecords
  <2>2. Meant(j) = Meant(i)
    <3> HIDE DEF j
    <3> QED
      BY <1>1, Zenon DEF Meant
  <2> HIDE DEF j
  <2> QED
    BY <1>1, <2>1, <2>2, Zenon DEF MeantControls
<1> QED
  BY <1>3, <1>4, Zenon DEF DecodesAs

-----------------------------------------------------------------------------
\* A sequence, of whatever it may be.
IsSequence(s) == \E S : s \in Seq(S)

\* Appending to a sequence makes one.
LEMMA AppendMakesSequence ==
  ASSUME NEW s, NEW e, IsSequence(s)
  PROVE  /\ IsSequence(Append(s, e)) /\ Len(s) \in Nat /\ Len(Append(s, e)) = Len(s) + 1
         /\ DOMAIN s = 1 .. Len(s)
         /\ \A k \in 1 .. Len(s) : Append(s, e)[k] = s[k]
         /\ Append(s, e)[Len(s) + 1] = e
<1>1. PICK S : s \in Seq(S)
  BY DEF IsSequence
<1>2. s \in Seq(S \union {e}) /\ e \in S \union {e}
  BY <1>1
<1>3. Append(s, e) \in Seq(S \union {e})
  BY <1>2
<1> QED
  BY <1>2, <1>3 DEF IsSequence

\* A parsed instruction has a mnemonic.
LEMMA ParsedIsNamed ==
  ASSUME NEW t
  PROVE  "name" \in DOMAIN ParseLine(t).instruction
<1> DEFINE Named(p) == {"instruction", "label"} \subseteq DOMAIN p /\ "name" \in DOMAIN p.instruction
           labelled == Head(t).type = "Label"
           r == IF labelled THEN Tail(t) ELSE t
           parsed ==
             CASE r = <<>> -> [Refused EXCEPT !.kind = "JustLabel"]
               [] r # <<>> /\ Head(r).type = "Mnemonic" -> ParseInstruction(Head(r), Tail(r))
               [] r # <<>> /\ ~labelled /\ Head(r).type \in {"BlocksDirective", "WarpsDirective"} ->
                     ParseDirectiveLine(r)
               [] OTHER -> Refused
           label == IF labelled THEN Head(t).name ELSE ""
<1>1. Named(Refused) /\ \A k : Named([Refused EXCEPT !.kind = k])
  BY DEF Refused
<1>2. \A k, n : Named([Refused EXCEPT !.kind = k, !.number = n])
  BY DEF Refused
<1> HIDE DEF Named
<1>4. ASSUME NEW m, NEW o
      PROVE  Named(ParseInstruction(m, o))
  <2> DEFINE only(type) == SelectSeq(o, LAMBDA x : x.type = type)
             registers == only("Register")
             number(k) == IF k <= Len(registers) THEN registers[k].register.number ELSE 0
             store == m.name \in StoreNames
             target == IF only("LabelRef") = <<>> THEN "" ELSE only("LabelRef")[1].name
             imm == IF only("Immediate") = <<>> THEN 0 ELSE only("Immediate")[1].value
             rd == IF store THEN 0 ELSE number(1)
             rs2 == IF store THEN number(1) ELSE number(3)
             rs1 == number(2)
             Fits == /\ Types(o) \in Syntaxes(m.name)
                     /\ \A k \in DOMAIN registers : CheckRegister(m, k, registers[k].register)
  <2>1. ParseInstruction(m, o) =
          IF Fits
          THEN [Refused EXCEPT !.kind = "Instruction", !.target = target,
                               !.instruction = [name |-> m.name, scalar |-> m.scalar, rd |-> rd,
                                                rs1 |-> rs1, rs2 |-> rs2, imm |-> imm]]
          ELSE Refused
    BY Zenon DEF ParseInstruction
  <2> HIDE DEF Fits, target, imm, rd, rs1, rs2
  <2> DEFINE result == [Refused EXCEPT !.kind = "Instruction", !.target = target,
                                       !.instruction = [name |-> m.name, scalar |-> m.scalar, rd |-> rd,
                                                        rs1 |-> rs1, rs2 |-> rs2, imm |-> imm]]
  <2>2. Named(result)
    BY DEF Named, Refused
  <2>3. ParseInstruction(m, o) = IF Fits THEN result ELSE Refused
    BY <2>1
  <2> HIDE DEF result
  <2> QED
    BY <2>2, <2>3, <1>1
<1>5. Named(ParseDirectiveLine(r))
  BY <1>1, <1>2, Zenon DEF ParseDirectiveLine
<1>6. Named(parsed)
  <2> HIDE DEF r, labelled
  <2>1. CASE r = <<>>
    BY <2>1, <1>1
  <2>2. CASE r # <<>> /\ Head(r).type = "Mnemonic"
    <3>1. ~(Head(r).type \in {"BlocksDirective", "WarpsDirective"})
      BY <2>2
    <3>2. parsed = ParseInstruction(Head(r), Tail(r))
      BY <2>2, <3>1, Zenon
    <3> QED
      BY <3>2, <1>4, Zenon
  <2>3. CASE r # <<>> /\ Head(r).type # "Mnemonic"
    <3>1. parsed = ParseDirectiveLine(r) \/ parsed = Refused
      BY <2>3
    <3> HIDE DEF parsed
    <3> QED
      BY <3>1, <1>1, <1>5
  <2> QED
    BY <2>1, <2>2, <2>3
<1>7. ParseLine(t) = [parsed EXCEPT !.label = label]
  BY Zenon DEF ParseLine
<1> HIDE DEF parsed, label
<1> QED
  BY <1>6, <1>7 DEF Named

-----------------------------------------------------------------------------
\* The first words of a test are in the memory.
Pushed(n) ==
    /\ DOMAIN memory = 0 .. n - 1
    /\ \A a \in 0 .. n - 1 :
          LET r == input.requests[a + 1]
              form == Constructor(r.code.name)
          IN  Accepts(form, r.code) /\ memory[a] = Convert(Build(form, r.code), r.conversions)

\* A word is that of the k-th instruction of the source.
Emitted(k, word) ==
    LET i == program.instructions[k]
        form == EmitterForm(i.code.name)
    IN  Accepts(form, Resolve(i)) /\ word = Build(form, Resolve(i))

SourcePhases == {"data", "opening", "lines", "lexing", "translating"}

\* The source's instructions, and how far the host has come with their words:
\* the machine code and the instruction memory hold what was built, in order.
ProgramInvariant ==
    /\ phase = "start" => DOMAIN memory = {} /\ line = 0
    /\ phase \notin {"building", "simulating", "exited", "aborted"} =>
          /\ IsSequence(program.instructions)
          /\ \A k \in 1 .. Len(program.instructions) : "name" \in DOMAIN program.instructions[k].code
          /\ IsSequence(machine_code) /\ Len(machine_code) <= Len(program.instructions)
          /\ \A k \in 1 .. Len(machine_code) : Emitted(k, machine_code[k])
          /\ phase # "translating" => machine_code = <<>>
    /\ phase \in SourcePhases => input.host = "main"
    /\ phase = "building" => /\ input.host = "test" /\ line \in 0 .. Len(input.requests)
                             /\ Pushed(line)
    /\ phase = "simulating" /\ input.host = "test" => Pushed(Len(input.requests))
    /\ phase = "simulating" /\ input.host = "main" =>
          /\ IsSequence(program.instructions)
          /\ \A k \in 1 .. Len(program.instructions) : "name" \in DOMAIN program.instructions[k].code
          /\ DOMAIN memory = 0 .. Len(program.instructions) - 1
          /\ \A a \in DOMAIN memory : Emitted(a + 1, memory[a])

\* The ports of the instruction memory: what was fetched is what stands there.
PortsInvariant ==
    /\ {"read_address", "read_ready", "read_data", "answered", "cycle", "execution_done"} \subseteq DOMAIN gpu
    /\ phase \notin {"simulating", "exited"} => ~gpu.read_ready /\ gpu.read_address = Nothing
    /\ phase = "simulating" =>
          /\ gpu.read_address \in {Nothing} \union 0 .. Cardinality(DOMAIN memory)
          /\ gpu.read_ready => /\ gpu.answered \in 0 .. Cardinality(DOMAIN memory)
                               /\ gpu.read_data = Fetch(gpu.answered)

\* Steps up to the launch and their effect on the program and its words.
LEMMA ReadingKeepsProgram ==
  ASSUME input \in Inputs, ProgramInvariant,
         ReadDataLine \/ DataRead \/ OpenSource \/ NextLine \/ Lex \/ AllParsed
  PROVE  ProgramInvariant'
<1> USE DEF Exit, Abort, GoOn, assembling, machine, SourcePhases
<1>1. /\ phase \in {"data", "opening", "lines", "lexing"}
      /\ phase' \in SourcePhases \union {"exited", "aborted"}
      /\ UNCHANGED <<input, program, machine_code, memory>>
  <2>1. CASE ReadDataLine
    BY <2>1 DEF ReadDataLine
  <2>2. CASE DataRead
    BY <2>2 DEF DataRead
  <2>3. CASE OpenSource
    BY <2>3 DEF OpenSource
  <2>4. CASE NextLine
    BY <2>4 DEF NextLine
  <2>5. CASE Lex
    BY <2>5 DEF Lex
  <2>6. CASE AllParsed
    BY <2>6 DEF AllParsed
  <2> QED
    BY <2>1, <2>2, <2>3, <2>4, <2>5, <2>6
<1>2. \A k : Emitted(k, machine_code[k])' <=> Emitted(k, machine_code[k])
  BY <1>1 DEF Emitted, Resolve
<1> QED
  BY <1>1, <1>2 DEF ProgramInvariant

\* A line adds at most an instruction with a mnemonic, and no word.
LEMMA EndOfLineKeepsProgram ==
  ASSUME input \in Inputs, ProgramInvariant, EndOfLine
  PROVE  ProgramInvariant'
<1>1. /\ phase = "lexing" /\ phase' = "lines"
      /\ UNCHANGED <<input, machine_code, memory>>
  BY DEF EndOfLine, GoOn, machine
<1>2. /\ IsSequence(program.instructions) /\ machine_code = <<>>
      /\ \A k \in 1 .. Len(program.instructions) : "name" \in DOMAIN program.instructions[k].code
  BY <1>1 DEF ProgramInvariant
<1>3. \/ program'.instructions = program.instructions
      \/ \E t : program'.instructions =
                  Append(program.instructions, [code |-> ParseLine(tokens).instruction, target |-> t])
  <2>1. \/ UNCHANGED program
        \/ program'.instructions =
              IF ParseLine(tokens).kind = "Instruction"
              THEN Append(program.instructions, [code |-> ParseLine(tokens).instruction,
                                                 target |-> ParseLine(tokens).target])
              ELSE program.instructions
    <3> DEFINE x == IF ParseLine(tokens).kind = "Instruction"
                    THEN Append(program.instructions, [code |-> ParseLine(tokens).instruction,
                                                       target |-> ParseLine(tokens).target])
                    ELSE program.instructions
    <3>1. \/ UNCHANGED program
          \/ \E l, b, w : program' = [instructions |-> x, labels |-> l, blocks |-> b, warps |-> w]
      BY Zenon DEF EndOfLine
    <3> HIDE DEF x
    <3>2. \/ UNCHANGED program
          \/ program'.instructions = x
      BY <3>1
    <3> QED
      BY <3>2, Zenon DEF x
  <2> QED
    BY <2>1
<1>4. /\ IsSequence(program'.instructions)
      /\ \A k \in 1 .. Len(program'.instructions) : "name" \in DOMAIN program'.instructions[k].code
  <2>1. CASE program'.instructions = program.instructions
    BY <2>1, <1>2
  <2>2. ASSUME NEW t, program'.instructions =
                  Append(program.instructions, [code |-> ParseLine(tokens).instruction, target |-> t])
        PROVE  <1>4!:
    <3> DEFINE e == [code |-> ParseLine(tokens).instruction, target |-> t]
               s == program.instructions
    <3>1. "name" \in DOMAIN e.code
      BY ParsedIsNamed
    <3> HIDE DEF e
    <3>2. /\ IsSequence(Append(s, e)) /\ Len(s) \in Nat /\ Len(Append(s, e)) = Len(s) + 1
          /\ \A k \in 1 .. Len(s) : Append(s, e)[k] = s[k]
          /\ Append(s, e)[Len(s) + 1] = e
      BY <1>2, AppendMakesSequence
    <3>3. program'.instructions = Append(s, e)
      BY <2>2 DEF e
    <3>4. \A k \in 1 .. Len(s) + 1 : k \in 1 .. Len(s) \/ k = Len(s) + 1
      BY <3>2
    <3> QED
      BY <3>1, <3>2, <3>3, <3>4, <1>2
  <2> QED
    BY <2>1, <2>2, <1>3
<1>5. input.host = "main"
  BY <1>1 DEF ProgramInvariant, SourcePhases
<1>6. Len(machine_code) = 0 /\ IsSequence(machine_code) /\ Len(program'.instructions) \in Nat
  <2>1. Len(program'.instructions) \in Nat
    BY <1>4, AppendMakesSequence
  <2>2. machine_code \in Seq({})
    BY <1>2
  <2> QED
    BY <1>2, <2>1, <2>2 DEF IsSequence
<1> QED
  BY <1>1, <1>2, <1>4, <1>5, <1>6 DEF ProgramInvariant, SourcePhases

\* The emitter adds the word of the next instruction, resolved.
LEMMA TranslateKeepsProgram ==
  ASSUME input \in Inputs, ProgramInvariant, Translate
  PROVE  ProgramInvariant'
<1> DEFINE n == Len(machine_code)
           i == program.instructions[n + 1]
           form == EmitterForm(i.code.name)
           w == Build(form, Resolve(i))
<1>1. /\ phase = "translating" /\ n < Len(program.instructions)
      /\ UNCHANGED <<input, program, memory>>
      /\ \/ phase' = "aborted"
         \/ phase' = phase /\ Accepts(form, Resolve(i)) /\ machine_code' = Append(machine_code, w)
  BY DEF Translate, Abort, machine, assembling
<1>2. /\ IsSequence(program.instructions) /\ IsSequence(machine_code) /\ input.host = "main"
      /\ \A k \in 1 .. Len(program.instructions) : "name" \in DOMAIN program.instructions[k].code
      /\ \A k \in 1 .. n : Emitted(k, machine_code[k])
  BY <1>1 DEF ProgramInvariant, SourcePhases
<1>3. CASE phase' = "aborted"
  BY <1>3 DEF ProgramInvariant, SourcePhases
<1>4. CASE phase' = phase /\ Accepts(form, Resolve(i)) /\ machine_code' = Append(machine_code, w)
  <2>2. Emitted(n + 1, w)
    BY <1>4 DEF Emitted
  <2>3. ASSUME NEW k \in Nat
        PROVE  Emitted(k, machine_code'[k]) => Emitted(k, machine_code[k])'
    BY <1>1 DEF Emitted, Resolve
  <2> HIDE DEF w, i, form, n
  <2>4. /\ IsSequence(machine_code') /\ n \in Nat /\ Len(machine_code') = n + 1
        /\ \A k \in 1 .. n : machine_code'[k] = machine_code[k]
        /\ machine_code'[n + 1] = w
    <3>1. machine_code' = Append(machine_code, w)
      BY <1>4
    <3>2. /\ IsSequence(Append(machine_code, w)) /\ Len(machine_code) \in Nat
          /\ Len(Append(machine_code, w)) = Len(machine_code) + 1
          /\ \A k \in 1 .. Len(machine_code) : Append(machine_code, w)[k] = machine_code[k]
          /\ Append(machine_code, w)[Len(machine_code) + 1] = w
      BY <1>2, AppendMakesSequence
    <3> QED
      BY <3>1, <3>2 DEF n
  <2>5. \A k \in 1 .. n + 1 : Emitted(k, machine_code'[k])
    <3>1. \A k \in 1 .. n + 1 : k \in 1 .. n \/ k = n + 1
      BY <2>4
    <3> QED
      BY <3>1, <2>2, <2>4, <1>2
  <2>6. \A k \in 1 .. Len(machine_code') : Emitted(k, machine_code[k])'
    BY <2>3, <2>4, <2>5
  <2>7. Len(program.instructions) \in Nat
    BY <1>2, AppendMakesSequence
  <2>8. Len(machine_code') <= Len(program'.instructions)
    BY <1>1, <2>4, <2>7
  <2> QED
    BY <1>1, <1>2, <1>4, <2>4, <2>6, <2>8 DEF ProgramInvariant, SourcePhases
<1> QED
  BY <1>1, <1>3, <1>4

\* A test adds the word of its next request, with its conversions.
LEMMA PushKeepsProgram ==
  ASSUME input \in Inputs, ProgramInvariant, PushInstruction
  PROVE  ProgramInvariant'
<1> DEFINE r == input.requests[line + 1]
           form == Constructor(r.code.name)
           w == Convert(Build(form, r.code), r.conversions)
<1>1. /\ phase = "building" /\ line < Len(input.requests)
      /\ UNCHANGED <<input>>
      /\ \/ phase' = "aborted"
         \/ /\ phase' = phase /\ line' = line + 1 /\ Accepts(form, r.code)
            /\ memory' = Update(memory, line, w)
  BY DEF PushInstruction, Abort
<1>2. input.host = "test" /\ line \in 0 .. Len(input.requests) /\ Pushed(line)
  BY <1>1 DEF ProgramInvariant
<1>3. Len(input.requests) \in Nat
  BY <1>2, InputsAssumption
<1>4. CASE phase' = "aborted"
  BY <1>4 DEF ProgramInvariant, SourcePhases
<1>5. CASE phase' = phase /\ line' = line + 1 /\ Accepts(form, r.code) /\ memory' = Update(memory, line, w)
  <2>1. line' \in 0 .. Len(input.requests) /\ line \in Nat
    BY <1>1, <1>2, <1>3, <1>5
  <2> HIDE DEF w
  <2>2. DOMAIN memory' = 0 .. line' - 1
    <3>1. DOMAIN memory' = DOMAIN memory \union {line}
      BY <1>5 DEF Update
    <3>2. DOMAIN memory = 0 .. line - 1
      BY <1>2 DEF Pushed
    <3>3. (0 .. line - 1) \union {line} = 0 .. (line + 1) - 1
      BY <2>1
    <3> QED
      BY <3>1, <3>2, <3>3, <1>5
  <2>3. \A a \in 0 .. line' - 1 : memory'[a] = IF a = line THEN w ELSE memory[a]
    BY <1>5, <2>2 DEF Update
  <2>4. ASSUME NEW a \in 0 .. line' - 1
        PROVE  LET q == input.requests[a + 1]
                   f == Constructor(q.code.name)
               IN  Accepts(f, q.code) /\ memory'[a] = Convert(Build(f, q.code), q.conversions)
    <3>1. CASE a = line
      BY <3>1, <2>3, <1>5 DEF w
    <3>2. CASE a # line
      <4>1. a \in 0 .. line - 1
        BY <3>2, <2>1, <1>5
      <4>2. memory'[a] = memory[a]
        BY <3>2, <2>3
      <4> QED
        BY <4>1, <4>2, <1>2 DEF Pushed
    <3> QED
      BY <3>1, <3>2
  <2>5. Pushed(line)'
    BY <2>2, <2>4, <1>1 DEF Pushed
  <2> QED
    BY <1>1, <1>2, <1>5, <2>1, <2>5 DEF ProgramInvariant, SourcePhases
<1> QED
  BY <1>1, <1>4, <1>5

\* The memory launched with holds the words in their order.
LEMMA LaunchKeepsProgram ==
  ASSUME input \in Inputs, ProgramInvariant, Launch
  PROVE  ProgramInvariant'
<1>1. phase' = "simulating" /\ UNCHANGED <<input, line, program, machine_code>>
  BY DEF Launch, GoOn, reading, assembling
<1>2. \/ /\ phase = "translating" /\ Len(machine_code) = Len(program.instructions)
         /\ memory' = [a \in 0 .. Len(machine_code) - 1 |-> machine_code[a + 1]]
      \/ phase = "building" /\ line = Len(input.requests) /\ UNCHANGED memory
  BY DEF Launch
<1>3. CASE phase = "building"
  <2>1. input.host = "test" /\ Pushed(Len(input.requests)) /\ UNCHANGED memory
    BY <1>2, <1>3 DEF ProgramInvariant
  <2>2. Pushed(Len(input.requests))'
    BY <1>1, <2>1 DEF Pushed
  <2> QED
    BY <1>1, <2>1, <2>2 DEF ProgramInvariant, SourcePhases
<1>4. CASE phase = "translating"
  <2>1. /\ IsSequence(program.instructions) /\ input.host = "main"
        /\ \A k \in 1 .. Len(program.instructions) : "name" \in DOMAIN program.instructions[k].code
        /\ \A k \in 1 .. Len(machine_code) : Emitted(k, machine_code[k])
    BY <1>4 DEF ProgramInvariant, SourcePhases
  <2>2. /\ Len(machine_code) = Len(program.instructions)
        /\ memory' = [a \in 0 .. Len(machine_code) - 1 |-> machine_code[a + 1]]
    BY <1>2, <1>4
  <2>3. Len(program.instructions) \in Nat
    BY <2>1, AppendMakesSequence
  <2>4. ASSUME NEW a \in DOMAIN memory'
        PROVE  Emitted(a + 1, memory[a])'
    <3>1. a + 1 \in 1 .. Len(machine_code) /\ memory'[a] = machine_code[a + 1]
      BY <2>2, <2>3
    <3>2. Emitted(a + 1, memory'[a])
      BY <3>1, <2>1
    <3> QED
      BY <3>2, <1>1 DEF Emitted, Resolve
  <2>5. DOMAIN memory' = 0 .. Len(program'.instructions) - 1
    BY <1>1, <2>2
  <2> QED
    BY <1>1, <2>1, <2>4, <2>5 DEF ProgramInvariant, SourcePhases
<1> QED
  BY <1>2, <1>3, <1>4

\* Every step keeps the program as it was built.
LEMMA StepKeepsProgram ==
  ASSUME input \in Inputs, ProgramInvariant, [Next]_vars
  PROVE  ProgramInvariant'
<1>1. CASE Start
  <2>1. /\ phase = "start" /\ UNCHANGED <<input, line, program, machine_code, memory>>
        /\ \/ phase' = "building" /\ input.host = "test"
           \/ phase' \in {"opening", "data", "exited"} /\ input.host = "main"
    <3>1. phase = "start" /\ UNCHANGED <<input, line, program, machine_code, memory>>
      BY <1>1 DEF Start, reading, assembling, machine
    <3>2. CASE input.host = "test"
      <4>1. phase' = "building"
        BY <1>1, <3>2 DEF Start, GoOn
      <4> QED
        BY <3>1, <3>2, <4>1
    <3>3. CASE input.host = "main"
      <4>1. \/ Len(input.files) \notin {1, 2}
            \/ Len(input.files) = 1
            \/ Len(input.files) = 2
        OBVIOUS
      <4>2. phase' \in {"opening", "data", "exited"}
        BY <1>1, <3>3, <4>1 DEF Start, GoOn, Exit
      <4> QED
        BY <3>1, <3>3, <4>2
    <3>4. input.host = "main" \/ input.host = "test"
      BY SimulatorAssumption
    <3> QED
      BY <3>2, <3>3, <3>4
  <2>2. DOMAIN memory = {} /\ line = 0
    BY <2>1 DEF ProgramInvariant
  <2>3. CASE phase' = "building" /\ input.host = "test"
    <3>1. Pushed(line)'
      BY <2>1, <2>2 DEF Pushed
    <3>2. line' \in 0 .. Len(input.requests)
      <4>1. Len(input.requests) \in Nat
        BY <2>3, InputsAssumption
      <4> QED
        BY <4>1, <2>1, <2>2
    <3> QED
      BY <2>1, <2>3, <3>1, <3>2 DEF ProgramInvariant, SourcePhases
  <2>4. CASE phase' \in {"opening", "data", "exited"} /\ input.host = "main"
    <3>1. \A k : Emitted(k, machine_code[k])' <=> Emitted(k, machine_code[k])
      BY <2>1 DEF Emitted, Resolve
    <3> QED
      BY <2>1, <2>4, <3>1 DEF ProgramInvariant, SourcePhases
  <2> QED
    BY <2>1, <2>3, <2>4
<1>2. CASE Cycle
  <2>1. phase = "simulating" /\ phase' = phase /\ UNCHANGED <<input, program, memory>>
    BY <1>2 DEF Cycle, assembling
  <2>2. \A a : Emitted(a + 1, memory[a])' <=> Emitted(a + 1, memory[a])
    BY <2>1 DEF Emitted, Resolve
  <2>3. Pushed(Len(input.requests))' <=> Pushed(Len(input.requests))
    BY <2>1 DEF Pushed
  <2> QED
    BY <2>1, <2>2, <2>3 DEF ProgramInvariant, SourcePhases
<1>3. CASE Finish
  <2>1. phase' = "exited"
    BY <1>3 DEF Finish, Exit
  <2> QED
    BY <2>1 DEF ProgramInvariant, SourcePhases
<1>4. CASE UNCHANGED vars
  <2>1. UNCHANGED <<input, phase, line, program, machine_code, memory>>
    BY <1>4 DEF vars
  <2>2. /\ \A k : Emitted(k, machine_code[k])' <=> Emitted(k, machine_code[k])
        /\ \A a : Emitted(a + 1, memory[a])' <=> Emitted(a + 1, memory[a])
    BY <2>1 DEF Emitted, Resolve
  <2>3. Pushed(Len(input.requests))' <=> Pushed(Len(input.requests))
    BY <2>1 DEF Pushed
  <2>4. Pushed(line)' <=> Pushed(line)
    BY <2>1 DEF Pushed
  <2> QED
    BY <2>1, <2>2, <2>3, <2>4 DEF ProgramInvariant
<1> QED
  BY <1>1, <1>2, <1>3, <1>4, ReadingKeepsProgram, EndOfLineKeepsProgram, TranslateKeepsProgram,
     PushKeepsProgram, LaunchKeepsProgram DEF Next

\* Steps before the launch leave the GPU's ports alone, a launch sets others.
LEMMA StepKeepsPorts ==
  ASSUME input \in Inputs, PortsInvariant, [Next]_vars
  PROVE  PortsInvariant'
<1>1. CASE BeforeLaunch
  <2>1. gpu' = gpu
    BY <1>1 DEF BeforeLaunch
  <2>2. phase \notin {"simulating", "exited"} /\ (phase' \notin {"simulating", "exited"} \/ phase' = "exited")
    BY <1>1 DEF BeforeLaunch
  <2> QED
    BY <2>1, <2>2 DEF PortsInvariant
<1>2. CASE Launch
  <2>1. phase \in {"translating", "building"} /\ phase' = "simulating"
    BY <1>2 DEF Launch, GoOn
  <2>2. /\ DOMAIN gpu' = DOMAIN gpu
        /\ gpu'.read_ready = gpu.read_ready /\ gpu'.read_address = gpu.read_address
    BY <1>2 DEF Launch, PortsInvariant
  <2> QED
    BY <2>1, <2>2 DEF PortsInvariant
<1>3. CASE Cycle
  <2>1. phase = "simulating" /\ phase' = "simulating" /\ UNCHANGED memory
    BY <1>3 DEF Cycle
  <2>2. PICK address \in {Nothing} \union 0 .. Cardinality(DOMAIN memory), done \in BOOLEAN :
          gpu' = [gpu EXCEPT
                    !.cycle = @ + 1,
                    !.read_ready = gpu.read_address # Nothing,
                    !.read_data = IF gpu.read_address = Nothing THEN @ ELSE Fetch(gpu.read_address),
                    !.answered = IF gpu.read_address = Nothing THEN @ ELSE gpu.read_address,
                    !.read_address = address,
                    !.execution_done = done]
    BY <1>3 DEF Cycle
  <2>3. {"read_address", "read_ready", "read_data", "answered", "cycle", "execution_done"} \subseteq DOMAIN gpu
    BY DEF PortsInvariant
  <2>4. /\ DOMAIN gpu' = DOMAIN gpu
        /\ gpu'.read_address = address /\ gpu'.read_ready = (gpu.read_address # Nothing)
        /\ gpu.read_address # Nothing => /\ gpu'.read_data = Fetch(gpu.read_address)
                                         /\ gpu'.answered = gpu.read_address
    BY <2>2, <2>3
  <2>5. gpu.read_address \in {Nothing} \union 0 .. Cardinality(DOMAIN memory)
    BY <2>1 DEF PortsInvariant
  <2>6. \A a : Fetch(a)' = Fetch(a)
    BY <2>1 DEF Fetch
  <2>7. DOMAIN memory' = DOMAIN memory
    BY <2>1
  <2> DEFINE Addresses == 0 .. Cardinality(DOMAIN memory)
  <2>8. Addresses' = Addresses
    BY <2>7
  <2> HIDE DEF Addresses
  <2>9. /\ gpu'.read_address \in {Nothing} \union Addresses
        /\ gpu'.read_ready => gpu'.answered \in Addresses /\ gpu'.read_data = Fetch(gpu'.answered)
    BY <2>4, <2>5 DEF Addresses
  <2>10. {"read_address", "read_ready", "read_data", "answered", "cycle", "execution_done"} \subseteq DOMAIN gpu'
    BY <2>3, <2>4
  <2>11. gpu'.read_ready => gpu'.read_data = Fetch(gpu.answered)'
    BY <2>6, <2>9
  <2> QED
    BY <2>1, <2>8, <2>9, <2>10, <2>11 DEF PortsInvariant, Addresses
<1>4. CASE Finish
  BY <1>4 DEF Finish, Exit, machine, PortsInvariant
<1>5. CASE UNCHANGED vars
  <2>1. UNCHANGED <<phase, memory, gpu>>
    BY <1>5 DEF vars
  <2> QED
    BY <2>1 DEF PortsInvariant, Fetch
<1> QED
  BY <1>1, <1>2, <1>3, <1>4, <1>5, HostPrepares DEF Next

\* Two counts with the same positions are the same.
LEMMA SameLength ==
  ASSUME NEW m \in Nat, NEW n \in Nat, 1 .. m = 1 .. n
  PROVE  m = n
<1>1. m \in 1 .. n \/ m = 0
  OBVIOUS
<1>2. n \in 1 .. m \/ n = 0
  OBVIOUS
<1> QED
  BY <1>1, <1>2

\* In a state of a run whose program is as written, the word that was fetched
\* is that of the instruction meant at its address.
LEMMA FetchedAsWritten ==
  ASSUME input \in Inputs, ProgramInvariant, PortsInvariant, ProgramIsAsWritten
  PROVE  WordsDecodeAsWritten
<1> DEFINE p == input.meant.program
           a == gpu.answered
           i == p[a + 1]
<1> SUFFICES ASSUME phase = "simulating", gpu.read_ready, a < Len(p),
                    Carried(i), ~(input.host = "main" /\ i.scalar /\ i.name \notin ScalarOps)
             PROVE  DecodesAs(gpu.read_data, i)
  BY DEF WordsDecodeAsWritten
<1>1. p \in Seq(InstructionRecords) /\ Len(p) \in Nat /\ DOMAIN p = 1 .. Len(p)
  <2>1. p \in Seq(InstructionRecords)
    BY InputsAssumption, Zenon
  <2> HIDE DEF p
  <2> QED
    BY <2>1
<1>2. a \in 0 .. Cardinality(DOMAIN memory) /\ gpu.read_data = Fetch(a)
  BY DEF PortsInvariant
<1> HIDE DEF a, i
<1>3. ASSUME NEW n \in Nat, DOMAIN memory = 0 .. n - 1
      PROVE  a \in Nat
  <2>1. IsFiniteSet(0 .. n - 1)
    BY FS_Interval
  <2>2. Cardinality(DOMAIN memory) \in Nat
    BY <1>3, <2>1, FS_CardinalityType
  <2> QED
    BY <1>2, <2>2
<1>4. CASE input.host = "test"
  <2>1. /\ input.requests \in Seq(RequestRecords)
        /\ p = [k \in DOMAIN input.requests |-> Requested(input.requests[k])]
    BY <1>4, InputsAssumption
  <2>2. Len(input.requests) \in Nat /\ DOMAIN input.requests = 1 .. Len(input.requests)
    BY <2>1
  <2>3. Len(p) = Len(input.requests)
    <3>1. 1 .. Len(p) = 1 .. Len(input.requests)
      BY <1>1, <2>1, <2>2
    <3> HIDE DEF p
    <3> QED
      BY <1>1, <2>2, <3>1
  <2>4. Pushed(Len(input.requests))
    BY <1>4 DEF ProgramInvariant
  <2>5. a \in 0 .. Len(input.requests) - 1
    <3>1. a \in Nat
      BY <2>2, <2>4, <1>3 DEF Pushed
    <3> QED
      BY <3>1, <2>2, <2>3
  <2> DEFINE r == input.requests[a + 1]
             w == Convert(Build(Constructor(r.code.name), r.code), r.conversions)
  <2>6. Accepts(Constructor(r.code.name), r.code) /\ Fetch(a) = w
    BY <2>4, <2>5 DEF Pushed, Fetch
  <2>7. r \in RequestRecords /\ i = Requested(r)
    <3>1. a + 1 \in DOMAIN input.requests
      BY <2>2, <2>5
    <3> QED
      BY <3>1, <2>1 DEF i
  <2> HIDE DEF r
  <2>8. DecodesAs(w, i)
    BY <2>6, <2>7, PushedWord
  <2> QED
    BY <1>2, <2>6, <2>8
<1>5. CASE input.host = "main"
  <2> DEFINE s == program.instructions
  <2>1. /\ IsSequence(s)
        /\ \A k \in 1 .. Len(s) : "name" \in DOMAIN s[k].code
        /\ DOMAIN memory = 0 .. Len(s) - 1
        /\ \A x \in DOMAIN memory : Emitted(x + 1, memory[x])
    BY <1>5 DEF ProgramInvariant
  <2>2. Len(s) \in Nat /\ DOMAIN s = 1 .. Len(s)
    BY <2>1, AppendMakesSequence
  <2>3. p = [k \in DOMAIN s |-> Resolve(s[k])]
    BY <1>5 DEF ProgramIsAsWritten
  <2>4. Len(p) = Len(s)
    <3>1. DOMAIN p = DOMAIN s
      <4> HIDE DEF p, s
      <4> QED
        BY <2>3
    <3> HIDE DEF p, s
    <3>2. 1 .. Len(p) = 1 .. Len(s)
      BY <1>1, <2>2, <3>1, Zenon
    <3> QED
      BY <1>1, <2>2, <3>2, SameLength, Zenon
  <2>5. a \in 0 .. Len(s) - 1
    <3>1. a \in Nat
      BY <2>1, <2>2, <1>3
    <3> QED
      BY <3>1, <2>2, <2>4
  <2>6. a + 1 \in 1 .. Len(s)
    BY <2>2, <2>5
  <2>7. i = Resolve(s[a + 1]) /\ i \in InstructionRecords
    <3>1. i = Resolve(s[a + 1])
      BY <2>2, <2>3, <2>6 DEF i
    <3>2. a + 1 \in 1 .. Len(p)
      BY <2>4, <2>6
    <3> HIDE DEF p, s
    <3> QED
      BY <3>1, <3>2, <1>1 DEF i
  <2>8. s[a + 1].code.name = i.name
    <3>1. "name" \in DOMAIN s[a + 1].code
      BY <2>1, <2>6
    <3> HIDE DEF s
    <3> QED
      BY <3>1, <2>7 DEF Resolve
  <2>9. Emitted(a + 1, Fetch(a))
    BY <2>1, <2>5 DEF Fetch
  <2>10. Accepts(EmitterForm(i.name), i) /\ Fetch(a) = Build(EmitterForm(i.name), i)
    BY <2>7, <2>8, <2>9 DEF Emitted
  <2>11. DecodesAs(Build(EmitterForm(i.name), i), i)
    BY <1>5, <2>7, <2>10, EmittedWord
  <2> QED
    BY <1>2, <2>10, <2>11
<1> QED
  BY <1>4, <1>5, SimulatorAssumption

\* Whatever program a file or a test holds, and whichever addresses the GPU
\* fetches, it gets words that the decoder reads as the instructions meant: for
\* every register, immediate and conversion that the encoding can carry, given
\* that the assembler has read from a file what is written there.
THEOREM WordsAreRight == Spec /\ []ProgramIsAsWritten => []WordsDecodeAsWritten
<1> DEFINE Inv == input \in Inputs /\ ProgramInvariant /\ PortsInvariant
<1>1. Init => Inv
  <2>1. IsSequence(<<>>) /\ Len(<<>>) = 0
    <3>1. <<>> \in Seq({})
      OBVIOUS
    <3> QED
      BY <3>1 DEF IsSequence
  <2> QED
    BY <2>1 DEF Init, ProgramInvariant, PortsInvariant, EmptyProgram, EmptyMap, SourcePhases
<1>2. Inv /\ [Next]_vars => Inv'
  <2> SUFFICES ASSUME Inv, [Next]_vars
               PROVE  Inv'
    OBVIOUS
  <2>1. input' = input
    BY DEF Next, vars, Start, ReadDataLine, DataRead, OpenSource, NextLine, Lex, EndOfLine, AllParsed,
           Translate, PushInstruction, Launch, Cycle, Finish
  <2> QED
    BY <2>1, StepKeepsProgram, StepKeepsPorts
<1>3. Inv /\ ProgramIsAsWritten => WordsDecodeAsWritten
  BY FetchedAsWritten
<1> HIDE DEF Inv
<1> QED
  BY <1>1, <1>2, <1>3, PTL DEF Spec
=============================================================================
