# Verification of smol-gpu

TLA+ models of the GPU of this repository (`src/*.sv`), of its assembler and of
the program that simulates it (`sim/`), their model-checking runs and
machine-checked proofs. Paths in this file start at the repository's root; the
modules and `PROJECT.json` name it as a directory `src/`.

## 1. The system

A host writes a program and data into two memories, raises `execution_start`
with a kernel configuration (grid size, base address, warps per block) and waits
for `execution_done`. Everything is clocked by one clock; in one rising edge all
registers move together, each reading the values before the edge, except the few
variables the source assigns with `=` in the middle of a loop. That is why an
action of these models is one clock edge of a whole subsystem, and why "an
interleaving" here means: which units are ready, answered or done at the same edge.

| component | state | operations | talks to |
|---|---|---|---|
| `gpu.sv` | launch latch, kernel configuration, registers between load-store units (LSUs) and controller | latch a launch, reset | host; instantiates the rest |
| `dispatcher.sv` | `blocks_dispatched`, `blocks_done`, `done`; per core `core_start`, `core_reset`, `core_block_id` | reset, start, dispatch loop, completion loop | each core by start / done / reset |
| `compute_core.sv` | per warp: state, `pc`, `next_pc`; `current_warp`, `done`, `vector_to_scalar_data` | reset, start, run one edge (schedule a warp, move it one stage) | instantiates fetchers, decoders, register files per warp, ALUs and LSUs per thread |
| `fetcher.sv` | state, request, instruction | request, take an answer, go idle | program memory controller |
| `decoder.sv` | control signals | latch in `WARP_DECODE` | register files, units |
| `alu.sv` | `alu_out` | compute | |
| `lsu.sv` | state, request, `lsu_out` | request, wait, take an answer, go idle | data memory controller |
| `reg_file.sv`, `scalar_reg_file.sv` | registers, latched operands | reset, read, write; execution mask in `s1` | |
| `mem_controller.sv` | per channel: state, consumer, request; `channel_serving_consumer` | pick a consumer, relay request and answer, release | consumers by valid / ready, memory by valid / ready |
| `sim/simlib/sim.hpp` | memories | answer all requests of a cycle; clock loop | the GPU's ports |
| `sim/simlib/instructions.hpp` | none | encode an instruction | |
| `sim/aslib/lexer.cpp`, `parser_utils.cpp` | what is left of a line | next token | |
| `sim/aslib/parser.cpp` | instructions, labels, directives, errors, line number | parse a line, add a label | lexer |
| `sim/aslib/emitter.cpp`, `data_reader.cpp` | | translate an instruction; read a record | encoders; number parser |
| `sim/main.cpp` | | read, assemble, load, launch, run, exit status | all of `sim/` |

What is hard, and what makes each part correct:

* **dispatcher**: blocks finish on several cores in any order and at the same
  edge; `core_done` is a stale register for two edges. Correct when every block
  runs exactly once and `execution_done` is raised after, and only after, the last.
* **mem_controller and LSUs**: channels race for consumers inside one edge;
  valid and ready each cross a register, so both sides act on old values.
  Correct when the LSUs see an atomic memory and nobody waits for ever.
* **compute_core**: warps share the units while their fetches run in the
  background; memory answers at any time; threads are masked. Correct when a
  programmer sees warps executing one instruction at a time, and every warp gets
  its turn.
* **ALU, decoder, encoders**: sequential, hard at boundaries (word width, signs,
  shift distances, bit fields).
* **Assembler and simulator**: sequential too, but with state carried from line to
  line and errors at every step: what was refused must not run, what runs must be
  what was written, and the program has to come to an end.

`PROJECT.json` lists the hazards with their lines and the properties for each.

## 2. Modules

| module | models | role |
|---|---|---|
| `KernelContract` | what a launch promises the host | abstract |
| `Dispatcher` | `dispatcher.sv`, launch latch of `gpu.sv`, the cores' handshake | detailed, implements `KernelContract` |
| `DispatcherProofs` | | theorems about `Dispatcher` |
| `AtomicMemory` | what the memory promises the LSUs | abstract |
| `MemController` | `mem_controller.sv` | component |
| `DataMemorySystem` | LSUs, registers of `gpu.sv`, `MemController`, memory | composition, implements `AtomicMemory` |
| `Isa` | words, `alu.sv`, instruction classes, control signals of `decoder.sv` | operators |
| `SimtMachine` | the machine a programmer sees | abstract |
| `ComputeCore` | `compute_core.sv` and all it instantiates | detailed, implements `SimtMachine` |
| `MCComputeCore` | | programs for TLC |
| `InstructionBits` | constructors of `instructions.hpp`, bit fields of `decoder.sv`, sign extension of `common.sv` | operators, against `Isa` |
| `Lexer` | `lexer.cpp`, `parse_num` | operators |
| `Parser` | a line's grammar (`parser.cpp`) | operators |
| `Simulator` | `main.cpp`, `parse_program`, emitter, data reader, `simulate`; the test programs | composition of text, words and decoder |
| `MCSimulator` | | inputs for TLC, with what their author means |
| `NatFacts` | | lemmas: least and greatest elements, division, remainders |
| `IsaProofs` | | lemmas: the ALU yields words, the decoder control signals |
| `ComputeCoreProofs` | | theorems about `ComputeCore` |
| `MachineProofs` | | theorems: `ComputeCore` implements `SimtMachine` |
| `DataMemoryProofs` | | lemmas about one edge of `MemController`; theorems about `DataMemorySystem`, for any reset and for resets that last |
| `EncodingProofs` | | theorem about `InstructionBits`: the decoder reads what the encoder wrote |
| `SimulatorProofs` | | theorems about `Simulator` |

Operators whose name has a suffix (`Dispatches_OffByOne`) are plausible wrong
versions of the operator that follows them. Nothing in a specification uses
them; each stands for a bug that some property must notice when the operator is
replaced by it.

### Dispatcher

Variables are the registers of the same names. `launched` is the latch
`start_execution` of `gpu.sv`; `core_started`, `core_done` and `warps_done` are
what remains of a core: a core that executes may have its last warp reach
`WARP_DONE` at any edge (the set `ending`), which `ComputeCore` fills in. The
actions are the four kinds of edge: `Reset` (at any time), `Wait`, `Launch` and
`Run`. In `Run`, `BlockFor(c)` is the value the blocking variable
`blocks_dispatched` has when the loop comes to core `c`, and `BlocksDoneAfter`
says what the repeated non-blocking assignment of `blocks_done` amounts to: one
increment, however many cores completed. `finished` is a history variable.

### MemController and DataMemorySystem

A valid line with its address is one variable, `None` when the line is low.
`ServingSequence[i]` is the value of the blocking variable
`channel_serving_consumer` when the loop comes to channel `i`. `ControllerClock`
is the whole always block; the channels the memory is ready on are its input.
`DataMemorySystem` adds the LSUs (`LsusClock`), the two rows of registers of
`gpu.sv` (`PipelineClock`), a memory that answers any subset of its requests
(writes before reads, as `sim.hpp` does; `sim.hpp` always answers all), and of
each core the state of its current warp: `OTHER` stands for the states in which
no LSU does anything. Which instruction comes next, its operands and its mask
are free. The LSU keeps `lsu_out` only while somebody reads it.

`Clock` and `Reset` are the edges without and with the GPU's reset. The controller
is reset at once (`ControllerReset`); the cores and their LSUs one edge later, since
`core_reset` is a register of the dispatcher, and they stay in reset until the next
launch; the registers of `gpu.sv` have no reset and just empty. A reset that is
released too early therefore leaves a request in them that the controller serves
and whose answer meets a unit that has asked for something else. `RESET_EDGES`, the
fewest edges for which reset is held, is an assumption about whoever drives it: with
3 all properties hold, with 2 `HandshakeSettled` fails. No test asserts reset, and
on the board (`top.sv`) it is a button, so three edges are a weak demand; no document
states one, so the shorter reset is no finding. `AtomicMemory` says what a reset may
do to requests under way (`Abandons`): each has happened or has not, and never
happens later.

### ComputeCore and SimtMachine

Every register of the core and of its instances is a variable. The scalar ALU
and LSU are one more unit (`ScalarUnit`) next to those of the threads, since they
differ only in when they are enabled. `WarpsStart` and `WarpsClock` are the main
always block, `DatapathClock` everything the core instantiates. `Start`, `Run`
and `Reset` are the kinds of edge; `Reset` happens when the dispatcher has seen
`done`, and hands out the next block id at the same edge, as `Dispatcher` shows.
Memory answers are edges at which a waiting fetcher or LSU takes its answer; that
the real handshake amounts to this is what the memory runs show. All warps of a
block run: the core ignores `num_warps_per_block` except for `x3`.

`FetcherFeedback` is a choice of wiring. `FALSE` is the source: the fetcher's
output port `fetcher_state_out` is open and its input is a register that is only
ever `FETCHER_IDLE`. Under it no warp leaves `WARP_FETCH` (run `core_unwired`).
To check the rest of the core at all, `TRUE` connects the output to the input,
which is what the fetcher's state machine and the test of `FETCHER_DONE` in the
core suppose.

`SimtMachine` executes one instruction of one warp per step. The refinement maps
the registers to themselves, `halted` to the warps in `WARP_DONE`, and memory to
`committed`, the memory at the last `WARP_UPDATE`: the stores of an instruction
happen one by one while it waits, and count together when it ends. Two things
are left open in `SimtMachine` on purpose: the order of stores of several threads
to one address, and the bits of masked threads in the result of `sx.slt` (see
`core_mask`). So is a third, because no document says what it should be: the value
`auipc` yields (`AddUpper`). Which register it writes, for which threads, and that
the warp goes on, is not open.

The constant `SignedArithmetic` of `SimtMachine` is a choice of arithmetic, and the
core is compared with both. `BuiltMachine` (`FALSE`) computes what `alu.sv` does,
so that `ImplementsBuiltMachine` speaks of the pipeline alone and holds of all programs.
`Machine` (`TRUE`) does not take its results from `alu.sv`: `Meaning` is written from
the two's complement numbers the operands stand for, with RISC-V's signed
comparisons and arithmetic shifts and with distances modulo the word width.
`ImplementsSimtMachine` thus also compares `Isa!AluOut` with it. `alu.sv` is unsigned,
so the two differ where signs matter; the programs of run `core` keep to operands on
which both agree, and `core_signed` shows one on which they do not
(`ArithmeticIsSigned`).

`NOOP` stands for every word whose opcode is none of the others (the decoder's
`default`), which does nothing but go on; a memory holds it where nothing was
written, so that a program is defined at every address.

`any_lsu_waiting` (`compute_core.sv` 225) is taken to be initialised whenever the
block is entered, and the arrays indexed by warp to be long enough.

### Isa and InstructionBits

`Isa` has instructions as records and the control signals each leads to.
`InstructionBits` relates them to bits. A word is the set of the positions of
its 1 bits, because the setters of the C++ class `InstructionBits` OR shifted
values into it and may overlap. `Build` is the `create_*` functions with the
tables of opcodes and function codes, `Accepts` their assertions (the `justfile`
builds with them on), `DecodeWord` the decoder's always block in its order of
comparisons (seven-bit opcodes first). Test programs choose the constructor of the
mnemonic (`Constructor`), the emitter chooses by the kind of the operands
(`EmitterForm`), so that a shift loses its function code and its limit there.

The meaning a word is compared with (`DecodesAs`) is written from the mnemonics:
`Isa!Decode` for the signals and two's complement arithmetic for the immediates.
`Carried` names what does not survive: store offsets that are no multiples of 32;
scalar stores, whose opcode is that of the branches (though README.md 179 says that
"all of the vector instructions have their scalar equivalent"); odd jump offsets;
branches, whose constructor is a stub; and the distance of `srai`, whose function
code stays in the immediate, so that it shifts by 1024 more than was asked, as does
an `srli` of 32 and more that the emitter lets through. The first is run
`encode_store`. `Isa!Instructions` leaves out what no word decodes to: a scalar
store, an odd offset of a branch or `jal`.

### Lexer, Parser and Simulator

A line of text is a sequence of *lexemes*, the runs of characters the lexer looks
at together: a word with what the classifying functions say of it, a numeral with
its sign, prefix and digits, a directive, any other character. `NextToken` takes one
of them and says what is left, which after a failed numeral is not nothing:
`ParseNum` consumes what `parse_num` does in each of its early returns. `Parser` is
one operator per rule; the grammar of the operands (`Syntaxes`) is a set of sequences
of token types. Which message an error has and at what column is left out, which
line it is on is not.

`Simulator` is the host program, and `phase` its place in the code. A step is a data
record, a token (`Lex`), a line (`NextLine`, `EndOfLine`), an instruction
(`Translate`, `PushInstruction`) or a clock cycle (`Cycle`). All early exits are
there: `Exit` for a return from `main` and `unwrap`, `Abort` for an assertion or an
exception. `EndOfLine` is the part of the loop of `parse_program` after the tokens:
it parses what there is, also when the lexer reported errors on the line. The hosts
are `main` and the programs of `src/test/gpu`, which build their words with the
constructors. Behind its ports the GPU is free: it fetches from any address and is
done at any time. What comes back on the fetch port goes through `DecodeWord`, so
that the properties speak of the whole way from a line of text to the decoder.

Each input of `MCSimulator` carries `meant`: the lines that are wrong, the
instructions, the labels, the configuration and the data, computed from what was
written down and not from how it is read. Nothing in `Simulator`'s actions uses it.
`InputsAssumption` says what a proof needs of it: its program is a sequence of
instructions, and that of a test is what the test asks of the constructors
(`Requested`), with the last conversion deciding the prefix.

## 3. Runs

| run | instance | shows |
|---|---|---|
| `dispatch_multi` | 3 cores, grids of 0, 1, 2, 4, 5 blocks | type and counter ranges, no early `done`, blocks run once, fresh completions, stable block ids, every block runs, `done` in the end when no two cores complete at one edge, refinement of the contract |
| `dispatch_lost` | 2 cores, grid of 2 | violated: a lost increment of `blocks_done` |
| `memory` | 2 cores of 2 threads and a scalar unit, 2 channels, 1 address, resets | consumers served once, no stale answers, warps wait for their answers, the inductive invariant `MemoryInvariant`, refinement of the atomic memory |
| `memory_liveness` | 2 cores of 1 thread and a scalar unit, 1 channel, 2 addresses, resets | every request is answered or reset; refinement of the atomic memory |
| `core` | 2 warps of 2 threads, 4 programs, 4-bit words, 6 registers | pipeline invariants and the inductive invariants `CoreInvariant` and `PipelineInvariant`, fair scheduling, blocks end, refinement of `SimtMachine` with either arithmetic |
| `core_unwired` | the same, `FetcherFeedback = FALSE` | violated: no block ends |
| `core_mask` | the same as `core` | violated: a masked thread's bit is written |
| `core_signed` | the same, one program | violated: a branch on -1 < 0 is not taken |
| `simulator` | 2,893 inputs, 2 clock cycles | errors are the mistakes, labels, only well-formed programs run, configuration and data, the program and its words are as written, exit status, termination |
| `encode_store` | its test programs of one instruction | violated: a store's offset falls on its source register |
| `asm_scalar` | its assembly programs of one instruction | violated: the prefix `s.` is dropped |
| `asm_endless` | one program | violated: a number too large is read for ever |

Why the bounds are enough. *Dispatcher*: three cores let two finish together
while a third runs; four and five blocks are more than cores, one and two are
fewer, so cores are reset both with and without a next block; what is not checked
there for larger numbers is proved for all. *Memory*: channels and consumers interact
in pairs; six consumers over two channels have both channels free or releasing at
one edge with more consumers waiting than channels; two values suffice to tell a
wrong answer from a right one. One address makes every pair of accesses conflict;
the second run has two, so that an access to the wrong one is noticed. *Core*: two
warps are enough for one to run while the other fetches, waits its turn or is done;
two threads for one to be masked. The programs use every instruction class, and of
the ALU's operations at least one of each kind:
divergence under a mask, a warp that spins on a flag another must store, racing
stores, a call and return, and comparisons, shifts and operations on bits.
`BaseAddress` is not 0 so that a `pc` that was not set is noticed. A `core_block_id`
from the previous block is met because blocks with two ids follow one another
without end.

*Simulator*: for single instructions, every mnemonic in both forms, three register
triples with no, some and all bits set in each field (and a register 32), immediates
at 0, at the sign bit and at the end of each width (5, 12, 20, 21 bits), one past it
and -1; for files, all of three lines out of ten kinds (empty, comment, label alone,
labels with instructions, jumps to either label, both directives, a mistake), so that
a duplicate, a reference before or after its label and a label at the end all occur;
24 ways to get a line wrong and 9 to get a number wrong; spellings in every base; the
README's example; data files; and command lines. `MaxCycles` is 2, so that a fetched
word is answered and the limit can come before, with or after `execution_done`. Its
behaviours end when the program exits, so deadlock is not checked there.

Fairness. The clock runs (`simulate` in `sim.hpp` calls `tick` in a loop), so an
edge eventually happens; in the memory runs an edge without reset. `DataMemory::process`
answers every request before the next edge; the models assume only that a request
that is kept up is eventually answered (weak fairness per channel, unit or warp). The
dispatcher runs assume that a core that executes a block ends it (the program halts),
which `EveryBlockEnds` shows for the programs of the core run. No fairness is assumed
between warps, cores or channels: it has to come from the scheduler, the
dispatcher and the controller. `Simulator` has weak fairness of `Next`: the host is
sequential code that nothing stops.

What the runs found beside the properties that hold: the lost completion, the
open port, the masked bits, unsigned arithmetic, store offsets, the dropped prefix
and the endless lexer (`findings` in `PROJECT.json`). One more limit,
which no document contradicts: with *three* cores of one thread and one channel
`EveryRequestIsAnswered` fails, because the controller always scans from
consumer 0 and two cores can keep asking before it reaches the third.

## 4. Proofs

The theorems hold for every value of the constants that their modules' named
assumptions allow; `theorems` in `PROJECT.json` lists them.

### The dispatcher

`DispatcherProofs` proves, for every positive number of cores and every set of
grid sizes (`NumCoresAssumption`, `KernelSizesAssumption`), that
`HandshakeInvariant` is an invariant, and from it `TypeOK`,
`DoneMeansAllFinished`, `NoBlockRunsTwice`, `CompletionIsFresh`,
`BlockIdIsStable` and `ImplementsContract`.

None of these is inductive alone. That `done` is never early needs the count
related to blocks: `blocks_done` is at most the number of *retired* blocks, those
finished and held by no core. It may be less, since increments get lost, hence
an inequality and not an equation. To show that a completion adds a block to the
retired ones one needs that the core's block has finished
(`HeldBlockEndsWithWarps`), that no other core holds it (`HeldBlocksDiffer`), and
that what the core reports belongs to the block it holds (`HandshakeOrder`:
started before warps done before done, and nothing before start or after
reset). New blocks are new because block ids are below `blocks_dispatched`
(`BlocksInRange`).
The lemma `DispatchLoop` is the arithmetic of the loop with the blocking counter:
cores that get a block in one edge get different ones, from `blocks_dispatched`
up, and the counter ends at most at `num_blocks`; it rests on `RankGrows`, about
the cardinality of initial segments of a set of cores.
The induction has a lemma per kind of edge (`ResetPreserves`, `IdlePreserves`,
`RunPreserves`, `StutterPreserves`).

### The core

`ComputeCoreProofs` proves `CoreInvariant`, and from it `TypeOK`, `OneWarpInPipeline`,
`UnitsFollowTheWarp`, `InstructionIsCurrent`, `QuietWhenDone` and
`SpecialRegistersFresh`, for every number of warps, threads and registers, every word
width, all sets of programs and block ids, with the fetchers' port wired either way.
The assumptions are those of `Isa` and `CoreAssumption` (the core has a warp, and from one
thread to as many as a mask register has bits; programs are defined at every address;
addresses are words), and `PowersAssumption` below.

The pipeline invariants need each other. That the units work for the current warp
only (`UnitsFollowTheWarp`) holds because no other warp enters the pipeline
(`OneWarpInPipeline`), which holds because the scheduler gives the core away in
`WARP_UPDATE` and `WARP_DONE` only; and which units are active depends on
the decoded instruction staying the same (`InstructionIsCurrent`). Three parts are
added: `FetchFollowsTheWarp` (a fetcher has a request up only for the `pc` its warp has
now, so that its answer is never that of the instruction before),
`WarpsFollowTheBlock` (a warp is idle exactly while the core is not started, and
`done` is only up while all are in `WARP_DONE`, which makes `QuietWhenDone`
true), and `AskInTime`: in `WARP_WAIT` every enabled unit has begun to ask. Without the
last, `any_lsu_waiting` could find all units idle and let the instruction execute
without its answers. `SpecialRegistersFresh` follows on
top: the edge that brings a warp to `WARP_REQUEST` is one at which it was current in
`WARP_DECODE`, so that its file has refreshed x0 to x3 with the block id of now.

`TypeOK` is more than bookkeeping there: the ALU's bit operations choose a word by its
bits (`WordOf`), and that such a word exists is `IsaProofs`' `BitsMakeNumbers`,
by halving; what it needs of powers of two, which the provers know only as
integers, is one equation (`PowersOfTwo`), an assumption that TLC evaluates. As the
theorems about natural numbers of the library cannot be instantiated for an induction,
`NatFacts` takes their place: a set of naturals has a least element, so a
counterexample has a least one. `NextWarp` and `Pick` rest on it too.

### The core as a sequential machine

`MachineProofs` proves `ImplementsBuiltMachine`, under the same assumptions and for all
programs: the pipeline with its stages, its shared units, its fetches beside other
warps' execution and its memories that answer when they like is indistinguishable from a
machine that executes one instruction of one warp per step.

The edge at which the current warp leaves `WARP_UPDATE` is a step of the machine
(`InstructionRetires`, with a lemma per class of instructions), the edge of a `Reset` is
its `NextBlock`, and it does not notice any other edge (`RunRetires`, `StartMaps`,
`ReadOnlyEdge`). For the results at that edge to be the machine's, the registers
between the stages must hold what belongs to the instruction that retires. That is
`PipelineInvariant`, inductive together with `CoreInvariant`:

* `UnitsHaveTheOperands`: from `WARP_WAIT` on, what the register files have latched for
  an enabled unit is what its registers hold *now*, and from `WARP_EXECUTE` on its result is
  the operation's on them. It needs that nobody writes a register while the current
  instruction is on its way, and that x0 to x3 are fresh (`SpecialRegistersFresh`). It
  says nothing of units that are masked out: theirs are left over from other instructions.
* `OutcomeIsLatched`: `next_pc` and `vector_to_scalar_data` are one edge old when
  they are used, and still right.
* `AccessesAreExact`: what a unit asks memory is what its operands say, and what it was
  answered is what memory held *before* the instruction, though other units'
  stores have reached memory since: an instruction loads or stores, never both.
* `MemoryFollowsTheStores`: memory differs from `committed` only where units of the current
  instruction have stored, and there it holds what one of them stored. So when the
  instruction ends it has the effect of its stores in some order.

Masked threads are where the mapping is not the obvious one. The bits of theirs that
`sx.slt` collects are whatever their ALUs hold; the machine leaves them open, and the
proof (`CompareRetires`) names those that the core has.

The two theorems about `ImplementsSimtMachine` say how far the core is from the machine
that `README.md` and RISC-V promise. `SignedProgramsRunAsMeant`: as long as every result
that retires is the signed one (`[]ArithmeticIsSigned`), the core implements it, so
unsigned arithmetic is the only departure. `core_signed` shows that the hypothesis
can fail. The lemma `AluIsSigned` says where it cannot, for every width: `alu.sv` is
right on sums, differences, equality and bit operations, on comparisons of
numbers with the same sign, and on shifts by less than `WIDTH`, of which `sra` also needs a
positive number. From it follows, without a hypothesis on behaviours,
`SignFreeProgramsRunAsMeant`: a core runs programs without comparisons by order, arithmetic
shifts and shifts that may be too far as they are meant. It rests on the remainders
of `NatFacts`: 2^`WIDTH` less is the same word.

### The memory system

`DataMemoryProofs` begins with one edge of the controller, for any number of consumers
and channels. The scan (`ServingSequence`, a recursive function, because
`channel_serving_consumer` is assigned in the loop) is unfolded one channel at a time
(`ServingSequenceSteps`). The invariant of the loop is `ScanIsExact`: when it comes to
channel n, the set is what the channels before n serve after the edge and the
others served before, and all of them serve different consumers. So a channel that
picks up a consumer that another gave up in the same edge takes nobody's (`ScanHolds`,
`ClockServesExactly`), and a ready line is up only for whom its channel relays
(`ClockKeepsReady`).

It goes on to prove `ControlInvariant`, and from it `TypeOK`,
`OneChannelPerConsumer`, `ServingIsExact`, `ReadyHasItsChannel` and
`ExecuteAfterAnswers`, for any number of cores, units and channels, any memory and any
`RESET_EDGES`, also 1: the bookkeeping and the pipeline do not depend on how
long a reset is held.

The second half of `DataMemoryProofs` proves the rest with the hypothesis `RESET_EDGES >= 3`, written in each
theorem: `MemoryInvariant`, `HandshakeSettled` and
`ImplementsAtomicMemory`. The hypothesis is about whoever drives the reset (section 2);
with 2 TLC finds `HandshakeSettled` violated, so it cannot be dropped.
`HandshakeSettled` is not inductive at all. It needs to be known where
every request is: `RequestOnItsWay` follows it from the unit through the registers to the
channel and back, by the unit's state, and `ChannelHasTheRequest` says what each state of
a channel relays. The heart of it is a race against the pipeline. When a unit
is done its valid line needs one edge to fall at the controller and its ready line
another, in which the warp goes from `WAIT` to `EXECUTE` to `UPDATE`: `RequestOnItsWay`
pins both to those stages, so that all is quiet before the next `REQUEST`.
`ResetEmpties` says the same of a reset: after one edge the controller is empty, after
two the ready lines, after three the valid lines.

The refinement is the step simulation of `AtomicMemory` by the edges. At one edge each
unit takes its own step or stutters (`UnitsWork`): it issues
when it leaves `REQUESTING`, its request takes effect at the edge at which memory
answers its channel (`RequestsTakeEffect`), and it hands over when it leaves
`WAITING`. Several requests may take effect at one edge; `MemoryWorks` shows
that the memory afterwards is what writes before reads give, and `WritesArePending` that
what memory writes is what some unit asks. `Reset` maps to
`Abandons` (`MemoryResets`): a request that a reset cuts off has taken effect or never will.

### The encoding

`EncodingIsRight` (`EncodingProofs`) is about all instructions: for every mnemonic and
prefix, all registers and all immediates that the constructor (`Constructor`) or the
emitter's choice of one (`EmitterForm`) accepts and the encoding can carry, `DecodeWord`
yields what `MeantControls` says, with the immediate as a signed number. TLC meets
a few registers and the edges of each immediate; the hazards are in between, where
one setter's bits fall on another's field. The argument has four parts.

* Numbers and bits. `Number` sums the powers of two of a set of positions by an index, so
  that a least counterexample (`IndexInduction`) takes the place of an induction.
  `NumberOfBits` (cutting a number to a field takes its remainder), `SumsTell` (different
  sets are different numbers), and `ExtensionIsSigned`, `UpperIsSigned`: sign
  extension gives a word whose signed value is that of the field.
* Fields. An opcode, a target in 7 to 11 and the upper fields occupy disjoint positions, so each
  field of the union is what was put there (`WordFields`, `LowFields`, `HighFields`).
* Classes. The decoder tries the seven-bit opcodes first; `OneFormClass` and
  `TwoFormClass` say that no prefix turns one class into another, except for the scalar
  stores and branches that `Carried` leaves out.
* Formats. One lemma each (`RegisterFormat`, `ImmediateFormat`, `StoreFormat`, `UpperFormat`,
  `JumpFormat`, `HaltFormat`); for `jal`, `JumpFields` shows that the decoder gathers the bits
  that `Imm21` scattered.

What `Carried` leaves out is what the runs and `hazards` report: branches, scalar stores,
a store whose offset has bits that fall on its source register, `srai`, an `srli` by 32 or
more, a jump by an odd offset.

### The simulator

`SimulatorProofs` proves `StatusTellsTheTruth` for all inputs and any `MaxCycles`.
It follows from `ClockInvariant` (no cycle is run before the launch or beyond the limit),
which TLC has found to hold of the run's inputs too. That an input's
host is `main` or `test` is part of `SimulatorAssumption`.

`WordsAreRight` proves `WordsDecodeAsWritten`. Its invariants are `ProgramInvariant`
(the word at each address is what the emitter built from the resolved instruction, or
a test's constructor and conversions, and `Accepts` held of it; until the launch that
is said of `machine_code`) and `PortsInvariant` (the read port holds the word of an
address of the memory, or the empty word after the last). `EmittedWord` and
`PushedWord` carry `EncodingIsRight` over to them. For a file the theorem has the
hypothesis `[]ProgramIsAsWritten`: that lexer and parser read the instructions that
are written is a statement about every text, whose induction is out of the prover's
reach; it is an invariant of run `simulator`. For a test, which has no text,
`ProgramIsAsWritten` holds trivially and the theorem is unconditional.

### What stays with TLC

* Liveness: `EveryBlockRuns`, `OneAtATimeMarksDone`, `EveryRequestIsAnswered`,
  `EveryFetchRetires`, `EveryBlockEnds`, `ReadableRunsEnd`. Fairness and `ENABLED` are out
  of the prover's reach.
* `ImplementsSimtMachine` without a hypothesis: it compares the unsigned ALU with a
  signed `Meaning` and is false of some programs (`core_signed`). The programs of run
  `core` do compare by order and shift by registers, with operands on which both agree;
  for them it is checked, not proved.
* The other properties of `Simulator`. `ErrorsAreTheMistakes`, `LabelsNameInstructions`,
  `RunsWhatIsWellFormed`, `LaunchIsAsWritten` and `ProgramIsAsWritten` compare what was read
  with what the author of an input means, which needs an induction over the text; its
  `TypeOK` rests on the value of a numeral, a fold over its digits, which would need one too.

## 5. Not modelled

* The complete GPU at once. Its parts are composed in pairs at the interfaces where
  they can go wrong (dispatcher and cores, LSUs and memory, warps and units, text and
  decoder); the product has too many states for TLC at any size that would show more
  than the pairs do. What one model assumes of another's part is a property there:
  that a core ends its block (`EveryBlockEnds`), that its units are idle when it is
  reset (`QuietWhenDone`), that an access is one step (`ImplementsAtomicMemory`).
* The read-only instance of the controller for programs: the same code with
  `WRITE_ENABLE` 0. The core takes a fetch to be answered at any edge.
* `num_warps`, which the core computes and does not use; the meaning of `auipc`,
  which no document gives; data addresses at 2^32 - 1; the tools' treatment of a
  missing `automatic` (`hazards` in `PROJECT.json`).
* Printing: messages and their columns, listings, `print_memory`, and the conversions
  of tokens and instructions back to text.
* `top.sv` (a fixed instance with open memory ports), the tests, the vendored
  test framework and the build files have no behaviour worth a model.

## 6. Plan

Done: dispatcher, data memory with its reset, core with a signed reference, and the
way from assembly text to the decoder, with the runs above; proofs for dispatcher,
core, memory system and exit status, and of the three refinements. Left:

1. Proofs: that the setters of `Build` stay within 32 bits.
2. The number of warps a kernel asks for, should the core come to honour it.
