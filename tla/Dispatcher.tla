----------------------------- MODULE Dispatcher -----------------------------
(***************************************************************************)
(* Block dispatch: the always block of src/src/dispatcher.sv, the launch   *)
(* latch of src/src/gpu.sv and, of each compute core, the part that talks  *)
(* to the dispatcher (start / done / reset, src/src/compute_core.sv).      *)
(* What a core does between starting a block and having all its warps in   *)
(* WARP_DONE is abstracted to "some time passes"; ComputeCore.tla models   *)
(* it.  Every action is one rising clock edge of the whole design: all     *)
(* registers move together, each reading the values before the edge.       *)
(***************************************************************************)
EXTENDS Naturals, FiniteSets

CONSTANTS
    NUM_CORES,      \* parameter of gpu.sv
    KernelSizes     \* the values of num_blocks a host may configure

ASSUME NumCoresAssumption == NUM_CORES \in Nat \ {0}
ASSUME KernelSizesAssumption == KernelSizes \subseteq Nat

VARIABLES
    launched,           \* gpu.sv start_execution: the dispatcher's "start"
    num_blocks,         \* gpu.sv kernel_config_reg.num_blocks
    done,               \* execution_done
    start_execution,    \* dispatcher.sv start_execution
    blocks_dispatched,
    blocks_done,
    core_start, core_reset, core_block_id,
    core_started,       \* compute_core.sv start_execution
    core_done,          \* compute_core.sv done
    warps_done,         \* every warp of the core is in WARP_DONE
    finished            \* history: blocks a core has run to their end

gpuVars == <<launched, num_blocks>>
dispatcherVars == <<done, start_execution, blocks_dispatched, blocks_done,
                    core_start, core_reset, core_block_id>>
coreVars == <<core_started, core_done, warps_done>>
vars == <<gpuVars, dispatcherVars, coreVars, finished>>

Cores == 0 .. NUM_CORES - 1
Blocks == 0 .. num_blocks - 1

-----------------------------------------------------------------------------
(* The registers at power-up: the simulator clears them and never asserts  *)
(* reset; the board's reset button can be pressed at any edge.             *)

Init ==
    /\ launched = FALSE
    /\ num_blocks = 0
    /\ done = FALSE
    /\ start_execution = FALSE
    /\ blocks_dispatched = 0
    /\ blocks_done = 0
    /\ core_start = [c \in Cores |-> FALSE]
    /\ core_reset = [c \in Cores |-> FALSE]
    /\ core_block_id = [c \in Cores |-> 0]
    /\ core_started = [c \in Cores |-> FALSE]
    /\ core_done = [c \in Cores |-> FALSE]
    /\ warps_done = [c \in Cores |-> FALSE]
    /\ finished = {}

-----------------------------------------------------------------------------
(* The cores.                                                              *)

\* The core is past its start handshake and still has a warp to run.
Executing(c) == core_started[c] /\ ~warps_done[c] /\ ~core_reset[c]

\* A core that forgets to clear "done" when it is reset.
CoreDoneAfter_KeptByReset(c) ==
    IF core_started[c] /\ ~core_reset[c] THEN warps_done[c] ELSE core_done[c]

\* The value of compute_core's "done" after the edge.
CoreDoneAfter(c) ==
    /\ ~core_reset[c]
    /\ IF core_started[c] THEN warps_done[c] ELSE core_done[c]

\* One edge of every core; "ending" are the cores whose last warp ends now.
CoresClock(ending) ==
    /\ core_started' = [c \in Cores |->
          ~core_reset[c] /\ (core_started[c] \/ core_start[c])]
    /\ core_done' = [c \in Cores |-> CoreDoneAfter(c)]
    /\ warps_done' = [c \in Cores |->
          ~core_reset[c] /\ (warps_done[c] \/ c \in ending)]

-----------------------------------------------------------------------------
(* The dispatcher's loops over the cores, which read the registers as they *)
(* were before the edge, except blocks_dispatched, a blocking variable the *)
(* loop increments as it goes.                                             *)

Resetting == {c \in Cores : core_reset[c]}

\* How many cores the dispatch loop has served when it comes to core c.
Rank(c) == Cardinality({d \in Resetting : d < c})

\* The block offered to core c, had blocks_dispatched been a register.
BlockFor_Nonblocking(c) == blocks_dispatched

\* The value of blocks_dispatched when the loop comes to core c (once it has
\* reached num_blocks it stays there; then BlockFor(c) >= num_blocks).
BlockFor(c) == blocks_dispatched + Rank(c)

\* A dispatch loop whose bound lets one block too many out.
Dispatches_OffByOne(c) == core_reset[c] /\ BlockFor(c) <= num_blocks

Dispatches(c) == core_reset[c] /\ BlockFor(c) < num_blocks

Dispatching == {c \in Cores : Dispatches(c)}

\* A block_id wired to the counter instead of a register of its own.
BlockIdAfter_Wired(c) == BlockFor(c)

BlockIdAfter(c) == IF Dispatches(c) THEN BlockFor(c) ELSE core_block_id[c]

\* A completion loop that trusts "done" of cores it has not started.
Collects_IgnoresStart(c) == core_done[c]

Collects(c) == core_start[c] /\ core_done[c]

\* A comparison against the number of blocks handed out.
KernelComplete_Dispatched == blocks_dispatched = num_blocks

\* A comparison that waits for one block too many.
KernelComplete_Exceeds == blocks_done > num_blocks

KernelComplete == blocks_done = num_blocks

\* A dispatcher that does not reset a core after its block.
CoreResetAfter_NoReset(c) == ~core_reset[c] /\ ~start_execution

\* The last of the assignments to core_reset[c] that run is the one that counts.
CoreResetAfter(c) ==
    \/ Collects(c)
    \/ ~core_reset[c] /\ ~start_execution

\* All increments in one edge assign the same value, so only one counts.
BlocksDoneAfter ==
    IF \E c \in Cores : Collects(c) THEN blocks_done + 1 ELSE blocks_done

DispatchClock ==
    /\ start_execution' = TRUE
    /\ done' = (done \/ KernelComplete)
    /\ core_reset' = [c \in Cores |-> CoreResetAfter(c)]
    /\ core_start' = [c \in Cores |->
          ~Collects(c) /\ (core_start[c] \/ Dispatches(c))]
    /\ core_block_id' = [c \in Cores |-> BlockIdAfter(c)]
    /\ blocks_dispatched' = blocks_dispatched + Cardinality(Dispatching)
    /\ blocks_done' = BlocksDoneAfter

-----------------------------------------------------------------------------
(* The clock edges.                                                        *)

\* gpu.sv and dispatcher.sv with reset asserted.
Reset(ending) ==
    /\ launched' = FALSE
    /\ done' = FALSE
    /\ start_execution' = FALSE
    /\ blocks_dispatched' = 0
    /\ blocks_done' = 0
    /\ core_start' = [c \in Cores |-> FALSE]
    /\ core_reset' = [c \in Cores |-> TRUE]
    /\ core_block_id' = [c \in Cores |-> 0]
    /\ finished' = {}
    /\ CoresClock(ending)
    /\ UNCHANGED num_blocks

\* execution_start is low and no kernel is running.
Wait(ending) ==
    /\ ~launched
    /\ CoresClock(ending)
    /\ UNCHANGED <<gpuVars, dispatcherVars, finished>>

\* execution_start is high: gpu.sv latches the kernel configuration.
Launch(ending) ==
    /\ ~launched
    /\ launched' = TRUE
    /\ num_blocks' \in KernelSizes
    /\ CoresClock(ending)
    /\ UNCHANGED <<dispatcherVars, finished>>

\* A kernel is running (execution_start is ignored).
Run(ending) ==
    /\ launched
    /\ DispatchClock
    /\ CoresClock(ending)
    /\ finished' = finished \union {core_block_id[c] : c \in ending}
    /\ UNCHANGED gpuVars

Next ==
    \E ending \in SUBSET {c \in Cores : Executing(c)} :
        Reset(ending) \/ Wait(ending) \/ Launch(ending) \/ Run(ending)

Spec == Init /\ [][Next]_vars

\* While a kernel runs the clock keeps running, and a core that executes a
\* block eventually has all warps done (the kernel's code halts).
CoreEnds(c) ==
    /\ launched
    /\ Executing(c)
    /\ \E ending \in SUBSET {d \in Cores : Executing(d)} :
          c \in ending /\ Run(ending)

Fairness ==
    /\ WF_vars(\E ending \in SUBSET {c \in Cores : Executing(c)} : Run(ending))
    /\ \A c \in Cores : WF_vars(CoreEnds(c))

FairSpec == Spec /\ Fairness

-----------------------------------------------------------------------------
\* Types, and the ranges of the two counters: the dispatch loop stops at
\* num_blocks and no completion is counted without a block, so neither counter
\* ever needs more than the 32 bits num_blocks itself has.
TypeOK ==
    /\ launched \in BOOLEAN
    /\ num_blocks \in Nat
    /\ done \in BOOLEAN
    /\ start_execution \in BOOLEAN
    /\ blocks_dispatched \in 0 .. num_blocks
    /\ blocks_done \in 0 .. num_blocks
    /\ core_start \in [Cores -> BOOLEAN]
    /\ core_reset \in [Cores -> BOOLEAN]
    /\ core_block_id \in [Cores -> Nat]
    /\ core_started \in [Cores -> BOOLEAN]
    /\ core_done \in [Cores -> BOOLEAN]
    /\ warps_done \in [Cores -> BOOLEAN]
    /\ finished \subseteq Nat

\* The blocks that have ended and that no core holds any more: those whose
\* completion the dispatcher has seen.
Retired ==
    {b \in finished : \A c \in Cores : core_start[c] => core_block_id[c] # b}

NothingBeforeLaunch ==
    /\ ~launched => blocks_dispatched = 0 /\ blocks_done = 0 /\ ~done /\ ~start_execution
    /\ ~start_execution => \A c \in Cores : ~core_start[c]

HandshakeOrder ==
    \A c \in Cores :
        /\ core_start[c] => ~core_reset[c]
        /\ core_started[c] => core_start[c] \/ core_reset[c]
        /\ warps_done[c] => core_started[c]
        /\ core_done[c] => warps_done[c]

BlocksInRange ==
    /\ finished \subseteq 0 .. blocks_dispatched - 1
    /\ \A c \in Cores : core_start[c] => core_block_id[c] < blocks_dispatched

HeldBlocksDiffer ==
    \A c, d \in Cores :
        core_start[c] /\ core_start[d] /\ core_block_id[c] = core_block_id[d] => c = d

HeldBlockEndsWithWarps ==
    \A c \in Cores :
        core_start[c] => (warps_done[c] <=> core_block_id[c] \in finished)

CountIsBelowRetired ==
    /\ blocks_done <= Cardinality(Retired)
    /\ done => blocks_done = num_blocks

\* The inductive invariant of DispatcherProofs.tla: what the start / done /
\* reset handshake of dispatcher.sv 65-88 and compute_core.sv 140-180 keeps
\* true, and that blocks_done never runs ahead of the blocks that ended.
HandshakeInvariant ==
    /\ TypeOK
    /\ NothingBeforeLaunch
    /\ HandshakeOrder
    /\ BlocksInRange
    /\ HeldBlocksDiffer
    /\ HeldBlockEndsWithWarps
    /\ CountIsBelowRetired

\* execution_done is never raised early (dispatcher.sv 59-63): when it is
\* high, every block of the grid, and nothing else, has been run to its end.
\* With the lost increments of blocks_done, the dispatcher errs on one side only.
DoneMeansAllFinished == done => finished = Blocks

\* The cores the dispatcher has given a block and that run it.
Running == {c \in Cores : core_start[c] /\ Executing(c)}

\* A block runs at most once (dispatcher.sv 65-78): no two cores run the same
\* block, and no core runs a block that has already been run.
NoBlockRunsTwice ==
    \A c \in Running :
        /\ core_block_id[c] \notin finished
        /\ \A d \in Running \ {c} : core_block_id[d] # core_block_id[c]

\* A "done" the dispatcher acts on (dispatcher.sv 81) is never left over from
\* the block the core ran before: the block it names now has really ended.
CompletionIsFresh ==
    \A c \in Cores : Collects(c) => core_block_id[c] \in finished

\* A core's block_id input, which reg_file.sv copies into x2 on every cycle,
\* does not move under a block that is being executed.
BlockIdIsStable ==
    [][launched' => \A c \in Running : core_block_id'[c] = core_block_id[c]]_vars

\* Whatever the number of cores, every block of a launched kernel is run to
\* its end unless the GPU is reset: no block is skipped by the dispatch loop and
\* no core is left out of the start/done/reset handshake for ever.
EveryBlockRuns ==
    \A b \in UNION {0 .. n - 1 : n \in KernelSizes} :
        (launched /\ b < num_blocks) ~> (b \in finished \/ ~launched)

\* dispatcher.sv 59: "If the last block has finished processing, mark this
\* kernel as done executing".
LastBlockMarksDone ==
    (launched /\ finished = Blocks) ~> (done \/ ~launched)

\* The same when no two cores ever have their done acted on at one edge, as
\* with the one core of the FPGA board, so that no increment of blocks_done is
\* lost: then every core may finish whenever it likes, before or after blocks
\* that were dispatched later.
OneAtATimeMarksDone ==
    [](Cardinality({c \in Cores : Collects(c)}) <= 1) => LastBlockMarksDone

\* The dispatcher and the handshake implement the launch contract.
Contract == INSTANCE KernelContract WITH
    running <- {core_block_id[c] : c \in Running}

ImplementsContract == Contract!Spec
=============================================================================
