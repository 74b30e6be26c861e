----------------------------- MODULE ComputeCore -----------------------------
(***************************************************************************)
(* A compute core, src/src/compute_core.sv, with everything it             *)
(* instantiates: a fetcher, a decoder, a scalar and a vector register file *)
(* per warp, and an ALU and a load-store unit per thread and one pair for  *)
(* scalar instructions, shared by the warps.  Every action is one rising   *)
(* clock edge; all registers move together and read the values before the  *)
(* edge.                                                                   *)
(*                                                                         *)
(* The two memories are behind controllers (MemController.tla,             *)
(* DataMemorySystem.tla): a ready line stays up until the request is       *)
(* withdrawn, so an answer is the edge at which the core takes it, and     *)
(* any pending request may be answered at any edge.                        *)
(***************************************************************************)
EXTENDS Isa, FiniteSets

CONSTANTS
    WARPS_PER_CORE, THREADS_PER_WARP,
    Programs,           \* functions from addresses to instructions
    BaseAddress,        \* kernel_config.base_instructions_address
    NumWarpsPerBlock,   \* kernel_config.num_warps_per_block
    BlockIds,
    FetcherFeedback,    \* TRUE: fetcher_state_in follows fetcher_state_out
    None                \* no request

Requests == [load : BOOLEAN, addr : Words, data : Words]

ASSUME CoreAssumption ==
    /\ WARPS_PER_CORE \in Nat \ {0}
    /\ THREADS_PER_WARP \in 1 .. WIDTH
    /\ BaseAddress \in Words
    /\ NumWarpsPerBlock \in Nat
    /\ BlockIds \subseteq Words
    /\ FetcherFeedback \in BOOLEAN
    /\ None \notin Words \union Requests
    /\ Programs \subseteq [Words -> Instructions]

ASSUME PowersAssumption == PowersOfTwo

VARIABLES
    program,            \* the instruction memory
    memory,             \* the data memory
    block_id,
    start_execution, done, current_warp,
    warp_state, pc, next_pc,
    fetcher_state_out, fetch_request, fetched_instruction,
    decoded,            \* all decoded_* signals of a warp
    x, s,               \* vector and scalar registers
    rs1, rs2,           \* of a warp, by unit
    alu_out,
    lsu_state, lsu_request, lsu_out,
    vector_to_scalar_data,
    committed           \* history: memory at the last WARP_UPDATE

inputVars == <<program, block_id>>
warpVars == <<start_execution, done, current_warp, warp_state, pc, next_pc,
              vector_to_scalar_data>>
fetchVars == <<fetcher_state_out, fetch_request, fetched_instruction>>
registerVars == <<x, s, rs1, rs2>>
unitVars == <<alu_out, lsu_state, lsu_request, lsu_out>>
vars == <<inputVars, warpVars, fetchVars, decoded, registerVars, unitVars,
          memory, committed>>

Warps == 0 .. WARPS_PER_CORE - 1
Threads == 0 .. THREADS_PER_WARP - 1

\* Each thread has an ALU and a load-store unit; ScalarUnit is warp_alu_inst
\* and warp_lsu_inst.
ScalarUnit == THREADS_PER_WARP
Units == Threads \union {ScalarUnit}

WarpStates == {"WARP_IDLE", "WARP_FETCH", "WARP_DECODE", "WARP_REQUEST", "WARP_WAIT",
               "WARP_EXECUTE", "WARP_UPDATE", "WARP_DONE"}
FetcherStates == {"FETCHER_IDLE", "FETCHER_FETCHING", "FETCHER_DONE"}
LsuStates == {"LSU_IDLE", "LSU_REQUESTING", "LSU_WAITING", "LSU_DONE"}

-----------------------------------------------------------------------------
(* Registers after reset.  rs1, rs2 and vector_to_scalar_data are not      *)
(* reset.                                                                  *)

SpecialRegister(w, t, r) ==
    CASE r = 0 -> 0
      [] r = 1 -> Wrap(w * THREADS_PER_WARP + t)
      [] r = 2 -> block_id
      [] r = 3 -> Wrap(NumWarpsPerBlock * THREADS_PER_WARP)

ClearVectors ==
    [w \in Warps |-> [t \in Threads |-> [r \in Registers |->
        IF r < 4 THEN SpecialRegister(w, t, r) ELSE 0]]]

ClearScalars == [w \in Warps |-> [r \in Registers |-> IF r = 1 THEN AllOnes ELSE 0]]

\* The core is never started without having been reset (dispatcher.sv 50-57).
Init ==
    /\ program \in Programs
    /\ memory = [a \in Words |-> 0]
    /\ block_id \in BlockIds
    /\ start_execution = FALSE
    /\ done = FALSE
    /\ current_warp = 0
    /\ warp_state = [w \in Warps |-> "WARP_IDLE"]
    /\ pc = [w \in Warps |-> 0]
    /\ next_pc = [w \in Warps |-> 0]
    /\ fetcher_state_out = [w \in Warps |-> "FETCHER_IDLE"]
    /\ fetch_request = [w \in Warps |-> None]
    /\ fetched_instruction = [w \in Warps |-> None]
    /\ decoded = [w \in Warps |-> NoControls]
    /\ x = ClearVectors
    /\ s = ClearScalars
    /\ rs1 = [w \in Warps |-> [u \in Units |-> 0]]
    /\ rs2 = [w \in Warps |-> [u \in Units |-> 0]]
    /\ alu_out = [u \in Units |-> 0]
    /\ lsu_state = [u \in Units |-> "LSU_IDLE"]
    /\ lsu_request = [u \in Units |-> None]
    /\ lsu_out = [u \in Units |-> 0]
    /\ vector_to_scalar_data = [w \in Warps |-> 0]
    /\ committed = memory

-----------------------------------------------------------------------------
(* What the current warp is doing, and which units work for it.            *)

Stage == warp_state[current_warp]
Control == decoded[current_warp]
ExecutionMask == s[current_warp][1]

\* Units that ignore the execution mask.
Enabled_Unmasked(u) == Control.scalar <=> u = ScalarUnit

Enabled(u) ==
    IF u = ScalarUnit THEN Control.scalar
    ELSE Bit(ExecutionMask, u) /\ ~Control.scalar

\* A wait that does not look at the scalar unit.
AnyLsuWaiting_VectorOnly ==
    \E u \in Threads : lsu_state[u] \in {"LSU_REQUESTING", "LSU_WAITING"}

AnyLsuWaiting ==
    \E u \in Units : lsu_state[u] \in {"LSU_REQUESTING", "LSU_WAITING"}

-----------------------------------------------------------------------------
(* The fetchers (fetcher.sv).                                              *)

\* fetcher_state_in is a register of compute_core.sv that is only ever set to
\* FETCHER_IDLE; the port fetcher_state_out is left open.
fetcher_state_in(w) ==
    IF FetcherFeedback THEN fetcher_state_out[w] ELSE "FETCHER_IDLE"

StartsFetch(w) == fetcher_state_in(w) = "FETCHER_IDLE" /\ warp_state[w] = "WARP_FETCH"

\* The warps whose fetcher can take an answer at this edge.
Fetching == {w \in Warps :
    fetcher_state_in(w) = "FETCHER_FETCHING" /\ fetch_request[w] # None}

\* A fetcher that keeps its instruction when the warp moves on.
FetcherStateAfter_Keeps(w, ready) ==
    CASE StartsFetch(w) -> "FETCHER_FETCHING"
      [] w \in ready -> "FETCHER_DONE"
      [] OTHER -> fetcher_state_out[w]

FetcherStateAfter(w, ready) ==
    CASE StartsFetch(w) -> "FETCHER_FETCHING"
      [] w \in ready -> "FETCHER_DONE"
      [] fetcher_state_in(w) = "FETCHER_DONE" /\ warp_state[w] = "WARP_DECODE"
            -> "FETCHER_IDLE"
      [] OTHER -> fetcher_state_out[w]

FetchersClock(ready) ==
    /\ fetcher_state_out' = [w \in Warps |-> FetcherStateAfter(w, ready)]
    /\ fetch_request' = [w \in Warps |->
          IF StartsFetch(w) THEN pc[w] ELSE IF w \in ready THEN None ELSE fetch_request[w]]
    /\ fetched_instruction' = [w \in Warps |->
          IF w \in ready THEN program[fetch_request[w]] ELSE fetched_instruction[w]]

DecodersClock ==
    decoded' = [w \in Warps |->
        IF warp_state[w] = "WARP_DECODE" THEN Decode(fetched_instruction[w]) ELSE decoded[w]]

-----------------------------------------------------------------------------
(* The main always block (compute_core.sv 136-299).                        *)

\* The pipeline stage a warp moves to when it is the current one.
StageAfter(w) ==
    CASE warp_state[w] = "WARP_DECODE" -> "WARP_REQUEST"
      [] warp_state[w] = "WARP_REQUEST" -> "WARP_WAIT"
      [] warp_state[w] = "WARP_WAIT" -> IF AnyLsuWaiting THEN "WARP_WAIT" ELSE "WARP_EXECUTE"
      [] warp_state[w] = "WARP_EXECUTE" -> "WARP_UPDATE"
      [] warp_state[w] = "WARP_UPDATE" ->
            IF decoded[w].halt THEN "WARP_DONE" ELSE "WARP_FETCH"
      [] OTHER -> warp_state[w]

WarpStateAfter(w) ==
    IF warp_state[w] = "WARP_FETCH" /\ fetcher_state_in(w) = "FETCHER_DONE"
    THEN "WARP_DECODE"
    ELSE IF w = current_warp THEN StageAfter(w)
    ELSE warp_state[w]

\* The warps the scheduler may choose, and how far each is in its round.
Ready == {w \in Warps : warp_state[w] \notin {"WARP_IDLE", "WARP_FETCH", "WARP_DONE"}}
Distance(w) == (w + WARPS_PER_CORE - current_warp - 1) % WARPS_PER_CORE

\* A scheduler that always scans from warp 0.
NextWarp_FixedPriority == CHOOSE w \in Ready : \A v \in Ready : w <= v

NextWarp == CHOOSE w \in Ready : \A v \in Ready : Distance(w) <= Distance(v)

\* A scheduler that gives the core away while a warp waits for memory.
Reschedules_OnWait == Stage \in {"WARP_WAIT", "WARP_UPDATE", "WARP_DONE"}

Reschedules == Stage \in {"WARP_UPDATE", "WARP_DONE"}

CurrentWarpAfter ==
    IF Reschedules /\ Ready # {} THEN NextWarp ELSE current_warp

BranchTaken == alu_out[ScalarUnit] = 1

NextPc ==
    CASE Control.scalar /\ Control.branch /\ BranchTaken ->
            Wrap(pc[current_warp] + Control.imm)
      [] Control.scalar /\ ~Control.branch /\ Control.alu \in JumpOps -> alu_out[ScalarUnit]
      [] OTHER -> Wrap(pc[current_warp] + 1)

\* Bit i is the outcome of thread i's ALU, whether or not it is enabled.
VectorToScalar ==
    IF Control.mux = "VECTOR_TO_SCALAR"
    THEN WordOf({t \in Threads : Bit(alu_out[t], 0)}) ELSE 0

\* A core that is done as soon as its first warp is.
AllWarpsDone_First == warp_state[0] = "WARP_DONE"

AllWarpsDone == \A w \in Warps : warp_state[w] = "WARP_DONE"

WarpsStart ==
    /\ start_execution' = TRUE
    /\ current_warp' = 0
    /\ warp_state' = [w \in Warps |-> "WARP_FETCH"]
    /\ pc' = [w \in Warps |-> BaseAddress]
    /\ next_pc' = [w \in Warps |-> BaseAddress]
    /\ UNCHANGED <<done, vector_to_scalar_data>>

WarpsClock ==
    /\ done' = AllWarpsDone
    /\ current_warp' = CurrentWarpAfter
    /\ warp_state' = [w \in Warps |-> WarpStateAfter(w)]
    /\ next_pc' = IF Stage = "WARP_EXECUTE" THEN [next_pc EXCEPT ![current_warp] = NextPc]
                  ELSE next_pc
    /\ vector_to_scalar_data' =
          IF Stage = "WARP_EXECUTE"
          THEN [vector_to_scalar_data EXCEPT ![current_warp] = VectorToScalar]
          ELSE vector_to_scalar_data
    /\ pc' = IF Stage = "WARP_UPDATE" /\ ~Control.halt
             THEN [pc EXCEPT ![current_warp] = next_pc[current_warp]] ELSE pc
    /\ UNCHANGED start_execution

-----------------------------------------------------------------------------
(* The register files of the current warp (reg_file.sv,                    *)
(* scalar_reg_file.sv); those of the other warps are not enabled.          *)

\* A vector register file that sets x1 .. x3 at reset only.
SpecialAfter_ResetOnly(t, r) == x[current_warp][t][r]

SpecialAfter(t, r) == SpecialRegister(current_warp, t, r)

\* PC_PLUS_1 is not a source of a vector register: no vector instruction has it.
WritesVector(t) == Enabled(t) /\ Control.write /\ Control.rd >= 4
                     /\ Control.mux # "VECTOR_TO_SCALAR"

\* A scalar register file that lets a program write s0.
WritesScalar_Zero ==
    /\ Control.write
    /\ Control.scalar \/ Control.mux = "VECTOR_TO_SCALAR"

\* A scalar register file that takes the writes of vector instructions too.
WritesScalar_Vector == Control.write /\ Control.rd > 0

WritesScalar ==
    /\ Control.write
    /\ Control.scalar \/ Control.mux = "VECTOR_TO_SCALAR"
    /\ Control.rd > 0

\* What the multiplexer puts on the write port of the register of unit u.
WriteValue(u) ==
    CASE Control.mux = "ALU_OUT" -> alu_out[u]
      [] Control.mux = "LSU_OUT" -> lsu_out[u]
      [] Control.mux = "IMMEDIATE" -> Control.imm
      [] Control.mux = "PC_PLUS_1" -> Wrap(pc[current_warp] + 1)
      [] Control.mux = "VECTOR_TO_SCALAR" -> vector_to_scalar_data[current_warp]

\* Read ports that are a stage early, and so follow the signals of the
\* instruction before.
ReadPort_Early(port, u, r) ==
    IF Stage # "WARP_DECODE" THEN port[current_warp][u]
    ELSE IF u = ScalarUnit THEN s[current_warp][r]
    ELSE IF Bit(ExecutionMask, u) THEN x[current_warp][u][r]
    ELSE port[current_warp][u]

\* The read ports of thread t follow thread_enable alone (not the kind of the
\* instruction); the scalar ports always follow.
ReadPort(port, u, r) ==
    IF Stage # "WARP_REQUEST" THEN port[current_warp][u]
    ELSE IF u = ScalarUnit THEN s[current_warp][r]
    ELSE IF Bit(ExecutionMask, u) THEN x[current_warp][u][r]
    ELSE port[current_warp][u]

RegistersClock ==
    /\ rs1' = [rs1 EXCEPT ![current_warp] = [u \in Units |-> ReadPort(rs1, u, Control.rs1)]]
    /\ rs2' = [rs2 EXCEPT ![current_warp] = [u \in Units |-> ReadPort(rs2, u, Control.rs2)]]
    /\ x' = [x EXCEPT ![current_warp] = [t \in Threads |-> [r \in Registers |->
          IF Stage = "WARP_UPDATE" /\ WritesVector(t) /\ r = Control.rd THEN WriteValue(t)
          ELSE IF r < 4 THEN SpecialAfter(t, r)
          ELSE @[t][r]]]]
    /\ s' = IF Stage = "WARP_UPDATE" /\ WritesScalar
            THEN [s EXCEPT ![current_warp][Control.rd] = WriteValue(ScalarUnit)] ELSE s

-----------------------------------------------------------------------------
(* The ALUs and load-store units (alu.sv, lsu.sv).                         *)

AlusClock ==
    alu_out' = [u \in Units |->
        IF Enabled(u)
        THEN AluOut(Control.alu, pc[current_warp], rs1[current_warp][u],
                    rs2[current_warp][u], Control.imm)
        ELSE alu_out[u]]

Active(u) == Enabled(u) /\ (Control.load \/ Control.store)

\* The units that can take an answer at this edge.
Waiting == {u \in Units : Active(u) /\ lsu_state[u] = "LSU_WAITING"}

LsuStateAfter(u, served) ==
    CASE Active(u) /\ lsu_state[u] = "LSU_IDLE" /\ Stage = "WARP_REQUEST"
            -> "LSU_REQUESTING"
      [] Active(u) /\ lsu_state[u] = "LSU_REQUESTING" -> "LSU_WAITING"
      [] u \in served -> "LSU_DONE"
      [] Active(u) /\ lsu_state[u] = "LSU_DONE" /\ Stage = "WARP_UPDATE" -> "LSU_IDLE"
      [] OTHER -> lsu_state[u]

LsusClock(served) ==
    /\ lsu_state' = [u \in Units |-> LsuStateAfter(u, served)]
    /\ lsu_request' = [u \in Units |->
          IF Active(u) /\ lsu_state[u] = "LSU_REQUESTING"
          THEN [load |-> Control.load,
                addr |-> Wrap(rs1[current_warp][u] + Control.imm),
                data |-> IF Control.load THEN 0 ELSE rs2[current_warp][u]]
          ELSE IF u \in served THEN None ELSE lsu_request[u]]
    /\ lsu_out' = [u \in Units |->
          IF u \in served /\ Control.load THEN memory[lsu_request[u].addr] ELSE lsu_out[u]]

\* Of several units that write one address at this edge, any may be the last.
MemoryClock(served) ==
    LET writers(a) == {u \in served : ~lsu_request[u].load /\ lsu_request[u].addr = a}
        written == {a \in Words : writers(a) # {}}
    IN  \E last \in [written -> Units] :
            /\ \A a \in written : last[a] \in writers(a)
            /\ memory' = [a \in Words |->
                  IF a \in written THEN lsu_request[last[a]].data ELSE memory[a]]

-----------------------------------------------------------------------------
(* The clock edges.                                                        *)

\* Everything but the main always block.
DatapathClock(ready, served) ==
    /\ FetchersClock(ready)
    /\ DecodersClock
    /\ RegistersClock
    /\ AlusClock
    /\ LsusClock(served)
    /\ MemoryClock(served)
    /\ committed' = IF Stage = "WARP_UPDATE" THEN memory ELSE committed
    /\ UNCHANGED inputVars

\* start is high and the core is not executing yet.
Start ==
    /\ ~start_execution
    /\ WarpsStart
    /\ DatapathClock({}, {})

Run(ready, served) ==
    /\ start_execution
    /\ WarpsClock
    /\ DatapathClock(ready, served)

\* The dispatcher resets a core that is done, and at the same edge gives it
\* its next block (dispatcher.sv 65-88).  The registers still take the old id.
Reset ==
    /\ done
    /\ block_id' \in BlockIds
    /\ start_execution' = FALSE
    /\ done' = FALSE
    /\ current_warp' = 0
    /\ warp_state' = [w \in Warps |-> "WARP_IDLE"]
    /\ pc' = [w \in Warps |-> 0]
    /\ next_pc' = [w \in Warps |-> 0]
    /\ fetcher_state_out' = [w \in Warps |-> "FETCHER_IDLE"]
    /\ fetch_request' = [w \in Warps |-> None]
    /\ fetched_instruction' = [w \in Warps |-> None]
    /\ decoded' = [w \in Warps |-> NoControls]
    /\ x' = ClearVectors
    /\ s' = ClearScalars
    /\ alu_out' = [u \in Units |-> 0]
    /\ lsu_state' = [u \in Units |-> "LSU_IDLE"]
    /\ lsu_request' = [u \in Units |-> None]
    /\ lsu_out' = [u \in Units |-> 0]
    /\ UNCHANGED <<program, rs1, rs2, vector_to_scalar_data, memory, committed>>

Next ==
    \/ Reset
    \/ Start
    \/ \E ready \in SUBSET Fetching, served \in SUBSET Waiting : Run(ready, served)

Spec == Init /\ [][Next]_vars

\* The clock runs and both memories answer in the end.
FetchAnswered(w) ==
    /\ w \in Fetching
    /\ \E ready \in SUBSET Fetching, served \in SUBSET Waiting :
          w \in ready /\ Run(ready, served)

AccessAnswered(u) ==
    /\ u \in Waiting
    /\ \E ready \in SUBSET Fetching, served \in SUBSET Waiting :
          u \in served /\ Run(ready, served)

Fairness ==
    /\ WF_vars(Start)
    /\ WF_vars(\E ready \in SUBSET Fetching, served \in SUBSET Waiting : Run(ready, served))
    /\ \A w \in Warps : WF_vars(FetchAnswered(w))
    /\ \A u \in Units : WF_vars(AccessAnswered(u))

FairSpec == Spec /\ Fairness

-----------------------------------------------------------------------------
(* Properties.                                                             *)

InPipeline == {"WARP_REQUEST", "WARP_WAIT", "WARP_EXECUTE", "WARP_UPDATE"}

\* Types; s0 is tied to zero (scalar_reg_file.sv 57), and a unit's request is
\* pending exactly while it waits.
TypeOK ==
    /\ program \in Programs
    /\ memory \in [Words -> Words]
    /\ committed \in [Words -> Words]
    /\ block_id \in BlockIds
    /\ start_execution \in BOOLEAN
    /\ done \in BOOLEAN
    /\ current_warp \in Warps
    /\ warp_state \in [Warps -> WarpStates]
    /\ pc \in [Warps -> Words]
    /\ next_pc \in [Warps -> Words]
    /\ fetcher_state_out \in [Warps -> FetcherStates]
    /\ fetch_request \in [Warps -> Words \union {None}]
    /\ \A w \in Warps : decoded[w] \in Controls
    /\ x \in [Warps -> [Threads -> [Registers -> Words]]]
    /\ s \in [Warps -> [Registers -> Words]]
    /\ rs1 \in [Warps -> [Units -> Words]]
    /\ rs2 \in [Warps -> [Units -> Words]]
    /\ alu_out \in [Units -> Words]
    /\ lsu_state \in [Units -> LsuStates]
    /\ lsu_request \in [Units -> Requests \union {None}]
    /\ lsu_out \in [Units -> Words]
    /\ vector_to_scalar_data \in [Warps -> Words]
    /\ \A w \in Warps : s[w][0] = 0
    /\ \A u \in Units : lsu_request[u] # None <=> lsu_state[u] = "LSU_WAITING"

\* The units are shared, so only one warp may be between WARP_REQUEST and
\* WARP_UPDATE, and it must be the current one: a warp switched away from in
\* the middle would find its ALU results and LSU answers overwritten
\* (compute_core.sv 187: "we do not change state unless we are in WARP_UPDATE").
OneWarpInPipeline ==
    \A w \in Warps : warp_state[w] \in InPipeline => w = current_warp

\* A load-store unit is busy only for the instruction of the current warp, is
\* answered before that instruction executes, and is idle again when the next
\* one reaches WARP_REQUEST: no answer can reach the wrong warp or instruction.
UnitsFollowTheWarp ==
    \A u \in Units :
        /\ lsu_state[u] # "LSU_IDLE" =>
              Active(u) /\ Stage \in {"WARP_WAIT", "WARP_EXECUTE", "WARP_UPDATE"}
        /\ Active(u) /\ Stage \in {"WARP_EXECUTE", "WARP_UPDATE"} => lsu_state[u] = "LSU_DONE"

\* A warp decodes, and its control signals are those of, the instruction at its
\* own pc: fetches run in parallel with another warp's execution, and none is
\* taken for the one before it.
InstructionIsCurrent ==
    \A w \in Warps :
        /\ warp_state[w] = "WARP_DECODE" => fetched_instruction[w] = program[pc[w]]
        /\ warp_state[w] \in InPipeline => decoded[w] = Decode(program[pc[w]])

\* A fetcher works for its warp only while that is in WARP_FETCH, for the pc the
\* warp has now, and hands over that instruction before it begins again.
FetchFollowsTheWarp ==
    \A w \in Warps :
        /\ fetch_request[w] # None <=> fetcher_state_out[w] = "FETCHER_FETCHING"
        /\ fetcher_state_out[w] = "FETCHER_FETCHING" =>
              warp_state[w] = "WARP_FETCH" /\ fetch_request[w] = pc[w]
        /\ fetcher_state_out[w] = "FETCHER_DONE" =>
              /\ warp_state[w] \in {"WARP_FETCH", "WARP_DECODE"}
              /\ fetched_instruction[w] = program[pc[w]]
        /\ ~FetcherFeedback => warp_state[w] \in {"WARP_IDLE", "WARP_FETCH"}

\* The warps leave WARP_IDLE together, when the core starts, and "done" is only
\* up while all of them are in WARP_DONE.
WarpsFollowTheBlock ==
    /\ \A w \in Warps : start_execution <=> warp_state[w] # "WARP_IDLE"
    /\ done => AllWarpsDone

\* A unit that an instruction needs has begun to ask when its warp waits.
AskInTime ==
    Stage = "WARP_WAIT" => \A u \in Units : Active(u) => lsu_state[u] # "LSU_IDLE"

\* What makes the safety properties of the core inductive: they hold together, and
\* with those on the fetchers, the block, and the units' asking in time.
CoreInvariant ==
    /\ TypeOK
    /\ WarpsFollowTheBlock
    /\ OneWarpInPipeline
    /\ UnitsFollowTheWarp
    /\ AskInTime
    /\ FetchFollowsTheWarp
    /\ InstructionIsCurrent

\* The registers the instruction of the current warp reads, by unit, and the
\* address it accesses.
Operand(u, r) ==
    IF u = ScalarUnit THEN s[current_warp][r]
    ELSE IF r < 4 THEN SpecialRegister(current_warp, u, r)
    ELSE x[current_warp][u][r]
Address(u) == Wrap(Operand(u, Control.rs1) + Control.imm)

\* From WARP_WAIT on, an enabled unit has its operands; from WARP_EXECUTE on, its
\* result; in WARP_UPDATE the warp has its next pc and its threads' outcomes.  The
\* units are shared, and their registers are only as fresh as the order of the
\* stages makes them.
UnitsHaveTheOperands ==
    \A u \in Units : Enabled(u) =>
        /\ Stage \in {"WARP_WAIT", "WARP_EXECUTE", "WARP_UPDATE"} =>
              /\ rs1[current_warp][u] = Operand(u, Control.rs1)
              /\ rs2[current_warp][u] = Operand(u, Control.rs2)
        /\ Stage \in {"WARP_EXECUTE", "WARP_UPDATE"} =>
              alu_out[u] = AluOut(Control.alu, pc[current_warp], Operand(u, Control.rs1),
                                  Operand(u, Control.rs2), Control.imm)

OutcomeIsLatched ==
    Stage = "WARP_UPDATE" =>
        /\ next_pc[current_warp] = NextPc
        /\ vector_to_scalar_data[current_warp] = VectorToScalar

\* What a unit asks, and what it was answered: no store of its own instruction,
\* nor of a warp before it, changes the word it has loaded.
AccessesAreExact ==
    \A u \in Units :
        /\ lsu_state[u] = "LSU_WAITING" =>
              lsu_request[u] = [load |-> Control.load, addr |-> Address(u),
                                data |-> IF Control.load THEN 0 ELSE Operand(u, Control.rs2)]
        /\ lsu_state[u] = "LSU_DONE" /\ Control.load => lsu_out[u] = committed[Address(u)]

\* Memory differs from what it was after the last instruction only where units
\* of the current one have stored.
Stored(a) == {u \in Units : lsu_state[u] = "LSU_DONE" /\ Control.store /\ Address(u) = a}
MemoryFollowsTheStores ==
    \A a \in Words :
        IF Stored(a) = {} THEN memory[a] = committed[a]
        ELSE \E u \in Stored(a) : memory[a] = Operand(u, Control.rs2)

\* x1 to x3 hold the thread id, block id and block size whenever an instruction
\* reads its operands, though at reset they took the id of the block before
\* (reg_file.sv 58-72; the dispatcher changes block_id at that same edge).
SpecialRegistersFresh ==
    Stage = "WARP_REQUEST" =>
        \A t \in Threads, r \in 0 .. 3 :
            x[current_warp][t][r] = SpecialRegister(current_warp, t, r)

\* The dispatcher resets a core as soon as it is done; that reset must not cut
\* off a fetch or a memory access, whose answer would then go to the next block.
QuietWhenDone ==
    done => /\ \A u \in Units : lsu_state[u] = "LSU_IDLE"
            /\ \A w \in Warps : fetch_request[w] = None /\ fetcher_state_out[w] = "FETCHER_IDLE"

\* The scheduler is fair: an instruction that was fetched gets through the
\* pipeline, whatever the other warps do (compute_core.sv 189-206).
EveryFetchRetires ==
    \A w \in Warps : warp_state[w] = "WARP_DECODE" ~> warp_state[w] = "WARP_UPDATE"

\* A block of a program whose warps halt, also if one has to wait for a store of
\* another, ends with "done" (test/gpu/general_gpu_tests.cpp 34: REQUIRE(done)).
EveryBlockEnds == ~done ~> done

\* README.md 106: each bit of the execution mask "denotes whether this
\* particular thread should execute the next instruction (1 -> execute, 0 ->
\* noop)": an instruction changes neither a masked thread's registers nor its
\* bit of a scalar register that the threads write together.
MaskedThreadsAreNoop ==
    [][start_execution /\ Stage = "WARP_UPDATE" =>
        \A t \in Threads : ~Bit(ExecutionMask, t) =>
            /\ x'[current_warp][t] = x[current_warp][t]
            /\ Control.mux = "VECTOR_TO_SCALAR" =>
                  Bit(s'[current_warp][Control.rd], t) = Bit(s[current_warp][Control.rd], t)]_vars

\* The state of the sequential machine the programmer sees: the machine, and the
\* same machine with operations that yield what alu.sv does.
HaltedWarps == {w \in Warps : warp_state[w] = "WARP_DONE"}
ProgramCounters == [w \in Warps |-> IF start_execution THEN pc[w] ELSE BaseAddress]
GeneralVectors ==
    [w \in Warps |-> [t \in Threads |-> [r \in 4 .. NUM_REGISTERS - 1 |-> x[w][t][r]]]]

Machine == INSTANCE SimtMachine WITH
    halted <- HaltedWarps, pc <- ProgramCounters, x <- GeneralVectors, memory <- committed,
    SignedArithmetic <- TRUE
BuiltMachine == INSTANCE SimtMachine WITH
    halted <- HaltedWarps, pc <- ProgramCounters, x <- GeneralVectors, memory <- committed,
    SignedArithmetic <- FALSE

\* The core implements it: a warp's instruction takes effect as one step, though
\* it takes many edges, overlaps with the fetches of others and waits for memory.
ImplementsSimtMachine == Machine!Spec

\* The same, with operations yielding what alu.sv does: of every program.
ImplementsBuiltMachine == BuiltMachine!Spec

\* README.md 127: "currently, there is also no support for unsigned arithmetic
\* instructions": what an enabled unit hands to the register files, or to the
\* branch, is the result of the signed operation on the operands it was given.
ArithmeticIsSigned ==
    Stage = "WARP_UPDATE" /\ Control.alu \notin JumpOps =>
        \A u \in Units : Enabled(u) =>
            alu_out[u] = Machine!Meaning(Control.alu, rs1[current_warp][u],
                IF Control.alu \in ImmediateOps THEN Control.imm ELSE rs2[current_warp][u])

\* The invariant of the refinement, with CoreInvariant and SpecialRegistersFresh: what
\* the registers between the stages hold is what the instruction in the pipeline needs.
PipelineInvariant ==
    /\ UnitsHaveTheOperands
    /\ OutcomeIsLatched
    /\ AccessesAreExact
    /\ MemoryFollowsTheStores
=============================================================================
