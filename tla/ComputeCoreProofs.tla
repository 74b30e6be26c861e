-------------------------- MODULE ComputeCoreProofs --------------------------
(***************************************************************************)
(* Proofs about ComputeCore.tla, for every number of warps and threads,    *)
(* every width of words, every program and every order in which memories   *)
(* answer.                                                                 *)
(***************************************************************************)
EXTENDS ComputeCore, IsaProofs

-----------------------------------------------------------------------------
(* Facts about constants, and about what is read in a state.               *)

\* The constants are words, registers and warps, and arithmetic stays in words.
LEMMA CoreConstants ==
  /\ 0 \in Words /\ 1 \in Words /\ AllOnes \in Words /\ 0 \in Warps /\ 0 \in Registers
  /\ BaseAddress \in Words /\ None \notin Words /\ Words \subseteq Nat
  /\ \A n \in Int : Wrap(n) \in Words
  /\ \A a, b \in Words : Wrap(a + b) \in Words /\ Wrap(a + 1) \in Words
  /\ NoControls \in Controls
  /\ \A i \in Instructions : Decode(i) \in Controls
  /\ \A p \in Programs : p \in [Words -> Instructions]
  /\ ScalarUnit \in Units /\ Threads \subseteq Units
<1>1. /\ 0 \in Words /\ 1 \in Words /\ AllOnes \in Words /\ Words \subseteq Nat
      /\ \A n \in Int : Wrap(n) \in Words
  BY PowersAssumption, WordRange
<1>2. NoControls \in Controls /\ \A i \in Instructions : Decode(i) \in Controls
  BY PowersAssumption, DecodeYieldsControls
<1>3. 0 \in Warps /\ 0 \in Registers
  BY CoreAssumption, IsaAssumption DEF Warps, Registers
<1>4. ASSUME NEW a \in Words, NEW b \in Words
      PROVE  Wrap(a + b) \in Words /\ Wrap(a + 1) \in Words
  <2>1. a + b \in Int /\ a + 1 \in Int
    BY <1>1
  <2> QED
    BY <2>1, <1>1
<1> QED
  BY <1>1, <1>2, <1>3, <1>4, CoreAssumption DEF Units

\* The read-only registers of a thread hold words.
LEMMA SpecialRegistersAreWords ==
  ASSUME block_id \in BlockIds, NEW w \in Warps, NEW t \in Threads, NEW r \in 0 .. 3
  PROVE  SpecialRegister(w, t, r) \in Words
<1>1. w * THREADS_PER_WARP + t \in Int /\ NumWarpsPerBlock * THREADS_PER_WARP \in Int
  BY CoreAssumption, IsaAssumption DEF Warps, Threads
<1> QED
  BY <1>1, CoreConstants, CoreAssumption DEF SpecialRegister

\* What a reset, or the start of a block, writes to the registers are words.
LEMMA ClearRegistersAreWords ==
  ASSUME block_id \in BlockIds
  PROVE  /\ ClearVectors \in [Warps -> [Threads -> [Registers -> Words]]]
         /\ ClearScalars \in [Warps -> [Registers -> Words]]
         /\ \A w \in Warps : ClearScalars[w][0] = 0
<1>1. ASSUME NEW w \in Warps, NEW t \in Threads, NEW r \in Registers
      PROVE  (IF r < 4 THEN SpecialRegister(w, t, r) ELSE 0) \in Words
  <2>1. r < 4 => r \in 0 .. 3
    BY IsaAssumption DEF Registers
  <2> QED
    BY <2>1, SpecialRegistersAreWords, CoreConstants
<1> QED
  BY <1>1, CoreConstants DEF ClearVectors, ClearScalars

\* The control signals of the current warp.
LEMMA ControlSignals ==
  ASSUME TypeOK
  PROVE  /\ Control.scalar \in BOOLEAN /\ Control.write \in BOOLEAN
         /\ Control.load \in BOOLEAN /\ Control.store \in BOOLEAN
         /\ Control.branch \in BOOLEAN /\ Control.halt \in BOOLEAN
         /\ Control.mux \in Muxes /\ Control.alu \in AluOps
         /\ Control.rd \in Registers /\ Control.rs1 \in Registers
         /\ Control.rs2 \in Registers /\ Control.imm \in Words
<1>1. Control \in Controls
  BY DEF TypeOK, Control
<1> QED
  BY <1>1 DEF Controls

\* The write multiplexers put words on the registers' write ports.
LEMMA WriteValuesAreWords ==
  ASSUME TypeOK, NEW u \in Units
  PROVE  WriteValue(u) \in Words
<1>1. current_warp \in Warps /\ pc \in [Warps -> Words]
      /\ alu_out \in [Units -> Words] /\ lsu_out \in [Units -> Words]
      /\ vector_to_scalar_data \in [Warps -> Words]
  BY DEF TypeOK
<1>2. Wrap(pc[current_warp] + 1) \in Words
  <2>1. pc[current_warp] \in Words
    BY <1>1
  <2> QED
    BY <2>1, CoreConstants
<1> QED
  BY <1>1, <1>2, CoreConstants, ControlSignals DEF WriteValue, Muxes

-----------------------------------------------------------------------------
(* Types: of what an edge leaves in the registers of each part.            *)

\* The fetchers and decoders (fetcher.sv, decoder.sv): a warp that decodes has
\* fetched an instruction of the program.
LEMMA FetchersKeepTypes ==
  ASSUME TypeOK, NEW ready \in SUBSET Fetching, FetchersClock(ready), DecodersClock,
         InstructionIsCurrent
  PROVE  /\ fetcher_state_out' \in [Warps -> FetcherStates]
         /\ fetch_request' \in [Warps -> Words \union {None}]
         /\ \A w \in Warps : decoded'[w] \in Controls
<1>1. \A w \in Warps : fetcher_state_out[w] \in FetcherStates /\ decoded[w] \in Controls
                       /\ fetch_request[w] \in Words \union {None} /\ pc[w] \in Words
  BY DEF TypeOK
<1>2. fetcher_state_out' \in [Warps -> FetcherStates]
  BY <1>1 DEF FetchersClock, FetcherStateAfter, FetcherStates
<1>3. fetch_request' \in [Warps -> Words \union {None}]
  BY <1>1 DEF FetchersClock
<1>4. ASSUME NEW w \in Warps PROVE decoded'[w] \in Controls
  <2>1. warp_state[w] = "WARP_DECODE" => fetched_instruction[w] \in Instructions
    <3>1. program \in [Words -> Instructions] /\ pc[w] \in Words
      BY <1>1, CoreAssumption DEF TypeOK
    <3>2. warp_state[w] = "WARP_DECODE" => fetched_instruction[w] = program[pc[w]]
      BY DEF InstructionIsCurrent
    <3> QED
      BY <3>1, <3>2
  <2> QED
    BY <2>1, <1>1, CoreConstants DEF DecodersClock
<1> QED
  BY <1>2, <1>3, <1>4

\* The register files (reg_file.sv, scalar_reg_file.sv); scalar x0 stays 0.
LEMMA RegistersKeepTypes ==
  ASSUME TypeOK, RegistersClock
  PROVE  /\ x' \in [Warps -> [Threads -> [Registers -> Words]]]
         /\ s' \in [Warps -> [Registers -> Words]]
         /\ rs1' \in [Warps -> [Units -> Words]]
         /\ rs2' \in [Warps -> [Units -> Words]]
         /\ \A w \in Warps : s'[w][0] = 0
<1> USE DEF TypeOK
<1>1. current_warp \in Warps /\ block_id \in BlockIds
  OBVIOUS
<1>2. ASSUME NEW port \in [Warps -> [Units -> Words]], NEW u \in Units, NEW r \in Registers
      PROVE  ReadPort(port, u, r) \in Words
  BY <1>1 DEF ReadPort, Units
<1>3. rs1' \in [Warps -> [Units -> Words]] /\ rs2' \in [Warps -> [Units -> Words]]
  BY <1>1, <1>2, ControlSignals DEF RegistersClock
<1>4. x' \in [Warps -> [Threads -> [Registers -> Words]]]
  <2>1. ASSUME NEW t \in Threads, NEW r \in Registers
        PROVE  (IF Stage = "WARP_UPDATE" /\ WritesVector(t) /\ r = Control.rd THEN WriteValue(t)
                ELSE IF r < 4 THEN SpecialAfter(t, r)
                ELSE x[current_warp][t][r]) \in Words
    <3>1. WriteValue(t) \in Words
      BY WriteValuesAreWords, CoreConstants
    <3>2. r < 4 => r \in 0 .. 3
      BY IsaAssumption DEF Registers
    <3> QED
      BY <1>1, <3>1, <3>2, SpecialRegistersAreWords DEF SpecialAfter
  <2> QED
    BY <1>1, <2>1 DEF RegistersClock
<1>5. s' \in [Warps -> [Registers -> Words]] /\ \A w \in Warps : s'[w][0] = 0
  <2>1. WriteValue(ScalarUnit) \in Words
    BY WriteValuesAreWords, CoreConstants
  <2>2. WritesScalar => Control.rd # 0
    BY ControlSignals, IsaAssumption DEF WritesScalar, Registers
  <2> QED
    BY <1>1, <2>1, <2>2, ControlSignals DEF RegistersClock
<1> QED
  BY <1>3, <1>4, <1>5

\* The ALUs and the load-store units (alu.sv, lsu.sv); a unit has a request out
\* exactly while it waits.
LEMMA UnitsKeepTypes ==
  ASSUME TypeOK, NEW served \in SUBSET Waiting, AlusClock, LsusClock(served)
  PROVE  /\ alu_out' \in [Units -> Words]
         /\ lsu_state' \in [Units -> LsuStates]
         /\ lsu_request' \in [Units -> Requests \union {None}]
         /\ lsu_out' \in [Units -> Words]
         /\ \A u \in Units : lsu_request'[u] # None <=> lsu_state'[u] = "LSU_WAITING"
<1>1. /\ current_warp \in Warps /\ pc[current_warp] \in Words
      /\ \A u \in Units :
            /\ rs1[current_warp][u] \in Words /\ rs2[current_warp][u] \in Words
            /\ alu_out[u] \in Words /\ lsu_state[u] \in LsuStates /\ lsu_out[u] \in Words
            /\ lsu_request[u] \in Requests \union {None}
            /\ lsu_request[u] # None <=> lsu_state[u] = "LSU_WAITING"
      /\ memory \in [Words -> Words]
  BY DEF TypeOK
<1>2. alu_out' \in [Units -> Words]
  <2>1. ASSUME NEW u \in Units
        PROVE  AluOut(Control.alu, pc[current_warp], rs1[current_warp][u],
                      rs2[current_warp][u], Control.imm) \in Words
    BY <1>1, ControlSignals, PowersAssumption, AluComputesWords
  <2> QED
    BY <1>1, <2>1 DEF AlusClock
<1>3. lsu_state' \in [Units -> LsuStates]
  BY <1>1 DEF LsusClock, LsuStateAfter, LsuStates
<1>4. None \notin Requests
  BY CoreAssumption
<1>5. ASSUME NEW u \in Units
      PROVE  [load |-> Control.load, addr |-> Wrap(rs1[current_warp][u] + Control.imm),
              data |-> IF Control.load THEN 0 ELSE rs2[current_warp][u]] \in Requests
  <2>1. Wrap(rs1[current_warp][u] + Control.imm) \in Words
    BY <1>1, ControlSignals, CoreConstants
  <2> QED
    BY <1>1, <2>1, ControlSignals, CoreConstants DEF Requests
<1>6. lsu_request' \in [Units -> Requests \union {None}]
  BY <1>1, <1>5 DEF LsusClock
<1>7. lsu_out' \in [Units -> Words]
  <2>1. \A u \in served : lsu_request[u] \in Requests
    BY <1>1 DEF Waiting
  <2> QED
    BY <1>1, <2>1 DEF LsusClock, Requests
<1>8. ASSUME NEW u \in Units
      PROVE  lsu_request'[u] # None <=> lsu_state'[u] = "LSU_WAITING"
  <2> DEFINE asked == Active(u) /\ lsu_state[u] = "LSU_REQUESTING"
  <2>1. lsu_state'[u] = LsuStateAfter(u, served)
    BY DEF LsusClock
  <2>2. CASE asked
    <3>1. lsu_request'[u] \in Requests
      BY <1>5, <2>2 DEF LsusClock
    <3>2. lsu_state'[u] = "LSU_WAITING"
      BY <2>1, <2>2 DEF LsuStateAfter, Waiting
    <3> QED
      BY <3>1, <3>2, <1>4
  <2>3. CASE ~asked /\ u \in served
    <3>1. Active(u) /\ lsu_state[u] = "LSU_WAITING"
      BY <2>3 DEF Waiting
    <3>2. lsu_request'[u] = None
      BY <2>3 DEF LsusClock
    <3>3. lsu_state'[u] = "LSU_DONE"
      BY <2>1, <2>3, <3>1 DEF LsuStateAfter
    <3> QED
      BY <3>2, <3>3
  <2>4. CASE ~asked /\ u \notin served
    BY <1>1, <2>1, <2>4 DEF LsusClock, LsuStateAfter
  <2> QED
    BY <2>2, <2>3, <2>4
<1> QED
  BY <1>2, <1>3, <1>6, <1>7, <1>8

\* The memory takes only words from the requests it serves.
LEMMA MemoryKeepsTypes ==
  ASSUME TypeOK, NEW served \in SUBSET Waiting, MemoryClock(served)
  PROVE  memory' \in [Words -> Words]
<1> DEFINE writers(a) == {u \in served : ~lsu_request[u].load /\ lsu_request[u].addr = a}
           written == {a \in Words : writers(a) # {}}
<1>1. \A u \in served : lsu_request[u] \in Requests
  BY DEF Waiting, TypeOK
<1>2. PICK last \in [written -> Units] :
        /\ \A a \in written : last[a] \in writers(a)
        /\ memory' = [a \in Words |->
              IF a \in written THEN lsu_request[last[a]].data ELSE memory[a]]
  BY DEF MemoryClock
<1>3. \A a \in written : lsu_request[last[a]].data \in Words
  BY <1>1, <1>2 DEF Requests
<1> QED
  BY <1>2, <1>3 DEF TypeOK

\* The state machine of the warps (compute_core.sv).
LEMMA WarpsKeepTypes ==
  ASSUME TypeOK, WarpsClock
  PROVE  /\ start_execution' \in BOOLEAN /\ done' \in BOOLEAN
         /\ warp_state' \in [Warps -> WarpStates]
         /\ pc' \in [Warps -> Words] /\ next_pc' \in [Warps -> Words]
         /\ vector_to_scalar_data' \in [Warps -> Words]
<1>1. /\ current_warp \in Warps /\ pc[current_warp] \in Words
      /\ next_pc[current_warp] \in Words
      /\ alu_out[ScalarUnit] \in Words
  BY CoreConstants DEF TypeOK
<1>2. NextPc \in Words
  BY <1>1, CoreConstants, ControlSignals DEF NextPc
<1>3. VectorToScalar \in Words
  <2>1. {t \in Threads : Bit(alu_out[t], 0)} \in SUBSET Positions
    BY CoreAssumption, IsaAssumption DEF Threads, Positions
  <2>2. WordOf({t \in Threads : Bit(alu_out[t], 0)}) \in Words
    BY <2>1, PowersAssumption, WordOfBits
  <2> QED
    BY <2>2, CoreConstants DEF VectorToScalar
<1>4. warp_state' \in [Warps -> WarpStates]
  BY DEF WarpsClock, WarpStateAfter, StageAfter, TypeOK, WarpStates
<1> QED
  BY <1>1, <1>2, <1>3, <1>4 DEF WarpsClock, AllWarpsDone, TypeOK

-----------------------------------------------------------------------------
(* The scheduler.                                                          *)

\* If some warp is ready, the scheduler finds one.
LEMMA NextWarpIsReady ==
  ASSUME TypeOK, Ready # {}
  PROVE  NextWarp \in Ready
<1>1. \A w \in Ready : Distance(w) \in Nat
  <2> TAKE w \in Ready
  <2>1. w + WARPS_PER_CORE - current_warp - 1 \in Nat
    BY CoreAssumption DEF TypeOK, Ready, Warps
  <2> QED
    BY <2>1, CoreAssumption, Division DEF Distance
<1> DEFINE T == {Distance(w) : w \in Ready}
<1>2. PICK m \in T : \A n \in T : m <= n
  <2>1. T \in SUBSET Nat /\ T # {}
    BY <1>1
  <2> HIDE DEF T
  <2> QED
    BY <2>1, LeastElement
<1>3. \E w \in Ready : \A v \in Ready : Distance(w) <= Distance(v)
  BY <1>2
<1> QED
  BY <1>3 DEF NextWarp

\* Which warp is current after an edge, and the stage it is in.
LEMMA StageMoves ==
  ASSUME CoreInvariant, WarpsClock
  PROVE  /\ current_warp' \in Warps
         /\ ~Reschedules => current_warp' = current_warp
         /\ Stage' = CASE ~Reschedules /\ Stage = "WARP_FETCH" ->
                             IF fetcher_state_in(current_warp) = "FETCHER_DONE"
                             THEN "WARP_DECODE" ELSE "WARP_FETCH"
                       [] ~Reschedules /\ Stage # "WARP_FETCH" -> StageAfter(current_warp)
                       [] Reschedules /\ current_warp' # current_warp -> "WARP_DECODE"
                       [] OTHER -> StageAfter(current_warp)
<1>1. current_warp \in Warps
  BY DEF CoreInvariant, TypeOK
<1>2. /\ \A w \in Warps : warp_state'[w] = WarpStateAfter(w)
      /\ current_warp' = CurrentWarpAfter
  BY DEF WarpsClock
<1>3. current_warp' \in Warps /\ (~Reschedules => current_warp' = current_warp)
  BY <1>1, <1>2, NextWarpIsReady DEF CurrentWarpAfter, Ready, CoreInvariant
<1>4. Stage' = WarpStateAfter(current_warp')
  BY <1>2, <1>3 DEF Stage
<1>5. ASSUME current_warp' # current_warp
      PROVE  WarpStateAfter(current_warp') = "WARP_DECODE"
  <2>1. current_warp' \in Ready
    BY <1>2, <1>5, NextWarpIsReady DEF CurrentWarpAfter, CoreInvariant
  <2>2. warp_state[current_warp'] = "WARP_DECODE"
    BY <2>1, <1>3, <1>5 DEF CoreInvariant, OneWarpInPipeline, InPipeline, Ready, TypeOK, WarpStates
  <2> QED
    BY <2>2, <1>5 DEF WarpStateAfter
<1>6. ASSUME current_warp' = current_warp
      PROVE  Stage' = IF Stage = "WARP_FETCH" /\ fetcher_state_in(current_warp) = "FETCHER_DONE"
                      THEN "WARP_DECODE" ELSE StageAfter(current_warp)
  BY <1>4, <1>6 DEF WarpStateAfter, Stage
<1>7. Stage = "WARP_FETCH" => StageAfter(current_warp) = "WARP_FETCH"
  BY DEF StageAfter, Stage
<1>8. Reschedules => Stage # "WARP_FETCH"
  BY DEF Reschedules
<1> QED
  BY <1>3, <1>4, <1>5, <1>6, <1>7, <1>8

-----------------------------------------------------------------------------
(* The invariant is kept by an edge while the core runs.                   *)

\* Between WARP_REQUEST and WARP_UPDATE the same units work for the warp.
LEMMA SameUnitsWork ==
  ASSUME CoreInvariant, WarpsClock, DecodersClock, RegistersClock,
         Stage \in {"WARP_REQUEST", "WARP_WAIT", "WARP_EXECUTE"}, NEW u \in Units
  PROVE  Active(u)' <=> Active(u)
<1>1. current_warp' = current_warp /\ current_warp \in Warps
  BY StageMoves DEF Reschedules, CoreInvariant, TypeOK
<1>2. decoded'[current_warp] = decoded[current_warp]
  BY <1>1 DEF DecodersClock, Stage
<1>3. s' = s
  BY DEF RegistersClock
<1> QED
  BY <1>1, <1>2, <1>3 DEF Active, Enabled, Control, ExecutionMask

\* Through the stages the units of the executing warp go together: nobody asks
\* after WARP_WAIT, and WARP_WAIT ends only when all have their answers.
LEMMA UnitsKeepFollowing ==
  ASSUME CoreInvariant, WarpsClock, DecodersClock, RegistersClock,
         NEW served \in SUBSET Waiting, LsusClock(served)
  PROVE  UnitsFollowTheWarp' /\ AskInTime'
<1>1. /\ \A u \in Units : lsu_state'[u] = LsuStateAfter(u, served)
      /\ \A u \in Units : lsu_state[u] \in LsuStates
      /\ UnitsFollowTheWarp /\ AskInTime
      /\ current_warp \in Warps /\ Stage \in WarpStates
  BY DEF LsusClock, CoreInvariant, TypeOK, AskInTime, Stage
<1>2. CASE Stage \in {"WARP_IDLE", "WARP_FETCH", "WARP_DECODE", "WARP_DONE"}
  <2>1. \A u \in Units : lsu_state'[u] = "LSU_IDLE"
    BY <1>1, <1>2 DEF UnitsFollowTheWarp, LsuStateAfter, Waiting
  <2>2. Stage' \notin {"WARP_WAIT", "WARP_EXECUTE", "WARP_UPDATE"}
    BY <1>2, StageMoves DEF StageAfter, Stage, Reschedules
  <2> QED
    BY <2>1, <2>2 DEF UnitsFollowTheWarp, AskInTime
<1>3. CASE Stage = "WARP_REQUEST"
  <2>1. Stage' = "WARP_WAIT"
    BY <1>3, StageMoves DEF StageAfter, Stage, Reschedules
  <2>2. \A u \in Units : lsu_state'[u] = IF Active(u) THEN "LSU_REQUESTING" ELSE "LSU_IDLE"
    BY <1>1, <1>3 DEF UnitsFollowTheWarp, LsuStateAfter, Waiting
  <2> QED
    BY <1>3, <2>1, <2>2, SameUnitsWork DEF UnitsFollowTheWarp, AskInTime
<1>4. CASE Stage = "WARP_WAIT"
  <2>1. ASSUME NEW u \in Units
        PROVE  lsu_state'[u] # "LSU_IDLE" <=> Active(u)
    BY <1>1, <1>4 DEF UnitsFollowTheWarp, AskInTime, LsuStateAfter, Waiting, LsuStates
  <2>2. CASE AnyLsuWaiting
    <3>1. Stage' = "WARP_WAIT"
      BY <1>4, <2>2, StageMoves DEF StageAfter, Stage, Reschedules
    <3> QED
      BY <1>4, <2>1, <3>1, SameUnitsWork DEF UnitsFollowTheWarp, AskInTime
  <2>3. CASE ~AnyLsuWaiting
    <3>1. Stage' = "WARP_EXECUTE"
      BY <1>4, <2>3, StageMoves DEF StageAfter, Stage, Reschedules
    <3>2. ASSUME NEW u \in Units, Active(u)
          PROVE  lsu_state'[u] = "LSU_DONE"
      <4>1. lsu_state[u] = "LSU_DONE"
        BY <1>1, <1>4, <2>3, <3>2 DEF AskInTime, AnyLsuWaiting, LsuStates
      <4> QED
        BY <1>1, <1>4, <4>1 DEF LsuStateAfter, Waiting
    <3> QED
      BY <1>4, <2>1, <3>1, <3>2, SameUnitsWork DEF UnitsFollowTheWarp, AskInTime
  <2> QED
    BY <2>2, <2>3
<1>5. CASE Stage = "WARP_EXECUTE"
  <2>1. Stage' = "WARP_UPDATE"
    BY <1>5, StageMoves DEF StageAfter, Stage, Reschedules
  <2>2. \A u \in Units : lsu_state'[u] = lsu_state[u]
    BY <1>1, <1>5 DEF UnitsFollowTheWarp, LsuStateAfter, Waiting
  <2> QED
    BY <1>1, <1>5, <2>1, <2>2, SameUnitsWork DEF UnitsFollowTheWarp, AskInTime
<1>6. CASE Stage = "WARP_UPDATE"
  <2>1. \A u \in Units : lsu_state'[u] = "LSU_IDLE"
    BY <1>1, <1>6 DEF UnitsFollowTheWarp, LsuStateAfter, Waiting
  <2>2. Stage' \notin {"WARP_WAIT", "WARP_EXECUTE", "WARP_UPDATE"}
    BY <1>6, StageMoves DEF StageAfter, Stage, Reschedules
  <2> QED
    BY <2>1, <2>2 DEF UnitsFollowTheWarp, AskInTime
<1> QED
  BY <1>1, <1>2, <1>3, <1>4, <1>5, <1>6 DEF WarpStates

\* A warp enters the pipeline only by becoming the current one.
LEMMA PipelineKeepsOneWarp ==
  ASSUME CoreInvariant, WarpsClock
  PROVE  OneWarpInPipeline'
<1> SUFFICES ASSUME NEW w \in Warps, warp_state'[w] \in InPipeline
             PROVE  w = current_warp'
  BY DEF OneWarpInPipeline
<1>1. warp_state'[w] = WarpStateAfter(w)
  BY DEF WarpsClock
<1>2. w = current_warp
  BY <1>1 DEF WarpStateAfter, InPipeline, CoreInvariant, OneWarpInPipeline
<1>3. warp_state[w] # "WARP_UPDATE" /\ warp_state[w] # "WARP_DONE"
  BY <1>1, <1>2 DEF WarpStateAfter, StageAfter, InPipeline
<1>4. ~Reschedules
  BY <1>2, <1>3 DEF Reschedules, Stage
<1> QED
  BY <1>2, <1>4, StageMoves

\* A fetcher asks at the pc of its warp, and what it holds until the warp has
\* decoded it is the instruction at that pc.
LEMMA FetchesKeepFollowing ==
  ASSUME CoreInvariant, start_execution, WarpsClock, NEW ready \in SUBSET Fetching,
         FetchersClock(ready), DecodersClock, program' = program
  PROVE  FetchFollowsTheWarp' /\ InstructionIsCurrent'
<1> SUFFICES ASSUME NEW w \in Warps
             PROVE  /\ fetch_request'[w] # None <=> fetcher_state_out'[w] = "FETCHER_FETCHING"
                    /\ fetcher_state_out'[w] = "FETCHER_FETCHING" =>
                          warp_state'[w] = "WARP_FETCH" /\ fetch_request'[w] = pc'[w]
                    /\ fetcher_state_out'[w] = "FETCHER_DONE" =>
                          /\ warp_state'[w] \in {"WARP_FETCH", "WARP_DECODE"}
                          /\ fetched_instruction'[w] = program[pc'[w]]
                    /\ ~FetcherFeedback => warp_state'[w] \in {"WARP_IDLE", "WARP_FETCH"}
                    /\ warp_state'[w] = "WARP_DECODE" =>
                          fetched_instruction'[w] = program[pc'[w]]
                    /\ warp_state'[w] \in InPipeline => decoded'[w] = Decode(program[pc'[w]])
  BY DEF FetchFollowsTheWarp, InstructionIsCurrent
<1>1. /\ warp_state'[w] = WarpStateAfter(w)
      /\ fetcher_state_out'[w] = FetcherStateAfter(w, ready)
      /\ fetch_request'[w] = IF StartsFetch(w) THEN pc[w]
                             ELSE IF w \in ready THEN None ELSE fetch_request[w]
      /\ fetched_instruction'[w] = IF w \in ready THEN program[fetch_request[w]]
                                   ELSE fetched_instruction[w]
      /\ decoded'[w] = IF warp_state[w] = "WARP_DECODE" THEN Decode(fetched_instruction[w])
                       ELSE decoded[w]
  BY DEF WarpsClock, FetchersClock, DecodersClock
<1>2. /\ fetcher_state_out[w] \in FetcherStates /\ warp_state[w] \in WarpStates
      /\ warp_state[w] # "WARP_IDLE"
      /\ pc[w] \in Words /\ pc[w] # None
      /\ pc'[w] # pc[w] => warp_state[w] = "WARP_UPDATE"
  BY CoreConstants DEF CoreInvariant, WarpsFollowTheBlock, TypeOK, WarpsClock, Stage
<1>3. /\ fetch_request[w] # None <=> fetcher_state_out[w] = "FETCHER_FETCHING"
      /\ fetcher_state_out[w] = "FETCHER_FETCHING" =>
            warp_state[w] = "WARP_FETCH" /\ fetch_request[w] = pc[w]
      /\ fetcher_state_out[w] = "FETCHER_DONE" =>
            /\ warp_state[w] \in {"WARP_FETCH", "WARP_DECODE"}
            /\ fetched_instruction[w] = program[pc[w]]
      /\ ~FetcherFeedback => warp_state[w] = "WARP_FETCH"
      /\ warp_state[w] = "WARP_DECODE" => fetched_instruction[w] = program[pc[w]]
      /\ warp_state[w] \in InPipeline => decoded[w] = Decode(program[pc[w]])
  BY <1>2 DEF CoreInvariant, FetchFollowsTheWarp, InstructionIsCurrent
<1>4. w \in ready => fetcher_state_in(w) = "FETCHER_FETCHING" /\ fetch_request[w] # None
  BY DEF Fetching
<1>5. CASE warp_state[w] = "WARP_FETCH"
  <2>1. pc'[w] = pc[w]
    BY <1>2, <1>5
  <2>2. CASE fetcher_state_in(w) = "FETCHER_IDLE"
    BY <1>1, <1>2, <1>3, <1>4, <1>5, <2>1, <2>2
       DEF StartsFetch, FetcherStateAfter, WarpStateAfter, StageAfter, InPipeline
  <2>3. CASE fetcher_state_in(w) # "FETCHER_IDLE"
    <3>1. fetcher_state_in(w) = fetcher_state_out[w] /\ FetcherFeedback
      BY <2>3 DEF fetcher_state_in
    <3> QED
      BY <1>1, <1>2, <1>3, <1>4, <1>5, <2>1, <2>3, <3>1
         DEF StartsFetch, FetcherStateAfter, WarpStateAfter, StageAfter, InPipeline, FetcherStates
  <2> QED
    BY <2>2, <2>3
<1>6. CASE warp_state[w] # "WARP_FETCH"
  <2>1. FetcherFeedback /\ fetcher_state_in(w) = fetcher_state_out[w]
    BY <1>3, <1>6 DEF fetcher_state_in
  <2>2. ~StartsFetch(w) /\ w \notin ready
    BY <1>3, <1>4, <1>6, <2>1 DEF StartsFetch
  <2>3. fetcher_state_out'[w] = "FETCHER_IDLE" /\ fetch_request'[w] = None
    BY <1>1, <1>2, <1>3, <1>6, <2>1, <2>2 DEF FetcherStateAfter, FetcherStates
  <2>4. CASE warp_state[w] = "WARP_UPDATE"
    BY <1>1, <2>1, <2>3, <2>4 DEF WarpStateAfter, StageAfter, InPipeline,
       CoreInvariant, OneWarpInPipeline
  <2>5. CASE warp_state[w] # "WARP_UPDATE"
    BY <1>1, <1>2, <1>3, <1>6, <2>1, <2>2, <2>3, <2>5
       DEF WarpStateAfter, StageAfter, InPipeline, WarpStates
  <2> QED
    BY <2>4, <2>5
<1> QED
  BY <1>5, <1>6

\* A core has a block exactly while none of its warps is idle, and is done only
\* when all of them are.
LEMMA WarpsKeepFollowing ==
  ASSUME CoreInvariant, start_execution, WarpsClock
  PROVE  WarpsFollowTheBlock'
<1>1. /\ \A w \in Warps : warp_state'[w] = WarpStateAfter(w) /\ warp_state[w] # "WARP_IDLE"
      /\ start_execution' = start_execution
      /\ done' = AllWarpsDone
  BY DEF WarpsClock, CoreInvariant, WarpsFollowTheBlock
<1>2. \A w \in Warps : warp_state'[w] # "WARP_IDLE"
  BY <1>1 DEF WarpStateAfter, StageAfter
<1>3. ASSUME done'
      PROVE  AllWarpsDone'
  BY <1>1, <1>3 DEF AllWarpsDone, WarpStateAfter, StageAfter
<1> QED
  BY <1>1, <1>2, <1>3 DEF WarpsFollowTheBlock

\* An edge while the core runs.
LEMMA RunKeepsInvariant ==
  ASSUME CoreInvariant, NEW ready \in SUBSET Fetching, NEW served \in SUBSET Waiting,
         Run(ready, served)
  PROVE  CoreInvariant'
<1>1. /\ start_execution /\ WarpsClock
      /\ FetchersClock(ready) /\ DecodersClock /\ RegistersClock
      /\ AlusClock /\ LsusClock(served) /\ MemoryClock(served)
      /\ program' = program /\ block_id' = block_id
      /\ committed' = IF Stage = "WARP_UPDATE" THEN memory ELSE committed
      /\ TypeOK /\ InstructionIsCurrent
  BY DEF Run, DatapathClock, inputVars, CoreInvariant
<1>2. TypeOK'
  <2>1. program' \in Programs /\ block_id' \in BlockIds /\ committed' \in [Words -> Words]
    BY <1>1 DEF TypeOK
  <2>2. current_warp' \in Warps
    BY <1>1, StageMoves
  <2> QED
    BY <1>1, <2>1, <2>2, FetchersKeepTypes, RegistersKeepTypes, UnitsKeepTypes,
       MemoryKeepsTypes, WarpsKeepTypes DEF TypeOK
<1> QED
  BY <1>1, <1>2, WarpsKeepFollowing, PipelineKeepsOneWarp, UnitsKeepFollowing,
     FetchesKeepFollowing DEF CoreInvariant

-----------------------------------------------------------------------------
(* The invariant holds after reset, and is kept by the start of a block.   *)

\* The invariant holds at first.
LEMMA InitEstablishesInvariant ==
  ASSUME Init
  PROVE  CoreInvariant
<1> USE DEF Init
<1>1. TypeOK
  <2>1. block_id \in BlockIds /\ 0 \in Warps /\ program \in Programs
    BY CoreConstants
  <2>2. /\ memory \in [Words -> Words] /\ committed \in [Words -> Words]
        /\ \A w \in Warps : decoded[w] \in Controls
        /\ alu_out \in [Units -> Words] /\ lsu_out \in [Units -> Words]
        /\ rs1 \in [Warps -> [Units -> Words]] /\ rs2 \in [Warps -> [Units -> Words]]
        /\ pc \in [Warps -> Words] /\ next_pc \in [Warps -> Words]
        /\ vector_to_scalar_data \in [Warps -> Words]
    BY CoreConstants
  <2>3. /\ warp_state \in [Warps -> WarpStates]
        /\ fetcher_state_out \in [Warps -> FetcherStates]
        /\ fetch_request \in [Warps -> Words \union {None}]
        /\ lsu_state \in [Units -> LsuStates]
        /\ lsu_request \in [Units -> Requests \union {None}]
        /\ \A u \in Units : lsu_request[u] # None <=> lsu_state[u] = "LSU_WAITING"
    BY DEF WarpStates, FetcherStates, LsuStates
  <2> QED
    BY <2>1, <2>2, <2>3, ClearRegistersAreWords DEF TypeOK
<1>2. WarpsFollowTheBlock /\ OneWarpInPipeline
  BY DEF WarpsFollowTheBlock, OneWarpInPipeline, InPipeline
<1>3. UnitsFollowTheWarp /\ AskInTime
  BY CoreConstants DEF UnitsFollowTheWarp, AskInTime, Stage
<1>4. FetchFollowsTheWarp /\ InstructionIsCurrent
  BY DEF FetchFollowsTheWarp, InstructionIsCurrent, InPipeline
<1> QED
  BY <1>1, <1>2, <1>3, <1>4 DEF CoreInvariant

\* An edge with reset.
LEMMA ResetKeepsInvariant ==
  ASSUME CoreInvariant, Reset
  PROVE  CoreInvariant'
<1> USE DEF Reset
<1>1. TypeOK'
  <2>1. block_id' \in BlockIds /\ 0 \in Warps
    BY CoreConstants
  <2>2. /\ \A w \in Warps : decoded'[w] \in Controls
        /\ alu_out' \in [Units -> Words] /\ lsu_out' \in [Units -> Words]
        /\ pc' \in [Warps -> Words] /\ next_pc' \in [Warps -> Words]
    BY CoreConstants
  <2>3. /\ warp_state' \in [Warps -> WarpStates]
        /\ fetcher_state_out' \in [Warps -> FetcherStates]
        /\ fetch_request' \in [Warps -> Words \union {None}]
        /\ lsu_state' \in [Units -> LsuStates]
        /\ lsu_request' \in [Units -> Requests \union {None}]
        /\ \A u \in Units : lsu_request'[u] # None <=> lsu_state'[u] = "LSU_WAITING"
    BY DEF WarpStates, FetcherStates, LsuStates
  <2>4. /\ x' \in [Warps -> [Threads -> [Registers -> Words]]]
        /\ s' \in [Warps -> [Registers -> Words]]
        /\ \A w \in Warps : s'[w][0] = 0
    BY ClearRegistersAreWords DEF CoreInvariant, TypeOK
  <2>5. /\ program' \in Programs
        /\ memory' \in [Words -> Words] /\ committed' \in [Words -> Words]
        /\ rs1' \in [Warps -> [Units -> Words]] /\ rs2' \in [Warps -> [Units -> Words]]
        /\ vector_to_scalar_data' \in [Warps -> Words]
    BY DEF CoreInvariant, TypeOK
  <2> QED
    BY <2>1, <2>2, <2>3, <2>4, <2>5 DEF TypeOK
<1>2. WarpsFollowTheBlock' /\ OneWarpInPipeline'
  BY DEF WarpsFollowTheBlock, OneWarpInPipeline, InPipeline
<1>3. UnitsFollowTheWarp' /\ AskInTime'
  BY CoreConstants DEF UnitsFollowTheWarp, AskInTime, Stage
<1>4. FetchFollowsTheWarp' /\ InstructionIsCurrent'
  BY DEF FetchFollowsTheWarp, InstructionIsCurrent, InPipeline
<1> QED
  BY <1>1, <1>2, <1>3, <1>4 DEF CoreInvariant

\* The edge at which the core takes a block.
LEMMA StartKeepsInvariant ==
  ASSUME CoreInvariant, Start
  PROVE  CoreInvariant'
<1>1. /\ ~start_execution /\ WarpsStart
      /\ FetchersClock({}) /\ DecodersClock /\ RegistersClock
      /\ AlusClock /\ LsusClock({}) /\ MemoryClock({})
      /\ program' = program /\ block_id' = block_id
      /\ committed' = IF Stage = "WARP_UPDATE" THEN memory ELSE committed
      /\ TypeOK /\ InstructionIsCurrent
      /\ {} \in SUBSET Fetching /\ {} \in SUBSET Waiting
  BY DEF Start, DatapathClock, inputVars, CoreInvariant
<1>2. /\ \A w \in Warps : warp_state[w] = "WARP_IDLE" /\ warp_state'[w] = "WARP_FETCH"
      /\ Stage = "WARP_IDLE" /\ Stage' = "WARP_FETCH"
      /\ ~done'
  BY <1>1, CoreConstants DEF CoreInvariant, WarpsFollowTheBlock, WarpsStart, Stage, TypeOK,
     AllWarpsDone
<1>3. TypeOK'
  <2>1. program' \in Programs /\ block_id' \in BlockIds /\ committed' \in [Words -> Words]
    BY <1>1 DEF TypeOK
  <2>2. /\ start_execution' \in BOOLEAN /\ done' \in BOOLEAN /\ current_warp' \in Warps
        /\ warp_state' \in [Warps -> WarpStates]
        /\ pc' \in [Warps -> Words] /\ next_pc' \in [Warps -> Words]
        /\ vector_to_scalar_data' \in [Warps -> Words]
    BY <1>1, CoreConstants DEF WarpsStart, WarpStates, TypeOK
  <2> QED
    BY <1>1, <2>1, <2>2, FetchersKeepTypes, RegistersKeepTypes, UnitsKeepTypes,
       MemoryKeepsTypes DEF TypeOK
<1>4. WarpsFollowTheBlock' /\ OneWarpInPipeline'
  BY <1>1, <1>2 DEF WarpsStart, WarpsFollowTheBlock, OneWarpInPipeline, InPipeline
<1>5. UnitsFollowTheWarp' /\ AskInTime'
  <2>1. \A u \in Units : lsu_state[u] = "LSU_IDLE"
    BY <1>2 DEF CoreInvariant, UnitsFollowTheWarp
  <2>2. \A u \in Units : lsu_state'[u] = "LSU_IDLE"
    BY <1>1, <1>2, <2>1 DEF LsusClock, LsuStateAfter
  <2> QED
    BY <1>2, <2>2 DEF UnitsFollowTheWarp, AskInTime
<1>6. FetchFollowsTheWarp' /\ InstructionIsCurrent'
  <2>1. ASSUME NEW w \in Warps
        PROVE  fetcher_state_out[w] = "FETCHER_IDLE" /\ fetch_request[w] = None
    BY <1>1, <1>2 DEF CoreInvariant, FetchFollowsTheWarp, TypeOK, FetcherStates
  <2>2. ASSUME NEW w \in Warps
        PROVE  fetcher_state_out'[w] = "FETCHER_IDLE" /\ fetch_request'[w] = None
    BY <1>1, <1>2, <2>1 DEF FetchersClock, FetcherStateAfter, StartsFetch
  <2> QED
    BY <1>2, <2>2 DEF FetchFollowsTheWarp, InstructionIsCurrent, InPipeline
<1> QED
  BY <1>3, <1>4, <1>5, <1>6 DEF CoreInvariant

\* Nothing changes when nothing happens.
LEMMA StutterKeepsInvariant ==
  ASSUME CoreInvariant, UNCHANGED vars
  PROVE  CoreInvariant'
<1> USE DEF vars, inputVars, warpVars, fetchVars, registerVars, unitVars
<1>1. TypeOK'
  BY DEF CoreInvariant, TypeOK
<1>2. WarpsFollowTheBlock' /\ OneWarpInPipeline'
  BY DEF CoreInvariant, WarpsFollowTheBlock, OneWarpInPipeline, AllWarpsDone
<1>3. UnitsFollowTheWarp' /\ AskInTime'
  BY DEF CoreInvariant, UnitsFollowTheWarp, AskInTime, Stage, Active, Enabled, Control,
     ExecutionMask
<1>4. FetchFollowsTheWarp' /\ InstructionIsCurrent'
  BY DEF CoreInvariant, FetchFollowsTheWarp, InstructionIsCurrent
<1> QED
  BY <1>1, <1>2, <1>3, <1>4 DEF CoreInvariant

\* Every step keeps the invariant.
LEMMA NextKeepsInvariant == CoreInvariant /\ [Next]_vars => CoreInvariant'
  BY RunKeepsInvariant, StartKeepsInvariant, ResetKeepsInvariant, StutterKeepsInvariant
     DEF Next

-----------------------------------------------------------------------------
(* The theorems.                                                           *)

\* The invariant from which the others follow: warps, fetchers, units and
\* registers agree at every clock edge on which instruction is where.
THEOREM CoreCorrect == Spec => []CoreInvariant
<1>1. Init => CoreInvariant
  BY InitEstablishesInvariant
<1> QED
  BY <1>1, NextKeepsInvariant, PTL DEF Spec

\* No register ever holds anything but a word or a state of its kind, s0 is 0,
\* and a load-store unit has a request out exactly while it waits.
THEOREM CoreTypeCorrect == Spec => []TypeOK
<1>1. CoreInvariant => TypeOK
  BY DEF CoreInvariant
<1> QED
  BY <1>1, CoreCorrect, PTL

\* The shared units have one user at a time: the scheduler never gives the
\* core away between WARP_REQUEST and WARP_UPDATE.
THEOREM PipelineIsExclusive == Spec => []OneWarpInPipeline
<1>1. CoreInvariant => OneWarpInPipeline
  BY DEF CoreInvariant
<1> QED
  BY <1>1, CoreCorrect, PTL

\* A load-store unit is busy only for the current instruction, has its answer
\* when that executes, and is idle when the next one asks.
THEOREM UnitsServeTheWarp == Spec => []UnitsFollowTheWarp
<1>1. CoreInvariant => UnitsFollowTheWarp
  BY DEF CoreInvariant
<1> QED
  BY <1>1, CoreCorrect, PTL

\* A warp decodes and executes the instruction at its own pc, however its fetch
\* overlaps with the execution of another warp.
THEOREM InstructionsAreCurrent == Spec => []InstructionIsCurrent
<1>1. CoreInvariant => InstructionIsCurrent
  BY DEF CoreInvariant
<1> QED
  BY <1>1, CoreCorrect, PTL

\* When the dispatcher may reset the core, no fetch or access is under way.
THEOREM DoneIsQuiet == Spec => []QuietWhenDone
<1>1. CoreInvariant => QuietWhenDone
  <2> SUFFICES ASSUME CoreInvariant, done PROVE QuietWhenDone
    BY DEF QuietWhenDone
  <2>1. \A w \in Warps : warp_state[w] = "WARP_DONE"
    BY DEF CoreInvariant, WarpsFollowTheBlock, AllWarpsDone
  <2>2. Stage = "WARP_DONE"
    BY <2>1 DEF Stage, CoreInvariant, TypeOK
  <2>3. \A u \in Units : lsu_state[u] = "LSU_IDLE"
    BY <2>2 DEF CoreInvariant, UnitsFollowTheWarp
  <2>4. ASSUME NEW w \in Warps
        PROVE  fetch_request[w] = None /\ fetcher_state_out[w] = "FETCHER_IDLE"
    BY <2>1 DEF CoreInvariant, FetchFollowsTheWarp, TypeOK, FetcherStates
  <2> QED
    BY <2>3, <2>4 DEF QuietWhenDone
<1> QED
  BY <1>1, CoreCorrect, PTL

\* An instruction reads its thread's own id and the current block's id and size,
\* though the dispatcher changes the block id at the edge of the reset: the
\* registers take it at the edges before, while the warp decodes.
THEOREM SpecialRegistersAreFresh == Spec => []SpecialRegistersFresh
<1>1. Init => SpecialRegistersFresh
  BY CoreConstants DEF Init, SpecialRegistersFresh, Stage
<1>2. CoreInvariant /\ SpecialRegistersFresh /\ [Next]_vars => SpecialRegistersFresh'
  <2> SUFFICES ASSUME CoreInvariant, SpecialRegistersFresh, [Next]_vars, Stage' = "WARP_REQUEST",
                      NEW t \in Threads, NEW r \in 0 .. 3
               PROVE  x'[current_warp'][t][r] = SpecialRegister(current_warp, t, r)'
    BY DEF SpecialRegistersFresh
  <2>1. ASSUME NEW ready \in SUBSET Fetching, NEW served \in SUBSET Waiting,
               Run(ready, served)
        PROVE  x'[current_warp'][t][r] = SpecialRegister(current_warp, t, r)'
    <3>1. WarpsClock /\ RegistersClock /\ block_id' = block_id
      BY <2>1 DEF Run, DatapathClock, inputVars
    <3>2. Stage = "WARP_DECODE" /\ current_warp' = current_warp
      BY <3>1, StageMoves DEF StageAfter, Stage, Reschedules
    <3>3. r \in Registers /\ r < 4 /\ current_warp \in Warps /\ x \in [Warps -> [Threads -> [Registers -> Words]]]
      BY IsaAssumption DEF Registers, CoreInvariant, TypeOK
    <3>4. x'[current_warp][t][r] = SpecialAfter(t, r)
      BY <3>1, <3>2, <3>3 DEF RegistersClock
    <3> QED
      BY <3>1, <3>2, <3>4 DEF SpecialAfter, SpecialRegister
  <2>2. CASE Reset
    BY <2>2, CoreConstants DEF Reset, Stage
  <2>3. CASE Start
    BY <2>3, CoreConstants DEF Start, WarpsStart, Stage
  <2>4. CASE UNCHANGED vars
    BY <2>4 DEF vars, inputVars, warpVars, registerVars, SpecialRegistersFresh, Stage,
       SpecialRegister
  <2> QED
    BY <2>1, <2>2, <2>3, <2>4 DEF Next
<1> QED
  BY <1>1, <1>2, CoreCorrect, PTL DEF Spec
=============================================================================
