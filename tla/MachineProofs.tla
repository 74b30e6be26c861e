---------------------------- MODULE MachineProofs ----------------------------
(***************************************************************************)
(* The core implements the sequential machine of SimtMachine.tla: proofs   *)
(* for every program, every width of words, every number of warps and      *)
(* threads and every order in which memories answer.  The edge at which a  *)
(* warp leaves WARP_UPDATE is one step of the machine; the edge of a reset *)
(* gives it the next block; it does not notice the others.                 *)
(***************************************************************************)
EXTENDS ComputeCoreProofs

-----------------------------------------------------------------------------
(* Words, and what operations yield, on both sides.                        *)

\* The machine's words are the core's: they are defined in the same module.
LEMMA SameWords ==
  /\ BuiltMachine!Words = Words /\ BuiltMachine!Registers = Registers
  /\ BuiltMachine!Positions = Positions /\ BuiltMachine!AllOnes = AllOnes
  /\ BuiltMachine!Warps = Warps /\ BuiltMachine!Threads = Threads
  /\ BuiltMachine!GeneralRegisters = 4 .. NUM_REGISTERS - 1
  /\ \A n : BuiltMachine!Wrap(n) = Wrap(n)
  /\ \A n, p : BuiltMachine!Bit(n, p) <=> Bit(n, p)
  /\ \A b : BuiltMachine!WordOf(b) = WordOf(b)
<1>1. /\ BuiltMachine!Words = Words /\ BuiltMachine!Registers = Registers
      /\ BuiltMachine!Positions = Positions /\ BuiltMachine!AllOnes = AllOnes
      /\ BuiltMachine!Warps = Warps /\ BuiltMachine!Threads = Threads
      /\ BuiltMachine!GeneralRegisters = 4 .. NUM_REGISTERS - 1
  BY DEF BuiltMachine!Words, Words, BuiltMachine!Registers, Registers, BuiltMachine!Positions,
     Positions, BuiltMachine!AllOnes, AllOnes, BuiltMachine!Warps, Warps,
     BuiltMachine!Threads, Threads, BuiltMachine!GeneralRegisters
<1>2. \A n : BuiltMachine!Wrap(n) = Wrap(n)
  BY DEF BuiltMachine!Wrap, Wrap
<1>3. \A n, p : BuiltMachine!Bit(n, p) <=> Bit(n, p)
  BY DEF BuiltMachine!Bit, Bit
<1>4. \A b : BuiltMachine!WordOf(b) = WordOf(b)
  BY <1>1 DEF BuiltMachine!WordOf, WordOf, BuiltMachine!Bit, Bit
<1> QED
  BY <1>1, <1>2, <1>3, <1>4

\* The machine as built does what alu.sv does.
LEMMA SameArithmetic ==
  ASSUME NEW op \in AluOps, NEW pcw, NEW a, NEW b, NEW imm
  PROVE  BuiltMachine!AluOut(op, pcw, a, b, imm) = AluOut(op, pcw, a, b, imm)
<1> DEFINE c == IF op \in ImmediateOps THEN imm ELSE b
<1>1. BuiltMachine!ImmediateOps = ImmediateOps /\ \A p : BuiltMachine!Truth(p) = Truth(p)
  BY DEF BuiltMachine!ImmediateOps, ImmediateOps, BuiltMachine!Truth, Truth
<1>2. /\ {i \in BuiltMachine!Positions : BuiltMachine!Bit(a, i) # BuiltMachine!Bit(c, i)}
            = {i \in Positions : Bit(a, i) # Bit(c, i)}
      /\ {i \in BuiltMachine!Positions : BuiltMachine!Bit(a, i) \/ BuiltMachine!Bit(c, i)}
            = {i \in Positions : Bit(a, i) \/ Bit(c, i)}
      /\ {i \in BuiltMachine!Positions : BuiltMachine!Bit(a, i) /\ BuiltMachine!Bit(c, i)}
            = {i \in Positions : Bit(a, i) /\ Bit(c, i)}
  BY DEF BuiltMachine!Positions, Positions, BuiltMachine!Bit, Bit
<1> QED
  BY <1>1, <1>2, SameWords DEF BuiltMachine!AluOut, AluOut, AluOps, ImmediateOps, RegisterOps,
     BranchOps, JumpOps

-----------------------------------------------------------------------------
(* The invariant of the refinement is kept.                                *)

\* From WARP_REQUEST to WARP_UPDATE the current warp, its instruction, its
\* operands and the units that work for it stay.
LEMMA SameInstruction ==
  ASSUME CoreInvariant, WarpsClock, DecodersClock, RegistersClock, block_id' = block_id,
         Stage \in {"WARP_REQUEST", "WARP_WAIT", "WARP_EXECUTE"}
  PROVE  /\ current_warp' = current_warp /\ Control' = Control /\ s' = s
         /\ pc' = pc
         /\ \A u \in Units : Enabled(u)' <=> Enabled(u)
         /\ \A u \in Units : Active(u)' <=> Active(u)
         /\ \A u \in Units, r \in Registers : Operand(u, r)' = Operand(u, r)
         /\ \A u \in Units : Address(u)' = Address(u)
<1>1. /\ current_warp' = current_warp /\ current_warp \in Warps
      /\ decoded'[current_warp] = decoded[current_warp]
      /\ s' = s /\ pc' = pc
  BY StageMoves DEF Reschedules, CoreInvariant, TypeOK, DecodersClock, RegistersClock,
     WarpsClock, Stage
<1>2. Control' = Control /\ \A u \in Units : Enabled(u)' <=> Enabled(u)
  BY <1>1 DEF Control, Enabled, ExecutionMask
<1>3. \A u \in Units : Active(u)' <=> Active(u)
  BY <1>2 DEF Active
<1>4. ASSUME NEW u \in Units, NEW r \in Registers
      PROVE  Operand(u, r)' = Operand(u, r)
  <2>1. CASE u = ScalarUnit
    BY <1>1, <2>1 DEF Operand, ScalarUnit
  <2>2. CASE u # ScalarUnit
    <3>1. u \in Threads
      BY <2>2 DEF Units
    <3>2. SpecialRegister(current_warp, u, r)' = SpecialRegister(current_warp, u, r)
      BY <1>1 DEF SpecialRegister
    <3>3. ~(r < 4) => x'[current_warp][u][r] = x[current_warp][u][r]
      BY <1>1, <3>1 DEF RegistersClock, CoreInvariant, TypeOK
    <3> QED
      BY <1>1, <2>2, <3>2, <3>3 DEF Operand, ScalarUnit
  <2> QED
    BY <2>1, <2>2
<1>5. ASSUME NEW u \in Units PROVE Address(u)' = Address(u)
  <2>1. Operand(u, Control.rs1)' = Operand(u, Control.rs1)
    BY <1>2, <1>4, ControlSignals DEF CoreInvariant
  <2> QED
    BY <1>2, <2>1 DEF Address, Wrap
<1> QED
  BY <1>1, <1>2, <1>3, <1>4, <1>5

\* What a unit reads at WARP_REQUEST are its operands: the special registers are
\* fresh by then.
LEMMA PortsReadOperands ==
  ASSUME CoreInvariant, SpecialRegistersFresh, Stage = "WARP_REQUEST",
         NEW u \in Units, Enabled(u), NEW port, NEW r \in Registers
  PROVE  ReadPort(port, u, r) = Operand(u, r)
<1>1. CASE u = ScalarUnit
  BY <1>1 DEF ReadPort, Operand
<1>2. CASE u # ScalarUnit
  <2>1. u \in Threads /\ Bit(ExecutionMask, u)
    BY <1>2 DEF Units, Enabled
  <2>2. r < 4 => r \in 0 .. 3
    BY IsaAssumption DEF Registers
  <2>3. r < 4 => x[current_warp][u][r] = SpecialRegister(current_warp, u, r)
    BY <2>1, <2>2 DEF SpecialRegistersFresh
  <2> QED
    BY <1>2, <2>1, <2>3 DEF ReadPort, Operand
<1> QED
  BY <1>1, <1>2

\* The registers between the stages are filled in time.
LEMMA UnitsKeepOperands ==
  ASSUME CoreInvariant, SpecialRegistersFresh, UnitsHaveTheOperands,
         WarpsClock, DecodersClock, RegistersClock, AlusClock, block_id' = block_id
  PROVE  UnitsHaveTheOperands'
<1> SUFFICES ASSUME NEW u \in Units, Enabled(u)',
                    Stage' \in {"WARP_WAIT", "WARP_EXECUTE", "WARP_UPDATE"}
             PROVE  /\ rs1'[current_warp'][u] = Operand(u, Control.rs1)'
                    /\ rs2'[current_warp'][u] = Operand(u, Control.rs2)'
                    /\ Stage' \in {"WARP_EXECUTE", "WARP_UPDATE"} =>
                          alu_out'[u] = AluOut(Control.alu, pc[current_warp],
                              Operand(u, Control.rs1), Operand(u, Control.rs2), Control.imm)'
  BY DEF UnitsHaveTheOperands
<1>1. /\ Stage \in {"WARP_REQUEST", "WARP_WAIT", "WARP_EXECUTE"}
      /\ Stage = "WARP_REQUEST" => Stage' = "WARP_WAIT"
      /\ current_warp \in Warps /\ TypeOK
  BY StageMoves DEF StageAfter, Stage, Reschedules, CoreInvariant, TypeOK, WarpStates
<1>2. /\ current_warp' = current_warp /\ Control' = Control /\ pc' = pc /\ Enabled(u)
      /\ Control.rs1 \in Registers /\ Control.rs2 \in Registers
      /\ \A r \in Registers : Operand(u, r)' = Operand(u, r)
  BY <1>1, SameInstruction, ControlSignals
<1>3. /\ Operand(u, Control.rs1)' = Operand(u, Control.rs1)
      /\ Operand(u, Control.rs2)' = Operand(u, Control.rs2)
  BY <1>2
<1>4. /\ rs1'[current_warp][u] = ReadPort(rs1, u, Control.rs1)
      /\ rs2'[current_warp][u] = ReadPort(rs2, u, Control.rs2)
  BY <1>1 DEF RegistersClock, TypeOK
<1>5. /\ rs1'[current_warp][u] = Operand(u, Control.rs1)
      /\ rs2'[current_warp][u] = Operand(u, Control.rs2)
  <2>1. CASE Stage = "WARP_REQUEST"
    BY <2>1, <1>2, <1>4, PortsReadOperands
  <2>2. CASE Stage # "WARP_REQUEST"
    BY <2>2, <1>1, <1>2, <1>4 DEF ReadPort, UnitsHaveTheOperands
  <2> QED
    BY <2>1, <2>2
<1>6. ASSUME Stage' \in {"WARP_EXECUTE", "WARP_UPDATE"}
      PROVE  alu_out'[u] = AluOut(Control.alu, pc[current_warp], Operand(u, Control.rs1),
                                  Operand(u, Control.rs2), Control.imm)
  <2>1. Stage \in {"WARP_WAIT", "WARP_EXECUTE"}
    BY <1>1, <1>6
  <2>2. /\ rs1[current_warp][u] = Operand(u, Control.rs1)
        /\ rs2[current_warp][u] = Operand(u, Control.rs2)
    BY <1>2, <2>1 DEF UnitsHaveTheOperands
  <2> QED
    BY <1>2, <2>2 DEF AlusClock
<1>7. AluOut(Control.alu, pc[current_warp], Operand(u, Control.rs1), Operand(u, Control.rs2),
             Control.imm)'
        = AluOut(Control.alu, pc[current_warp], Operand(u, Control.rs1), Operand(u, Control.rs2),
                 Control.imm)
  BY <1>2, <1>3 DEF AluOut, Wrap, WordOf, Bit, Words, Positions, Truth, ImmediateOps
<1> QED
  BY <1>2, <1>3, <1>5, <1>6, <1>7

\* At WARP_EXECUTE the results have settled: the edge into WARP_UPDATE latches what
\* they are there, too.
LEMMA OutcomeIsKept ==
  ASSUME CoreInvariant, UnitsHaveTheOperands, WarpsClock, DecodersClock, RegistersClock,
         AlusClock, block_id' = block_id
  PROVE  OutcomeIsLatched'
<1> SUFFICES ASSUME Stage' = "WARP_UPDATE"
             PROVE  /\ next_pc'[current_warp'] = NextPc'
                    /\ vector_to_scalar_data'[current_warp'] = VectorToScalar'
  BY DEF OutcomeIsLatched
<1>1. Stage = "WARP_EXECUTE" /\ current_warp \in Warps /\ TypeOK
  BY StageMoves DEF StageAfter, Stage, Reschedules, CoreInvariant, TypeOK, WarpStates
<1>2. current_warp' = current_warp /\ Control' = Control /\ pc' = pc
  BY <1>1, SameInstruction
<1>3. ASSUME NEW u \in Units PROVE alu_out'[u] = alu_out[u]
  BY <1>1, <1>3 DEF AlusClock, UnitsHaveTheOperands
<1>4. /\ next_pc'[current_warp] = NextPc
      /\ vector_to_scalar_data'[current_warp] = VectorToScalar
  BY <1>1 DEF WarpsClock, TypeOK
<1>5. NextPc' = NextPc
  <2>1. BranchTaken' <=> BranchTaken
    BY <1>3, CoreConstants DEF BranchTaken, ScalarUnit
  <2>2. alu_out'[ScalarUnit] = alu_out[ScalarUnit]
    BY <1>3, CoreConstants
  <2> QED
    BY <1>2, <2>1, <2>2 DEF NextPc, Wrap, ScalarUnit
<1>6. VectorToScalar' = VectorToScalar
  <2>1. {t \in Threads : Bit(alu_out'[t], 0)} = {t \in Threads : Bit(alu_out[t], 0)}
    BY <1>3, CoreConstants
  <2> QED
    BY <1>2, <2>1 DEF VectorToScalar
<1> QED
  BY <1>2, <1>4, <1>5, <1>6

\* Where the units are when they have something to do with memory, and which
\* edges serve them.
LEMMA UnitsAtWork ==
  ASSUME CoreInvariant, NEW served \in SUBSET Waiting
  PROVE  /\ \A u \in Units : lsu_state[u] # "LSU_IDLE" =>
               Active(u) /\ Stage \in {"WARP_WAIT", "WARP_EXECUTE", "WARP_UPDATE"}
         /\ Stage # "WARP_WAIT" => served = {}
         /\ \A u \in served : u \in Units /\ Active(u) /\ lsu_state[u] = "LSU_WAITING"
         /\ Stage \in {"WARP_REQUEST", "WARP_WAIT", "WARP_EXECUTE", "WARP_UPDATE"} =>
               ~(Control.load /\ Control.store)
<1>1. Stage \in {"WARP_REQUEST", "WARP_WAIT", "WARP_EXECUTE", "WARP_UPDATE"} =>
        ~(Control.load /\ Control.store)
  <2> SUFFICES ASSUME Stage \in InPipeline PROVE ~(Control.load /\ Control.store)
    BY DEF InPipeline
  <2>1. Control = Decode(program[pc[current_warp]])
    BY DEF CoreInvariant, InstructionIsCurrent, TypeOK, Control, Stage
  <2>2. \A i : ~(Decode(i).load /\ Decode(i).store)
    BY DEF Decode
  <2> QED
    BY <2>1, <2>2
<1> QED
  BY <1>1 DEF CoreInvariant, UnitsFollowTheWarp, Waiting

\* Requests carry the operands of the instruction, and loads return what the
\* address held when the instruction began: its own stores are none.
LEMMA AccessesKeepExact ==
  ASSUME CoreInvariant, CoreInvariant', UnitsHaveTheOperands, AccessesAreExact,
         MemoryFollowsTheStores,
         WarpsClock, DecodersClock, RegistersClock, block_id' = block_id,
         NEW served \in SUBSET Waiting, LsusClock(served),
         committed' = IF Stage = "WARP_UPDATE" THEN memory ELSE committed
  PROVE  AccessesAreExact'
<1> SUFFICES ASSUME NEW u \in Units
             PROVE  /\ lsu_state'[u] = "LSU_WAITING" =>
                          lsu_request'[u] =
                            [load |-> Control'.load, addr |-> Address(u)',
                             data |-> IF Control'.load THEN 0 ELSE Operand(u, Control.rs2)']
                    /\ lsu_state'[u] = "LSU_DONE" /\ Control'.load =>
                          lsu_out'[u] = committed'[Address(u)']
  BY DEF AccessesAreExact
<1> SUFFICES ASSUME lsu_state'[u] \in {"LSU_WAITING", "LSU_DONE"}
             PROVE  /\ lsu_state'[u] = "LSU_WAITING" =>
                          lsu_request'[u] =
                            [load |-> Control'.load, addr |-> Address(u)',
                             data |-> IF Control'.load THEN 0 ELSE Operand(u, Control.rs2)']
                    /\ lsu_state'[u] = "LSU_DONE" /\ Control'.load =>
                          lsu_out'[u] = committed'[Address(u)']
  OBVIOUS
<1>1. lsu_state'[u] = LsuStateAfter(u, served) /\ lsu_state[u] \in LsuStates
  BY DEF LsusClock, CoreInvariant, TypeOK
<1>2. lsu_state[u] # "LSU_IDLE" /\ Stage \in {"WARP_WAIT", "WARP_EXECUTE"} /\ Active(u)
  <2>1. lsu_state[u] # "LSU_IDLE"
    BY <1>1, UnitsAtWork DEF LsuStateAfter
  <2>2. Active(u) /\ Stage \in {"WARP_WAIT", "WARP_EXECUTE", "WARP_UPDATE"}
    BY <2>1, UnitsAtWork
  <2>3. Stage # "WARP_UPDATE"
    BY <1>1, <2>2, UnitsAtWork DEF LsuStateAfter, CoreInvariant, UnitsFollowTheWarp
  <2> QED
    BY <2>1, <2>2, <2>3
<1>3. /\ Control' = Control /\ Address(u)' = Address(u) /\ committed' = committed
      /\ Operand(u, Control.rs2)' = Operand(u, Control.rs2)
      /\ Control.rs1 \in Registers /\ TypeOK /\ Enabled(u)
  BY <1>2, SameInstruction, ControlSignals DEF CoreInvariant, Active
<1>4. ASSUME lsu_state'[u] = "LSU_WAITING"
      PROVE  lsu_request'[u] =
                [load |-> Control.load, addr |-> Address(u),
                 data |-> IF Control.load THEN 0 ELSE Operand(u, Control.rs2)]
  <2>1. CASE lsu_state[u] = "LSU_REQUESTING"
    <3>1. /\ rs1[current_warp][u] = Operand(u, Control.rs1)
          /\ rs2[current_warp][u] = Operand(u, Control.rs2)
      BY <1>2, <1>3 DEF UnitsHaveTheOperands
    <3> QED
      BY <1>2, <2>1, <3>1 DEF LsusClock, Address
  <2>2. CASE lsu_state[u] = "LSU_WAITING"
    <3>1. u \notin served
      BY <1>1, <1>4, <2>2 DEF LsuStateAfter
    <3>2. lsu_request'[u] = lsu_request[u]
      BY <2>2, <3>1 DEF LsusClock
    <3> QED
      BY <2>2, <3>2 DEF AccessesAreExact
  <2> QED
    BY <1>1, <1>2, <1>4, <2>1, <2>2, UnitsAtWork DEF LsuStateAfter, LsuStates
<1>5. ASSUME lsu_state'[u] = "LSU_DONE", Control.load
      PROVE  lsu_out'[u] = committed[Address(u)]
  <2>1. CASE u \in served
    <3>1. lsu_request[u].addr = Address(u) /\ lsu_out'[u] = memory[lsu_request[u].addr]
      <4>1. lsu_request[u] = [load |-> Control.load, addr |-> Address(u),
                              data |-> IF Control.load THEN 0 ELSE Operand(u, Control.rs2)]
        BY <2>1, UnitsAtWork DEF AccessesAreExact
      <4>2. lsu_out'[u] = memory[lsu_request[u].addr]
        BY <2>1, <1>5 DEF LsusClock
      <4> QED
        BY <4>1, <4>2
    <3>2. Address(u) \in Words
      <4>1. lsu_request[u] \in Requests
        BY <2>1, UnitsAtWork, <1>3 DEF TypeOK
      <4> QED
        BY <3>1, <4>1 DEF Requests
    <3>3. Stored(Address(u)) = {}
      BY <1>2, <1>5, UnitsAtWork DEF Stored
    <3> QED
      BY <3>1, <3>2, <3>3 DEF MemoryFollowsTheStores
  <2>2. CASE u \notin served
    <3>1. lsu_state[u] = "LSU_DONE" /\ lsu_out'[u] = lsu_out[u]
      BY <1>1, <1>5, <2>2 DEF LsusClock, LsuStateAfter
    <3> QED
      BY <1>5, <3>1 DEF AccessesAreExact
  <2> QED
    BY <2>1, <2>2
<1> QED
  BY <1>3, <1>4, <1>5

\* What an edge leaves in the memory: a word no store writes stays, any other is the
\* data of one of its stores.
LEMMA MemoryAfterEdge ==
  ASSUME TypeOK, NEW served \in SUBSET Units, MemoryClock(served), NEW a \in Words
  PROVE  \/ /\ \A u \in served : lsu_request[u].addr = a => lsu_request[u].load
            /\ memory'[a] = memory[a]
         \/ \E u \in served : /\ ~lsu_request[u].load /\ lsu_request[u].addr = a
                             /\ memory'[a] = lsu_request[u].data
<1> DEFINE writers(b) == {u \in served : ~lsu_request[u].load /\ lsu_request[u].addr = b}
           written == {b \in Words : writers(b) # {}}
<1>1. PICK last \in [written -> Units] :
        /\ \A b \in written : last[b] \in writers(b)
        /\ memory' = [b \in Words |->
              IF b \in written THEN lsu_request[last[b]].data ELSE memory[b]]
  BY DEF MemoryClock
<1>2. CASE a \in written
  BY <1>1, <1>2
<1>3. CASE a \notin written
  BY <1>1, <1>3
<1> QED
  BY <1>2, <1>3

\* Between instructions memory is what the last one left; during one it differs
\* only where its stores were served.
LEMMA MemoryKeepsFollowing ==
  ASSUME CoreInvariant, CoreInvariant', AccessesAreExact, MemoryFollowsTheStores,
         WarpsClock, DecodersClock, RegistersClock, block_id' = block_id,
         NEW served \in SUBSET Waiting, LsusClock(served), MemoryClock(served),
         committed' = IF Stage = "WARP_UPDATE" THEN memory ELSE committed
  PROVE  MemoryFollowsTheStores'
<1> SUFFICES ASSUME NEW a \in Words
             PROVE  IF Stored(a)' = {} THEN memory'[a] = committed'[a]
                    ELSE \E u \in Stored(a)' : memory'[a] = Operand(u, Control.rs2)'
  BY DEF MemoryFollowsTheStores
<1>1. TypeOK /\ served \in SUBSET Units
  BY DEF Waiting, CoreInvariant
<1>2. Stored(a) = {} => memory[a] = committed[a]
  BY DEF MemoryFollowsTheStores
<1>3. CASE Stage \notin {"WARP_REQUEST", "WARP_WAIT", "WARP_EXECUTE"}
  <2>1. served = {} /\ memory'[a] = memory[a]
    BY <1>1, <1>3, UnitsAtWork, MemoryAfterEdge
  <2>2. Stage' \notin {"WARP_WAIT", "WARP_EXECUTE", "WARP_UPDATE"}
    BY <1>3, StageMoves DEF StageAfter, Stage, Reschedules
  <2>3. Stored(a)' = {}
    BY <2>2 DEF Stored, CoreInvariant, UnitsFollowTheWarp
  <2>4. Stage # "WARP_UPDATE" => Stored(a) = {}
    BY <1>3, UnitsAtWork DEF Stored
  <2> QED
    BY <1>2, <2>1, <2>3, <2>4
<1>4. CASE Stage \in {"WARP_REQUEST", "WARP_WAIT", "WARP_EXECUTE"}
  <2>1. /\ Control' = Control /\ committed' = committed
        /\ \A u \in Units : /\ Address(u)' = Address(u)
                            /\ Operand(u, Control.rs2)' = Operand(u, Control.rs2)
    BY <1>4, <1>1, SameInstruction, ControlSignals
  <2>2. Stored(a)' = Stored(a) \union {u \in served : Control.store /\ Address(u) = a}
    <3>1. ASSUME NEW u \in Units
          PROVE  lsu_state'[u] = "LSU_DONE" <=> lsu_state[u] = "LSU_DONE" \/ u \in served
      BY <1>4, UnitsAtWork DEF LsusClock, LsuStateAfter
    <3>2. Stored(a)' = {u \in Units : lsu_state'[u] = "LSU_DONE" /\ Control.store /\ Address(u) = a}
      BY <2>1 DEF Stored
    <3> QED
      BY <1>1, <3>1, <3>2 DEF Stored
  <2>3. ASSUME NEW u \in served
        PROVE  /\ lsu_request[u].load = Control.load /\ lsu_request[u].addr = Address(u)
               /\ ~Control.load => /\ lsu_request[u].data = Operand(u, Control.rs2)
                                   /\ Control.store
               /\ Control.load => ~Control.store
    <3>1. lsu_request[u] = [load |-> Control.load, addr |-> Address(u),
                            data |-> IF Control.load THEN 0 ELSE Operand(u, Control.rs2)]
      BY UnitsAtWork DEF AccessesAreExact
    <3>2. Control.load \/ Control.store
      BY UnitsAtWork DEF Active
    <3> QED
      BY <1>4, <3>1, <3>2, UnitsAtWork
  <2>4. CASE \E u \in served : /\ ~lsu_request[u].load /\ lsu_request[u].addr = a
                              /\ memory'[a] = lsu_request[u].data
    <3>1. PICK u \in served : /\ ~lsu_request[u].load /\ lsu_request[u].addr = a
                              /\ memory'[a] = lsu_request[u].data
      BY <2>4
    <3>2. u \in Stored(a)' /\ memory'[a] = Operand(u, Control.rs2)
      BY <2>2, <2>3, <3>1
    <3> QED
      BY <1>1, <2>1, <3>2
  <2>5. CASE /\ \A u \in served : lsu_request[u].addr = a => lsu_request[u].load
             /\ memory'[a] = memory[a]
    <3>1. Stored(a)' = Stored(a)
      BY <2>2, <2>3, <2>5
    <3>2. \A u \in Stored(a) : Operand(u, Control.rs2)' = Operand(u, Control.rs2)
      BY <2>1 DEF Stored
    <3> QED
      BY <2>1, <2>5, <3>1, <3>2 DEF MemoryFollowsTheStores
  <2> QED
    BY <1>1, <2>4, <2>5, MemoryAfterEdge
<1> QED
  BY <1>3, <1>4

\* A core without an instruction in the pipeline and with idle units has nothing to
\* account for.
LEMMA IdlePipeline ==
  ASSUME Stage' \notin {"WARP_WAIT", "WARP_EXECUTE", "WARP_UPDATE"},
         \A u \in Units : lsu_state'[u] = "LSU_IDLE",
         memory' = committed'
  PROVE  PipelineInvariant'
<1>1. UnitsHaveTheOperands' /\ OutcomeIsLatched'
  BY DEF UnitsHaveTheOperands, OutcomeIsLatched
<1>2. AccessesAreExact'
  BY DEF AccessesAreExact
<1>3. MemoryFollowsTheStores'
  BY DEF MemoryFollowsTheStores, Stored
<1> QED
  BY <1>1, <1>2, <1>3 DEF PipelineInvariant

\* With idle units, memory is what the last instruction left.
LEMMA QuietMemory ==
  ASSUME TypeOK, MemoryFollowsTheStores,
         \A u \in Units : lsu_state[u] # "LSU_DONE"
  PROVE  memory = committed
<1>1. \A a \in Words : memory[a] = committed[a]
  BY DEF MemoryFollowsTheStores, Stored
<1> QED
  BY <1>1 DEF TypeOK

\* The invariant holds at first.
LEMMA InitEstablishesPipeline ==
  ASSUME Init
  PROVE  PipelineInvariant
<1>1. /\ Stage = "WARP_IDLE" /\ memory = committed
      /\ \A u \in Units : lsu_state[u] = "LSU_IDLE"
  BY CoreConstants DEF Init, Stage
<1>2. UnitsHaveTheOperands /\ OutcomeIsLatched /\ AccessesAreExact
  BY <1>1 DEF UnitsHaveTheOperands, OutcomeIsLatched, AccessesAreExact
<1>3. MemoryFollowsTheStores
  BY <1>1 DEF MemoryFollowsTheStores, Stored
<1> QED
  BY <1>2, <1>3 DEF PipelineInvariant

\* An edge while the core runs.
LEMMA RunKeepsPipeline ==
  ASSUME CoreInvariant, CoreInvariant', SpecialRegistersFresh, PipelineInvariant,
         NEW ready \in SUBSET Fetching, NEW served \in SUBSET Waiting, Run(ready, served)
  PROVE  PipelineInvariant'
<1>1. /\ WarpsClock /\ DecodersClock /\ RegistersClock /\ AlusClock
      /\ LsusClock(served) /\ MemoryClock(served) /\ block_id' = block_id
      /\ committed' = IF Stage = "WARP_UPDATE" THEN memory ELSE committed
  BY DEF Run, DatapathClock, inputVars
<1> QED
  BY <1>1, UnitsKeepOperands, OutcomeIsKept, AccessesKeepExact, MemoryKeepsFollowing
     DEF PipelineInvariant

\* The edge at which the core takes a block: nothing is under way.
LEMMA StartKeepsPipeline ==
  ASSUME CoreInvariant, PipelineInvariant, Start
  PROVE  PipelineInvariant' /\ memory' = memory /\ committed' = committed
<1>1. /\ ~start_execution /\ WarpsStart /\ LsusClock({}) /\ MemoryClock({}) /\ TypeOK
      /\ committed' = IF Stage = "WARP_UPDATE" THEN memory ELSE committed
      /\ current_warp \in Warps
  BY DEF Start, DatapathClock, CoreInvariant, TypeOK
<1>2. Stage = "WARP_IDLE" /\ Stage' = "WARP_FETCH"
  BY <1>1, CoreConstants DEF CoreInvariant, WarpsFollowTheBlock, WarpsStart, Stage
<1>3. \A u \in Units : lsu_state[u] = "LSU_IDLE" /\ lsu_state'[u] = "LSU_IDLE"
  BY <1>1, <1>2 DEF CoreInvariant, UnitsFollowTheWarp, LsusClock, LsuStateAfter
<1>4. memory' = memory
  <2>1. \A a \in Words : memory'[a] = memory[a]
    BY <1>1, MemoryAfterEdge
  <2>2. memory' \in [Words -> Words]
    BY <1>1, MemoryKeepsTypes
  <2> QED
    BY <1>1, <2>1, <2>2 DEF TypeOK
<1>5. memory = committed
  BY <1>1, <1>3, QuietMemory DEF PipelineInvariant
<1>6. PipelineInvariant'
  <2>1. Stage' \notin {"WARP_WAIT", "WARP_EXECUTE", "WARP_UPDATE"} /\ memory' = committed'
    BY <1>1, <1>2, <1>4, <1>5
  <2> QED
    BY <1>3, <2>1, IdlePipeline
<1> QED
  BY <1>1, <1>2, <1>4, <1>6

\* An edge with reset: the core is done, and so nothing is under way.
LEMMA ResetKeepsPipeline ==
  ASSUME CoreInvariant, PipelineInvariant, Reset
  PROVE  PipelineInvariant'
<1>1. \A u \in Units : lsu_state[u] = "LSU_IDLE" /\ lsu_state'[u] = "LSU_IDLE"
  <2>1. \A w \in Warps : warp_state[w] = "WARP_DONE"
    BY DEF Reset, CoreInvariant, WarpsFollowTheBlock, AllWarpsDone
  <2>2. Stage = "WARP_DONE"
    BY <2>1 DEF Stage, CoreInvariant, TypeOK
  <2> QED
    BY <2>2 DEF CoreInvariant, UnitsFollowTheWarp, Reset
<1>2. memory = committed
  BY <1>1, QuietMemory DEF CoreInvariant, PipelineInvariant
<1>3. Stage' = "WARP_IDLE" /\ memory' = committed'
  BY <1>2, CoreConstants DEF Reset, Stage
<1> QED
  BY <1>1, <1>3, IdlePipeline

\* Nothing changes when nothing happens.
LEMMA StutterKeepsPipeline ==
  ASSUME PipelineInvariant, UNCHANGED vars
  PROVE  PipelineInvariant'
<1> USE DEF vars, inputVars, warpVars, fetchVars, registerVars, unitVars
<1>1. /\ Stage' = Stage /\ Control' = Control /\ NextPc' = NextPc
      /\ VectorToScalar' = VectorToScalar
  BY DEF Stage, Control, NextPc, BranchTaken, VectorToScalar
<1>2. /\ \A u : Enabled(u)' <=> Enabled(u)
      /\ \A u, r : Operand(u, r)' = Operand(u, r)
  BY DEF Enabled, ExecutionMask, Control, Operand, SpecialRegister
<1>3. /\ \A u : Address(u)' = Address(u)
      /\ \A u : Operand(u, Control.rs1)' = Operand(u, Control.rs1)
      /\ \A u : Operand(u, Control.rs2)' = Operand(u, Control.rs2)
  BY DEF Address, Wrap, Operand, SpecialRegister, Control
<1>4. \A a : Stored(a)' = Stored(a)
  BY DEF Stored, Control, Address, Wrap, Operand, SpecialRegister
<1>5. ASSUME NEW u \in Units
      PROVE  AluOut(Control.alu, pc[current_warp], Operand(u, Control.rs1),
                    Operand(u, Control.rs2), Control.imm)'
               = AluOut(Control.alu, pc[current_warp], Operand(u, Control.rs1),
                        Operand(u, Control.rs2), Control.imm)
  <2>1. /\ Control' = Control /\ pc' = pc /\ current_warp' = current_warp
        /\ Operand(u, Control.rs1)' = Operand(u, Control.rs1)
        /\ Operand(u, Control.rs2)' = Operand(u, Control.rs2)
    BY <1>1, <1>3
  <2> QED
    BY ONLY <2>1 DEF AluOut, Wrap, WordOf, Bit, Words, Positions, Truth, ImmediateOps
<1>6. UnitsHaveTheOperands' /\ OutcomeIsLatched'
  BY <1>1, <1>2, <1>3, <1>5 DEF PipelineInvariant, UnitsHaveTheOperands, OutcomeIsLatched
<1>7. AccessesAreExact'
  BY <1>1, <1>3 DEF PipelineInvariant, AccessesAreExact
<1>8. MemoryFollowsTheStores'
  BY <1>3, <1>4 DEF PipelineInvariant, MemoryFollowsTheStores
<1> QED
  BY <1>6, <1>7, <1>8 DEF PipelineInvariant

\* What the registers between the stages hold belongs to the instruction in the
\* pipeline, and memory to it and those before it.
THEOREM PipelineHoldsTheInstruction == Spec => []PipelineInvariant
<1>1. Init => PipelineInvariant
  BY InitEstablishesPipeline
<1>2. CoreInvariant /\ CoreInvariant' /\ SpecialRegistersFresh /\ PipelineInvariant
        /\ [Next]_vars => PipelineInvariant'
  BY RunKeepsPipeline, StartKeepsPipeline, ResetKeepsPipeline, StutterKeepsPipeline DEF Next
<1> QED
  BY <1>1, <1>2, CoreCorrect, SpecialRegistersAreFresh, PTL DEF Spec

-----------------------------------------------------------------------------
(* The edge at which an instruction retires, seen from the machine.        *)

\* The edge at which the current warp leaves WARP_UPDATE.
Retires ==
  /\ CoreInvariant /\ PipelineInvariant
  /\ Stage = "WARP_UPDATE" /\ start_execution
  /\ WarpsClock /\ RegistersClock
  /\ memory' = memory /\ committed' = memory
  /\ program' = program /\ block_id' = block_id

\* The instruction that retires.
Retiring == program[pc[current_warp]]

\* What the machine reads for its next instruction is what the units were given.
LEMMA MachineReads ==
  ASSUME CoreInvariant, start_execution
  PROVE  /\ BuiltMachine!Instruction(current_warp) = Retiring
         /\ Retiring \in Instructions /\ current_warp \in Warps
         /\ \A t \in Threads, r \in Registers :
               BuiltMachine!Vector(current_warp, t, r) = Operand(t, r)
         /\ \A r : s[current_warp][r] = Operand(ScalarUnit, r)
         /\ \A t : t \in BuiltMachine!Active(current_warp) <=>
                     t \in Threads /\ Bit(ExecutionMask, t)
<1>1. current_warp \in Warps /\ pc[current_warp] \in Words
      /\ program \in [Words -> Instructions]
  BY CoreConstants DEF CoreInvariant, TypeOK
<1>2. BuiltMachine!Instruction(current_warp) = Retiring /\ Retiring \in Instructions
  BY <1>1 DEF BuiltMachine!Instruction, ProgramCounters, Retiring
<1>3. ASSUME NEW t \in Threads, NEW r \in Registers
      PROVE  BuiltMachine!Vector(current_warp, t, r) = Operand(t, r)
  <2>1. t # ScalarUnit
    BY CoreAssumption, IsaAssumption DEF Threads, ScalarUnit
  <2>2. CASE r < 4
    <3>1. r \in 0 .. 3
      BY <2>2, IsaAssumption DEF Registers
    <3> QED
      BY <2>1, <2>2, <3>1, SameWords DEF BuiltMachine!Vector, Operand, SpecialRegister
  <2>3. CASE ~(r < 4)
    <3>1. r \in 4 .. NUM_REGISTERS - 1 /\ r # 0 /\ r # 1 /\ r # 2 /\ r # 3
      BY <2>3, IsaAssumption DEF Registers
    <3>2. BuiltMachine!Vector(current_warp, t, r) = GeneralVectors[current_warp][t][r]
      BY <3>1 DEF BuiltMachine!Vector
    <3> QED
      BY <1>1, <2>1, <2>3, <3>1, <3>2 DEF Operand, GeneralVectors
  <2> QED
    BY <2>2, <2>3
<1>4. \A r : s[current_warp][r] = Operand(ScalarUnit, r)
  BY DEF Operand
<1>5. \A t : t \in BuiltMachine!Active(current_warp) <=> t \in Threads /\ Bit(ExecutionMask, t)
  BY SameWords DEF BuiltMachine!Active, ExecutionMask
<1> QED
  BY <1>1, <1>2, <1>3, <1>4, <1>5

\* What the units hold when an instruction retires.
LEMMA RetiringResults ==
  ASSUME Retires
  PROVE  /\ Control = Decode(Retiring) /\ current_warp \notin HaltedWarps
         /\ \A u \in Units : Enabled(u) =>
               /\ alu_out[u] = AluOut(Control.alu, pc[current_warp], Operand(u, Control.rs1),
                                      Operand(u, Control.rs2), Control.imm)
               /\ Control.load => lsu_out[u] = memory[Address(u)] /\ Address(u) \in Words
         /\ next_pc[current_warp] = NextPc
         /\ vector_to_scalar_data[current_warp] = VectorToScalar
         /\ ~Control.store => committed = memory
<1>1. Control = Decode(Retiring) /\ current_warp \notin HaltedWarps
  BY DEF Retires, CoreInvariant, InstructionIsCurrent, InPipeline, TypeOK, Control, Stage,
     Retiring, HaltedWarps
<1>2. ~Control.store => committed = memory
  <2> SUFFICES ASSUME ~Control.store PROVE committed = memory
    OBVIOUS
  <2>1. \A a \in Words : memory[a] = committed[a]
    BY DEF Retires, PipelineInvariant, MemoryFollowsTheStores, Stored
  <2> QED
    BY <2>1 DEF Retires, CoreInvariant, TypeOK
<1>3. ASSUME NEW u \in Units, Enabled(u), Control.load
      PROVE  lsu_out[u] = memory[Address(u)] /\ Address(u) \in Words
  <2>1. lsu_state[u] = "LSU_DONE"
    BY <1>3 DEF Retires, CoreInvariant, UnitsFollowTheWarp, Active
  <2>2. ~Control.store
    <3>1. Control.load /\ Control.store => FALSE
      BY <1>1 DEF Decode
    <3> QED
      BY <1>3, <3>1
  <2>3. Address(u) \in Words
    <3>1. Operand(u, Control.rs1) \in Words /\ Control.imm \in Words
      <4>1. /\ rs1[current_warp][u] = Operand(u, Control.rs1)
            /\ rs1[current_warp][u] \in Words
        BY <1>3 DEF Retires, CoreInvariant, TypeOK, PipelineInvariant, UnitsHaveTheOperands
      <4> QED
        BY <4>1, ControlSignals DEF Retires, CoreInvariant
    <3> QED
      BY <3>1, CoreConstants DEF Address
  <2> QED
    BY <1>2, <1>3, <2>1, <2>2, <2>3 DEF Retires, PipelineInvariant, AccessesAreExact
<1> QED
  BY <1>1, <1>2, <1>3 DEF Retires, PipelineInvariant, UnitsHaveTheOperands, OutcomeIsLatched

\* The warp moves on, or halts; the others stay where they are.
LEMMA RetiringMoves ==
  ASSUME Retires
  PROVE  /\ Control.halt => /\ HaltedWarps' = HaltedWarps \union {current_warp}
                            /\ ProgramCounters' = ProgramCounters
         /\ ~Control.halt => /\ HaltedWarps' = HaltedWarps
                             /\ ProgramCounters' =
                                   [ProgramCounters EXCEPT ![current_warp] = NextPc]
         /\ program' = program /\ block_id' = block_id
<1>1. /\ start_execution' /\ start_execution
      /\ current_warp \in Warps /\ warp_state[current_warp] = "WARP_UPDATE"
      /\ pc \in [Warps -> Words]
      /\ \A w \in Warps : warp_state'[w] = WarpStateAfter(w)
      /\ pc' = IF ~Control.halt THEN [pc EXCEPT ![current_warp] = next_pc[current_warp]] ELSE pc
  BY DEF Retires, WarpsClock, CoreInvariant, TypeOK, Stage
<1>2. \A w \in Warps : warp_state'[w] = "WARP_DONE" <=>
        warp_state[w] = "WARP_DONE" \/ (w = current_warp /\ Control.halt)
  BY <1>1 DEF WarpStateAfter, StageAfter, Control
<1>3. Control.halt \in BOOLEAN
  BY ControlSignals DEF Retires, CoreInvariant
<1>4. /\ Control.halt => HaltedWarps' = HaltedWarps \union {current_warp}
      /\ ~Control.halt => HaltedWarps' = HaltedWarps
  BY <1>1, <1>2 DEF HaltedWarps
<1>5. ProgramCounters = pc /\ ProgramCounters' = pc'
  BY <1>1 DEF ProgramCounters
<1> QED
  BY <1>1, <1>4, <1>5, RetiringResults DEF Retires

\* What an edge of retirement leaves in the registers.
LEMMA RetiringRegisters ==
  ASSUME Retires
  PROVE  /\ \A w \in Warps, t \in Threads, r \in 4 .. NUM_REGISTERS - 1 :
               GeneralVectors'[w][t][r] =
                 IF w = current_warp /\ WritesVector(t) /\ r = Control.rd THEN WriteValue(t)
                 ELSE GeneralVectors[w][t][r]
         /\ s' = IF WritesScalar
                 THEN [s EXCEPT ![current_warp][Control.rd] = WriteValue(ScalarUnit)] ELSE s
<1>1. current_warp \in Warps /\ x \in [Warps -> [Threads -> [Registers -> Words]]]
      /\ Stage = "WARP_UPDATE" /\ RegistersClock
  BY DEF Retires, CoreInvariant, TypeOK
<1>2. s' = IF WritesScalar
           THEN [s EXCEPT ![current_warp][Control.rd] = WriteValue(ScalarUnit)] ELSE s
  BY <1>1 DEF RegistersClock
<1>3. ASSUME NEW w \in Warps, NEW t \in Threads, NEW r \in 4 .. NUM_REGISTERS - 1
      PROVE  GeneralVectors'[w][t][r] =
               IF w = current_warp /\ WritesVector(t) /\ r = Control.rd THEN WriteValue(t)
               ELSE GeneralVectors[w][t][r]
  <2>1. r \in Registers /\ ~(r < 4)
    BY IsaAssumption DEF Registers
  <2>2. x'[w][t][r] = IF w = current_warp /\ WritesVector(t) /\ r = Control.rd
                      THEN WriteValue(t) ELSE x[w][t][r]
    BY <1>1, <2>1 DEF RegistersClock
  <2>3. GeneralVectors'[w][t][r] = x'[w][t][r] /\ GeneralVectors[w][t][r] = x[w][t][r]
    BY DEF GeneralVectors
  <2> QED
    BY <2>2, <2>3
<1> QED
  BY <1>2, <1>3

\* What the general purpose registers are is given by each of them.
LEMMA VectorsAreEqual ==
  ASSUME NEW f \in [Warps -> [Threads -> [4 .. NUM_REGISTERS - 1 -> Words]]],
         \A w \in Warps, t \in Threads, r \in 4 .. NUM_REGISTERS - 1 :
            GeneralVectors'[w][t][r] = f[w][t][r]
  PROVE  GeneralVectors' = f
<1>1. GeneralVectors' =
        [w \in Warps |-> [t \in Threads |->
            [r \in 4 .. NUM_REGISTERS - 1 |-> GeneralVectors'[w][t][r]]]]
  BY DEF GeneralVectors
<1>2. ASSUME NEW w \in Warps PROVE GeneralVectors'[w] = f[w]
  <2>1. ASSUME NEW t \in Threads PROVE GeneralVectors'[w][t] = f[w][t]
    <3> DEFINE G == 4 .. NUM_REGISTERS - 1
               g == GeneralVectors'[w][t]
    <3>1. f[w][t] \in [G -> Words]
      OBVIOUS
    <3>2. g = [r \in G |-> g[r]]
      BY <1>1
    <3>3. \A r \in G : g[r] = f[w][t][r]
      OBVIOUS
    <3> HIDE DEF G, g
    <3>4. g = f[w][t]
      BY <3>1, <3>2, <3>3
    <3> QED
      BY <3>4 DEF g
  <2> QED
    BY <1>1, <2>1
<1> QED
  BY <1>1, <1>2

\* The general purpose registers hold words.
LEMMA VectorsAreWords ==
  ASSUME TypeOK
  PROVE  GeneralVectors \in [Warps -> [Threads -> [4 .. NUM_REGISTERS - 1 -> Words]]]
<1>1. 4 .. NUM_REGISTERS - 1 \subseteq Registers
  BY IsaAssumption DEF Registers
<1> QED
  BY <1>1 DEF GeneralVectors, TypeOK

\* An instruction that writes no vector register leaves them all.
LEMMA NoVectorWrite ==
  ASSUME Retires, \A t \in Threads : ~WritesVector(t)
  PROVE  GeneralVectors' = GeneralVectors
  BY VectorsAreWords, VectorsAreEqual, RetiringRegisters DEF Retires, CoreInvariant

\* A vector instruction writes the registers of the machine's active threads.
LEMMA VectorWrite ==
  ASSUME Retires, ~Control.scalar, Control.write, Control.mux # "VECTOR_TO_SCALAR",
         Control.rd = Retiring.rd,
         NEW value, \A t \in Threads : Bit(ExecutionMask, t) => value[t] = WriteValue(t)
  PROVE  BuiltMachine!WriteVector(current_warp, value)
<1>1. /\ BuiltMachine!Instruction(current_warp) = Retiring /\ current_warp \in Warps
      /\ \A t : t \in BuiltMachine!Active(current_warp) <=>
                  t \in Threads /\ Bit(ExecutionMask, t)
      /\ Control.rd \in Registers
  BY MachineReads, ControlSignals DEF Retires, CoreInvariant
<1> DEFINE A == BuiltMachine!Active(current_warp)
           G == 4 .. NUM_REGISTERS - 1
           rd == Retiring.rd
           f == [GeneralVectors EXCEPT ![current_warp] = [t \in Threads |->
                    IF t \in A /\ rd \in G THEN [@[t] EXCEPT ![rd] = value[t]] ELSE @[t]]]
<1>2. s' = s
  <2>1. ~WritesScalar
    BY DEF WritesScalar
  <2> QED
    BY <2>1, RetiringRegisters
<1>3. \A t \in Threads : WritesVector(t) <=> t \in A /\ rd \in G
  <2>1. \A t \in Threads : Enabled(t) <=> Bit(ExecutionMask, t)
    BY CoreAssumption, IsaAssumption DEF Enabled, Threads, ScalarUnit
  <2>2. Control.rd >= 4 <=> rd \in G
    BY <1>1, IsaAssumption DEF Registers
  <2> QED
    BY <1>1, <2>1, <2>2 DEF WritesVector
<1>4. ASSUME NEW w \in Warps, NEW t \in Threads, NEW r \in G
      PROVE  GeneralVectors'[w][t][r] = f[w][t][r]
  <2>1. GeneralVectors'[w][t][r] =
          IF w = current_warp /\ WritesVector(t) /\ r = rd THEN WriteValue(t)
          ELSE GeneralVectors[w][t][r]
    BY RetiringRegisters
  <2>2. GeneralVectors \in [Warps -> [Threads -> [G -> Words]]]
    BY VectorsAreWords DEF Retires, CoreInvariant
  <2>3. t \in A => value[t] = WriteValue(t)
    BY <1>1
  <2> HIDE DEF A, rd, G
  <2>4. f[w][t][r] = IF w = current_warp /\ t \in A /\ rd \in G /\ r = rd THEN value[t]
                     ELSE GeneralVectors[w][t][r]
    BY <1>1, <2>2
  <2> QED
    BY <1>3, <2>1, <2>3, <2>4
<1>5. f \in [Warps -> [Threads -> [G -> Words]]]
  <2>1. GeneralVectors \in [Warps -> [Threads -> [G -> Words]]]
    BY VectorsAreWords DEF Retires, CoreInvariant
  <2>2. \A t \in Threads : t \in A => value[t] \in Words
    BY <1>1, WriteValuesAreWords, CoreConstants DEF Retires, CoreInvariant
  <2> HIDE DEF A, rd, G
  <2> QED
    BY <1>1, <2>1, <2>2
<1>6. GeneralVectors' = f
  <2> HIDE DEF f
  <2> QED
    BY <1>4, <1>5, VectorsAreEqual
<1> QED
  BY <1>1, <1>2, <1>6, SameWords DEF BuiltMachine!WriteVector

\* An instruction that writes a scalar register writes the machine's.
LEMMA ScalarWrite ==
  ASSUME Retires, Control.write, Control.scalar \/ Control.mux = "VECTOR_TO_SCALAR",
         Control.rd = Retiring.rd
  PROVE  BuiltMachine!WriteScalar(current_warp, WriteValue(ScalarUnit))
<1>1. /\ BuiltMachine!Instruction(current_warp) = Retiring
      /\ Control.rd \in Registers
  BY MachineReads, ControlSignals DEF Retires, CoreInvariant
<1>2. GeneralVectors' = GeneralVectors
  <2>1. \A t \in Threads : ~WritesVector(t)
    BY CoreAssumption, IsaAssumption DEF WritesVector, Enabled, Threads, ScalarUnit
  <2> QED
    BY <2>1, NoVectorWrite
<1>3. WritesScalar <=> Retiring.rd # 0
  BY <1>1, IsaAssumption DEF WritesScalar, Registers
<1> QED
  BY <1>1, <1>2, <1>3, RetiringRegisters DEF BuiltMachine!WriteScalar

\* An instruction that writes no register leaves them all.
LEMMA NoWrite ==
  ASSUME Retires, ~Control.write
  PROVE  GeneralVectors' = GeneralVectors /\ s' = s
<1>1. ~WritesScalar /\ \A t \in Threads : ~WritesVector(t)
  BY DEF WritesScalar, WritesVector
<1> QED
  BY <1>1, NoVectorWrite, RetiringRegisters

\* The next pc of the core is the machine's.
LEMMA RetiringGoesTo ==
  ASSUME Retires, ~Control.halt, NEW a, NextPc = Wrap(a)
  PROVE  /\ BuiltMachine!GoTo(current_warp, a) /\ HaltedWarps' = HaltedWarps
  BY RetiringMoves, SameWords DEF BuiltMachine!GoTo

\* An instruction that is no branch, jump or halt goes on to the next one.
LEMMA RetiringFallsThrough ==
  ASSUME Retires, ~Control.halt, ~Control.branch, Control.alu \notin JumpOps
  PROVE  /\ BuiltMachine!GoTo(current_warp, ProgramCounters[current_warp] + 1)
         /\ HaltedWarps' = HaltedWarps
<1>1. ProgramCounters[current_warp] = pc[current_warp]
  BY DEF Retires, ProgramCounters, CoreInvariant, TypeOK
<1>2. NextPc = Wrap(pc[current_warp] + 1)
  BY DEF NextPc
<1> QED
  BY <1>1, <1>2, RetiringGoesTo

\* An operation that is no jump depends on its first operand and on one of the others.
LEMMA AluReadsTwo ==
  ASSUME NEW op \in AluOps \ JumpOps, NEW p, NEW q, NEW a, NEW b, NEW c, NEW m, NEW n,
         IF op \in ImmediateOps THEN m = n ELSE b = c
  PROVE  AluOut(op, p, a, b, m) = AluOut(op, q, a, c, n)
<1> DEFINE d == IF op \in ImmediateOps THEN m ELSE b
<1>1. d = IF op \in ImmediateOps THEN n ELSE c
  OBVIOUS
<1> HIDE DEF d
<1>2. op # "JAL" /\ op # "JALR"
  BY DEF JumpOps
<1> QED
  BY <1>1, <1>2 DEF AluOut, d, AluOps, ImmediateOps, RegisterOps, BranchOps, JumpOps

\* What a unit has computed is what the machine calculates.
LEMMA RetiringCalculates ==
  ASSUME Retires, NEW u \in Units, Enabled(u), NEW op, op = Control.alu, op \notin JumpOps,
         IF op \in ImmediateOps THEN Control.imm = Retiring.imm
                               ELSE Control.rs2 = Retiring.rs2,
         Control.rs1 = Retiring.rs1
  PROVE  alu_out[u] = BuiltMachine!Calculate(Retiring, op, Operand(u, Retiring.rs1),
                                             Operand(u, Retiring.rs2))
<1>1. op \in AluOps
  BY ControlSignals DEF Retires, CoreInvariant
<1>2. alu_out[u] = AluOut(op, pc[current_warp], Operand(u, Control.rs1),
                          Operand(u, Control.rs2), Control.imm)
  BY RetiringResults
<1>3. AluOut(op, pc[current_warp], Operand(u, Control.rs1), Operand(u, Control.rs2), Control.imm)
        = AluOut(op, 0, Operand(u, Retiring.rs1), Operand(u, Retiring.rs2), Retiring.imm)
  BY <1>1, AluReadsTwo
<1> QED
  BY <1>1, <1>2, <1>3, SameArithmetic DEF BuiltMachine!Calculate

\* An instruction with a vector and a scalar form writes what the write ports of the
\* units that work for it carry.
LEMMA ResultIsWritten ==
  ASSUME Retires, Control.scalar = Retiring.scalar, Control.write,
         Control.mux # "VECTOR_TO_SCALAR", Control.rd = Retiring.rd,
         NEW value, \A u \in Units : Enabled(u) => value[u] = WriteValue(u)
  PROVE  IF Retiring.scalar
         THEN BuiltMachine!WriteScalar(current_warp, value[ScalarUnit])
         ELSE BuiltMachine!WriteVector(current_warp, [t \in Threads |-> value[t]])
<1>1. CASE Retiring.scalar
  <2>1. ScalarUnit \in Units /\ Enabled(ScalarUnit)
    BY <1>1, CoreConstants DEF Enabled
  <2>2. value[ScalarUnit] = WriteValue(ScalarUnit)
    BY <2>1
  <2> QED
    BY <1>1, <2>2, ScalarWrite
<1>2. CASE ~Retiring.scalar
  <2> DEFINE v == [t \in Threads |-> value[t]]
  <2>1. ASSUME NEW t \in Threads, Bit(ExecutionMask, t) PROVE v[t] = WriteValue(t)
    <3>1. Enabled(t) /\ t \in Units
      BY <1>2, <2>1, CoreAssumption, IsaAssumption DEF Enabled, Threads, ScalarUnit, Units
    <3> QED
      BY <3>1
  <2> HIDE DEF v
  <2>2. BuiltMachine!WriteVector(current_warp, v)
    BY <1>2, <2>1, VectorWrite
  <2> QED
    BY <1>2, <2>2 DEF v
<1> QED
  BY <1>1, <1>2

-----------------------------------------------------------------------------
(* Every class of instructions retires as a step of the machine.           *)

\* The control signals of arithmetic and logic.
LEMMA ComputeControl ==
  ASSUME Retires, NEW i, i = Retiring, i.op \in ImmediateOps \union RegisterOps
  PROVE  /\ Control.scalar = i.scalar /\ Control.write /\ ~Control.halt /\ ~Control.branch
         /\ ~Control.store /\ Control.mux = "ALU_OUT" /\ Control.alu = i.op
         /\ Control.rd = i.rd /\ Control.rs1 = i.rs1
         /\ i.op \notin JumpOps
         /\ IF i.op \in ImmediateOps THEN Control.imm = i.imm ELSE Control.rs2 = i.rs2
<1>1. Control = Decode(i)
  BY RetiringResults
<1>2. /\ i.op \notin BranchOps \union JumpOps \union VectorScalarOps
      /\ i.op \notin {"LOAD", "STORE", "LUI", "AUIPC", "HALT", "NOOP"}
      /\ i.op \in AluOps
      /\ i.op \in ImmediateOps => i.op \notin RegisterOps
  BY DEF ImmediateOps, RegisterOps, BranchOps, JumpOps, VectorScalarOps, AluOps
<1>3. /\ Decode(i).scalar = i.scalar /\ Decode(i).write /\ ~Decode(i).halt
      /\ ~Decode(i).branch /\ ~Decode(i).store
  BY <1>2 DEF Decode
<1>4. Decode(i).mux = "ALU_OUT"
  BY <1>2 DEF Decode
<1>5. Decode(i).alu = i.op
  BY <1>2 DEF Decode, VectorScalarOps
<1>6. Decode(i).rd = i.rd /\ Decode(i).rs1 = i.rs1
  BY <1>2 DEF Decode, JumpOps
<1>7. IF i.op \in ImmediateOps THEN Decode(i).imm = i.imm ELSE Decode(i).rs2 = i.rs2
  BY <1>2 DEF Decode, VectorScalarOps
<1> QED
  BY <1>1, <1>2, <1>3, <1>4, <1>5, <1>6, <1>7

\* The control signals of comparisons: the units compute slt or slti.
LEMMA CompareControl ==
  ASSUME Retires, NEW i, i = Retiring, i.op \in VectorScalarOps,
         NEW op, op = IF i.op = "SX_SLT" THEN "SLT" ELSE "SLTI"
  PROVE  /\ ~Control.scalar /\ Control.write /\ ~Control.halt /\ ~Control.branch
         /\ ~Control.store /\ Control.alu = op /\ Control.mux = "VECTOR_TO_SCALAR"
         /\ Control.rd = i.rd /\ Control.rs1 = i.rs1
         /\ IF op \in ImmediateOps THEN Control.imm = i.imm ELSE Control.rs2 = i.rs2
<1>1. Control = Decode(i) /\ i \in Instructions
  BY MachineReads, RetiringResults DEF Retires
<1>2. ~i.scalar
  BY <1>1 DEF Instructions, TwoFormOps, ScalarOps, ImmediateOps, RegisterOps, BranchOps, JumpOps,
     VectorScalarOps
<1> QED
  BY <1>1, <1>2 DEF Decode, VectorScalarOps, JumpOps, BranchOps, AluOps, ImmediateOps,
     RegisterOps

\* The control signals of branches.
LEMMA BranchControl ==
  ASSUME Retires, NEW i, i = Retiring, i.op \in BranchOps
  PROVE  /\ Control.scalar /\ ~Control.write /\ ~Control.halt /\ Control.branch
         /\ ~Control.store /\ Control.alu = i.op
         /\ Control.rs1 = i.rs1 /\ Control.rs2 = i.rs2 /\ Control.imm = i.imm
         /\ i.op \notin ImmediateOps /\ i.op \notin JumpOps
<1>1. Control = Decode(i) /\ i \in Instructions
  BY MachineReads, RetiringResults DEF Retires
<1>2. i.scalar
  BY <1>1 DEF Instructions, TwoFormOps, ScalarOps, ImmediateOps, RegisterOps, BranchOps, JumpOps
<1> QED
  BY <1>1, <1>2 DEF Decode, VectorScalarOps, JumpOps, BranchOps, AluOps, ImmediateOps,
     RegisterOps

\* Arithmetic and logic.
LEMMA ComputeRetires ==
  ASSUME Retires, Retiring.op \in ImmediateOps \union RegisterOps
  PROVE  BuiltMachine!Compute(current_warp)
<1> DEFINE i == Retiring
<1>1. /\ BuiltMachine!Instruction(current_warp) = i /\ i \in Instructions
      /\ \A t \in Threads, r \in Registers :
            BuiltMachine!Vector(current_warp, t, r) = Operand(t, r)
      /\ \A r : s[current_warp][r] = Operand(ScalarUnit, r)
      /\ i.rs1 \in Registers /\ i.rs2 \in Registers /\ i.scalar \in BOOLEAN
  BY MachineReads DEF Retires, Instructions
<1>2. /\ Control.scalar = i.scalar /\ Control.write /\ ~Control.halt /\ ~Control.branch
      /\ ~Control.store /\ Control.mux = "ALU_OUT" /\ Control.alu = i.op
      /\ Control.rd = i.rd /\ Control.rs1 = i.rs1
      /\ i.op \notin JumpOps
      /\ IF i.op \in ImmediateOps THEN Control.imm = i.imm ELSE Control.rs2 = i.rs2
  BY ComputeControl
<1>3. ASSUME NEW u \in Units, Enabled(u)
      PROVE  WriteValue(u) = BuiltMachine!Calculate(i, i.op, Operand(u, i.rs1), Operand(u, i.rs2))
  BY <1>2, <1>3, RetiringCalculates DEF WriteValue
<1> DEFINE v == [u \in Units |-> BuiltMachine!Calculate(i, i.op, Operand(u, i.rs1),
                                                       Operand(u, i.rs2))]
<1>4. /\ IF i.scalar
         THEN BuiltMachine!WriteScalar(current_warp, v[ScalarUnit])
         ELSE BuiltMachine!WriteVector(current_warp, [t \in Threads |-> v[t]])
      /\ v[ScalarUnit] = BuiltMachine!Calculate(i, i.op, s[current_warp][i.rs1],
                                                s[current_warp][i.rs2])
      /\ [t \in Threads |-> v[t]] =
            [t \in Threads |-> BuiltMachine!Calculate(i, i.op,
                BuiltMachine!Vector(current_warp, t, i.rs1),
                BuiltMachine!Vector(current_warp, t, i.rs2))]
  <2>1. \A u \in Units : Enabled(u) => v[u] = WriteValue(u)
    BY <1>3
  <2>2. v[ScalarUnit] = BuiltMachine!Calculate(i, i.op, s[current_warp][i.rs1],
                                               s[current_warp][i.rs2])
    BY <1>1, CoreConstants
  <2>3. \A t \in Threads :
          v[t] = BuiltMachine!Calculate(i, i.op, BuiltMachine!Vector(current_warp, t, i.rs1),
                                        BuiltMachine!Vector(current_warp, t, i.rs2))
    BY <1>1, CoreConstants
  <2> HIDE DEF v
  <2> QED
    BY <1>2, <2>1, <2>2, <2>3, ResultIsWritten
<1>5. committed' = committed
  BY <1>2, RetiringResults DEF Retires
<1>6. /\ BuiltMachine!GoTo(current_warp, ProgramCounters[current_warp] + 1)
      /\ HaltedWarps' = HaltedWarps
  BY <1>2, RetiringFallsThrough
<1>7. BuiltMachine!Runs(current_warp, BuiltMachine!ImmediateOps \union BuiltMachine!RegisterOps)
  BY <1>1, RetiringResults DEF BuiltMachine!Runs, BuiltMachine!ImmediateOps, ImmediateOps,
     BuiltMachine!RegisterOps, RegisterOps
<1> QED
  <2> HIDE DEF v
  <2>1. IF i.scalar
        THEN BuiltMachine!WriteScalar(current_warp, BuiltMachine!Calculate(i, i.op,
               s[current_warp][i.rs1], s[current_warp][i.rs2]))
        ELSE BuiltMachine!WriteVector(current_warp,
               [t \in Threads |-> BuiltMachine!Calculate(i, i.op,
                  BuiltMachine!Vector(current_warp, t, i.rs1),
                  BuiltMachine!Vector(current_warp, t, i.rs2))])
    BY <1>4
  <2> QED
    BY <1>1, <1>5, <1>6, <1>7, <2>1, SameWords DEF BuiltMachine!Compute

\* lui.
LEMMA LoadUpperRetires ==
  ASSUME Retires, Retiring.op = "LUI"
  PROVE  BuiltMachine!LoadUpper(current_warp)
<1> DEFINE i == Retiring
<1>1. /\ BuiltMachine!Instruction(current_warp) = i /\ i \in Instructions
      /\ Control = Decode(i) /\ current_warp \notin HaltedWarps
      /\ ~Control.store => committed = memory
  BY MachineReads, RetiringResults DEF Retires
<1>2. /\ Control.scalar = i.scalar /\ Control.write /\ ~Control.halt /\ ~Control.branch
      /\ ~Control.store /\ Control.mux = "IMMEDIATE" /\ Control.alu = "ADDI"
      /\ Control.rd = i.rd /\ Control.imm = i.imm
  BY <1>1 DEF Decode, VectorScalarOps, JumpOps, BranchOps, AluOps, ImmediateOps, RegisterOps
<1> DEFINE v == [u \in Units |-> i.imm]
<1>3. IF i.scalar
      THEN BuiltMachine!WriteScalar(current_warp, v[ScalarUnit])
      ELSE BuiltMachine!WriteVector(current_warp, [t \in Threads |-> v[t]])
  <2>1. \A u \in Units : Enabled(u) => v[u] = WriteValue(u)
    BY <1>2 DEF WriteValue
  <2> HIDE DEF v
  <2> QED
    BY <1>2, <2>1, ResultIsWritten
<1>4. v[ScalarUnit] = i.imm /\ [t \in Threads |-> v[t]] = [t \in Threads |-> i.imm]
  BY CoreConstants
<1>5. /\ BuiltMachine!GoTo(current_warp, ProgramCounters[current_warp] + 1)
      /\ HaltedWarps' = HaltedWarps
  BY <1>2, RetiringFallsThrough DEF JumpOps
<1> QED
  BY <1>1, <1>2, <1>3, <1>4, <1>5, SameWords
     DEF BuiltMachine!LoadUpper, BuiltMachine!Runs, Retires

\* auipc: the machine does not say what is written.
LEMMA AddUpperRetires ==
  ASSUME Retires, Retiring.op = "AUIPC"
  PROVE  BuiltMachine!AddUpper(current_warp)
<1> DEFINE i == Retiring
<1>1. /\ BuiltMachine!Instruction(current_warp) = i /\ i \in Instructions
      /\ Control = Decode(i) /\ current_warp \notin HaltedWarps
      /\ ~Control.store => committed = memory
  BY MachineReads, RetiringResults DEF Retires
<1>2. /\ Control.scalar = i.scalar /\ Control.write /\ ~Control.halt /\ ~Control.branch
      /\ ~Control.store /\ Control.mux = "ALU_OUT" /\ Control.alu = "ADD"
      /\ Control.rd = i.rd
  BY <1>1 DEF Decode, VectorScalarOps, JumpOps, BranchOps, AluOps, ImmediateOps, RegisterOps
<1> DEFINE v == [u \in Units |-> WriteValue(u)]
<1>3. IF i.scalar
      THEN BuiltMachine!WriteScalar(current_warp, v[ScalarUnit])
      ELSE BuiltMachine!WriteVector(current_warp, [t \in Threads |-> v[t]])
  <2>1. \A u \in Units : Enabled(u) => v[u] = WriteValue(u)
    OBVIOUS
  <2> HIDE DEF v
  <2> QED
    BY <1>2, <2>1, ResultIsWritten
<1>4. v[ScalarUnit] \in Words /\ [t \in Threads |-> v[t]] \in [Threads -> Words]
  BY WriteValuesAreWords, CoreConstants DEF Retires, CoreInvariant
<1> HIDE DEF v
<1>5. /\ BuiltMachine!GoTo(current_warp, ProgramCounters[current_warp] + 1)
      /\ HaltedWarps' = HaltedWarps
  BY <1>2, RetiringFallsThrough DEF JumpOps
<1>6. IF i.scalar
      THEN \E a \in Words : BuiltMachine!WriteScalar(current_warp, a)
      ELSE \E f \in [Threads -> Words] : BuiltMachine!WriteVector(current_warp, f)
  BY <1>3, <1>4
<1> QED
  BY <1>1, <1>2, <1>5, <1>6, SameWords
     DEF BuiltMachine!AddUpper, BuiltMachine!Runs, Retires

\* Loads.
LEMMA LoadRetires ==
  ASSUME Retires, Retiring.op = "LOAD"
  PROVE  BuiltMachine!Load(current_warp)
<1> DEFINE i == Retiring
<1>1. /\ BuiltMachine!Instruction(current_warp) = i /\ i \in Instructions
      /\ i.rs1 \in Registers
      /\ \A t \in Threads, r \in Registers :
            BuiltMachine!Vector(current_warp, t, r) = Operand(t, r)
      /\ \A r : s[current_warp][r] = Operand(ScalarUnit, r)
      /\ Control = Decode(i) /\ current_warp \notin HaltedWarps
      /\ ~Control.store => committed = memory
  BY MachineReads, RetiringResults DEF Retires, Instructions
<1>2. /\ Control.scalar = i.scalar /\ Control.write /\ ~Control.halt /\ ~Control.branch
      /\ Control.load /\ ~Control.store /\ Control.mux = "LSU_OUT" /\ Control.alu = "ADDI"
      /\ Control.rd = i.rd /\ Control.rs1 = i.rs1 /\ Control.imm = i.imm
  BY <1>1 DEF Decode, VectorScalarOps, JumpOps, BranchOps, AluOps, ImmediateOps, RegisterOps
<1> DEFINE v == [u \in Units |-> committed[Wrap(Operand(u, i.rs1) + i.imm)]]
<1>3. IF i.scalar
      THEN BuiltMachine!WriteScalar(current_warp, v[ScalarUnit])
      ELSE BuiltMachine!WriteVector(current_warp, [t \in Threads |-> v[t]])
  <2>1. ASSUME NEW u \in Units, Enabled(u) PROVE v[u] = WriteValue(u)
    <3>1. lsu_out[u] = committed[Address(u)]
      BY <1>1, <1>2, <2>1, RetiringResults
    <3> QED
      BY <1>2, <3>1 DEF Address, WriteValue
  <2> HIDE DEF v
  <2> QED
    BY <1>2, <2>1, ResultIsWritten
<1>4. /\ v[ScalarUnit] = committed[Wrap(s[current_warp][i.rs1] + i.imm)]
      /\ [t \in Threads |-> v[t]] = [t \in Threads |->
            committed[Wrap(BuiltMachine!Vector(current_warp, t, i.rs1) + i.imm)]]
  BY <1>1, CoreConstants
<1> HIDE DEF v
<1>5. /\ BuiltMachine!GoTo(current_warp, ProgramCounters[current_warp] + 1)
      /\ HaltedWarps' = HaltedWarps
  BY <1>2, RetiringFallsThrough DEF JumpOps
<1>6. IF i.scalar
      THEN BuiltMachine!WriteScalar(current_warp,
             committed[BuiltMachine!Wrap(s[current_warp][i.rs1] + i.imm)])
      ELSE BuiltMachine!WriteVector(current_warp, [t \in Threads |->
             committed[BuiltMachine!Wrap(BuiltMachine!Vector(current_warp, t, i.rs1) + i.imm)]])
  BY <1>3, <1>4 DEF BuiltMachine!Wrap, Wrap
<1> QED
  BY <1>1, <1>2, <1>5, <1>6, SameWords
     DEF BuiltMachine!Load, BuiltMachine!Runs, Retires

\* Stores: of the threads that store to one address, one is the last.
LEMMA StoreRetires ==
  ASSUME Retires, Retiring.op = "STORE"
  PROVE  BuiltMachine!Store(current_warp)
<1> DEFINE i == BuiltMachine!Instruction(current_warp)
           A == BuiltMachine!Active(current_warp)
           at(t) == BuiltMachine!Wrap(BuiltMachine!Vector(current_warp, t, i.rs1) + i.imm)
           word(t) == BuiltMachine!Vector(current_warp, t, i.rs2)
           stores == {[addr |-> at(t), data |-> word(t)] : t \in A}
           stored(a) == {st.data : st \in {u \in stores : u.addr = a}}
<1>1. /\ i = Retiring /\ i \in Instructions /\ i.op = "STORE"
      /\ i.rs1 \in Registers /\ i.rs2 \in Registers
      /\ \A t \in Threads, r \in Registers :
            BuiltMachine!Vector(current_warp, t, r) = Operand(t, r)
      /\ \A t : t \in A <=> t \in Threads /\ Bit(ExecutionMask, t)
      /\ Control = Decode(i) /\ current_warp \notin HaltedWarps
  BY MachineReads, RetiringResults DEF Retires, Instructions
<1>2. /\ ~Control.scalar /\ ~Control.write /\ ~Control.halt /\ ~Control.branch
      /\ Control.store /\ Control.alu = "ADDI"
      /\ Control.rs1 = i.rs1 /\ Control.rs2 = i.rs2 /\ Control.imm = i.imm
  <2>1. ~i.scalar
    BY <1>1 DEF Instructions, TwoFormOps, ScalarOps, ImmediateOps, RegisterOps, BranchOps, JumpOps
  <2> QED
    BY <1>1, <2>1 DEF Decode, VectorScalarOps, JumpOps, BranchOps, AluOps, ImmediateOps,
       RegisterOps
<1>3. ASSUME NEW u \in Units
      PROVE  lsu_state[u] = "LSU_DONE" <=> u \in A
  <2>1. u \in A <=> Enabled(u)
    BY <1>1, <1>2, CoreAssumption, IsaAssumption DEF Enabled, Threads, ScalarUnit, Units
  <2> QED
    BY <1>2, <2>1 DEF Retires, CoreInvariant, UnitsFollowTheWarp, Active
<1>4. ASSUME NEW a \in Words
      PROVE  IF stored(a) = {} THEN memory[a] = committed[a] ELSE memory[a] \in stored(a)
  <2>1. Stored(a) = {t \in A : Wrap(Operand(t, i.rs1) + i.imm) = a}
    BY <1>1, <1>2, <1>3, CoreConstants DEF Stored, Address
  <2>2. \A t \in A : /\ at(t) = Wrap(Operand(t, i.rs1) + i.imm)
                     /\ word(t) = Operand(t, i.rs2)
    BY <1>1, SameWords
  <2>3. stored(a) = {Operand(t, i.rs2) : t \in Stored(a)}
    <3> HIDE DEF at, word, A
    <3>1. stored(a) = {word(t) : t \in {u \in A : at(u) = a}}
      <4> DEFINE request(t) == [addr |-> at(t), data |-> word(t)]
      <4>1. \A t \in A : request(t).addr = at(t) /\ request(t).data = word(t)
        OBVIOUS
      <4>2. stored(a) = {st.data : st \in {u \in {request(t) : t \in A} : u.addr = a}}
        OBVIOUS
      <4> HIDE DEF request, stored
      <4>3. \A d : d \in stored(a) <=> \E t \in A : at(t) = a /\ d = word(t)
        BY <4>1, <4>2
      <4> QED
        BY <4>3
    <3>2. Stored(a) = {u \in A : at(u) = a}
      BY <2>1, <2>2
    <3> QED
      BY <2>2, <3>1, <3>2
  <2>4. IF Stored(a) = {} THEN memory[a] = committed[a]
        ELSE \E u \in Stored(a) : memory[a] = Operand(u, i.rs2)
    BY <1>2 DEF Retires, PipelineInvariant, MemoryFollowsTheStores
  <2> HIDE DEF stored
  <2> QED
    BY <2>3, <2>4
<1>5. /\ BuiltMachine!GoTo(current_warp, ProgramCounters[current_warp] + 1)
      /\ HaltedWarps' = HaltedWarps
  BY <1>2, RetiringFallsThrough DEF JumpOps
<1>6. GeneralVectors' = GeneralVectors /\ s' = s
  BY <1>2, NoWrite
<1>7. /\ committed' \in [Words -> Words]
      /\ \A a \in Words : IF stored(a) = {} THEN committed'[a] = committed[a]
                           ELSE committed'[a] \in stored(a)
  BY <1>4 DEF Retires, CoreInvariant, TypeOK
<1> QED
  <2>1. BuiltMachine!Runs(current_warp, {"STORE"})
    BY <1>1 DEF BuiltMachine!Runs
  <2>2. program' = program
    BY DEF Retires
  <2> QED
    BY <1>1, <1>5, <1>6, <1>7, <2>1, SameWords DEF BuiltMachine!Store

\* sx.slt and sx.slti: the bits of threads that are masked out are whatever their
\* ALUs hold.
LEMMA CompareRetires ==
  ASSUME Retires, Retiring.op \in VectorScalarOps
  PROVE  BuiltMachine!Compare(current_warp)
<1> DEFINE i == BuiltMachine!Instruction(current_warp)
           op == IF i.op = "SX_SLT" THEN "SLT" ELSE "SLTI"
           A == BuiltMachine!Active(current_warp)
           outcome(t) == BuiltMachine!Calculate(i, op,
                            BuiltMachine!Vector(current_warp, t, i.rs1),
                            BuiltMachine!Vector(current_warp, t, i.rs2))
           others == {t \in Threads \ A : Bit(alu_out[t], 0)}
<1>1. /\ i = Retiring /\ i \in Instructions /\ i.op \in {"SX_SLT", "SX_SLTI"}
      /\ i.rs1 \in Registers /\ i.rs2 \in Registers
      /\ \A t \in Threads, r \in Registers :
            BuiltMachine!Vector(current_warp, t, r) = Operand(t, r)
      /\ \A t : t \in A <=> t \in Threads /\ Bit(ExecutionMask, t)
      /\ Control = Decode(i) /\ current_warp \notin HaltedWarps
      /\ ~Control.store => committed = memory
      /\ vector_to_scalar_data[current_warp] = VectorToScalar
  BY MachineReads, RetiringResults DEF Retires, Instructions, VectorScalarOps
<1>2. /\ ~Control.scalar /\ Control.write /\ ~Control.halt /\ ~Control.branch
      /\ ~Control.store /\ Control.alu = op /\ Control.mux = "VECTOR_TO_SCALAR"
      /\ Control.rd = i.rd /\ Control.rs1 = i.rs1
      /\ IF op \in ImmediateOps THEN Control.imm = i.imm ELSE Control.rs2 = i.rs2
  <2>1. i.op \in VectorScalarOps
    BY <1>1 DEF VectorScalarOps
  <2> HIDE DEF i
  <2> QED
    BY <1>1, <2>1, CompareControl
<1>3. ASSUME NEW t \in A
      PROVE  Bit(alu_out[t], 0) <=> outcome(t) = 1
  <2>1. t \in Units /\ t \in Threads /\ Enabled(t) /\ op \notin JumpOps
    BY <1>1, <1>2, CoreAssumption, IsaAssumption DEF Enabled, Threads, ScalarUnit, Units, JumpOps
  <2>2. alu_out[t] = BuiltMachine!Calculate(Retiring, op, Operand(t, Retiring.rs1),
                                            Operand(t, Retiring.rs2))
    <3> HIDE DEF op
    <3> QED
      BY <1>1, <1>2, <2>1, RetiringCalculates
  <2>3. alu_out[t] = outcome(t)
    BY <1>1, <2>1, <2>2
  <2>4. alu_out[t] \in {0, 1}
    <3>1. alu_out[t] = AluOut(Control.alu, pc[current_warp], Operand(t, Control.rs1),
                              Operand(t, Control.rs2), Control.imm)
      BY <2>1, RetiringResults
    <3>2. Control.alu \in {"SLT", "SLTI"}
      BY <1>2
    <3> QED
      BY <3>1, <3>2 DEF AluOut, Truth
  <2>5. Bit(0, 0) <=> FALSE
    BY DEF Bit
  <2>6. Bit(1, 0)
    BY DEF Bit
  <2> HIDE DEF outcome
  <2> QED
    BY <2>3, <2>4, <2>5, <2>6
<1>4. {t \in Threads : Bit(alu_out[t], 0)} = {t \in A : outcome(t) = 1} \union others
  <2> HIDE DEF outcome, A
  <2> QED
    BY <1>1, <1>3
<1>5. BuiltMachine!WriteScalar(current_warp,
        BuiltMachine!WordOf({t \in A : outcome(t) = 1} \union others))
  <2>1. WriteValue(ScalarUnit) = WordOf({t \in Threads : Bit(alu_out[t], 0)})
    BY <1>1, <1>2 DEF WriteValue, VectorToScalar
  <2>2. BuiltMachine!WriteScalar(current_warp, WriteValue(ScalarUnit))
    BY <1>1, <1>2, ScalarWrite
  <2>3. WriteValue(ScalarUnit) =
          BuiltMachine!WordOf({t \in A : outcome(t) = 1} \union others)
    <3> HIDE DEF outcome, A, others
    <3> QED
      BY <1>4, <2>1, SameWords
  <2> HIDE DEF outcome, A, others
  <2> QED
    BY <2>2, <2>3
<1>6. others \in SUBSET (Threads \ A)
  OBVIOUS
<1>7. /\ BuiltMachine!GoTo(current_warp, ProgramCounters[current_warp] + 1)
      /\ HaltedWarps' = HaltedWarps
  BY <1>2, RetiringFallsThrough DEF JumpOps
<1>8. BuiltMachine!Runs(current_warp, BuiltMachine!VectorScalarOps) /\ committed' = committed
  BY <1>1, <1>2 DEF BuiltMachine!Runs, BuiltMachine!VectorScalarOps, Retires
<1> HIDE DEF others
<1> QED
  BY <1>5, <1>6, <1>7, <1>8, SameWords DEF BuiltMachine!Compare

\* Branches.
LEMMA BranchRetires ==
  ASSUME Retires, Retiring.op \in BranchOps
  PROVE  BuiltMachine!Branch(current_warp)
<1> DEFINE i == BuiltMachine!Instruction(current_warp)
           outcome == BuiltMachine!Calculate(i, i.op, s[current_warp][i.rs1],
                                             s[current_warp][i.rs2])
<1>1. /\ i = Retiring /\ i \in Instructions /\ i.op \in BranchOps
      /\ \A r : s[current_warp][r] = Operand(ScalarUnit, r)
      /\ Control = Decode(i) /\ current_warp \notin HaltedWarps
      /\ ~Control.store => committed = memory
      /\ ProgramCounters[current_warp] = pc[current_warp]
  BY MachineReads, RetiringResults DEF Retires, ProgramCounters, CoreInvariant, TypeOK
<1>2. /\ Control.scalar /\ ~Control.write /\ ~Control.halt /\ Control.branch
      /\ ~Control.store /\ Control.alu = i.op
      /\ Control.rs1 = i.rs1 /\ Control.rs2 = i.rs2 /\ Control.imm = i.imm
      /\ i.op \notin ImmediateOps /\ i.op \notin JumpOps
  <2> HIDE DEF i
  <2> QED
    BY <1>1, BranchControl
<1>3. alu_out[ScalarUnit] = outcome
  <2>1. ScalarUnit \in Units /\ Enabled(ScalarUnit)
    BY <1>2, CoreConstants DEF Enabled
  <2>2. alu_out[ScalarUnit] =
          BuiltMachine!Calculate(Retiring, i.op, Operand(ScalarUnit, Retiring.rs1),
                                 Operand(ScalarUnit, Retiring.rs2))
    BY <1>1, <1>2, <2>1, RetiringCalculates
  <2> QED
    BY <1>1, <2>2
<1>4. NextPc = Wrap(IF outcome = 1 THEN ProgramCounters[current_warp] + i.imm
                    ELSE ProgramCounters[current_warp] + 1)
  <2> HIDE DEF outcome
  <2> QED
    BY <1>1, <1>2, <1>3 DEF NextPc, BranchTaken
<1>5. /\ BuiltMachine!GoTo(current_warp,
           IF outcome = 1 THEN ProgramCounters[current_warp] + i.imm
           ELSE ProgramCounters[current_warp] + 1)
      /\ HaltedWarps' = HaltedWarps
  <2> HIDE DEF outcome
  <2> QED
    BY <1>2, <1>4, RetiringGoesTo
<1>6. GeneralVectors' = GeneralVectors /\ s' = s /\ committed' = committed
  BY <1>1, <1>2, NoWrite DEF Retires
<1>7. BuiltMachine!Runs(current_warp, BuiltMachine!BranchOps)
  BY <1>1 DEF BuiltMachine!Runs, BuiltMachine!BranchOps, BranchOps
<1> QED
  BY <1>5, <1>6, <1>7 DEF BuiltMachine!Branch

\* jal and jalr.
LEMMA JumpRetires ==
  ASSUME Retires, Retiring.op \in JumpOps
  PROVE  BuiltMachine!Jump(current_warp)
<1> DEFINE i == BuiltMachine!Instruction(current_warp)
<1>1. /\ i = Retiring /\ i \in Instructions /\ i.op \in {"JAL", "JALR"}
      /\ \A r : s[current_warp][r] = Operand(ScalarUnit, r)
      /\ Control = Decode(i) /\ current_warp \notin HaltedWarps
      /\ ~Control.store => committed = memory
      /\ ProgramCounters[current_warp] = pc[current_warp]
  BY MachineReads, RetiringResults
     DEF Retires, ProgramCounters, CoreInvariant, TypeOK, JumpOps
<1>2. /\ Control.scalar /\ Control.write /\ ~Control.halt /\ ~Control.branch
      /\ ~Control.store /\ Control.alu = i.op /\ Control.mux = "PC_PLUS_1"
      /\ Control.rd = i.rd /\ Control.imm = i.imm
      /\ i.op = "JALR" => Control.rs1 = i.rs1
  <2>1. i.scalar
    BY <1>1 DEF Instructions, TwoFormOps, ScalarOps, ImmediateOps, RegisterOps, BranchOps, JumpOps
  <2> QED
    BY <1>1, <2>1 DEF Decode, VectorScalarOps, JumpOps, BranchOps, AluOps, ImmediateOps,
       RegisterOps
<1>3. alu_out[ScalarUnit] =
        Wrap(IF i.op = "JAL" THEN ProgramCounters[current_warp] + i.imm
             ELSE s[current_warp][i.rs1] + i.imm)
  <2>1. ScalarUnit \in Units /\ Enabled(ScalarUnit)
    BY <1>2, CoreConstants DEF Enabled
  <2>2. alu_out[ScalarUnit] =
          AluOut(i.op, pc[current_warp], Operand(ScalarUnit, Control.rs1),
                 Operand(ScalarUnit, Control.rs2), i.imm)
    BY <1>2, <2>1, RetiringResults
  <2>3. CASE i.op = "JAL"
    BY <1>1, <2>2, <2>3 DEF AluOut
  <2>4. CASE i.op = "JALR"
    BY <1>1, <1>2, <2>2, <2>4 DEF AluOut
  <2> QED
    BY <1>1, <2>3, <2>4
<1>4. NextPc = alu_out[ScalarUnit]
  BY <1>1, <1>2 DEF NextPc, JumpOps
<1>5. /\ BuiltMachine!GoTo(current_warp,
           IF i.op = "JAL" THEN ProgramCounters[current_warp] + i.imm
           ELSE s[current_warp][i.rs1] + i.imm)
      /\ HaltedWarps' = HaltedWarps
  BY <1>2, <1>3, <1>4, RetiringGoesTo
<1>6. BuiltMachine!WriteScalar(current_warp,
        BuiltMachine!Wrap(ProgramCounters[current_warp] + 1))
  <2>1. WriteValue(ScalarUnit) = BuiltMachine!Wrap(ProgramCounters[current_warp] + 1)
    BY <1>1, <1>2, SameWords DEF WriteValue
  <2>2. BuiltMachine!WriteScalar(current_warp, WriteValue(ScalarUnit))
    BY <1>1, <1>2, ScalarWrite
  <2> QED
    BY <2>1, <2>2
<1>7. BuiltMachine!Runs(current_warp, BuiltMachine!JumpOps) /\ committed' = committed
  BY <1>1, <1>2 DEF BuiltMachine!Runs, BuiltMachine!JumpOps, Retires
<1> QED
  BY <1>5, <1>6, <1>7 DEF BuiltMachine!Jump

\* Words that are no instruction.
LEMMA NoOperationRetires ==
  ASSUME Retires, Retiring.op = "NOOP"
  PROVE  BuiltMachine!NoOperation(current_warp)
<1>1. /\ BuiltMachine!Instruction(current_warp) = Retiring
      /\ Control = Decode(Retiring) /\ current_warp \notin HaltedWarps
      /\ ~Control.store => committed = memory
  BY MachineReads, RetiringResults DEF Retires
<1>2. /\ ~Control.write /\ ~Control.halt /\ ~Control.branch /\ ~Control.store
      /\ Control.alu = "ADDI"
  BY <1>1 DEF Decode, VectorScalarOps, JumpOps, BranchOps, AluOps, ImmediateOps, RegisterOps
<1>3. /\ BuiltMachine!GoTo(current_warp, ProgramCounters[current_warp] + 1)
      /\ HaltedWarps' = HaltedWarps
  BY <1>2, RetiringFallsThrough DEF JumpOps
<1>4. GeneralVectors' = GeneralVectors /\ s' = s /\ committed' = committed
  BY <1>1, <1>2, NoWrite DEF Retires
<1> QED
  BY <1>1, <1>3, <1>4 DEF BuiltMachine!NoOperation, BuiltMachine!Runs

\* halt.
LEMMA HaltRetires ==
  ASSUME Retires, Retiring.op = "HALT"
  PROVE  BuiltMachine!Halt(current_warp)
<1>1. /\ BuiltMachine!Instruction(current_warp) = Retiring
      /\ Control = Decode(Retiring) /\ current_warp \notin HaltedWarps
      /\ ~Control.store => committed = memory
  BY MachineReads, RetiringResults DEF Retires
<1>2. ~Control.write /\ Control.halt /\ ~Control.store
  BY <1>1 DEF Decode
<1>3. GeneralVectors' = GeneralVectors /\ s' = s /\ committed' = committed
  BY <1>1, <1>2, NoWrite DEF Retires
<1> QED
  BY <1>1, <1>2, <1>3, RetiringMoves DEF BuiltMachine!Halt, BuiltMachine!Runs

\* There are no other instructions.
LEMMA InstructionRetires ==
  ASSUME Retires
  PROVE  BuiltMachine!Step(current_warp)
<1>1. Retiring.op \in Ops
  BY MachineReads DEF Retires, Instructions
<1>2. /\ Retiring.op \in ImmediateOps \union RegisterOps => BuiltMachine!Compute(current_warp)
      /\ Retiring.op = "LUI" => BuiltMachine!LoadUpper(current_warp)
      /\ Retiring.op = "AUIPC" => BuiltMachine!AddUpper(current_warp)
      /\ Retiring.op = "LOAD" => BuiltMachine!Load(current_warp)
      /\ Retiring.op = "STORE" => BuiltMachine!Store(current_warp)
      /\ Retiring.op \in VectorScalarOps => BuiltMachine!Compare(current_warp)
      /\ Retiring.op \in BranchOps => BuiltMachine!Branch(current_warp)
      /\ Retiring.op \in JumpOps => BuiltMachine!Jump(current_warp)
      /\ Retiring.op = "NOOP" => BuiltMachine!NoOperation(current_warp)
      /\ Retiring.op = "HALT" => BuiltMachine!Halt(current_warp)
  BY ComputeRetires, LoadUpperRetires, AddUpperRetires, LoadRetires, StoreRetires,
     CompareRetires, BranchRetires, JumpRetires, NoOperationRetires, HaltRetires
<1>3. program' = program /\ block_id' = block_id
  BY DEF Retires
<1> QED
  BY <1>1, <1>2, <1>3 DEF BuiltMachine!Step, Ops, TwoFormOps, ScalarOps

-----------------------------------------------------------------------------
(* Every edge is a step of the machine, or none it would notice.           *)

\* The core after reset is the machine at its start.
LEMMA InitMaps ==
  ASSUME Init
  PROVE  BuiltMachine!Init
<1>1. GeneralVectors = BuiltMachine!ClearVectors
  BY SameWords, IsaAssumption DEF Init, GeneralVectors, BuiltMachine!ClearVectors, ClearVectors,
     Registers
<1>2. s = BuiltMachine!ClearScalars
  BY SameWords DEF Init, ClearScalars, BuiltMachine!ClearScalars
<1>3. HaltedWarps = {} /\ ProgramCounters = [w \in Warps |-> BaseAddress]
  BY DEF Init, HaltedWarps, ProgramCounters
<1> QED
  BY <1>1, <1>2, <1>3, SameWords DEF Init, BuiltMachine!Init

\* Edges that only change the read-only registers leave the machine's registers.
LEMMA ReadOnlyEdge ==
  ASSUME TypeOK, RegistersClock, Stage # "WARP_UPDATE"
  PROVE  GeneralVectors' = GeneralVectors /\ s' = s
<1>1. s' = s
  BY DEF RegistersClock
<1>2. ASSUME NEW w \in Warps, NEW t \in Threads, NEW r \in 4 .. NUM_REGISTERS - 1
      PROVE  GeneralVectors'[w][t][r] = GeneralVectors[w][t][r]
  <2>1. r \in Registers /\ ~(r < 4)
    BY IsaAssumption DEF Registers
  <2>2. x'[w][t][r] = x[w][t][r]
    BY <2>1 DEF RegistersClock, TypeOK
  <2>3. GeneralVectors'[w][t][r] = x'[w][t][r] /\ GeneralVectors[w][t][r] = x[w][t][r]
    BY DEF GeneralVectors
  <2> QED
    BY <2>2, <2>3
<1> QED
  BY <1>1, <1>2, VectorsAreWords, VectorsAreEqual

\* An edge while the core runs is the retirement of an instruction, or nothing.
LEMMA RunRetires ==
  ASSUME CoreInvariant, PipelineInvariant,
         NEW ready \in SUBSET Fetching, NEW served \in SUBSET Waiting, Run(ready, served)
  PROVE  Retires \/ UNCHANGED BuiltMachine!vars
<1>1. /\ start_execution /\ start_execution' = start_execution
      /\ WarpsClock /\ RegistersClock /\ MemoryClock(served)
      /\ program' = program /\ block_id' = block_id
      /\ committed' = IF Stage = "WARP_UPDATE" THEN memory ELSE committed
      /\ TypeOK /\ current_warp \in Warps
  BY DEF Run, DatapathClock, inputVars, WarpsClock, CoreInvariant, TypeOK
<1>2. CASE Stage = "WARP_UPDATE"
  <2>1. memory' = memory
    <3>1. served = {}
      BY <1>2, UnitsAtWork
    <3>2. \A a \in Words : memory'[a] = memory[a]
      BY <1>1, <3>1, MemoryAfterEdge
    <3>3. memory' \in [Words -> Words]
      BY <1>1, MemoryKeepsTypes
    <3> QED
      BY <1>1, <3>2, <3>3 DEF TypeOK
  <2> QED
    BY <1>1, <1>2, <2>1 DEF Retires
<1>3. CASE Stage # "WARP_UPDATE"
  <2>1. GeneralVectors' = GeneralVectors /\ s' = s
    BY <1>1, <1>3, ReadOnlyEdge
  <2>2. pc' = pc /\ ProgramCounters' = ProgramCounters
    BY <1>1, <1>3 DEF WarpsClock, ProgramCounters
  <2>3. HaltedWarps' = HaltedWarps
    <3>1. ASSUME NEW w \in Warps
          PROVE  warp_state'[w] = "WARP_DONE" <=> warp_state[w] = "WARP_DONE"
      BY <1>1, <1>3 DEF WarpsClock, WarpStateAfter, StageAfter, Stage
    <3> QED
      BY <3>1 DEF HaltedWarps
  <2> QED
    BY <1>1, <1>3, <2>1, <2>2, <2>3 DEF BuiltMachine!vars
<1> QED
  BY <1>2, <1>3

\* Taking a block changes nothing the machine knows: it was ready to run it.
LEMMA StartMaps ==
  ASSUME CoreInvariant, PipelineInvariant, Start
  PROVE  UNCHANGED BuiltMachine!vars
<1>1. /\ ~start_execution /\ WarpsStart /\ RegistersClock /\ TypeOK
      /\ program' = program /\ block_id' = block_id
      /\ \A w \in Warps : warp_state[w] = "WARP_IDLE"
  BY DEF Start, DatapathClock, inputVars, CoreInvariant, WarpsFollowTheBlock
<1>2. Stage # "WARP_UPDATE"
  BY <1>1 DEF Stage, TypeOK
<1>3. HaltedWarps' = HaltedWarps /\ ProgramCounters' = ProgramCounters
  BY <1>1 DEF HaltedWarps, ProgramCounters, WarpsStart
<1> QED
  BY <1>1, <1>2, <1>3, ReadOnlyEdge, StartKeepsPipeline DEF BuiltMachine!vars

\* A reset of a core that is done gives the machine its next block.
LEMMA ResetMaps ==
  ASSUME CoreInvariant, Reset
  PROVE  BuiltMachine!NextBlock
<1>1. HaltedWarps = BuiltMachine!Warps /\ HaltedWarps' = {}
  BY SameWords DEF Reset, CoreInvariant, WarpsFollowTheBlock, AllWarpsDone, HaltedWarps
<1>2. ProgramCounters' = [w \in BuiltMachine!Warps |-> BaseAddress]
  BY SameWords DEF Reset, ProgramCounters
<1>3. GeneralVectors' = BuiltMachine!ClearVectors
  BY SameWords, IsaAssumption DEF Reset, GeneralVectors, BuiltMachine!ClearVectors,
     ClearVectors, Registers
<1>4. s' = BuiltMachine!ClearScalars
  BY SameWords DEF Reset, ClearScalars, BuiltMachine!ClearScalars
<1> QED
  BY <1>1, <1>2, <1>3, <1>4 DEF Reset, BuiltMachine!NextBlock

\* The core, with its stages, its fetches under other warps' execution, and memories
\* that answer at any time, runs every program as the sequential machine does in which
\* operations yield what alu.sv computes.
THEOREM CoreImplementsBuiltMachine == Spec => ImplementsBuiltMachine
<1>1. Init => BuiltMachine!Init
  BY InitMaps
<1>2. CoreInvariant /\ PipelineInvariant /\ [Next]_vars
        => [BuiltMachine!Next]_BuiltMachine!vars
  <2> SUFFICES ASSUME CoreInvariant, PipelineInvariant, [Next]_vars
               PROVE  BuiltMachine!Next \/ UNCHANGED BuiltMachine!vars
    OBVIOUS
  <2>1. current_warp \in BuiltMachine!Warps
    BY SameWords DEF CoreInvariant, TypeOK
  <2>2. ASSUME NEW ready \in SUBSET Fetching, NEW served \in SUBSET Waiting,
               Run(ready, served)
        PROVE  BuiltMachine!Next \/ UNCHANGED BuiltMachine!vars
    BY <2>1, <2>2, RunRetires, InstructionRetires DEF BuiltMachine!Next
  <2>3. CASE Start
    BY <2>3, StartMaps
  <2>4. CASE Reset
    BY <2>4, ResetMaps DEF BuiltMachine!Next
  <2>5. CASE UNCHANGED vars
    BY <2>5 DEF vars, inputVars, warpVars, fetchVars, registerVars, unitVars,
       BuiltMachine!vars, HaltedWarps, ProgramCounters, GeneralVectors
  <2> QED
    BY <2>2, <2>3, <2>4, <2>5 DEF Next
<1> QED
  BY <1>1, <1>2, CoreCorrect, PipelineHoldsTheInstruction, PTL
     DEF Spec, ImplementsBuiltMachine, BuiltMachine!Spec

-----------------------------------------------------------------------------
(* The machine with signed arithmetic.                                     *)

\* The two machines differ in what they calculate, and in nothing else.
LEMMA SameMachine ==
  /\ \A w : Machine!Instruction(w) = BuiltMachine!Instruction(w)
  /\ \A w : Machine!Active(w) = BuiltMachine!Active(w)
  /\ \A w, t, r : Machine!Vector(w, t, r) = BuiltMachine!Vector(w, t, r)
  /\ \A w, v : Machine!WriteScalar(w, v) <=> BuiltMachine!WriteScalar(w, v)
  /\ \A w, v : Machine!WriteVector(w, v) <=> BuiltMachine!WriteVector(w, v)
  /\ \A w, a : Machine!GoTo(w, a) <=> BuiltMachine!GoTo(w, a)
  /\ \A w, o : Machine!Runs(w, o) <=> BuiltMachine!Runs(w, o)
  /\ \A n : Machine!Wrap(n) = BuiltMachine!Wrap(n)
  /\ \A b : Machine!WordOf(b) = BuiltMachine!WordOf(b)
  /\ Machine!Words = BuiltMachine!Words /\ Machine!Warps = BuiltMachine!Warps
  /\ Machine!Threads = BuiltMachine!Threads /\ Machine!vars = BuiltMachine!vars
<1> USE DEF Machine!Instruction, BuiltMachine!Instruction, Machine!Active, BuiltMachine!Active,
      Machine!Wrap, BuiltMachine!Wrap, Machine!Bit, BuiltMachine!Bit,
      Machine!Words, BuiltMachine!Words, Machine!Warps, BuiltMachine!Warps,
      Machine!Threads, BuiltMachine!Threads, Machine!GeneralRegisters,
      BuiltMachine!GeneralRegisters, Machine!Positions, BuiltMachine!Positions
<1>1. \A w : Machine!Instruction(w) = BuiltMachine!Instruction(w)
  OBVIOUS
<1>2. \A w : Machine!Active(w) = BuiltMachine!Active(w)
  OBVIOUS
<1>3. \A w, t, r : Machine!Vector(w, t, r) = BuiltMachine!Vector(w, t, r)
  BY DEF Machine!Vector, BuiltMachine!Vector
<1>4. \A w, v : Machine!WriteScalar(w, v) <=> BuiltMachine!WriteScalar(w, v)
  BY DEF Machine!WriteScalar, BuiltMachine!WriteScalar
<1>5. \A w, v : Machine!WriteVector(w, v) <=> BuiltMachine!WriteVector(w, v)
  BY DEF Machine!WriteVector, BuiltMachine!WriteVector
<1>6. \A w, a : Machine!GoTo(w, a) <=> BuiltMachine!GoTo(w, a)
  BY DEF Machine!GoTo, BuiltMachine!GoTo
<1>7. \A w, o : Machine!Runs(w, o) <=> BuiltMachine!Runs(w, o)
  BY DEF Machine!Runs, BuiltMachine!Runs
<1>8. \A n : Machine!Wrap(n) = BuiltMachine!Wrap(n)
  OBVIOUS
<1>9. \A b : Machine!WordOf(b) = BuiltMachine!WordOf(b)
  BY DEF Machine!WordOf, BuiltMachine!WordOf
<1>10. /\ Machine!Words = BuiltMachine!Words /\ Machine!Warps = BuiltMachine!Warps
       /\ Machine!Threads = BuiltMachine!Threads /\ Machine!vars = BuiltMachine!vars
  BY DEF Machine!vars, BuiltMachine!vars
<1> QED
  BY <1>1, <1>2, <1>3, <1>4, <1>5, <1>6, <1>7, <1>8, <1>9, <1>10

\* Nor do they differ in what they call the operations.
LEMMA SameOperations ==
  /\ Machine!ImmediateOps = BuiltMachine!ImmediateOps
  /\ Machine!RegisterOps = BuiltMachine!RegisterOps
  /\ Machine!BranchOps = BuiltMachine!BranchOps
  /\ Machine!JumpOps = BuiltMachine!JumpOps
  /\ Machine!VectorScalarOps = BuiltMachine!VectorScalarOps
  BY DEF Machine!ImmediateOps, BuiltMachine!ImmediateOps, Machine!RegisterOps,
     BuiltMachine!RegisterOps, Machine!BranchOps, BuiltMachine!BranchOps, Machine!JumpOps,
     BuiltMachine!JumpOps, Machine!VectorScalarOps, BuiltMachine!VectorScalarOps

\* A vector instruction writes nothing for threads that are masked out.
LEMMA WriteIsOfActiveThreads ==
  ASSUME NEW w, NEW f, NEW g, BuiltMachine!WriteVector(w, f),
         \A t \in BuiltMachine!Active(w) : f[t] = g[t]
  PROVE  BuiltMachine!WriteVector(w, g)
  BY DEF BuiltMachine!WriteVector

\* While the core's arithmetic is signed, both machines calculate the same.
LEMMA RetiringMeans ==
  ASSUME Retires, ArithmeticIsSigned, NEW u \in Units, Enabled(u),
         NEW op, op = Control.alu, op \notin JumpOps,
         IF op \in ImmediateOps THEN Control.imm = Retiring.imm
                               ELSE Control.rs2 = Retiring.rs2,
         Control.rs1 = Retiring.rs1
  PROVE  Machine!Calculate(Retiring, op, Operand(u, Retiring.rs1), Operand(u, Retiring.rs2))
           = BuiltMachine!Calculate(Retiring, op, Operand(u, Retiring.rs1),
                                    Operand(u, Retiring.rs2))
<1>1. /\ rs1[current_warp][u] = Operand(u, Control.rs1)
      /\ rs2[current_warp][u] = Operand(u, Control.rs2)
  BY DEF Retires, PipelineInvariant, UnitsHaveTheOperands
<1>2. alu_out[u] = Machine!Meaning(op, rs1[current_warp][u],
                     IF op \in ImmediateOps THEN Control.imm ELSE rs2[current_warp][u])
  BY DEF ArithmeticIsSigned, Retires
<1>3. alu_out[u] = Machine!Meaning(op, Operand(u, Retiring.rs1),
                     IF op \in ImmediateOps THEN Retiring.imm ELSE Operand(u, Retiring.rs2))
  BY <1>1, <1>2
<1>4. Machine!ImmediateOps = ImmediateOps
  BY DEF Machine!ImmediateOps, ImmediateOps
<1>5. Machine!Calculate(Retiring, op, Operand(u, Retiring.rs1), Operand(u, Retiring.rs2))
        = Machine!Meaning(op, Operand(u, Retiring.rs1),
            IF op \in ImmediateOps THEN Retiring.imm ELSE Operand(u, Retiring.rs2))
  BY <1>4 DEF Machine!Calculate
<1> QED
  BY <1>3, <1>5, RetiringCalculates

\* Arithmetic and logic.
LEMMA ComputeMeans ==
  ASSUME Retires, ArithmeticIsSigned, Retiring.op \in ImmediateOps \union RegisterOps
  PROVE  Machine!Compute(current_warp)
<1> DEFINE i == BuiltMachine!Instruction(current_warp)
           calculated(t) == BuiltMachine!Calculate(i, i.op,
                                BuiltMachine!Vector(current_warp, t, i.rs1),
                                BuiltMachine!Vector(current_warp, t, i.rs2))
           meant(t) == Machine!Calculate(i, i.op,
                           BuiltMachine!Vector(current_warp, t, i.rs1),
                           BuiltMachine!Vector(current_warp, t, i.rs2))
<1>1. /\ i = Retiring /\ i.rs1 \in Registers /\ i.rs2 \in Registers /\ i.scalar \in BOOLEAN
      /\ \A t \in Threads, r \in Registers :
            BuiltMachine!Vector(current_warp, t, r) = Operand(t, r)
      /\ \A r : s[current_warp][r] = Operand(ScalarUnit, r)
      /\ \A t : t \in BuiltMachine!Active(current_warp) <=>
                  t \in Threads /\ Bit(ExecutionMask, t)
  BY MachineReads DEF Retires, Instructions
<1>2. BuiltMachine!Compute(current_warp)
  BY ComputeRetires
<1>3. ASSUME NEW u \in Units, Enabled(u)
      PROVE  Machine!Calculate(Retiring, Retiring.op, Operand(u, Retiring.rs1),
                               Operand(u, Retiring.rs2))
               = BuiltMachine!Calculate(Retiring, Retiring.op, Operand(u, Retiring.rs1),
                                        Operand(u, Retiring.rs2))
  BY <1>3, ComputeControl, RetiringMeans
<1>4. CASE i.scalar
  <2>1. ScalarUnit \in Units /\ Enabled(ScalarUnit)
    BY <1>1, <1>4, ComputeControl, CoreConstants DEF Enabled
  <2>2. Machine!Calculate(i, i.op, s[current_warp][i.rs1], s[current_warp][i.rs2])
          = BuiltMachine!Calculate(i, i.op, s[current_warp][i.rs1], s[current_warp][i.rs2])
    <3> HIDE DEF i
    <3> QED
      BY <1>1, <1>3, <2>1
  <2> QED
    BY <1>2, <1>4, <2>2, SameMachine, SameOperations
       DEF Machine!Compute, BuiltMachine!Compute
<1>5. CASE ~i.scalar
  <2>1. ASSUME NEW t \in BuiltMachine!Active(current_warp)
        PROVE  calculated(t) = meant(t)
    <3>1. t \in Threads /\ t \in Units /\ Enabled(t)
      BY <1>1, <1>5, ComputeControl, CoreAssumption, IsaAssumption
         DEF Enabled, Threads, ScalarUnit, Units
    <3> HIDE DEF i
    <3> QED
      BY <1>1, <1>3, <3>1
  <2>2. BuiltMachine!WriteVector(current_warp, [t \in BuiltMachine!Threads |-> calculated(t)])
    BY <1>2, <1>5 DEF BuiltMachine!Compute
  <2>3. BuiltMachine!WriteVector(current_warp, [t \in BuiltMachine!Threads |-> meant(t)])
    <3>1. \A t \in BuiltMachine!Active(current_warp) : t \in BuiltMachine!Threads
      BY DEF BuiltMachine!Active
    <3> HIDE DEF i, calculated, meant
    <3> QED
      BY <2>1, <2>2, <3>1, WriteIsOfActiveThreads
  <2> QED
    BY <1>2, <1>5, <2>3, SameMachine, SameOperations DEF Machine!Compute, BuiltMachine!Compute
<1> QED
  BY <1>1, <1>4, <1>5

\* Comparisons.
LEMMA CompareMeans ==
  ASSUME Retires, ArithmeticIsSigned, Retiring.op \in VectorScalarOps
  PROVE  Machine!Compare(current_warp)
<1> DEFINE i == BuiltMachine!Instruction(current_warp)
           op == IF i.op = "SX_SLT" THEN "SLT" ELSE "SLTI"
           A == BuiltMachine!Active(current_warp)
           calculated(t) == BuiltMachine!Calculate(i, op,
                                BuiltMachine!Vector(current_warp, t, i.rs1),
                                BuiltMachine!Vector(current_warp, t, i.rs2))
           meant(t) == Machine!Calculate(i, op,
                           BuiltMachine!Vector(current_warp, t, i.rs1),
                           BuiltMachine!Vector(current_warp, t, i.rs2))
<1>1. /\ i = Retiring /\ i.rs1 \in Registers /\ i.rs2 \in Registers
      /\ \A t \in Threads, r \in Registers :
            BuiltMachine!Vector(current_warp, t, r) = Operand(t, r)
      /\ \A t : t \in A <=> t \in Threads /\ Bit(ExecutionMask, t)
  BY MachineReads DEF Retires, Instructions
<1>2. BuiltMachine!Compare(current_warp)
  BY CompareRetires
<1>3. \A t \in A : (calculated(t) = 1) <=> (meant(t) = 1)
  <2> SUFFICES ASSUME NEW t \in A PROVE calculated(t) = meant(t)
    OBVIOUS
  <2>1. op \notin JumpOps
    BY DEF JumpOps
  <2> HIDE DEF op
  <2>2. /\ ~Control.scalar /\ Control.alu = op /\ Control.rs1 = Retiring.rs1
        /\ IF op \in ImmediateOps THEN Control.imm = Retiring.imm
                                  ELSE Control.rs2 = Retiring.rs2
    BY <1>1, CompareControl DEF op
  <2>3. t \in Threads /\ t \in Units /\ Enabled(t)
    BY <1>1, <2>2, CoreAssumption, IsaAssumption DEF Enabled, Threads, ScalarUnit, Units
  <2>4. Machine!Calculate(Retiring, op, Operand(t, Retiring.rs1), Operand(t, Retiring.rs2))
          = BuiltMachine!Calculate(Retiring, op, Operand(t, Retiring.rs1),
                                   Operand(t, Retiring.rs2))
    BY <2>1, <2>2, <2>3, RetiringMeans
  <2> HIDE DEF i
  <2> QED
    BY <1>1, <2>3, <2>4
<1>4. PICK unspecified \in SUBSET (BuiltMachine!Threads \ A) :
        BuiltMachine!WriteScalar(current_warp,
            BuiltMachine!WordOf({t \in A : calculated(t) = 1} \union unspecified))
  BY <1>2 DEF BuiltMachine!Compare
<1>5. Machine!WriteScalar(current_warp,
          Machine!WordOf({t \in A : meant(t) = 1} \union unspecified))
  <2> HIDE DEF calculated, meant, A
  <2>1. {t \in A : calculated(t) = 1} = {t \in A : meant(t) = 1}
    BY <1>3
  <2> QED
    BY <1>4, <2>1, SameMachine
<1> QED
  BY <1>2, <1>5, SameMachine, SameOperations DEF Machine!Compare, BuiltMachine!Compare

\* Branches.
LEMMA BranchMeans ==
  ASSUME Retires, ArithmeticIsSigned, Retiring.op \in BranchOps
  PROVE  Machine!Branch(current_warp)
<1> DEFINE i == BuiltMachine!Instruction(current_warp)
<1>1. i = Retiring /\ \A r : s[current_warp][r] = Operand(ScalarUnit, r)
  BY MachineReads DEF Retires
<1>2. BuiltMachine!Branch(current_warp)
  BY BranchRetires
<1>3. ScalarUnit \in Units /\ Enabled(ScalarUnit)
  BY BranchControl, CoreConstants DEF Enabled
<1>4. Machine!Calculate(i, i.op, s[current_warp][i.rs1], s[current_warp][i.rs2])
        = BuiltMachine!Calculate(i, i.op, s[current_warp][i.rs1], s[current_warp][i.rs2])
  BY <1>1, <1>3, BranchControl, RetiringMeans
<1> QED
  BY <1>2, <1>4, SameMachine, SameOperations DEF Machine!Branch, BuiltMachine!Branch

\* The instructions without arithmetic are the same on both machines.
LEMMA RetiresAsMeant ==
  ASSUME Retires, ArithmeticIsSigned
  PROVE  Machine!Step(current_warp)
<1> USE SameMachine, SameOperations
<1>1. Retiring.op \in Ops
  BY MachineReads DEF Retires, Instructions
<1>2. Retiring.op = "LUI" => Machine!LoadUpper(current_warp)
  BY LoadUpperRetires DEF Machine!LoadUpper, BuiltMachine!LoadUpper
<1>3. Retiring.op = "AUIPC" => Machine!AddUpper(current_warp)
  BY AddUpperRetires DEF Machine!AddUpper, BuiltMachine!AddUpper
<1>4. Retiring.op = "LOAD" => Machine!Load(current_warp)
  BY LoadRetires DEF Machine!Load, BuiltMachine!Load
<1>5. Retiring.op = "STORE" => Machine!Store(current_warp)
  BY StoreRetires DEF Machine!Store, BuiltMachine!Store
<1>6. Retiring.op \in JumpOps => Machine!Jump(current_warp)
  BY JumpRetires DEF Machine!Jump, BuiltMachine!Jump
<1>7. Retiring.op = "NOOP" => Machine!NoOperation(current_warp)
  BY NoOperationRetires DEF Machine!NoOperation, BuiltMachine!NoOperation
<1>8. Retiring.op = "HALT" => Machine!Halt(current_warp)
  BY HaltRetires DEF Machine!Halt, BuiltMachine!Halt
<1>9. /\ Retiring.op \in ImmediateOps \union RegisterOps => Machine!Compute(current_warp)
      /\ Retiring.op \in VectorScalarOps => Machine!Compare(current_warp)
      /\ Retiring.op \in BranchOps => Machine!Branch(current_warp)
  BY ComputeMeans, CompareMeans, BranchMeans
<1>10. program' = program /\ block_id' = block_id
  BY DEF Retires
<1> QED
  BY <1>1, <1>2, <1>3, <1>4, <1>5, <1>6, <1>7, <1>8, <1>9, <1>10
     DEF Machine!Step, Ops, TwoFormOps, ScalarOps

\* The two machines start the same and are given blocks the same way.
LEMMA SameBlocks ==
  /\ BuiltMachine!Init => Machine!Init
  /\ BuiltMachine!NextBlock => Machine!NextBlock
<1>1. /\ Machine!ClearVectors = BuiltMachine!ClearVectors
      /\ Machine!ClearScalars = BuiltMachine!ClearScalars
  BY DEF Machine!ClearVectors, BuiltMachine!ClearVectors, Machine!ClearScalars,
     BuiltMachine!ClearScalars, Machine!Warps, BuiltMachine!Warps, Machine!Threads,
     BuiltMachine!Threads, Machine!GeneralRegisters, BuiltMachine!GeneralRegisters,
     Machine!Registers, BuiltMachine!Registers, Machine!AllOnes, BuiltMachine!AllOnes
<1> QED
  BY <1>1, SameMachine DEF Machine!Init, BuiltMachine!Init, Machine!NextBlock,
     BuiltMachine!NextBlock

\* Unsigned arithmetic is the only way in which the core departs from the machine that
\* README.md promises: as long as every result an instruction retires with is the signed
\* one, the core runs every program as the signed machine does.
THEOREM SignedProgramsRunAsMeant ==
  Spec /\ []ArithmeticIsSigned => ImplementsSimtMachine
<1>1. Init => Machine!Init
  BY InitMaps, SameBlocks
<1>2. CoreInvariant /\ PipelineInvariant /\ ArithmeticIsSigned /\ [Next]_vars
        => [Machine!Next]_Machine!vars
  <2> SUFFICES ASSUME CoreInvariant, PipelineInvariant, ArithmeticIsSigned, [Next]_vars
               PROVE  Machine!Next \/ UNCHANGED Machine!vars
    OBVIOUS
  <2>1. current_warp \in Machine!Warps
    BY SameWords, SameMachine DEF CoreInvariant, TypeOK
  <2>2. UNCHANGED BuiltMachine!vars => UNCHANGED Machine!vars
    BY DEF BuiltMachine!vars, Machine!vars
  <2>3. ASSUME NEW ready \in SUBSET Fetching, NEW served \in SUBSET Waiting,
               Run(ready, served)
        PROVE  Machine!Next \/ UNCHANGED Machine!vars
    BY <2>1, <2>2, <2>3, RunRetires, RetiresAsMeant DEF Machine!Next
  <2>4. CASE Start
    BY <2>2, <2>4, StartMaps
  <2>5. CASE Reset
    BY <2>5, ResetMaps, SameBlocks DEF Machine!Next
  <2>6. CASE UNCHANGED vars
    BY <2>6 DEF vars, inputVars, warpVars, fetchVars, registerVars, unitVars,
       Machine!vars, HaltedWarps, ProgramCounters, GeneralVectors
  <2> QED
    BY <2>3, <2>4, <2>5, <2>6 DEF Next
<1> QED
  BY <1>1, <1>2, CoreCorrect, PipelineHoldsTheInstruction, PTL
     DEF Spec, ImplementsSimtMachine, Machine!Spec

\* Numbers that differ by multiples of 2^WIDTH are the same word.
LEMMA SignedIsTheWord ==
  ASSUME NEW a \in Words, NEW b \in Words
  PROVE  /\ Machine!Signed(a) \in Int
         /\ Machine!Signed(a) \in {a, a - 2^WIDTH}
         /\ Wrap(Machine!Signed(a) + Machine!Signed(b)) = Wrap(a + b)
         /\ Wrap(Machine!Signed(a) - Machine!Signed(b)) = Wrap(a + 2^WIDTH - b)
<1> DEFINE M == 2^WIDTH
<1>1. M \in Nat \ {0} /\ a \in Int /\ b \in Int /\ Words = 0 .. M - 1
  BY WordRange, PowersAssumption
<1>2. Machine!Signed(a) \in {a, a - M} /\ Machine!Signed(b) \in {b, b - M}
  BY DEF Machine!Signed
<1> DEFINE c == Machine!Signed(a)
           d == Machine!Signed(b)
<1>3. c \in {a, a - M} /\ d \in {b, b - M}
  BY <1>2
<1> HIDE DEF M, c, d
<1>4. c \in Int /\ d \in Int
  BY <1>1, <1>3
<1>5. (c + d) % M = (a + b) % M
  <2>1. a + b \in Int /\ (a + b) - M \in Int
    BY <1>1
  <2>2. ((a + b) - M) % M = (a + b) % M /\ (((a + b) - M) - M) % M = ((a + b) - M) % M
    BY <1>1, <2>1, RemainderOfShift
  <2>3. c + d \in {a + b, (a + b) - M, ((a + b) - M) - M}
    BY <1>1, <1>3
  <2> QED
    BY <2>2, <2>3
<1>6. (c - d) % M = (a + M - b) % M
  <2>1. a + M - b \in Int /\ (a + M - b) - M \in Int
    BY <1>1
  <2>2. /\ ((a + M - b) - M) % M = (a + M - b) % M
        /\ (((a + M - b) - M) - M) % M = ((a + M - b) - M) % M
    BY <1>1, <2>1, RemainderOfShift
  <2>3. c - d \in {a + M - b, (a + M - b) - M, ((a + M - b) - M) - M}
    BY <1>1, <1>3
  <2> QED
    BY <2>2, <2>3
<1> QED
  BY <1>2, <1>4, <1>5, <1>6 DEF Wrap, M, c, d

\* What alu.sv computes is the signed result, but for comparisons of numbers of
\* different signs, shifts by WIDTH or more, and arithmetic shifts of negative numbers.
LEMMA AluIsSigned ==
  ASSUME NEW op \in AluOps \ JumpOps, NEW p \in Words, NEW a \in Words, NEW b \in Words,
         NEW m \in Words, NEW c, c = IF op \in ImmediateOps THEN m ELSE b,
         op \in {"SLT", "SLTI", "BLT", "BGE"} => (Bit(a, WIDTH - 1) <=> Bit(c, WIDTH - 1)),
         op \in {"SLL", "SLLI", "SRL", "SRLI", "SRA", "SRAI"} => c < WIDTH,
         op \in {"SRA", "SRAI"} => ~Bit(a, WIDTH - 1)
  PROVE  AluOut(op, p, a, b, m) = Machine!Meaning(op, a, c)
<1>1. c \in Words /\ a \in Nat /\ c \in Nat /\ 2^WIDTH \in Nat \ {0} /\ WIDTH \in Nat \ {0}
  BY WordRange, PowersAssumption, IsaAssumption
<1>2. \A n, i : Machine!Bit(n, i) <=> Bit(n, i)
  BY DEF Machine!Bit, Bit
<1>3. Machine!Positions = Positions /\ \A n : Machine!Wrap(n) = Wrap(n)
  BY DEF Machine!Positions, Positions, Machine!Wrap, Wrap
<1>4. \A q : Machine!Truth(q) = Truth(q)
  BY DEF Machine!Truth, Truth
<1>5. \A z : Machine!WordOf(z) = WordOf(z)
  BY <1>2, <1>3  DEF Machine!WordOf, WordOf, Machine!Words, Words
<1> USE <1>1, <1>2, <1>3, <1>4, <1>5
<1> DEFINE out == AluOut(op, p, a, b, m)
           meant == Machine!Meaning(op, a, c)
<1>6. CASE op \in {"ADDI", "ADD", "SUB"}
  <2>1. op = "SUB" => c = b
    BY DEF ImmediateOps
  <2>2. /\ Wrap(Machine!Signed(a) + Machine!Signed(c)) = Wrap(a + c)
        /\ Wrap(Machine!Signed(a) - Machine!Signed(c)) = Wrap(a + 2^WIDTH - c)
    BY SignedIsTheWord
  <2>3. CASE op = "SUB"
    BY <2>1, <2>2, <2>3 DEF AluOut, Machine!Meaning
  <2>4. CASE op \in {"ADDI", "ADD"}
    BY <2>2, <2>4 DEF AluOut, Machine!Meaning
  <2> QED
    BY <1>6, <2>3, <2>4
<1>7. CASE op \in {"SLTI", "SLT", "BLT", "BGE"}
  <2>1. Bit(a, WIDTH - 1) <=> Bit(c, WIDTH - 1)
    BY <1>7
  <2>2. (Machine!Signed(a) < Machine!Signed(c)) <=> a < c
    BY <2>1 DEF Machine!Signed
  <2>3. (Machine!Signed(a) >= Machine!Signed(c)) <=> a >= c
    BY <2>1 DEF Machine!Signed
  <2>4. CASE op = "BGE"
    BY <2>3, <2>4 DEF AluOut, Machine!Meaning, ImmediateOps
  <2>5. CASE op \in {"SLTI", "SLT", "BLT"}
    BY <2>2, <2>5 DEF AluOut, Machine!Meaning
  <2> QED
    BY <1>7, <2>4, <2>5
<1>8. CASE op \in {"BEQ", "BNE"}
  BY <1>8 DEF AluOut, Machine!Meaning, ImmediateOps
<1>9. CASE op \in {"XORI", "XOR", "ORI", "OR", "ANDI", "AND"}
  <2>1. \A n : Machine!Ones(n) = {i \in Positions : Bit(n, i)}
    BY DEF Machine!Ones
  <2>2. (Machine!Ones(a) \union Machine!Ones(c)) \ (Machine!Ones(a) \intersect Machine!Ones(c))
          = {i \in Positions : Bit(a, i) # Bit(c, i)}
    <3>1. \A i, n : i \in Machine!Ones(n) <=> i \in Positions /\ Bit(n, i)
      BY <2>1
    <3>2. \A i : Bit(a, i) \in BOOLEAN /\ Bit(c, i) \in BOOLEAN
      BY DEF Bit
    <3> HIDE <1>1, <1>2, <1>3, <1>4, <1>5
    <3> QED
      BY <3>1, <3>2, Zenon
  <2>3. Machine!Ones(a) \union Machine!Ones(c) = {i \in Positions : Bit(a, i) \/ Bit(c, i)}
    BY <2>1
  <2>4. Machine!Ones(a) \intersect Machine!Ones(c) = {i \in Positions : Bit(a, i) /\ Bit(c, i)}
    BY <2>1
  <2>5. CASE op \in {"XORI", "XOR"}
    <3>1. AluOut(op, p, a, b, m) = WordOf({i \in Positions : Bit(a, i) # Bit(c, i)})
      BY <2>5 DEF AluOut
    <3>2. Machine!Meaning(op, a, c) =
            Machine!WordOf((Machine!Ones(a) \union Machine!Ones(c))
                             \ (Machine!Ones(a) \intersect Machine!Ones(c)))
      BY <2>5 DEF Machine!Meaning
    <3> QED
      BY <2>2, <3>1, <3>2
  <2>6. CASE op \in {"ORI", "OR"}
    BY <2>3, <2>6 DEF AluOut, Machine!Meaning
  <2>7. CASE op \in {"ANDI", "AND"}
    BY <2>4, <2>7 DEF AluOut, Machine!Meaning
  <2> QED
    BY <1>9, <2>5, <2>6, <2>7
<1>10. CASE op \in {"SLLI", "SLL", "SRLI", "SRL", "SRAI", "SRA"}
  <2>1. c < WIDTH /\ c % WIDTH = c
    BY <1>10
  <2>2. CASE op \in {"SLLI", "SLL"}
    BY <2>1, <2>2 DEF AluOut, Machine!Meaning
  <2>3. CASE op \in {"SRLI", "SRL"}
    BY <2>1, <2>3 DEF AluOut, Machine!Meaning
  <2>4. CASE op \in {"SRAI", "SRA"}
    <3>1. Machine!Signed(a) = a
      BY <2>4 DEF Machine!Signed
    <3>2. 2^c \in Nat \ {0}
      BY <2>1, Powers, PowersAssumption
    <3>3. a \div 2^c \in Nat /\ a \div 2^c <= a
      BY <3>2, Division
    <3>4. Wrap(a \div 2^c) = a \div 2^c
      <4>1. a \div 2^c \in 0 .. 2^WIDTH - 1
        BY <3>3, WordRange, PowersAssumption
      <4> QED
        BY <4>1, SmallRemainder DEF Wrap
    <3>5. AluOut(op, p, a, b, m) = a \div 2^c
      BY <2>1, <2>4 DEF AluOut
    <3>6. Machine!Meaning(op, a, c) = Machine!Wrap(Machine!Signed(a) \div 2^(c % WIDTH))
      BY <2>4 DEF Machine!Meaning
    <3> QED
      BY <2>1, <3>1, <3>4, <3>5, <3>6
  <2> QED
    BY <1>10, <2>2, <2>3, <2>4
<1> QED
  BY <1>6, <1>7, <1>8, <1>9, <1>10 DEF AluOps, ImmediateOps, RegisterOps, BranchOps, JumpOps

\* Instructions that yield the same whichever way a word is read as a number: all but
\* comparisons by order, arithmetic shifts, and shifts by WIDTH or more.
SignFree(i) ==
    /\ i.op \notin {"SLTI", "SLT", "SX_SLTI", "SX_SLT", "BLT", "BGE", "SLL", "SRL", "SRA", "SRAI"}
    /\ i.op \in {"SLLI", "SRLI"} => i.imm < WIDTH

\* Such an instruction retires with the signed result.
LEMMA SignFreeIsSigned ==
  ASSUME CoreInvariant, PipelineInvariant, \A p \in Programs, a \in Words : SignFree(p[a])
  PROVE  ArithmeticIsSigned
<1> SUFFICES ASSUME Stage = "WARP_UPDATE", Control.alu \notin JumpOps,
                    NEW u \in Units, Enabled(u)
             PROVE  alu_out[u] = Machine!Meaning(Control.alu, rs1[current_warp][u],
                      IF Control.alu \in ImmediateOps THEN Control.imm
                                                      ELSE rs2[current_warp][u])
  BY DEF ArithmeticIsSigned
<1> DEFINE op == Control.alu
           a == rs1[current_warp][u]
           b == rs2[current_warp][u]
           c == IF op \in ImmediateOps THEN Control.imm ELSE b
<1>1. /\ current_warp \in Warps /\ pc[current_warp] \in Words /\ program \in Programs
      /\ Retiring \in Instructions /\ Control = Decode(Retiring)
      /\ op \in AluOps \ JumpOps /\ a \in Words /\ b \in Words /\ Control.imm \in Words
  <2>1. /\ current_warp \in Warps /\ pc[current_warp] \in Words /\ program \in Programs
        /\ program \in [Words -> Instructions]
        /\ warp_state[current_warp] = "WARP_UPDATE"
    BY CoreConstants DEF CoreInvariant, TypeOK, Stage
  <2>2. Retiring \in Instructions
    BY <2>1 DEF Retiring
  <2>3. Control = Decode(Retiring)
    BY <2>1 DEF CoreInvariant, InstructionIsCurrent, InPipeline, Control, Retiring
  <2>4. op \in AluOps /\ Control.imm \in Words
    BY ControlSignals DEF CoreInvariant
  <2>5. a \in Words /\ b \in Words
    BY <2>1 DEF CoreInvariant, TypeOK
  <2> QED
    BY <2>1, <2>2, <2>3, <2>4, <2>5
<1>2. SignFree(Retiring)
  BY <1>1 DEF Retiring
<1>3. /\ op \notin {"SLTI", "SLT", "BLT", "BGE", "SLL", "SRL", "SRA", "SRAI"}
      /\ op \in {"SLLI", "SRLI"} => op \in ImmediateOps /\ Control.imm < WIDTH
  <2>1. op \in {Retiring.op, "ADD", "ADDI"}
    BY <1>1, <1>2 DEF Decode, SignFree
  <2>2. op \in {"SLLI", "SRLI"} => op = Retiring.op /\ Control.imm = Retiring.imm
    BY <1>1, <2>1 DEF Decode, RegisterOps
  <2> QED
    BY <1>2, <2>1, <2>2 DEF SignFree, ImmediateOps
<1>4. alu_out[u] = AluOut(op, pc[current_warp], a, b, Control.imm)
  BY DEF PipelineInvariant, UnitsHaveTheOperands
<1> HIDE DEF op, a, b
<1>5. AluOut(op, pc[current_warp], a, b, Control.imm) = Machine!Meaning(op, a, c)
  BY <1>1, <1>3, AluIsSigned
<1> QED
  BY <1>4, <1>5 DEF op, a, b

\* A core runs the programs made of such instructions as the signed machine does,
\* unconditionally.
THEOREM SignFreeProgramsRunAsMeant ==
  (\A p \in Programs, a \in Words : SignFree(p[a])) => (Spec => ImplementsSimtMachine)
<1> SUFFICES ASSUME \A p \in Programs, a \in Words : SignFree(p[a])
             PROVE  Spec => ImplementsSimtMachine
  OBVIOUS
<1>1. CoreInvariant /\ PipelineInvariant => ArithmeticIsSigned
  BY SignFreeIsSigned
<1> QED
  BY <1>1, CoreCorrect, PipelineHoldsTheInstruction, SignedProgramsRunAsMeant, PTL
=============================================================================
