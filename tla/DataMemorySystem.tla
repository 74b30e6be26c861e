-------------------------- MODULE DataMemorySystem --------------------------
(***************************************************************************)
(* The data side of the GPU: the load-store units of all cores             *)
(* (src/src/lsu.sv), the registers gpu.sv puts between them and the data   *)
(* memory controller (src/src/gpu.sv 200-211), the controller, and the     *)
(* memory (src/sim/simlib/sim.hpp DataMemory).  Of each core, only what    *)
(* its LSUs see is kept: the state of the warp that owns them and what its *)
(* instruction is (src/src/compute_core.sv 208-298).                       *)
(* One action is one rising clock edge.  The GPU may be reset at any edge. *)
(* The reset the dispatcher gives a core after a block is left out: the    *)
(* units are idle then (QuietWhenDone in ComputeCore.tla).                 *)
(***************************************************************************)
EXTENDS MemController

CONSTANTS
    NUM_CORES,
    LSUS_PER_CORE,      \* one per thread, and the scalar one, which comes last
    RESET_EDGES         \* the fewest edges for which a reset is held

ASSUME SystemAssumption ==
    /\ NUM_CORES \in Nat \ {0}
    /\ LSUS_PER_CORE \in Nat \ {0, 1}
    /\ NUM_CONSUMERS = NUM_CORES * LSUS_PER_CORE
    /\ RESET_EDGES \in Nat \ {0}
    /\ 0 \in Values

VARIABLES
    warp_state,         \* of each core's current warp
    instruction,        \* what that warp's instruction makes the LSUs do
    lsu_state, lsu_out,
    lsu_read, lsu_write,        \* the LSUs' own request ports
    lsu_answer, lsu_ack,        \* ready lines as the LSUs see them
    memory,
    reset_held,         \* edges since reset was asserted, up to RESET_EDGES
    core_reset          \* of all cores: a register of the dispatcher

coreVars == <<warp_state, instruction>>
lsuVars == <<lsu_state, lsu_out, lsu_read, lsu_write>>
vars == <<coreVars, lsuVars, lsu_answer, lsu_ack, memory, reset_held, core_reset,
          consumerVars, controllerVars>>

Cores == 0 .. NUM_CORES - 1
Lsus == Consumers
CoreOf(l) == l \div LSUS_PER_CORE
UnitOf(l) == l % LSUS_PER_CORE
LsusOf(k) == {l \in Lsus : CoreOf(l) = k}
Threads == 0 .. LSUS_PER_CORE - 2
ScalarUnit == LSUS_PER_CORE - 1

\* OTHER: the warp is IDLE, FETCHing, DECODEing or DONE, or its instruction is
\* not one that enables an LSU; the LSUs have nothing to do.
WarpStates == {"OTHER", "REQUEST", "WAIT", "EXECUTE", "UPDATE"}

LsuStates == {"LSU_IDLE", "LSU_REQUESTING", "LSU_WAITING", "LSU_DONE"}

\* A scalar instruction enables the scalar LSU, a vector instruction the LSUs
\* of the threads in the execution mask (compute_core.sv 111, 412).
Instructions ==
    [op : {"load", "store"}, enabled : {{ScalarUnit}} \union (SUBSET Threads \ {{}})]

NoOp == [op |-> "none", enabled |-> {}]

Init ==
    /\ warp_state = [k \in Cores |-> "OTHER"]
    /\ instruction = [k \in Cores |-> NoOp]
    /\ lsu_state = [l \in Lsus |-> "LSU_IDLE"]
    /\ lsu_out = [l \in Lsus |-> None]
    /\ lsu_read = [l \in Lsus |-> None]
    /\ lsu_write = [l \in Lsus |-> None]
    /\ lsu_answer = [l \in Lsus |-> None]
    /\ lsu_ack = [l \in Lsus |-> FALSE]
    /\ consumer_read = [l \in Lsus |-> None]
    /\ consumer_write = [l \in Lsus |-> None]
    /\ memory = [a \in Addresses |-> 0]
    /\ reset_held = 0 /\ core_reset = FALSE
    /\ ControllerInit

-----------------------------------------------------------------------------
(* The cores' side.                                                        *)

\* A WAIT stage that does not look at units still in LSU_REQUESTING.
LsusIdle_SkipsRequesting(k) == \A l \in LsusOf(k) : lsu_state[l] # "LSU_WAITING"

\* No unit of the core is waiting for memory (compute_core.sv 224-241).
LsusIdle(k) ==
    \A l \in LsusOf(k) : lsu_state[l] \notin {"LSU_REQUESTING", "LSU_WAITING"}

\* The cores that may begin an instruction.  A core comes back to OTHER (the
\* DECODE of the same or of another warp) after UPDATE.
Deciding == {k \in Cores : warp_state[k] = "OTHER"}

CoresClock(begins) ==
    /\ warp_state' = [k \in Cores |->
          CASE warp_state[k] = "OTHER"   -> IF begins[k] = NoOp THEN "OTHER" ELSE "REQUEST"
            [] warp_state[k] = "REQUEST" -> "WAIT"
            [] warp_state[k] = "WAIT"    -> IF LsusIdle(k) THEN "EXECUTE" ELSE "WAIT"
            [] warp_state[k] = "EXECUTE" -> "UPDATE"
            [] warp_state[k] = "UPDATE"  -> "OTHER"]
    /\ instruction' = [k \in Cores |->
          CASE warp_state[k] = "OTHER"  -> begins[k]
            [] warp_state[k] = "UPDATE" -> NoOp
            [] OTHER -> instruction[k]]

CoresReset ==
    /\ warp_state' = [k \in Cores |-> "OTHER"]
    /\ instruction' = [k \in Cores |-> NoOp]

-----------------------------------------------------------------------------
(* The load-store units (lsu.sv 52-114).                                   *)

Enabled(l, op) ==
    /\ instruction[CoreOf(l)].op = op
    /\ UnitOf(l) \in instruction[CoreOf(l)].enabled

Active(l) == Enabled(l, "load") \/ Enabled(l, "store")

\* The answer of memory, as seen in LSU_WAITING.
Answered(l) ==
    \/ Enabled(l, "load") /\ lsu_answer[l] # None
    \/ Enabled(l, "store") /\ lsu_ack[l]

\* A unit that goes back to LSU_IDLE and asks again while its warp waits.
LsuStateAfter_AsksTwice(l) ==
    CASE Active(l) /\ lsu_state[l] = "LSU_IDLE" /\ warp_state[CoreOf(l)] = "REQUEST"
            -> "LSU_REQUESTING"
      [] Active(l) /\ lsu_state[l] = "LSU_REQUESTING" -> "LSU_WAITING"
      [] Active(l) /\ lsu_state[l] = "LSU_WAITING" /\ Answered(l) -> "LSU_REQUESTING"
      [] OTHER -> lsu_state[l]

LsuStateAfter(l) ==
    CASE Active(l) /\ lsu_state[l] = "LSU_IDLE" /\ warp_state[CoreOf(l)] = "REQUEST"
            -> "LSU_REQUESTING"
      [] Active(l) /\ lsu_state[l] = "LSU_REQUESTING" -> "LSU_WAITING"
      [] Active(l) /\ lsu_state[l] = "LSU_WAITING" /\ Answered(l) -> "LSU_DONE"
      [] Active(l) /\ lsu_state[l] = "LSU_DONE" /\ warp_state[CoreOf(l)] = "UPDATE"
            -> "LSU_IDLE"
      [] OTHER -> lsu_state[l]

\* The units that put a request on their port at this edge.
Requesting == {l \in Lsus : Active(l) /\ lsu_state[l] = "LSU_REQUESTING"}

\* The units that take their answer at this edge and lower their valid line.
Receiving == {l \in Lsus : Active(l) /\ lsu_state[l] = "LSU_WAITING" /\ Answered(l)}

\* "operands" are the address and data the registers hold.  lsu_out is only
\* read by the register files while the unit is in LSU_DONE; it is None
\* otherwise, though the hardware register keeps its old value.
LsusClock(operands) ==
    /\ lsu_state' = [l \in Lsus |-> LsuStateAfter(l)]
    /\ lsu_read' = [l \in Lsus |->
          IF l \in Requesting /\ Enabled(l, "load") THEN operands[l].addr
          ELSE IF l \in Receiving THEN None ELSE lsu_read[l]]
    /\ lsu_write' = [l \in Lsus |->
          IF l \in Requesting /\ Enabled(l, "store") THEN operands[l]
          ELSE IF l \in Receiving THEN None ELSE lsu_write[l]]
    /\ lsu_out' = [l \in Lsus |->
          IF l \in Receiving /\ Enabled(l, "load") THEN lsu_answer[l]
          ELSE IF LsuStateAfter(l) = "LSU_DONE" THEN lsu_out[l] ELSE None]

LsusReset ==
    /\ lsu_state' = [l \in Lsus |-> "LSU_IDLE"]
    /\ lsu_read' = [l \in Lsus |-> None]
    /\ lsu_write' = [l \in Lsus |-> None]
    /\ lsu_out' = [l \in Lsus |-> None]

\* The registers between the LSUs and the controller, one edge each way.
\* They have no reset.
PipelineClock ==
    /\ consumer_read' = lsu_read
    /\ consumer_write' = lsu_write
    /\ lsu_answer' = consumer_answer
    /\ lsu_ack' = consumer_ack

-----------------------------------------------------------------------------
(* The memory answers any of the requests it is given, when it likes;      *)
(* sim.hpp is the memory that answers all of them before the next edge.    *)

Asked == {i \in Channels : mem_read[i] # None \/ mem_write[i] # None}

\* A write that is seen at every address.
Writers_AnyAddress(answered, a) == {i \in answered : mem_write[i] # None}

Writers(answered, a) == {i \in answered : mem_write[i] # None /\ mem_write[i].addr = a}

\* Writes are done first, in the order of the channels.
MemoryAfter(answered, a) ==
    LET w == Writers(answered, a)
    IN  IF w = {} THEN memory[a]
        ELSE mem_write[CHOOSE i \in w : \A k \in w : k <= i].data

\* The data on the channels that read, after the writes.
ReadData(answered) ==
    [i \in Channels |->
        IF mem_read[i] # None THEN MemoryAfter(answered, mem_read[i]) ELSE None]

\* What an edge does to memory, units and cores, and the registers between
\* them and the controller, whether the GPU's reset is asserted or not.
DatapathClock(answered) ==
    /\ memory' = [a \in Addresses |-> MemoryAfter(answered, a)]
    /\ PipelineClock
    /\ \/ core_reset /\ LsusReset /\ CoresReset
       \/ /\ ~core_reset
          /\ \E operands \in [Requesting -> Stores] : LsusClock(operands)
          /\ \E begins \in [Deciding -> Instructions \union {NoOp}] : CoresClock(begins)

\* A core that was reset stays so until the next launch.
Clock(answered) ==
    /\ reset_held \in {0, RESET_EDGES} /\ reset_held' = 0
    /\ core_reset' \in {FALSE, core_reset}
    /\ ControllerClock(answered, ReadData(answered))
    /\ DatapathClock(answered)

\* The controller is reset by this edge, the cores by the next.
Reset(answered) ==
    /\ reset_held' = IF reset_held = RESET_EDGES THEN RESET_EDGES ELSE reset_held + 1
    /\ core_reset' = TRUE
    /\ ControllerReset
    /\ DatapathClock(answered)

Next == \E answered \in SUBSET Asked : Clock(answered) \/ Reset(answered)

Spec == Init /\ [][Next]_vars

\* The clock runs, and memory eventually answers a channel that keeps asking.
\* Nobody has to reset the GPU.
Answers(i) == i \in Asked /\ \E answered \in SUBSET Asked : i \in answered /\ Clock(answered)

Fairness ==
    /\ WF_vars(\E answered \in SUBSET Asked : Clock(answered))
    /\ \A i \in Channels : WF_vars(Answers(i))

FairSpec == Spec /\ Fairness

-----------------------------------------------------------------------------
TypeOK ==
    /\ ControllerTypeOK
    /\ instruction \in [Cores -> Instructions \union {NoOp}]
    /\ warp_state \in [Cores -> WarpStates]
    /\ lsu_state \in [Lsus -> LsuStates]
    /\ lsu_out \in [Lsus -> Values \union {None}]
    /\ lsu_read \in [Lsus -> Addresses \union {None}]
    /\ lsu_write \in [Lsus -> Stores \union {None}]
    /\ lsu_answer \in [Lsus -> Values \union {None}]
    /\ lsu_ack \in [Lsus -> BOOLEAN]
    /\ memory \in [Addresses -> Values]
    /\ reset_held \in 0 .. RESET_EDGES /\ core_reset \in BOOLEAN

\* When a unit is about to ask, nothing of its previous request is left on the
\* way: no valid line still in the registers towards the controller, no ready
\* line in the registers back, no channel still relaying.  The four-phase
\* handshake through gpu.sv's registers takes longer than one edge to settle;
\* that the pipeline stages of compute_core.sv leave it the time is what keeps
\* a unit from taking an old answer for the new one; after a reset, that it is
\* held for three edges, until the registers, which have none, have emptied.
Settled(l) ==
    /\ consumer_read[l] = None /\ consumer_write[l] = None
    /\ consumer_answer[l] = None /\ ~consumer_ack[l]
    /\ lsu_answer[l] = None /\ ~lsu_ack[l]
    /\ l \notin channel_serving_consumer

HandshakeSettled == \A l \in Lsus : lsu_state[l] = "LSU_REQUESTING" => Settled(l)

\* compute_core.sv 238: "If no LSU is waiting for a response, move onto the
\* next stage": when the warp executes, every unit its memory instruction
\* enabled has its answer, and no other unit is in the middle of a request.
ExecuteAfterAnswers ==
    \A k \in Cores : warp_state[k] \in {"EXECUTE", "UPDATE"} =>
        \A l \in LsusOf(k) :
            lsu_state[l] = IF Active(l) THEN "LSU_DONE" ELSE "LSU_IDLE"

\* A unit is busy only for the instruction of its warp, and holds a valid line
\* up, or what it read, only in the state for it.
UnitFollows(l) ==
    LET warp == warp_state[CoreOf(l)]
    IN  /\ lsu_state[l] # "LSU_IDLE" => Active(l) /\ warp \in {"WAIT", "EXECUTE", "UPDATE"}
        /\ Active(l) /\ warp = "WAIT" => lsu_state[l] # "LSU_IDLE"
        /\ Active(l) /\ warp \in {"EXECUTE", "UPDATE"} => lsu_state[l] = "LSU_DONE"
        /\ lsu_read[l] # None <=> lsu_state[l] = "LSU_WAITING" /\ Enabled(l, "load")
        /\ lsu_write[l] # None <=> lsu_state[l] = "LSU_WAITING" /\ Enabled(l, "store")
        /\ lsu_out[l] # None => lsu_state[l] = "LSU_DONE"

\* An edge after the reset of the cores all of that is over.
UnitsFollowTheCore ==
    /\ \A k \in Cores : instruction[k] = NoOp <=> warp_state[k] = "OTHER"
    /\ \A l \in Lsus : UnitFollows(l)
    /\ reset_held # 0 => core_reset
    /\ core_reset /\ reset_held # 1 =>
          /\ \A k \in Cores : warp_state[k] = "OTHER"
          /\ \A l \in Lsus : lsu_state[l] = "LSU_IDLE"

\* Where the request of a unit is.  While the unit waits it passes the
\* registers, the channel, and the registers back; when the unit is done the
\* valid line falls within one edge and the ready line within one more, in
\* which time the warp comes no further than WAIT and EXECUTE.
RequestOnItsWay(l) ==
    CASE lsu_state[l] \in {"LSU_IDLE", "LSU_REQUESTING"} -> Settled(l)
      [] lsu_state[l] = "LSU_WAITING" ->
            /\ \/ /\ consumer_read[l] = None /\ consumer_write[l] = None
                  /\ l \notin channel_serving_consumer
               \/ consumer_read[l] = lsu_read[l] /\ consumer_write[l] = lsu_write[l]
            /\ lsu_answer[l] \in {None, consumer_answer[l]}
            /\ lsu_ack[l] => consumer_ack[l]
      [] lsu_state[l] = "LSU_DONE" ->
            /\ consumer_read[l] # None \/ consumer_write[l] # None =>
                  l \in channel_serving_consumer /\ warp_state[CoreOf(l)] = "WAIT"
            /\ l \in channel_serving_consumer =>
                  warp_state[CoreOf(l)] \in {"WAIT", "EXECUTE"}

\* A channel carries the request its consumer is waiting for, or relays the
\* answer to it.
ChannelHasTheRequest(i) ==
    LET l == current_consumer[i]
        unanswered == consumer_answer[l] = None /\ ~consumer_ack[l]
    IN  /\ controller_state[i] = "READ_WAITING" =>
              lsu_state[l] = "LSU_WAITING" /\ mem_read[i] = lsu_read[l] /\ unanswered
        /\ controller_state[i] = "WRITE_WAITING" =>
              lsu_state[l] = "LSU_WAITING" /\ mem_write[i] = lsu_write[l] /\ unanswered
        /\ controller_state[i] = "READ_RELAYING" =>
              /\ lsu_state[l] = "LSU_DONE" \/ lsu_read[l] # None
              /\ consumer_answer[l] # None /\ ~consumer_ack[l] /\ consumer_write[l] = None
        /\ controller_state[i] = "WRITE_RELAYING" =>
              /\ lsu_state[l] = "LSU_DONE" \/ lsu_write[l] # None
              /\ consumer_answer[l] = None /\ consumer_ack[l] /\ consumer_read[l] = None

\* No request is lost or doubled on its way.
RequestsOnTheirWay ==
    /\ \A l \in Lsus : RequestOnItsWay(l)
    /\ \A i \in Channels : ChannelHasTheRequest(i)

\* A reset empties controller, units and registers in three edges.
ResetEmpties ==
    /\ reset_held >= 1 =>
          /\ channel_serving_consumer = {}
          /\ \A i \in Channels : controller_state[i] = "IDLE"
          /\ HandshakeSettled
    /\ reset_held >= 2 => \A l \in Lsus : lsu_answer[l] = None /\ ~lsu_ack[l]
    /\ reset_held >= 3 => \A l \in Lsus : consumer_read[l] = None /\ consumer_write[l] = None

\* What is inductive however short a reset may be.
ControlInvariant ==
    /\ TypeOK
    /\ OneChannelPerConsumer /\ ServingIsExact /\ ReadyHasItsChannel
    /\ UnitsFollowTheCore

\* What is inductive if a reset is held long enough.
MemoryInvariant ==
    /\ ControlInvariant
    /\ reset_held = 0 => RequestsOnTheirWay
    /\ ResetEmpties

\* Every request is answered in the end: with up to two cores, no scan order
\* of the controller starves a unit.
EveryRequestIsAnswered ==
    \A l \in Lsus :
        lsu_state[l] = "LSU_REQUESTING" ~> lsu_state[l] = "LSU_DONE" \/ core_reset

\* The load-store units see an atomic memory.  A reset takes its requests back
\* at the first edge, though the units forget them at the second only.
Waits(l) == lsu_state[l] = "LSU_WAITING" /\ reset_held = 0

Request(l) ==
    IF ~Waits(l) THEN [op |-> "none"]
    ELSE IF lsu_read[l] # None THEN [op |-> "read", addr |-> lsu_read[l]]
    ELSE [op |-> "write", addr |-> lsu_write[l].addr, data |-> lsu_write[l].data]

Result(l) ==
    IF ~Waits(l) THEN [op |-> "none"]
    ELSE IF consumer_answer[l] # None THEN [op |-> "read", data |-> consumer_answer[l]]
    ELSE IF consumer_ack[l] THEN [op |-> "write"]
    ELSE [op |-> "none"]

Handed(l) ==
    IF lsu_state[l] # "LSU_DONE" THEN [op |-> "none"]
    ELSE IF lsu_out[l] # None THEN [op |-> "read", data |-> lsu_out[l]]
    ELSE [op |-> "write"]

Atomic == INSTANCE AtomicMemory WITH
    Consumers <- Lsus,
    request <- [l \in Lsus |-> Request(l)],
    result <- [l \in Lsus |-> Result(l)],
    out <- [l \in Lsus |-> Handed(l)]

ImplementsAtomicMemory == Atomic!Spec
=============================================================================
