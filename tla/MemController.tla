---------------------------- MODULE MemController ----------------------------
(***************************************************************************)
(* The memory controller of src/src/mem_controller.sv: NUM_CHANNELS state  *)
(* machines that carry the requests of NUM_CONSUMERS consumers to memory.  *)
(* A port whose valid (or ready) line is low is None; its address or data  *)
(* lines are read by nobody then and are left out.                         *)
(***************************************************************************)
EXTENDS Naturals, FiniteSets

CONSTANTS
    NUM_CONSUMERS,
    NUM_CHANNELS,
    WRITE_ENABLE,       \* FALSE for the program memory
    Addresses, Values,
    None                \* a port that is not valid, or not ready

Stores == [addr : Addresses, data : Values]

ASSUME ControllerAssumption ==
    /\ NUM_CONSUMERS \in Nat \ {0}
    /\ NUM_CHANNELS \in Nat \ {0}
    /\ WRITE_ENABLE \in BOOLEAN
    /\ None \notin Addresses \union Values \union Stores

VARIABLES
    consumer_read,      \* the address a consumer asks for, while valid
    consumer_write,     \* the address and data it wants written, while valid
    consumer_answer,    \* the data answered to a read, while ready
    consumer_ack,       \* write_ready
    mem_read, mem_write,            \* the same requests, on the memory's side
    controller_state, current_consumer,
    channel_serving_consumer        \* the consumers some channel serves

consumerVars == <<consumer_read, consumer_write>>
controllerVars == <<consumer_answer, consumer_ack, mem_read, mem_write,
                    controller_state, current_consumer, channel_serving_consumer>>

Consumers == 0 .. NUM_CONSUMERS - 1
Channels == 0 .. NUM_CHANNELS - 1
ControllerStates ==
    {"IDLE", "READ_WAITING", "WRITE_WAITING", "READ_RELAYING", "WRITE_RELAYING"}

ControllerInit ==
    /\ consumer_answer = [j \in Consumers |-> None]
    /\ consumer_ack = [j \in Consumers |-> FALSE]
    /\ mem_read = [i \in Channels |-> None]
    /\ mem_write = [i \in Channels |-> None]
    /\ controller_state = [i \in Channels |-> "IDLE"]
    /\ current_consumer = [i \in Channels |-> 0]
    /\ channel_serving_consumer = {}

-----------------------------------------------------------------------------
(* Choosing a consumer.  The channels are visited in order within one edge *)
(* and share channel_serving_consumer, a blocking variable: what an        *)
(* earlier channel takes or gives up, a later one sees.                    *)

\* A controller that never looks at requests to write.
Asks_ReadsOnly(j) == consumer_read[j] # None

Asks(j) ==
    \/ consumer_read[j] # None
    \/ WRITE_ENABLE /\ consumer_write[j] # None

\* A scan that does not look at channel_serving_consumer.
Candidates_Unguarded(serving) == {j \in Consumers : Asks(j)}

Candidates(serving) == {j \in Consumers : Asks(j) /\ j \notin serving}

\* The first consumer the scan finds.
Pick(serving) ==
    CHOOSE j \in Candidates(serving) : \A k \in Candidates(serving) : j <= k

\* The consumer of a relaying channel has lowered its valid line.
Acknowledged(i) ==
    \/ controller_state[i] = "READ_RELAYING" /\ consumer_read[current_consumer[i]] = None
    \/ controller_state[i] = "WRITE_RELAYING" /\ consumer_write[current_consumer[i]] = None

ServingAfter(i, serving) ==
    IF controller_state[i] = "IDLE" /\ Candidates(serving) # {}
    THEN serving \union {Pick(serving)}
    ELSE IF Acknowledged(i) THEN serving \ {current_consumer[i]}
    ELSE serving

\* The value of channel_serving_consumer when the loop comes to channel i.
ServingSequence[i \in 0 .. NUM_CHANNELS] ==
    IF i = 0 THEN channel_serving_consumer
    ELSE ServingAfter(i - 1, ServingSequence[i - 1])

Takes(i) == controller_state[i] = "IDLE" /\ Candidates(ServingSequence[i]) # {}

Taken(i) == Pick(ServingSequence[i])

-----------------------------------------------------------------------------
(* One edge; "answered" are the channels the memory is ready on, ReadData  *)
(* the data it puts on a channel that reads.                               *)

\* A channel that relays the answer to a read before memory is ready.
ChannelStateAfter_NoReady(i, answered) ==
    CASE Takes(i) ->
           IF consumer_read[Taken(i)] # None THEN "READ_WAITING" ELSE "WRITE_WAITING"
      [] controller_state[i] = "READ_WAITING" -> "READ_RELAYING"
      [] controller_state[i] = "WRITE_WAITING" /\ i \in answered -> "WRITE_RELAYING"
      [] Acknowledged(i) -> "IDLE"
      [] OTHER -> controller_state[i]

\* A relaying channel that does not wait for the consumer.
ChannelStateAfter_NoWait(i, answered) ==
    CASE Takes(i) ->
           IF consumer_read[Taken(i)] # None THEN "READ_WAITING" ELSE "WRITE_WAITING"
      [] controller_state[i] = "READ_WAITING" /\ i \in answered -> "READ_RELAYING"
      [] controller_state[i] = "WRITE_WAITING" /\ i \in answered -> "WRITE_RELAYING"
      [] controller_state[i] \in {"READ_RELAYING", "WRITE_RELAYING"} -> "IDLE"
      [] OTHER -> controller_state[i]

ChannelStateAfter(i, answered) ==
    CASE Takes(i) ->
           IF consumer_read[Taken(i)] # None THEN "READ_WAITING" ELSE "WRITE_WAITING"
      [] controller_state[i] = "READ_WAITING" /\ i \in answered -> "READ_RELAYING"
      [] controller_state[i] = "WRITE_WAITING" /\ i \in answered -> "WRITE_RELAYING"
      [] Acknowledged(i) -> "IDLE"
      [] OTHER -> controller_state[i]

\* The channels that hand consumer j an answer, or take it back, at this edge.
Answering(j, state, answered) ==
    {i \in answered : controller_state[i] = state /\ current_consumer[i] = j}

Releasing(j, state) ==
    {i \in Channels :
        controller_state[i] = state /\ current_consumer[i] = j /\ Acknowledged(i)}

ControllerClock(answered, readData) ==
    /\ controller_state' = [i \in Channels |-> ChannelStateAfter(i, answered)]
    /\ current_consumer' = [i \in Channels |->
          IF Takes(i) THEN Taken(i) ELSE current_consumer[i]]
    /\ channel_serving_consumer' = ServingSequence[NUM_CHANNELS]
    /\ mem_read' = [i \in Channels |->
          IF Takes(i) THEN consumer_read[Taken(i)]
          ELSE IF i \in answered THEN None ELSE mem_read[i]]
    /\ mem_write' = [i \in Channels |->
          IF Takes(i) /\ consumer_read[Taken(i)] = None THEN consumer_write[Taken(i)]
          ELSE IF i \in answered THEN None ELSE mem_write[i]]
    /\ consumer_answer' = [j \in Consumers |->
          LET giving == Answering(j, "READ_WAITING", answered)
          IN  IF giving # {} THEN readData[CHOOSE i \in giving : \A k \in giving : k <= i]
              ELSE IF Releasing(j, "READ_RELAYING") # {} THEN None
              ELSE consumer_answer[j]]
    /\ consumer_ack' = [j \in Consumers |->
          IF Answering(j, "WRITE_WAITING", answered) # {} THEN TRUE
          ELSE IF Releasing(j, "WRITE_RELAYING") # {} THEN FALSE
          ELSE consumer_ack[j]]

\* A reset that leaves channel_serving_consumer as it is.
ControllerReset_KeepsServing ==
    /\ consumer_answer' = [j \in Consumers |-> None]
    /\ consumer_ack' = [j \in Consumers |-> FALSE]
    /\ mem_read' = [i \in Channels |-> None]
    /\ mem_write' = [i \in Channels |-> None]
    /\ controller_state' = [i \in Channels |-> "IDLE"]
    /\ current_consumer' = [i \in Channels |-> 0]
    /\ UNCHANGED channel_serving_consumer

\* An edge with reset asserted: what was under way is forgotten.
ControllerReset ==
    /\ consumer_answer' = [j \in Consumers |-> None]
    /\ consumer_ack' = [j \in Consumers |-> FALSE]
    /\ mem_read' = [i \in Channels |-> None]
    /\ mem_write' = [i \in Channels |-> None]
    /\ controller_state' = [i \in Channels |-> "IDLE"]
    /\ current_consumer' = [i \in Channels |-> 0]
    /\ channel_serving_consumer' = {}

\* Types, and that a channel has a request out exactly while it waits for it.
ControllerTypeOK ==
    /\ consumer_read \in [Consumers -> Addresses \union {None}]
    /\ consumer_write \in [Consumers -> Stores \union {None}]
    /\ consumer_answer \in [Consumers -> Values \union {None}]
    /\ consumer_ack \in [Consumers -> BOOLEAN]
    /\ mem_read \in [Channels -> Addresses \union {None}]
    /\ mem_write \in [Channels -> Stores \union {None}]
    /\ controller_state \in [Channels -> ControllerStates]
    /\ current_consumer \in [Channels -> Consumers]
    /\ channel_serving_consumer \subseteq Consumers
    /\ \A i \in Channels :
          /\ mem_read[i] # None <=> controller_state[i] = "READ_WAITING"
          /\ mem_write[i] # None <=> controller_state[i] = "WRITE_WAITING"

-----------------------------------------------------------------------------
(* Properties of the controller, whoever its consumers and its memory are. *)

Busy == {i \in Channels : controller_state[i] # "IDLE"}

\* mem_controller.sv 43: channel_serving_consumer "prevents many workers from
\* picking up the same request": two channels never serve one consumer, also
\* when both became free, or one gave the consumer up, in the same edge.
OneChannelPerConsumer ==
    \A i, k \in Busy : current_consumer[i] = current_consumer[k] => i = k

\* The bit set is exactly the consumers being served: a bit left set would lock
\* its consumer out of memory for ever, a bit lost would have it served twice.
ServingIsExact == channel_serving_consumer = {current_consumer[i] : i \in Busy}

\* A ready line is up only while the channel that raised it waits for the
\* consumer's acknowledgement, so no answer can be left for a later request.
ReadyHasItsChannel ==
    \A j \in Consumers :
        /\ consumer_answer[j] # None =>
              \E i \in Channels : controller_state[i] = "READ_RELAYING" /\ current_consumer[i] = j
        /\ consumer_ack[j] =>
              \E i \in Channels : controller_state[i] = "WRITE_RELAYING" /\ current_consumer[i] = j
=============================================================================
