-------------------------- MODULE DataMemoryProofs --------------------------
(***************************************************************************)
(* Proofs about DataMemorySystem.tla, for every number of cores, units and *)
(* channels, every memory and every order in which it answers.  First come *)
(* lemmas about one edge of the controller, MemController.tla; last, for   *)
(* resets that are held for at least three edges, the four-phase handshake *)
(* between units and controller, and the refinement of the atomic memory.  *)
(***************************************************************************)
EXTENDS DataMemorySystem, NatFacts

-----------------------------------------------------------------------------
(* One edge of the controller.                                             *)

\* The scan of the channels, unfolded one channel at a time.
LEMMA ServingSequenceUnfolds ==
  ServingSequence =
    [i \in 0 .. NUM_CHANNELS |->
        IF i = 0 THEN channel_serving_consumer
        ELSE ServingAfter(i - 1, ServingSequence[i - 1])]
<1> DEFINE Scan(n, f) ==
             f = [i \in 0 .. n |->
                    IF i = 0 THEN channel_serving_consumer
                    ELSE ServingAfter(i - 1, f[i - 1])]
           Missing(n) == ~ \E f : Scan(n, f)
<1>1. \E f : Scan(NUM_CHANNELS, f)
  <2> DEFINE B == {n \in Nat : Missing(n)}
  <2> SUFFICES ASSUME B # {} PROVE FALSE
    BY ControllerAssumption
  <2>1. PICK m \in B : \A n \in B : m <= n
    <3> HIDE DEF B
    <3>1. B \in SUBSET Nat
      BY DEF B
    <3> QED
      BY <3>1, LeastElement
  <2>2. m # 0
    <3> DEFINE g == [i \in 0 .. 0 |-> channel_serving_consumer]
    <3>1. Scan(0, g)
      OBVIOUS
    <3> QED
      BY <3>1
  <2>3. PICK f : Scan(m - 1, f)
    BY <2>1, <2>2
  <2> DEFINE g == [i \in 0 .. m |->
                     IF i = m THEN ServingAfter(m - 1, f[m - 1]) ELSE f[i]]
  <2>4. Scan(m, g)
    <3>1. \A i \in 0 .. m :
             g[i] = IF i = 0 THEN channel_serving_consumer ELSE ServingAfter(i - 1, g[i - 1])
      <4> TAKE i \in 0 .. m
      <4>1. CASE i = m
        BY <4>1, <2>2
      <4>2. CASE i # m
        BY <4>2, <2>3
      <4> QED
        BY <4>1, <4>2
    <3> HIDE DEF g
    <3>2. g = [i \in 0 .. m |-> g[i]]
      BY DEF g
    <3> QED
      BY <3>1, <3>2
  <2> QED
    BY <2>4
<1> QED
  BY <1>1 DEF ServingSequence

\* What channel i + 1 sees is what channel i leaves.
LEMMA ServingSequenceSteps ==
  /\ ServingSequence[0] = channel_serving_consumer
  /\ \A i \in Channels : ServingSequence[i + 1] = ServingAfter(i, ServingSequence[i])
<1>1. ServingSequence[0] = channel_serving_consumer
  BY ServingSequenceUnfolds, ControllerAssumption
<1>2. ASSUME NEW i \in Channels
      PROVE  ServingSequence[i + 1] = ServingAfter(i, ServingSequence[i])
  <2>1. i + 1 \in 0 .. NUM_CHANNELS /\ i + 1 # 0 /\ (i + 1) - 1 = i
    BY ControllerAssumption DEF Channels
  <2> QED
    BY <2>1, ServingSequenceUnfolds
<1> QED
  BY <1>1, <1>2

\* A channel that takes a consumer takes one that asks and that no channel
\* serves when the scan comes to it.
LEMMA PickIsCandidate ==
  ASSUME NEW serving, Candidates(serving) # {}
  PROVE  Pick(serving) \in Consumers /\ Asks(Pick(serving)) /\ Pick(serving) \notin serving
<1>1. Candidates(serving) \in SUBSET Nat
  BY ControllerAssumption DEF Candidates, Consumers
<1>2. \E j \in Candidates(serving) : \A k \in Candidates(serving) : j <= k
  BY <1>1, LeastElement
<1>3. Pick(serving) \in Candidates(serving)
  BY <1>2 DEF Pick
<1> QED
  BY <1>3 DEF Candidates

-----------------------------------------------------------------------------
(* The scan.  When it has come to channel n, the channels before n serve   *)
(* whom they will serve after the edge, the others whom they served        *)
(* before.                                                                 *)

ServesBefore(i) == IF controller_state[i] = "IDLE" THEN {} ELSE {current_consumer[i]}

ServesAfter(i) ==
    IF Takes(i) THEN {Taken(i)}
    ELSE IF Acknowledged(i) THEN {}
    ELSE ServesBefore(i)

Serves(i, n) == IF i < n THEN ServesAfter(i) ELSE ServesBefore(i)

ScanIsExact(n) ==
    /\ \A j \in Consumers : j \in ServingSequence[n] <=> \E i \in Channels : j \in Serves(i, n)
    /\ ServingSequence[n] \subseteq Consumers
    /\ \A i, k \in Channels : i # k => Serves(i, n) \cap Serves(k, n) = {}

\* A channel takes a consumer only when it is idle, and gives one up only when
\* it relays.
LEMMA TakesOrAcknowledges ==
  ASSUME ControllerTypeOK, NEW i \in Channels
  PROVE  /\ Takes(i) => /\ controller_state[i] = "IDLE" /\ ~Acknowledged(i)
                        /\ Taken(i) \in Consumers /\ Asks(Taken(i))
                        /\ Taken(i) \notin ServingSequence[i]
         /\ ~Takes(i) /\ controller_state[i] = "IDLE" => Candidates(ServingSequence[i]) = {}
         /\ ServesAfter(i) \subseteq Consumers /\ ServesBefore(i) \subseteq Consumers
<1>1. Takes(i) => /\ controller_state[i] = "IDLE" /\ ~Acknowledged(i)
                  /\ Taken(i) \in Consumers /\ Asks(Taken(i))
                  /\ Taken(i) \notin ServingSequence[i]
  BY PickIsCandidate DEF Takes, Taken, Acknowledged
<1> QED
  BY <1>1 DEF Takes, ServesAfter, ServesBefore, ControllerTypeOK

\* One channel of the scan.
LEMMA ScanStep ==
  ASSUME ControllerTypeOK, NEW n \in Channels, ScanIsExact(n)
  PROVE  ScanIsExact(n + 1)
<1> USE DEF ScanIsExact
<1> DEFINE S == ServingSequence[n]
           T == ServingSequence[n + 1]
<1>1. T = ServingAfter(n, S)
  BY ServingSequenceSteps
<1>2. Channels \subseteq Nat
  BY ControllerAssumption DEF Channels
<1>3. /\ Serves(n, n) = ServesBefore(n) /\ Serves(n, n + 1) = ServesAfter(n)
      /\ \A i \in Channels : i # n => Serves(i, n + 1) = Serves(i, n)
  BY <1>2 DEF Serves
<1>4. CASE Takes(n)
  <2>1. T = S \union {Taken(n)} /\ ServesAfter(n) = {Taken(n)} /\ ServesBefore(n) = {}
    BY <1>1, <1>4, TakesOrAcknowledges DEF ServingAfter, Takes, Taken, ServesAfter, ServesBefore
  <2>2. Taken(n) \in Consumers /\ Taken(n) \notin S
    BY <1>4, TakesOrAcknowledges
  <2>3. \A i \in Channels : Taken(n) \notin Serves(i, n)
    BY <2>2
  <2> HIDE DEF S, T
  <2>4. \A i, k \in Channels : i # k => Serves(i, n + 1) \cap Serves(k, n + 1) = {}
    BY <2>1, <2>3, <1>3
  <2>5. \A j \in Consumers : j \in T <=> \E i \in Channels : j \in Serves(i, n + 1)
    <3> TAKE j \in Consumers
    <3>1. j \in S <=> \E i \in Channels : j \in Serves(i, n)
      BY DEF S
    <3> QED
      BY <2>1, <1>3, <3>1
  <2> QED
    BY <2>1, <2>2, <2>4, <2>5 DEF T, S
<1>5. CASE ~Takes(n) /\ Acknowledged(n)
  <2>1. /\ T = S \ {current_consumer[n]} /\ ServesAfter(n) = {}
        /\ ServesBefore(n) = {current_consumer[n]}
    BY <1>1, <1>5, TakesOrAcknowledges
       DEF ServingAfter, Takes, ServesAfter, ServesBefore, Acknowledged
  <2>2. \A i \in Channels : i # n => current_consumer[n] \notin Serves(i, n)
    BY <2>1, <1>3
  <2> HIDE DEF S, T
  <2>4. \A i, k \in Channels : i # k => Serves(i, n + 1) \cap Serves(k, n + 1) = {}
    BY <2>1, <1>3
  <2>5. \A j \in Consumers : j \in T <=> \E i \in Channels : j \in Serves(i, n + 1)
    <3> TAKE j \in Consumers
    <3>1. j \in S <=> \E i \in Channels : j \in Serves(i, n)
      BY DEF S
    <3> QED
      BY <2>1, <2>2, <1>3, <3>1
  <2> QED
    BY <2>1, <2>4, <2>5 DEF T, S
<1>6. CASE ~Takes(n) /\ ~Acknowledged(n)
  <2>1. T = S /\ ServesAfter(n) = ServesBefore(n)
    BY <1>1, <1>6 DEF ServingAfter, Takes, ServesAfter
  <2>2. \A i \in Channels : Serves(i, n + 1) = Serves(i, n)
    BY <2>1, <1>3
  <2> QED
    BY <2>1, <2>2
<1> QED
  BY <1>4, <1>5, <1>6

\* The whole scan.
LEMMA ScanHolds ==
  ASSUME ControllerTypeOK, OneChannelPerConsumer, ServingIsExact
  PROVE  \A n \in 0 .. NUM_CHANNELS : ScanIsExact(n)
<1> DEFINE B == {n \in 0 .. NUM_CHANNELS : ~ScanIsExact(n)}
<1> SUFFICES ASSUME B # {} PROVE FALSE
  OBVIOUS
<1>1. PICK m \in B : \A n \in B : m <= n
  <2> HIDE DEF B
  <2>1. B \in SUBSET Nat
    BY ControllerAssumption DEF B
  <2> QED
    BY <2>1, LeastElement
<1>2. m # 0
  <2>1. \A i \in Channels : Serves(i, 0) = ServesBefore(i)
    BY ControllerAssumption DEF Channels, Serves
  <2>2. ScanIsExact(0)
    BY <2>1, ServingSequenceSteps
       DEF ScanIsExact, ServesBefore, ControllerTypeOK, OneChannelPerConsumer, ServingIsExact, Busy
  <2> QED
    BY <2>2
<1>3. m - 1 \in Channels /\ m - 1 \in 0 .. NUM_CHANNELS /\ (m - 1) + 1 = m /\ m - 1 < m
  BY <1>1, <1>2, ControllerAssumption DEF Channels
<1>4. ScanIsExact(m - 1)
  BY <1>1, <1>3
<1>5. ScanIsExact(m)
  BY <1>3, <1>4, ScanStep
<1> QED
  BY <1>5

-----------------------------------------------------------------------------
(* What one edge does to a channel.                                        *)

Keeps(i) ==
    /\ ~Takes(i) /\ ~Acknowledged(i)
    /\ controller_state'[i] = controller_state[i]
    /\ current_consumer'[i] = current_consumer[i]
    /\ mem_read'[i] = mem_read[i]
    /\ mem_write'[i] = mem_write[i]

TakesRequest(i) ==
    /\ Takes(i) /\ ~Acknowledged(i)
    /\ controller_state[i] = "IDLE"
    /\ Taken(i) \in Consumers /\ Asks(Taken(i)) /\ Taken(i) \notin ServingSequence[i]
    /\ controller_state'[i] =
         IF consumer_read[Taken(i)] # None THEN "READ_WAITING" ELSE "WRITE_WAITING"
    /\ current_consumer'[i] = Taken(i)
    /\ mem_read'[i] = consumer_read[Taken(i)]
    /\ mem_write'[i] = IF consumer_read[Taken(i)] # None THEN None ELSE consumer_write[Taken(i)]

Relays(i, waiting, relaying) ==
    /\ ~Takes(i) /\ ~Acknowledged(i)
    /\ controller_state[i] = waiting
    /\ controller_state'[i] = relaying
    /\ current_consumer'[i] = current_consumer[i]
    /\ mem_read'[i] = None /\ mem_write'[i] = None

Releases(i) ==
    /\ ~Takes(i) /\ Acknowledged(i)
    /\ controller_state'[i] = "IDLE"
    /\ current_consumer'[i] = current_consumer[i]
    /\ mem_read'[i] = None /\ mem_write'[i] = None

\* A channel does one of these at an edge: takes a request, relays the answer of
\* memory, releases its consumer, or keeps as it is, and then memory has not
\* answered it.
LEMMA ChannelSteps ==
  ASSUME ControllerTypeOK, NEW answered \in SUBSET Channels, NEW readData,
         ControllerClock(answered, readData), NEW i \in Channels
  PROVE  \/ TakesRequest(i)
         \/ i \in answered /\ Relays(i, "READ_WAITING", "READ_RELAYING")
         \/ i \in answered /\ Relays(i, "WRITE_WAITING", "WRITE_RELAYING")
         \/ Releases(i)
         \/ /\ Keeps(i)
            /\ controller_state[i] \in {"READ_WAITING", "WRITE_WAITING"} => i \notin answered
<1>0. /\ controller_state'[i] = ChannelStateAfter(i, answered)
      /\ current_consumer'[i] = IF Takes(i) THEN Taken(i) ELSE current_consumer[i]
      /\ mem_read'[i] = IF Takes(i) THEN consumer_read[Taken(i)]
                        ELSE IF i \in answered THEN None ELSE mem_read[i]
      /\ mem_write'[i] = IF Takes(i) /\ consumer_read[Taken(i)] = None
                         THEN consumer_write[Taken(i)]
                         ELSE IF i \in answered THEN None ELSE mem_write[i]
  BY DEF ControllerClock
<1>1. /\ controller_state[i] \in ControllerStates
      /\ mem_read[i] # None <=> controller_state[i] = "READ_WAITING"
      /\ mem_write[i] # None <=> controller_state[i] = "WRITE_WAITING"
  BY DEF ControllerTypeOK
<1>2. CASE Takes(i)
  <2>1. /\ controller_state[i] = "IDLE" /\ ~Acknowledged(i)
        /\ Taken(i) \in Consumers /\ Asks(Taken(i)) /\ Taken(i) \notin ServingSequence[i]
    BY <1>2, TakesOrAcknowledges
  <2> QED
    BY <1>0, <1>1, <1>2, <2>1 DEF ChannelStateAfter, TakesRequest
<1>3. CASE ~Takes(i) /\ Acknowledged(i)
  <2>1. controller_state[i] \in {"READ_RELAYING", "WRITE_RELAYING"}
    BY <1>3 DEF Acknowledged
  <2>2. Releases(i)
    BY <1>0, <1>1, <1>3, <2>1 DEF ChannelStateAfter, Releases
  <2> QED
    BY <2>1, <2>2, <1>1, <1>0, <1>3 DEF Releases
<1>4. CASE ~Takes(i) /\ ~Acknowledged(i)
  BY <1>0, <1>1, <1>4 DEF ChannelStateAfter, Keeps, Relays
<1> QED
  BY <1>2, <1>3, <1>4

\* No edge breaks the types, if memory has data for every channel that reads.
LEMMA ClockKeepsControllerTypes ==
  ASSUME ControllerTypeOK, NEW answered \in SUBSET Channels, NEW readData,
         ControllerClock(answered, readData),
         \A i \in answered : controller_state[i] = "READ_WAITING" => readData[i] \in Values,
         consumer_read' \in [Consumers -> Addresses \union {None}],
         consumer_write' \in [Consumers -> Stores \union {None}]
  PROVE  ControllerTypeOK'
<1>1. /\ consumer_read \in [Consumers -> Addresses \union {None}]
      /\ consumer_write \in [Consumers -> Stores \union {None}]
  BY DEF ControllerTypeOK
<1>2. ASSUME NEW i \in Channels
      PROVE  /\ mem_read'[i] \in Addresses \union {None}
             /\ mem_write'[i] \in Stores \union {None}
             /\ controller_state'[i] \in ControllerStates
             /\ current_consumer'[i] \in Consumers
             /\ mem_read'[i] # None <=> controller_state'[i] = "READ_WAITING"
             /\ mem_write'[i] # None <=> controller_state'[i] = "WRITE_WAITING"
  <2>0. /\ mem_read[i] \in Addresses \union {None}
        /\ mem_write[i] \in Stores \union {None}
        /\ controller_state[i] \in ControllerStates
        /\ current_consumer[i] \in Consumers
        /\ mem_read[i] # None <=> controller_state[i] = "READ_WAITING"
        /\ mem_write[i] # None <=> controller_state[i] = "WRITE_WAITING"
    BY DEF ControllerTypeOK
  <2>1. CASE TakesRequest(i)
    <3>1. /\ consumer_read[Taken(i)] \in Addresses \union {None}
          /\ consumer_write[Taken(i)] \in Stores \union {None}
          /\ consumer_read[Taken(i)] # None \/ consumer_write[Taken(i)] # None
      BY <2>1, <1>1 DEF TakesRequest, Asks
    <3> QED
      BY <2>1, <3>1 DEF TakesRequest, ControllerStates
  <2>2. CASE \/ Relays(i, "READ_WAITING", "READ_RELAYING")
             \/ Relays(i, "WRITE_WAITING", "WRITE_RELAYING")
             \/ Releases(i)
    BY <2>0, <2>2 DEF Relays, Releases, ControllerStates
  <2>3. CASE Keeps(i)
    BY <2>0, <2>3 DEF Keeps
  <2> QED
    BY <2>1, <2>2, <2>3, ChannelSteps
<1>3. ASSUME NEW j \in Consumers
      PROVE  consumer_answer'[j] \in Values \union {None} /\ consumer_ack'[j] \in BOOLEAN
  <2> DEFINE G == Answering(j, "READ_WAITING", answered)
             c == CHOOSE i \in G : \A k \in G : k <= i
  <2>1. G # {} => c \in G
    <3>1. G \in SUBSET (0 .. NUM_CHANNELS - 1)
      BY DEF Answering, Channels
    <3> NUM_CHANNELS - 1 \in Nat
      BY ControllerAssumption
    <3> HIDE DEF G
    <3>2. G # {} => \E i \in G : \A k \in G : k <= i
      BY <3>1, GreatestElement
    <3> QED
      BY <3>2
  <2>2. G # {} => readData[c] \in Values
    BY <2>1 DEF Answering
  <2>3. consumer_answer'[j] = IF G # {} THEN readData[c]
                              ELSE IF Releasing(j, "READ_RELAYING") # {} THEN None
                              ELSE consumer_answer[j]
    BY DEF ControllerClock
  <2>4. consumer_answer[j] \in Values \union {None} /\ consumer_ack[j] \in BOOLEAN
    BY DEF ControllerTypeOK
  <2>5. consumer_ack'[j] = IF Answering(j, "WRITE_WAITING", answered) # {} THEN TRUE
                           ELSE IF Releasing(j, "WRITE_RELAYING") # {} THEN FALSE
                           ELSE consumer_ack[j]
    BY DEF ControllerClock
  <2> HIDE DEF G, c
  <2> QED
    BY <2>2, <2>3, <2>4, <2>5
<1>4. channel_serving_consumer' \subseteq Consumers
  <2> DEFINE B == {n \in 0 .. NUM_CHANNELS : ~(ServingSequence[n] \subseteq Consumers)}
  <2> SUFFICES ASSUME B # {} PROVE FALSE
    BY ControllerAssumption DEF ControllerClock
  <2>1. PICK m \in B : \A n \in B : m <= n
    <3> HIDE DEF B
    <3>1. B \in SUBSET Nat
      BY ControllerAssumption DEF B
    <3> QED
      BY <3>1, LeastElement
  <2>2. m # 0
    BY ServingSequenceSteps DEF ControllerTypeOK
  <2>3. m - 1 \in Channels /\ m - 1 \in 0 .. NUM_CHANNELS /\ (m - 1) + 1 = m /\ m - 1 < m
    BY <2>1, <2>2, ControllerAssumption DEF Channels
  <2>4. ServingSequence[m - 1] \subseteq Consumers
    BY <2>1, <2>3
  <2>5. ServingAfter(m - 1, ServingSequence[m - 1]) \subseteq Consumers
    BY <2>4, PickIsCandidate DEF ServingAfter
  <2>6. ServingSequence[(m - 1) + 1] \subseteq Consumers
    BY <2>3, <2>5, ServingSequenceSteps
  <2> QED
    BY <2>6, <2>3
<1>5. /\ mem_read' \in [Channels -> Addresses \union {None}]
      /\ mem_write' \in [Channels -> Stores \union {None}]
      /\ controller_state' \in [Channels -> ControllerStates]
      /\ current_consumer' \in [Channels -> Consumers]
  <2>1. /\ mem_read' = [i \in Channels |-> mem_read'[i]]
        /\ mem_write' = [i \in Channels |-> mem_write'[i]]
        /\ controller_state' = [i \in Channels |-> controller_state'[i]]
        /\ current_consumer' = [i \in Channels |-> current_consumer'[i]]
    BY DEF ControllerClock
  <2> QED
    BY <1>2, <2>1
<1>6. /\ consumer_answer' \in [Consumers -> Values \union {None}]
      /\ consumer_ack' \in [Consumers -> BOOLEAN]
  <2>1. /\ consumer_answer' = [j \in Consumers |-> consumer_answer'[j]]
        /\ consumer_ack' = [j \in Consumers |-> consumer_ack'[j]]
    BY DEF ControllerClock
  <2> QED
    BY <1>3, <2>1
<1> QED
  BY <1>2, <1>4, <1>5, <1>6 DEF ControllerTypeOK

\* No edge gives a consumer two channels, or loses a bit of the set.
LEMMA ClockServesExactly ==
  ASSUME ControllerTypeOK, OneChannelPerConsumer, ServingIsExact,
         NEW answered \in SUBSET Channels, NEW readData, ControllerClock(answered, readData)
  PROVE  OneChannelPerConsumer' /\ ServingIsExact'
<1>1. ASSUME NEW i \in Channels
      PROVE  Serves(i, NUM_CHANNELS) =
               IF controller_state'[i] = "IDLE" THEN {} ELSE {current_consumer'[i]}
  <2>1. Serves(i, NUM_CHANNELS) = ServesAfter(i)
    BY ControllerAssumption DEF Channels, Serves
  <2>2. ServesAfter(i) = IF controller_state'[i] = "IDLE" THEN {} ELSE {current_consumer'[i]}
    <3>1. CASE TakesRequest(i)
      BY <3>1 DEF TakesRequest, ServesAfter
    <3>2. CASE Relays(i, "READ_WAITING", "READ_RELAYING")
      BY <3>2 DEF Relays, ServesAfter, ServesBefore
    <3>3. CASE Relays(i, "WRITE_WAITING", "WRITE_RELAYING")
      BY <3>3 DEF Relays, ServesAfter, ServesBefore
    <3>4. CASE Releases(i)
      BY <3>4 DEF Releases, ServesAfter
    <3>5. CASE Keeps(i)
      BY <3>5 DEF Keeps, ServesAfter, ServesBefore
    <3> QED
      BY <3>1, <3>2, <3>3, <3>4, <3>5, ChannelSteps
  <2> QED
    BY <2>1, <2>2
<1>2. ScanIsExact(NUM_CHANNELS)
  BY ScanHolds, ControllerAssumption
<1>3. channel_serving_consumer' = ServingSequence[NUM_CHANNELS]
  BY DEF ControllerClock
<1>4. ASSUME NEW i \in Channels PROVE current_consumer'[i] \in Consumers
  <2>1. current_consumer[i] \in Consumers
    BY DEF ControllerTypeOK
  <2>2. \/ TakesRequest(i) \/ Releases(i) \/ Keeps(i)
        \/ Relays(i, "READ_WAITING", "READ_RELAYING")
        \/ Relays(i, "WRITE_WAITING", "WRITE_RELAYING")
    BY ChannelSteps
  <2> QED
    BY <2>1, <2>2 DEF TakesRequest, Relays, Releases, Keeps
<1>5. OneChannelPerConsumer'
  BY <1>1, <1>2 DEF OneChannelPerConsumer, ScanIsExact, Busy
<1>6. ServingIsExact'
  <2>1. channel_serving_consumer' \subseteq {current_consumer'[i] : i \in Busy'}
    BY <1>1, <1>2, <1>3 DEF ScanIsExact, Busy
  <2>2. \A i \in Busy' : current_consumer'[i] \in channel_serving_consumer'
    BY <1>1, <1>2, <1>3, <1>4 DEF ScanIsExact, Busy
  <2> QED
    BY <2>1, <2>2 DEF ServingIsExact
<1> QED
  BY <1>5, <1>6

\* A ready line goes up with the channel that will take it back, and that
\* channel does not leave before.
LEMMA ClockKeepsReady ==
  ASSUME ControllerTypeOK, ReadyHasItsChannel,
         NEW answered \in SUBSET Channels, NEW readData, ControllerClock(answered, readData)
  PROVE  ReadyHasItsChannel'
<1>1. ASSUME NEW i \in answered, controller_state[i] = "READ_WAITING"
      PROVE  controller_state'[i] = "READ_RELAYING" /\ current_consumer'[i] = current_consumer[i]
  <2>1. i \in Channels
    OBVIOUS
  <2>2. \/ TakesRequest(i) \/ Releases(i)
        \/ Relays(i, "READ_WAITING", "READ_RELAYING")
        \/ Relays(i, "WRITE_WAITING", "WRITE_RELAYING")
    BY <1>1, <2>1, ChannelSteps
  <2> QED
    BY <1>1, <2>2 DEF Relays, Releases, TakesRequest, Acknowledged
<1>2. ASSUME NEW i \in answered, controller_state[i] = "WRITE_WAITING"
      PROVE  controller_state'[i] = "WRITE_RELAYING" /\ current_consumer'[i] = current_consumer[i]
  <2>1. i \in Channels
    OBVIOUS
  <2>2. \/ TakesRequest(i) \/ Releases(i)
        \/ Relays(i, "READ_WAITING", "READ_RELAYING")
        \/ Relays(i, "WRITE_WAITING", "WRITE_RELAYING")
    BY <1>2, <2>1, ChannelSteps
  <2> QED
    BY <1>2, <2>2 DEF Relays, Releases, TakesRequest, Acknowledged
<1>3. ASSUME NEW i \in Channels, ~Acknowledged(i),
             controller_state[i] \in {"READ_RELAYING", "WRITE_RELAYING"}
      PROVE  controller_state'[i] = controller_state[i] /\ current_consumer'[i] = current_consumer[i]
  BY <1>3, ChannelSteps DEF TakesRequest, Relays, Releases, Keeps
<1>4. ASSUME NEW j \in Consumers, consumer_answer'[j] # None
      PROVE  \E i \in Channels : controller_state'[i] = "READ_RELAYING" /\ current_consumer'[i] = j
  <2>1. CASE Answering(j, "READ_WAITING", answered) # {}
    BY <2>1, <1>1 DEF Answering
  <2>2. CASE Answering(j, "READ_WAITING", answered) = {}
    <3>1. Releasing(j, "READ_RELAYING") = {} /\ consumer_answer[j] # None
      BY <2>2, <1>4 DEF ControllerClock
    <3>2. PICK i \in Channels : controller_state[i] = "READ_RELAYING" /\ current_consumer[i] = j
      BY <3>1 DEF ReadyHasItsChannel
    <3>3. ~Acknowledged(i)
      BY <3>1, <3>2 DEF Releasing
    <3> QED
      BY <3>2, <3>3, <1>3
  <2> QED
    BY <2>1, <2>2
<1>5. ASSUME NEW j \in Consumers, consumer_ack'[j]
      PROVE  \E i \in Channels : controller_state'[i] = "WRITE_RELAYING" /\ current_consumer'[i] = j
  <2>1. CASE Answering(j, "WRITE_WAITING", answered) # {}
    BY <2>1, <1>2 DEF Answering
  <2>2. CASE Answering(j, "WRITE_WAITING", answered) = {}
    <3>1. Releasing(j, "WRITE_RELAYING") = {} /\ consumer_ack[j]
      BY <2>2, <1>5 DEF ControllerClock
    <3>2. PICK i \in Channels : controller_state[i] = "WRITE_RELAYING" /\ current_consumer[i] = j
      BY <3>1 DEF ReadyHasItsChannel
    <3>3. ~Acknowledged(i)
      BY <3>1, <3>2 DEF Releasing
    <3> QED
      BY <3>2, <3>3, <1>3
  <2> QED
    BY <2>1, <2>2
<1> QED
  BY <1>4, <1>5 DEF ReadyHasItsChannel

\* What an edge does to the ready lines of a consumer no channel serves.
LEMMA UnservedGetNoAnswer ==
  ASSUME ControllerTypeOK, ServingIsExact, ReadyHasItsChannel,
         NEW answered \in SUBSET Channels, NEW readData, ControllerClock(answered, readData),
         NEW j \in Consumers, j \notin channel_serving_consumer
  PROVE  /\ consumer_answer[j] = None /\ ~consumer_ack[j]
         /\ consumer_answer'[j] = None /\ ~consumer_ack'[j]
<1>1. \A i \in Channels : current_consumer[i] = j => controller_state[i] = "IDLE"
  BY DEF ServingIsExact, Busy
<1>2. consumer_answer[j] = None /\ ~consumer_ack[j]
  BY <1>1 DEF ReadyHasItsChannel
<1>3. /\ Answering(j, "READ_WAITING", answered) = {}
      /\ Answering(j, "WRITE_WAITING", answered) = {}
  BY <1>1 DEF Answering
<1> QED
  BY <1>2, <1>3 DEF ControllerClock

\* What an edge does to the ready lines of a consumer that channel i serves.
LEMMA ServedGetTheirAnswer ==
  ASSUME ControllerTypeOK, OneChannelPerConsumer,
         NEW answered \in SUBSET Channels, NEW readData, ControllerClock(answered, readData),
         NEW i \in Channels, controller_state[i] # "IDLE"
  PROVE  /\ controller_state[i] = "READ_WAITING" /\ i \in answered
              => consumer_answer'[current_consumer[i]] = readData[i]
         /\ controller_state[i] = "WRITE_WAITING" /\ i \in answered
              => consumer_ack'[current_consumer[i]] = TRUE
         /\ (\/ controller_state[i] = "READ_WAITING" /\ i \notin answered
             \/ controller_state[i] = "READ_RELAYING" /\ ~Acknowledged(i)
             \/ controller_state[i] \in {"WRITE_WAITING", "WRITE_RELAYING"})
              => consumer_answer'[current_consumer[i]] = consumer_answer[current_consumer[i]]
         /\ (\/ controller_state[i] = "WRITE_WAITING" /\ i \notin answered
             \/ controller_state[i] = "WRITE_RELAYING" /\ ~Acknowledged(i)
             \/ controller_state[i] \in {"READ_WAITING", "READ_RELAYING"})
              => consumer_ack'[current_consumer[i]] = consumer_ack[current_consumer[i]]
<1> DEFINE j == current_consumer[i]
<1>1. \A k \in Channels : controller_state[k] # "IDLE" /\ current_consumer[k] = j => k = i
  BY DEF OneChannelPerConsumer, Busy
<1>2. j \in Consumers
  BY DEF ControllerTypeOK
<1>3. \A state \in {"READ_WAITING", "WRITE_WAITING"} :
         Answering(j, state, answered) =
           IF controller_state[i] = state /\ i \in answered THEN {i} ELSE {}
  BY <1>1 DEF Answering
<1>4. \A state \in {"READ_RELAYING", "WRITE_RELAYING"} :
         Releasing(j, state) = IF controller_state[i] = state /\ Acknowledged(i) THEN {i} ELSE {}
  BY <1>1 DEF Releasing
<1>5. consumer_answer'[j] =
        IF controller_state[i] = "READ_WAITING" /\ i \in answered THEN readData[i]
        ELSE IF controller_state[i] = "READ_RELAYING" /\ Acknowledged(i) THEN None
        ELSE consumer_answer[j]
  <2> DEFINE G == Answering(j, "READ_WAITING", answered)
  <2>1. consumer_answer'[j] =
          IF G # {} THEN readData[CHOOSE m \in G : \A k \in G : k <= m]
          ELSE IF Releasing(j, "READ_RELAYING") # {} THEN None
          ELSE consumer_answer[j]
    BY <1>2 DEF ControllerClock
  <2>2. G = IF controller_state[i] = "READ_WAITING" /\ i \in answered THEN {i} ELSE {}
    BY <1>3
  <2>3. Releasing(j, "READ_RELAYING") =
          IF controller_state[i] = "READ_RELAYING" /\ Acknowledged(i) THEN {i} ELSE {}
    BY <1>4
  <2> HIDE DEF G
  <2>4. i <= i
    BY DEF Channels
  <2>5. G = {i} => (CHOOSE m \in G : \A k \in G : k <= m) = i
    BY <2>4
  <2> QED
    BY <2>1, <2>2, <2>3, <2>5
<1>6. consumer_ack'[j] =
        IF controller_state[i] = "WRITE_WAITING" /\ i \in answered THEN TRUE
        ELSE IF controller_state[i] = "WRITE_RELAYING" /\ Acknowledged(i) THEN FALSE
        ELSE consumer_ack[j]
  BY <1>2, <1>3, <1>4 DEF ControllerClock
<1> QED
  BY <1>5, <1>6

\* A reset leaves nothing.
LEMMA ResetEmptiesController ==
  ASSUME ControllerReset
  PROVE  /\ \A j \in Consumers : consumer_answer'[j] = None /\ ~consumer_ack'[j]
         /\ \A i \in Channels : /\ mem_read'[i] = None /\ mem_write'[i] = None
                                /\ controller_state'[i] = "IDLE"
         /\ channel_serving_consumer' = {}
         /\ OneChannelPerConsumer' /\ ServingIsExact' /\ ReadyHasItsChannel'
         /\ /\ consumer_read' \in [Consumers -> Addresses \union {None}]
            /\ consumer_write' \in [Consumers -> Stores \union {None}]
            => ControllerTypeOK'
<1>1. /\ \A j \in Consumers : consumer_answer'[j] = None /\ ~consumer_ack'[j]
      /\ \A i \in Channels : /\ mem_read'[i] = None /\ mem_write'[i] = None
                             /\ controller_state'[i] = "IDLE"
      /\ channel_serving_consumer' = {}
  BY DEF ControllerReset
<1>2. Busy' = {}
  BY <1>1 DEF Busy
<1>3. OneChannelPerConsumer' /\ ServingIsExact' /\ ReadyHasItsChannel'
  BY <1>1, <1>2 DEF OneChannelPerConsumer, ServingIsExact, ReadyHasItsChannel
<1>4. 0 \in Consumers
  BY ControllerAssumption DEF Consumers
<1> QED
  BY <1>1, <1>3, <1>4 DEF ControllerReset, ControllerTypeOK, ControllerStates

-----------------------------------------------------------------------------
(* Constants, and what is read in a state.                                 *)

\* A unit belongs to a core.
LEMMA UnitsBelongToCores == \A l \in Lsus : CoreOf(l) \in Cores
<1> SUFFICES ASSUME NEW l \in Lsus PROVE CoreOf(l) \in Cores
  OBVIOUS
<1> DEFINE L == LSUS_PER_CORE
           q == l \div L
           r == l % L
<1>1. L \in Nat \ {0} /\ NUM_CORES \in Nat /\ l \in Nat /\ l < NUM_CORES * L
  BY SystemAssumption, ControllerAssumption DEF Lsus, Consumers
<1>2. q \in Nat /\ r \in Nat /\ l = L * q + r
  <2> HIDE DEF L
  <2>1. q \in Nat /\ r \in 0 .. L - 1 /\ l = L * q + r
    BY <1>1, Division
  <2> HIDE DEF q, r
  <2> QED
    BY <1>1, <2>1
<1> HIDE DEF L, q, r
<1>3. q < NUM_CORES
  <2> SUFFICES ASSUME q >= NUM_CORES PROVE FALSE
    BY <1>1, <1>2
  <2>1. PICK d \in Nat : q = NUM_CORES + d
    <3>1. q - NUM_CORES \in Nat /\ q = NUM_CORES + (q - NUM_CORES)
      BY <1>1, <1>2
    <3> QED
      BY <3>1
  <2>2. L * q = NUM_CORES * L + L * d /\ L * d \in Nat
    BY <1>1, <2>1
  <2> QED
    BY <1>1, <1>2, <2>2
<1> QED
  BY <1>2, <1>3, <1>1 DEF CoreOf, Cores, L, q

\* A unit does not load and store at once, and does nothing when its warp has
\* no memory instruction.
LEMMA EnabledForOneThing ==
  ASSUME NEW l \in Lsus
  PROVE  /\ ~(Enabled(l, "load") /\ Enabled(l, "store"))
         /\ instruction[CoreOf(l)] = NoOp => ~Active(l)
BY DEF Enabled, Active, NoOp

\* What memory holds after the writes of an edge is what it held, or the data
\* of a write to that address which it answers.
LEMMA MemoryAfterIsWritten ==
  ASSUME TypeOK, NEW answered \in SUBSET Asked, NEW a \in Addresses
  PROVE  /\ Writers(answered, a) = {} => MemoryAfter(answered, a) = memory[a]
         /\ Writers(answered, a) # {} =>
              \E i \in Writers(answered, a) : MemoryAfter(answered, a) = mem_write[i].data
         /\ MemoryAfter(answered, a) \in Values
<1> DEFINE W == Writers(answered, a)
<1>1. W \in SUBSET (0 .. NUM_CHANNELS - 1)
  BY DEF Writers, Asked, Channels
<1> NUM_CHANNELS - 1 \in Nat
  BY ControllerAssumption
<1>2. W # {} => \E i \in W : \A k \in W : k <= i
  <2> HIDE DEF W
  <2> QED
    BY <1>1, GreatestElement
<1>3. W # {} => \E i \in W : MemoryAfter(answered, a) = mem_write[i].data
  BY <1>2 DEF MemoryAfter
<1>4. \A i \in W : mem_write[i].data \in Values
  <2> SUFFICES ASSUME NEW i \in W PROVE mem_write[i].data \in Values
    OBVIOUS
  <2>1. i \in Channels /\ mem_write[i] # None
    BY DEF Writers, Asked
  <2>2. mem_write[i] \in Stores
    BY <2>1 DEF TypeOK, ControllerTypeOK
  <2> QED
    BY <2>2 DEF Stores
<1>5. W = {} => MemoryAfter(answered, a) = memory[a]
  BY DEF MemoryAfter
<1>6. memory[a] \in Values
  BY DEF TypeOK
<1> QED
  BY <1>3, <1>4, <1>5, <1>6

\* Memory has data for a channel that reads.
LEMMA ReadersGetData ==
  ASSUME TypeOK, NEW answered \in SUBSET Asked, NEW i \in answered,
         controller_state[i] = "READ_WAITING"
  PROVE  /\ mem_read[i] \in Addresses
         /\ ReadData(answered)[i] = MemoryAfter(answered, mem_read[i])
         /\ ReadData(answered)[i] \in Values
<1>1. i \in Channels
  BY DEF Asked
<1>2. mem_read[i] # None /\ mem_read[i] \in Addresses
  BY <1>1 DEF TypeOK, ControllerTypeOK
<1>3. ReadData(answered)[i] = MemoryAfter(answered, mem_read[i])
  BY <1>1, <1>2 DEF ReadData
<1> QED
  BY <1>2, <1>3, MemoryAfterIsWritten

-----------------------------------------------------------------------------
(* Types.                                                                  *)

\* An edge keeps the types of everything but the controller and the reset.
LEMMA DatapathKeepsTypes ==
  ASSUME TypeOK, NEW answered \in SUBSET Asked, DatapathClock(answered)
  PROVE  /\ instruction' \in [Cores -> Instructions \union {NoOp}]
         /\ warp_state' \in [Cores -> WarpStates]
         /\ lsu_state' \in [Lsus -> LsuStates]
         /\ lsu_out' \in [Lsus -> Values \union {None}]
         /\ lsu_read' \in [Lsus -> Addresses \union {None}]
         /\ lsu_write' \in [Lsus -> Stores \union {None}]
         /\ lsu_answer' \in [Lsus -> Values \union {None}]
         /\ lsu_ack' \in [Lsus -> BOOLEAN]
         /\ consumer_read' \in [Lsus -> Addresses \union {None}]
         /\ consumer_write' \in [Lsus -> Stores \union {None}]
         /\ memory' \in [Addresses -> Values]
<1>1. memory' \in [Addresses -> Values]
  BY MemoryAfterIsWritten DEF DatapathClock
<1>2. /\ lsu_answer' \in [Lsus -> Values \union {None}]
      /\ lsu_ack' \in [Lsus -> BOOLEAN]
      /\ consumer_read' \in [Lsus -> Addresses \union {None}]
      /\ consumer_write' \in [Lsus -> Stores \union {None}]
  BY DEF DatapathClock, PipelineClock, TypeOK, ControllerTypeOK, Lsus
<1>3. CASE core_reset /\ LsusReset /\ CoresReset
  BY <1>1, <1>2, <1>3 DEF LsusReset, CoresReset, WarpStates, LsuStates
<1>4. ASSUME NEW operands \in [Requesting -> Stores], LsusClock(operands),
             NEW begins \in [Deciding -> Instructions \union {NoOp}], CoresClock(begins)
      PROVE  /\ instruction' \in [Cores -> Instructions \union {NoOp}]
             /\ warp_state' \in [Cores -> WarpStates]
             /\ lsu_state' \in [Lsus -> LsuStates]
             /\ lsu_out' \in [Lsus -> Values \union {None}]
             /\ lsu_read' \in [Lsus -> Addresses \union {None}]
             /\ lsu_write' \in [Lsus -> Stores \union {None}]
  <2>1. warp_state' \in [Cores -> WarpStates]
    <3>1. ASSUME NEW k \in Cores PROVE warp_state'[k] \in WarpStates
      <4>1. warp_state[k] \in WarpStates
        BY DEF TypeOK
      <4> QED
        BY <1>4, <4>1 DEF CoresClock, WarpStates
    <3> QED
      BY <1>4, <3>1 DEF CoresClock
  <2>2. instruction' \in [Cores -> Instructions \union {NoOp}]
    <3>1. ASSUME NEW k \in Cores PROVE instruction'[k] \in Instructions \union {NoOp}
      <4>1. /\ warp_state[k] \in WarpStates
            /\ instruction[k] \in Instructions \union {NoOp}
        BY DEF TypeOK
      <4>2. warp_state[k] = "OTHER" => begins[k] \in Instructions \union {NoOp}
        BY <1>4 DEF Deciding
      <4> HIDE DEF Instructions, NoOp
      <4> QED
        BY <1>4, <4>1, <4>2 DEF CoresClock, WarpStates
    <3> QED
      BY <1>4, <3>1 DEF CoresClock
  <2>3. ASSUME NEW l \in Lsus
        PROVE  /\ lsu_state'[l] \in LsuStates
               /\ lsu_out'[l] \in Values \union {None}
               /\ lsu_read'[l] \in Addresses \union {None}
               /\ lsu_write'[l] \in Stores \union {None}
    <3>1. /\ lsu_state[l] \in LsuStates
          /\ lsu_out[l] \in Values \union {None}
          /\ lsu_read[l] \in Addresses \union {None}
          /\ lsu_write[l] \in Stores \union {None}
          /\ lsu_answer[l] \in Values \union {None}
      BY DEF TypeOK
    <3>2. l \in Requesting => operands[l] \in Stores /\ operands[l].addr \in Addresses
      BY <1>4 DEF Stores
    <3>3. lsu_state'[l] = LsuStateAfter(l)
      BY <1>4 DEF LsusClock
    <3>4. lsu_state'[l] \in LsuStates
      BY <3>1, <3>3 DEF LsuStateAfter, LsuStates
    <3> QED
      BY <1>4, <3>1, <3>2, <3>4 DEF LsusClock
  <2>4. /\ lsu_state' \in [Lsus -> LsuStates]
        /\ lsu_out' \in [Lsus -> Values \union {None}]
        /\ lsu_read' \in [Lsus -> Addresses \union {None}]
        /\ lsu_write' \in [Lsus -> Stores \union {None}]
    BY <1>4, <2>3 DEF LsusClock
  <2> QED
    BY <2>1, <2>2, <2>4
<1>5. QED
  BY <1>1, <1>2, <1>3, <1>4 DEF DatapathClock

-----------------------------------------------------------------------------
(* The units and their cores.  None of this depends on the controller.     *)

\* One edge of a unit and its core that are not in reset.
LEMMA UnitStep ==
  ASSUME TypeOK, UnitsFollowTheCore,
         NEW operands \in [Requesting -> Stores], LsusClock(operands),
         NEW begins \in [Deciding -> Instructions \union {NoOp}], CoresClock(begins),
         NEW l \in Lsus
  PROVE  UnitFollows(l)'
<1> DEFINE k == CoreOf(l)
           warp == warp_state[k]
<1>0. k \in Cores
  BY UnitsBelongToCores
<1>1. /\ UnitFollows(l)
      /\ instruction[k] = NoOp <=> warp = "OTHER"
      /\ warp \in WarpStates /\ lsu_state[l] \in LsuStates
  BY <1>0 DEF UnitsFollowTheCore, TypeOK
<1>2. /\ ~(Enabled(l, "load") /\ Enabled(l, "store"))
      /\ warp = "OTHER" => ~Enabled(l, "load") /\ ~Enabled(l, "store")
  BY <1>1, EnabledForOneThing DEF Active
<1>3. /\ lsu_state'[l] = LsuStateAfter(l)
      /\ lsu_read'[l] = IF l \in Requesting /\ Enabled(l, "load") THEN operands[l].addr
                        ELSE IF l \in Receiving THEN None ELSE lsu_read[l]
      /\ lsu_write'[l] = IF l \in Requesting /\ Enabled(l, "store") THEN operands[l]
                         ELSE IF l \in Receiving THEN None ELSE lsu_write[l]
      /\ lsu_out'[l] = IF l \in Receiving /\ Enabled(l, "load") THEN lsu_answer[l]
                       ELSE IF LsuStateAfter(l) = "LSU_DONE" THEN lsu_out[l] ELSE None
  BY DEF LsusClock
<1>4. l \in Requesting => /\ operands[l].addr # None /\ operands[l] # None
  BY ControllerAssumption DEF Stores
<1>5. /\ l \in Requesting <=> Active(l) /\ lsu_state[l] = "LSU_REQUESTING"
      /\ l \in Receiving <=> Active(l) /\ lsu_state[l] = "LSU_WAITING" /\ Answered(l)
  BY DEF Requesting, Receiving
<1>6. warp = "WAIT" /\ LsusIdle(k) => lsu_state[l] \notin {"LSU_REQUESTING", "LSU_WAITING"}
  BY DEF LsusIdle, LsusOf
<1>7. warp_state'[k] = CASE warp = "OTHER"   -> IF begins[k] = NoOp THEN "OTHER" ELSE "REQUEST"
                         [] warp = "REQUEST" -> "WAIT"
                         [] warp = "WAIT"    -> IF LsusIdle(k) THEN "EXECUTE" ELSE "WAIT"
                         [] warp = "EXECUTE" -> "UPDATE"
                         [] warp = "UPDATE"  -> "OTHER"
  BY <1>0 DEF CoresClock
<1>8. warp \in {"REQUEST", "WAIT", "EXECUTE"} => instruction'[k] = instruction[k]
  BY <1>0 DEF CoresClock
<1>9. warp \in {"REQUEST", "WAIT", "EXECUTE"} =>
        /\ Enabled(l, "load")' <=> Enabled(l, "load")
        /\ Enabled(l, "store")' <=> Enabled(l, "store")
  BY <1>8 DEF Enabled
<1> USE DEF UnitFollows, Active
<1> HIDE DEF k, warp
<1> USE DEF WarpStates, LsuStates, LsuStateAfter
<1>10. CASE warp \in {"OTHER", "UPDATE"}
  <2>1. LsuStateAfter(l) = "LSU_IDLE"
    BY <1>1, <1>2, <1>10 DEF k, warp
  <2>2. warp_state'[k] \in {"OTHER", "REQUEST"}
    BY <1>7, <1>10
  <2>3. /\ lsu_read'[l] = None /\ lsu_write'[l] = None /\ lsu_out'[l] = None
    BY <1>1, <1>2, <1>3, <1>5, <1>10, <2>1 DEF k, warp
  <2> QED
    BY <1>3, <2>1, <2>2, <2>3 DEF k
<1>11. CASE warp = "REQUEST"
  <2>1. lsu_state[l] = "LSU_IDLE" /\ warp_state'[k] = "WAIT"
    BY <1>1, <1>7, <1>11 DEF k, warp
  <2> QED
    BY <1>1, <1>2, <1>3, <1>5, <1>9, <1>11, <2>1 DEF k, warp
<1>12. CASE warp = "WAIT"
  <2>1. CASE lsu_state[l] = "LSU_IDLE"
    BY <1>1, <1>2, <1>3, <1>5, <1>7, <1>9, <1>12, <2>1 DEF k, warp
  <2>2. CASE lsu_state[l] = "LSU_REQUESTING"
    BY <1>1, <1>2, <1>3, <1>4, <1>5, <1>6, <1>7, <1>9, <1>12, <2>2 DEF k, warp
  <2>3. CASE lsu_state[l] = "LSU_WAITING"
    <3>1. warp_state'[k] = "WAIT"
      BY <1>6, <1>7, <1>12, <2>3
    <3>2. CASE Answered(l)
      BY <1>1, <1>2, <1>3, <1>5, <1>9, <1>12, <2>3, <3>1, <3>2 DEF k, warp
    <3>3. CASE ~Answered(l)
      BY <1>1, <1>2, <1>3, <1>5, <1>9, <1>12, <2>3, <3>1, <3>3 DEF k, warp
    <3> QED
      BY <3>2, <3>3
  <2>4. CASE lsu_state[l] = "LSU_DONE"
    BY <1>1, <1>2, <1>3, <1>5, <1>7, <1>9, <1>12, <2>4 DEF k, warp
  <2> QED
    BY <1>1, <2>1, <2>2, <2>3, <2>4
<1>13. CASE warp = "EXECUTE"
  <2>1. warp_state'[k] = "UPDATE"
    BY <1>7, <1>13
  <2> QED
    BY <1>1, <1>2, <1>3, <1>5, <1>9, <1>13, <2>1 DEF k, warp
<1> QED
  BY <1>1, <1>10, <1>11, <1>12, <1>13

\* One edge of a core that is not in reset.
LEMMA CoreStep ==
  ASSUME TypeOK, UnitsFollowTheCore,
         NEW begins \in [Deciding -> Instructions \union {NoOp}], CoresClock(begins),
         NEW k \in Cores
  PROVE  instruction'[k] = NoOp <=> warp_state'[k] = "OTHER"
<1>1. /\ instruction[k] = NoOp <=> warp_state[k] = "OTHER"
      /\ warp_state[k] \in WarpStates
  BY DEF UnitsFollowTheCore, TypeOK
<1> HIDE DEF NoOp
<1> QED
  BY <1>1 DEF CoresClock, WarpStates

\* A reset of the cores.
LEMMA CoresResetEmpties ==
  ASSUME LsusReset, CoresReset
  PROVE  /\ \A k \in Cores : instruction'[k] = NoOp /\ warp_state'[k] = "OTHER"
         /\ \A l \in Lsus : /\ UnitFollows(l)' /\ lsu_state'[l] = "LSU_IDLE"
                            /\ lsu_read'[l] = None /\ lsu_write'[l] = None
                            /\ lsu_out'[l] = None
<1>1. /\ \A k \in Cores : instruction'[k] = NoOp /\ warp_state'[k] = "OTHER"
      /\ \A l \in Lsus : /\ lsu_state'[l] = "LSU_IDLE" /\ lsu_read'[l] = None
                         /\ lsu_write'[l] = None /\ lsu_out'[l] = None
  BY DEF LsusReset, CoresReset
<1>2. ASSUME NEW l \in Lsus PROVE UnitFollows(l)'
  <2>1. CoreOf(l) \in Cores
    BY UnitsBelongToCores
  <2>2. warp_state'[CoreOf(l)] = "OTHER"
    BY <1>1, <2>1
  <2> QED
    BY <1>1, <2>2 DEF UnitFollows
<1> QED
  BY <1>1, <1>2

\* What the reset registers do at an edge.
LEMMA ResetRegisters ==
  ASSUME TypeOK, NEW answered, Clock(answered) \/ Reset(answered)
  PROVE  /\ reset_held' \in 0 .. RESET_EDGES /\ core_reset' \in BOOLEAN
         /\ \/ Clock(answered) /\ reset_held' = 0 /\ (core_reset' => core_reset)
            \/ /\ Reset(answered) /\ core_reset' /\ reset_held' # 0
               /\ reset_held' # 1 => reset_held # 0
               /\ reset_held' >= 2 => reset_held >= 1
               /\ reset_held' >= 3 => reset_held >= 2
<1>1. RESET_EDGES \in Nat \ {0} /\ reset_held \in 0 .. RESET_EDGES /\ core_reset \in BOOLEAN
  BY SystemAssumption DEF TypeOK
<1>2. CASE Clock(answered)
  <2>1. reset_held' = 0 /\ core_reset' \in {FALSE, core_reset}
    BY <1>2 DEF Clock
  <2>2. core_reset' \in BOOLEAN /\ (core_reset' => core_reset)
    <3>1. CASE core_reset' = FALSE
      BY <3>1
    <3>2. CASE core_reset' = core_reset
      BY <1>1, <3>2
    <3> QED
      BY <2>1, <3>1, <3>2
  <2>3. reset_held' \in 0 .. RESET_EDGES
    BY <1>1, <2>1
  <2> QED
    BY <1>2, <2>1, <2>2, <2>3
<1>3. CASE Reset(answered)
  <2>1. /\ reset_held' = IF reset_held = RESET_EDGES THEN RESET_EDGES ELSE reset_held + 1
        /\ core_reset' = TRUE
    BY <1>3 DEF Reset
  <2>2. /\ reset_held' \in 0 .. RESET_EDGES /\ reset_held' # 0
        /\ reset_held' # 1 => reset_held # 0
        /\ reset_held' >= 2 => reset_held >= 1
        /\ reset_held' >= 3 => reset_held >= 2
    BY <1>1, <2>1
  <2> QED
    BY <1>3, <2>1, <2>2
<1> QED
  BY <1>2, <1>3

\* No edge, and no reset, leaves a unit in the middle of an instruction its
\* warp is not executing.
LEMMA UnitsKeepFollowing ==
  ASSUME TypeOK, UnitsFollowTheCore, NEW answered, Clock(answered) \/ Reset(answered)
  PROVE  UnitsFollowTheCore'
<1>0. DatapathClock(answered)
  BY DEF Clock, Reset
<1>1. CASE core_reset /\ LsusReset /\ CoresReset
  BY <1>1, CoresResetEmpties, ResetRegisters DEF UnitsFollowTheCore
<1>2. CASE /\ ~core_reset
           /\ \E operands \in [Requesting -> Stores] : LsusClock(operands)
           /\ \E begins \in [Deciding -> Instructions \union {NoOp}] : CoresClock(begins)
  <2>1. PICK operands \in [Requesting -> Stores] : LsusClock(operands)
    BY <1>2
  <2>2. PICK begins \in [Deciding -> Instructions \union {NoOp}] : CoresClock(begins)
    BY <1>2
  <2>3. \A l \in Lsus : UnitFollows(l)'
    BY <2>1, <2>2, UnitStep
  <2>4. \A k \in Cores : instruction'[k] = NoOp <=> warp_state'[k] = "OTHER"
    BY <2>2, CoreStep
  <2>5. reset_held = 0
    BY <1>2 DEF UnitsFollowTheCore
  <2>6. (reset_held # 0 => core_reset)' /\ ~(core_reset' /\ reset_held' # 1)
    BY <1>2, <2>5, ResetRegisters
  <2> QED
    BY <2>3, <2>4, <2>6 DEF UnitsFollowTheCore
<1> QED
  BY <1>0, <1>1, <1>2 DEF DatapathClock

-----------------------------------------------------------------------------
(* What holds however short a reset is.                                    *)

\* What the system starts with.
LEMMA InitHasInvariant ==
  Init => ControlInvariant
<1> SUFFICES ASSUME Init PROVE ControlInvariant
  OBVIOUS
<1> USE DEF Init, ControllerInit
<1>1. 0 \in Consumers /\ RESET_EDGES \in Nat /\ 0 \in Values
  BY ControllerAssumption, SystemAssumption DEF Consumers
<1>2. TypeOK
  <2>1. ControllerTypeOK
    BY <1>1 DEF ControllerTypeOK, ControllerStates, Lsus
  <2>2. instruction \in [Cores -> Instructions \union {NoOp}]
    <3> HIDE DEF NoOp, Instructions
    <3> QED
      OBVIOUS
  <2>3. /\ warp_state \in [Cores -> WarpStates]
        /\ lsu_state \in [Lsus -> LsuStates]
    BY DEF WarpStates, LsuStates
  <2>4. /\ lsu_out \in [Lsus -> Values \union {None}]
        /\ lsu_read \in [Lsus -> Addresses \union {None}]
        /\ lsu_write \in [Lsus -> Stores \union {None}]
        /\ lsu_answer \in [Lsus -> Values \union {None}]
        /\ lsu_ack \in [Lsus -> BOOLEAN]
    <3> HIDE DEF Stores
    <3> QED
      OBVIOUS
  <2>5. /\ memory \in [Addresses -> Values]
        /\ reset_held \in 0 .. RESET_EDGES
    <3>1. memory \in [Addresses -> Values]
      BY <1>1
    <3>2. reset_held \in 0 .. RESET_EDGES
      BY <1>1
    <3> QED
      BY <3>1, <3>2
  <2>6. core_reset \in BOOLEAN
    OBVIOUS
  <2> QED
    BY <2>1, <2>2, <2>3, <2>4, <2>5, <2>6 DEF TypeOK
<1>3. Busy = {}
  BY DEF Busy
<1>4. OneChannelPerConsumer /\ ServingIsExact /\ ReadyHasItsChannel
  BY <1>3 DEF OneChannelPerConsumer, ServingIsExact, ReadyHasItsChannel, Lsus
<1>5. UnitsFollowTheCore
  <2>1. \A l \in Lsus : warp_state[CoreOf(l)] = "OTHER"
    BY UnitsBelongToCores
  <2> QED
    BY <2>1 DEF UnitsFollowTheCore, UnitFollows
<1> QED
  BY <1>2, <1>4, <1>5 DEF ControlInvariant

\* Every edge of the clock, with or without reset, keeps it.
LEMMA EdgeKeepsInvariant ==
  ASSUME ControlInvariant, NEW answered \in SUBSET Asked, Clock(answered) \/ Reset(answered)
  PROVE  ControlInvariant'
<1> USE DEF ControlInvariant
<1>1. UnitsFollowTheCore'
  BY UnitsKeepFollowing
<1>2. DatapathClock(answered)
  BY DEF Clock, Reset
<1>3. answered \in SUBSET Channels /\ ControllerTypeOK
  BY DEF Asked, TypeOK
<1>4. /\ consumer_read' \in [Consumers -> Addresses \union {None}]
      /\ consumer_write' \in [Consumers -> Stores \union {None}]
  BY <1>2, DatapathKeepsTypes DEF Lsus
<1>5. CASE Clock(answered)
  <2>1. ControllerClock(answered, ReadData(answered))
    BY <1>5 DEF Clock
  <2>2. ControllerTypeOK'
    <3>1. \A i \in answered :
             controller_state[i] = "READ_WAITING" => ReadData(answered)[i] \in Values
      BY ReadersGetData
    <3> QED
      BY <1>3, <1>4, <2>1, <3>1, ClockKeepsControllerTypes
  <2>3. OneChannelPerConsumer' /\ ServingIsExact'
    BY <1>3, <2>1, ClockServesExactly
  <2>4. ReadyHasItsChannel'
    BY <1>3, <2>1, ClockKeepsReady
  <2> QED
    BY <1>1, <1>2, <2>2, <2>3, <2>4, DatapathKeepsTypes, ResetRegisters DEF TypeOK
<1>6. CASE Reset(answered)
  <2>1. ControllerReset
    BY <1>6 DEF Reset
  <2>2. ControllerTypeOK' /\ OneChannelPerConsumer' /\ ServingIsExact' /\ ReadyHasItsChannel'
    BY <1>4, <2>1, ResetEmptiesController
  <2> QED
    BY <1>1, <1>2, <2>2, DatapathKeepsTypes, ResetRegisters DEF TypeOK
<1> QED
  BY <1>5, <1>6

\* Nothing changes when nothing happens.
LEMMA StutterKeepsInvariant ==
  ASSUME ControlInvariant, UNCHANGED vars
  PROVE  ControlInvariant'
<1> USE DEF vars, coreVars, lsuVars, consumerVars, controllerVars
<1>1. TypeOK'
  BY DEF ControlInvariant, TypeOK, ControllerTypeOK
<1>2. OneChannelPerConsumer' /\ ServingIsExact' /\ ReadyHasItsChannel'
  BY DEF ControlInvariant, OneChannelPerConsumer, ServingIsExact, ReadyHasItsChannel, Busy
<1>3. UnitsFollowTheCore'
  BY DEF ControlInvariant, UnitsFollowTheCore, UnitFollows, Active, Enabled
<1> QED
  BY <1>1, <1>2, <1>3 DEF ControlInvariant

\* The control of the data memory is right, however short a reset may be.
THEOREM ControlIsRight == Spec => []ControlInvariant
<1>1. ASSUME ControlInvariant, [Next]_vars PROVE ControlInvariant'
  BY <1>1, EdgeKeepsInvariant, StutterKeepsInvariant DEF Next
<1> QED
  BY <1>1, InitHasInvariant, PTL DEF Spec

\* Types, and that a channel has a request out exactly while it waits for it.
THEOREM TypeCorrect == Spec => []TypeOK
<1>1. ControlInvariant => TypeOK
  BY DEF ControlInvariant
<1> QED
  BY <1>1, ControlIsRight, PTL

\* mem_controller.sv 43: no two channels serve one consumer.
THEOREM OneChannelEach == Spec => []OneChannelPerConsumer
<1>1. ControlInvariant => OneChannelPerConsumer
  BY DEF ControlInvariant
<1> QED
  BY <1>1, ControlIsRight, PTL

\* channel_serving_consumer is exactly the set of the consumers being served:
\* nobody is locked out of memory by a bit left set.
THEOREM ServingSetIsExact == Spec => []ServingIsExact
<1>1. ControlInvariant => ServingIsExact
  BY DEF ControlInvariant
<1> QED
  BY <1>1, ControlIsRight, PTL

\* No answer is left on a ready line for a later request.
THEOREM NoStaleReady == Spec => []ReadyHasItsChannel
<1>1. ControlInvariant => ReadyHasItsChannel
  BY DEF ControlInvariant
<1> QED
  BY <1>1, ControlIsRight, PTL

\* compute_core.sv 238: a warp executes only when every unit its instruction
\* enabled has its answer.
THEOREM ExecutesAfterAnswers == Spec => []ExecuteAfterAnswers
<1>1. ControlInvariant => ExecuteAfterAnswers
  <2> SUFFICES ASSUME ControlInvariant, NEW k \in Cores,
                      warp_state[k] \in {"EXECUTE", "UPDATE"}, NEW l \in LsusOf(k)
               PROVE  lsu_state[l] = IF Active(l) THEN "LSU_DONE" ELSE "LSU_IDLE"
    BY DEF ExecuteAfterAnswers
  <2>1. l \in Lsus /\ CoreOf(l) = k
    BY DEF LsusOf
  <2> QED
    BY <2>1 DEF ControlInvariant, UnitsFollowTheCore, UnitFollows
<1> QED
  BY <1>1, ControlIsRight, PTL

-----------------------------------------------------------------------------
(* One edge of a unit, by the state it is in.                              *)

\* What a unit does at an edge at which it is not reset.
LEMMA UnitMoves ==
  ASSUME ControlInvariant, NEW answered, DatapathClock(answered), ~core_reset, NEW l \in Lsus
  PROVE  /\ lsu_state[l] = "LSU_IDLE" => lsu_state'[l] \in {"LSU_IDLE", "LSU_REQUESTING"}
         /\ lsu_state[l] = "LSU_REQUESTING" =>
              /\ lsu_state'[l] = "LSU_WAITING"
              /\ \/ lsu_read'[l] \in Addresses /\ lsu_write'[l] = None
                 \/ lsu_write'[l] \in Stores /\ lsu_read'[l] = None
         /\ lsu_state[l] = "LSU_WAITING" /\ ~Answered(l) =>
              /\ lsu_state'[l] = "LSU_WAITING"
              /\ lsu_read'[l] = lsu_read[l] /\ lsu_write'[l] = lsu_write[l]
         /\ lsu_state[l] = "LSU_WAITING" /\ Answered(l) =>
              /\ lsu_state'[l] = "LSU_DONE" /\ warp_state'[CoreOf(l)] = "WAIT"
              /\ lsu_read'[l] = None /\ lsu_write'[l] = None
              /\ lsu_out'[l] = IF lsu_read[l] # None THEN lsu_answer[l] ELSE None
         /\ lsu_state[l] = "LSU_DONE" =>
              \/ /\ warp_state[CoreOf(l)] = "WAIT" /\ lsu_state'[l] = "LSU_DONE"
                 /\ warp_state'[CoreOf(l)] \in {"WAIT", "EXECUTE"}
                 /\ lsu_out'[l] = lsu_out[l]
              \/ /\ warp_state[CoreOf(l)] = "EXECUTE" /\ lsu_state'[l] = "LSU_DONE"
                 /\ warp_state'[CoreOf(l)] = "UPDATE"
                 /\ lsu_out'[l] = lsu_out[l]
              \/ warp_state[CoreOf(l)] = "UPDATE" /\ lsu_state'[l] = "LSU_IDLE"
<1> DEFINE k == CoreOf(l)
           warp == warp_state[k]
<1>0. k \in Cores
  BY UnitsBelongToCores
<1>1. PICK operands \in [Requesting -> Stores] : LsusClock(operands)
  BY DEF DatapathClock
<1>2. PICK begins \in [Deciding -> Instructions \union {NoOp}] : CoresClock(begins)
  BY DEF DatapathClock
<1>3. /\ UnitFollows(l) /\ warp \in WarpStates /\ lsu_state[l] \in LsuStates
  BY <1>0 DEF ControlInvariant, UnitsFollowTheCore, TypeOK
<1>4. ~(Enabled(l, "load") /\ Enabled(l, "store"))
  BY EnabledForOneThing
<1>5. /\ lsu_state'[l] = LsuStateAfter(l)
      /\ lsu_read'[l] = IF l \in Requesting /\ Enabled(l, "load") THEN operands[l].addr
                        ELSE IF l \in Receiving THEN None ELSE lsu_read[l]
      /\ lsu_write'[l] = IF l \in Requesting /\ Enabled(l, "store") THEN operands[l]
                         ELSE IF l \in Receiving THEN None ELSE lsu_write[l]
      /\ lsu_out'[l] = IF l \in Receiving /\ Enabled(l, "load") THEN lsu_answer[l]
                       ELSE IF LsuStateAfter(l) = "LSU_DONE" THEN lsu_out[l] ELSE None
  BY <1>1 DEF LsusClock
<1>6. l \in Requesting => operands[l] \in Stores /\ operands[l].addr \in Addresses
  BY <1>1 DEF Stores
<1>7. /\ l \in Requesting <=> Active(l) /\ lsu_state[l] = "LSU_REQUESTING"
      /\ l \in Receiving <=> Active(l) /\ lsu_state[l] = "LSU_WAITING" /\ Answered(l)
  BY DEF Requesting, Receiving
<1>8. lsu_state[l] \in {"LSU_REQUESTING", "LSU_WAITING"} => ~LsusIdle(k)
  BY DEF LsusIdle, LsusOf
<1>9. warp_state'[k] = CASE warp = "OTHER"   -> IF begins[k] = NoOp THEN "OTHER" ELSE "REQUEST"
                         [] warp = "REQUEST" -> "WAIT"
                         [] warp = "WAIT"    -> IF LsusIdle(k) THEN "EXECUTE" ELSE "WAIT"
                         [] warp = "EXECUTE" -> "UPDATE"
                         [] warp = "UPDATE"  -> "OTHER"
  BY <1>0, <1>2 DEF CoresClock
<1> HIDE DEF k, warp
<1> USE DEF UnitFollows, Active, WarpStates, LsuStates, LsuStateAfter
<1>10. CASE lsu_state[l] = "LSU_IDLE"
  BY <1>5, <1>10
<1>11. CASE lsu_state[l] = "LSU_REQUESTING"
  <2>1. lsu_state'[l] = "LSU_WAITING" /\ l \in Requesting /\ l \notin Receiving
    BY <1>3, <1>5, <1>7, <1>11
  <2>2. lsu_read[l] = None /\ lsu_write[l] = None
    BY <1>3, <1>11
  <2> QED
    BY <1>3, <1>4, <1>5, <1>6, <1>11, <2>1, <2>2
<1>12. CASE lsu_state[l] = "LSU_WAITING"
  <2>1. warp_state'[k] = "WAIT" /\ Active(l)
    BY <1>3, <1>8, <1>9, <1>12 DEF k, warp
  <2>2. lsu_out[l] = None
    BY <1>3, <1>12
  <2> QED
    BY <1>3, <1>4, <1>5, <1>7, <1>12, <2>1, <2>2 DEF k
<1>13. CASE lsu_state[l] = "LSU_DONE"
  <2>1. Active(l) /\ warp \in {"WAIT", "EXECUTE", "UPDATE"}
    BY <1>3, <1>13 DEF k, warp
  <2>2. l \notin Receiving
    BY <1>7, <1>13
  <2> QED
    BY <1>5, <1>9, <1>13, <2>1, <2>2 DEF k, warp
<1> QED
  BY <1>3, <1>10, <1>11, <1>12, <1>13

\* The ports of a unit that does not wait are empty.
LEMMA PortsOfUnits ==
  ASSUME ControlInvariant, NEW l \in Lsus
  PROVE  /\ lsu_state[l] \in LsuStates
         /\ lsu_state[l] # "LSU_WAITING" => lsu_read[l] = None /\ lsu_write[l] = None
         /\ lsu_state[l] = "LSU_WAITING" =>
              \/ /\ lsu_read[l] \in Addresses /\ lsu_read[l] # None /\ lsu_write[l] = None
                 /\ Answered(l) <=> lsu_answer[l] # None
              \/ /\ lsu_write[l] \in Stores /\ lsu_write[l] # None /\ lsu_read[l] = None
                 /\ Answered(l) <=> lsu_ack[l]
<1>1. /\ UnitFollows(l) /\ lsu_state[l] \in LsuStates
      /\ lsu_read[l] \in Addresses \union {None}
      /\ lsu_write[l] \in Stores \union {None}
  BY DEF ControlInvariant, UnitsFollowTheCore, TypeOK
<1>2. ~(Enabled(l, "load") /\ Enabled(l, "store"))
  BY EnabledForOneThing
<1> QED
  BY <1>1, <1>2 DEF UnitFollows, Answered, Active

\* While nothing is reset, requests are on their way.
LEMMA OnTheirWay ==
  ASSUME MemoryInvariant, RESET_EDGES >= 3, reset_held \in {0, RESET_EDGES}
  PROVE  RequestsOnTheirWay
<1>1. CASE reset_held = 0
  BY <1>1 DEF MemoryInvariant, RequestsOnTheirWay
<1>2. CASE reset_held = RESET_EDGES
  <2>0. reset_held >= 1 /\ reset_held >= 2 /\ reset_held >= 3 /\ reset_held # 0 /\ reset_held # 1
    BY <1>2, SystemAssumption
  <2>1. \A l \in Lsus : lsu_state[l] = "LSU_IDLE"
    BY <2>0 DEF MemoryInvariant, ControlInvariant, UnitsFollowTheCore
  <2>2. /\ channel_serving_consumer = {}
        /\ \A i \in Channels : controller_state[i] = "IDLE"
        /\ \A l \in Lsus : /\ lsu_answer[l] = None /\ ~lsu_ack[l]
                           /\ consumer_read[l] = None /\ consumer_write[l] = None
    BY <2>0 DEF MemoryInvariant, ResetEmpties
  <2>3. \A l \in Lsus : consumer_answer[l] = None /\ ~consumer_ack[l]
    BY <2>2 DEF MemoryInvariant, ControlInvariant, ReadyHasItsChannel, Lsus
  <2>4. \A l \in Lsus : RequestOnItsWay(l)
    BY <2>1, <2>2, <2>3 DEF RequestOnItsWay, Settled
  <2>5. \A i \in Channels : ChannelHasTheRequest(i)
    BY <2>2 DEF ChannelHasTheRequest
  <2> QED
    BY <2>4, <2>5 DEF RequestsOnTheirWay
<1> QED
  BY <1>1, <1>2

-----------------------------------------------------------------------------
(* Who is served after an edge.                                            *)

\* A channel busy with a consumer it does not give up still serves it.
LEMMA ServedStayServed ==
  ASSUME ControlInvariant, NEW answered \in SUBSET Asked, Clock(answered),
         NEW i \in Channels, controller_state[i] # "IDLE", ~Acknowledged(i)
  PROVE  /\ current_consumer[i] \in channel_serving_consumer'
         /\ controller_state'[i] # "IDLE" /\ current_consumer'[i] = current_consumer[i]
<1>1. ControllerTypeOK /\ answered \in SUBSET Channels /\ ControllerClock(answered, ReadData(answered))
  BY DEF Clock, ControlInvariant, TypeOK, Asked
<1>2. \/ TakesRequest(i) \/ Releases(i) \/ Keeps(i)
      \/ Relays(i, "READ_WAITING", "READ_RELAYING")
      \/ Relays(i, "WRITE_WAITING", "WRITE_RELAYING")
  BY <1>1, ChannelSteps
<1>3. controller_state'[i] # "IDLE" /\ current_consumer'[i] = current_consumer[i]
  BY <1>2 DEF TakesRequest, Releases, Keeps, Relays
<1>4. ServingIsExact'
  BY EdgeKeepsInvariant DEF ControlInvariant
<1> QED
  BY <1>3, <1>4 DEF ServingIsExact, Busy

\* Who is served after an edge asked, or was served and not given up.
LEMMA ServedAskedOrWereServed ==
  ASSUME ControlInvariant, NEW answered \in SUBSET Asked, Clock(answered),
         NEW l \in channel_serving_consumer'
  PROVE  \/ Asks(l)
         \/ \E i \in Channels : /\ controller_state[i] # "IDLE" /\ current_consumer[i] = l
                                /\ ~Acknowledged(i)
<1>1. ControllerTypeOK /\ answered \in SUBSET Channels /\ ControllerClock(answered, ReadData(answered))
  BY DEF Clock, ControlInvariant, TypeOK, Asked
<1>2. ServingIsExact'
  BY EdgeKeepsInvariant DEF ControlInvariant
<1>3. PICK i \in Channels : controller_state'[i] # "IDLE" /\ current_consumer'[i] = l
  BY <1>2 DEF ServingIsExact, Busy
<1>4. \/ TakesRequest(i) \/ Releases(i) \/ Keeps(i)
      \/ Relays(i, "READ_WAITING", "READ_RELAYING")
      \/ Relays(i, "WRITE_WAITING", "WRITE_RELAYING")
  BY <1>1, ChannelSteps
<1> QED
  BY <1>3, <1>4 DEF TakesRequest, Releases, Keeps, Relays

\* A consumer that lowers its valid line asks for nothing else meanwhile, so a
\* channel takes only a consumer that nobody served before the edge.
LEMMA TakenWereUnserved ==
  ASSUME ControlInvariant, RequestsOnTheirWay, NEW i \in Channels, TakesRequest(i)
  PROVE  Taken(i) \notin channel_serving_consumer
<1> DEFINE l == Taken(i)
<1>1. Asks(l) /\ l \notin ServingSequence[i] /\ l \in Consumers /\ Takes(i)
      /\ controller_state[i] = "IDLE"
  BY DEF TakesRequest
<1> HIDE DEF l
<1> SUFFICES ASSUME l \in channel_serving_consumer PROVE FALSE
  BY DEF l
<1>2. PICK k \in Channels : controller_state[k] # "IDLE" /\ current_consumer[k] = l
  BY DEF ControlInvariant, ServingIsExact, Busy
<1>3. ScanIsExact(i)
  <2>1. i \in 0 .. NUM_CHANNELS
    BY ControllerAssumption DEF Channels
  <2> QED
    BY <2>1, ScanHolds DEF ControlInvariant, TypeOK
<1>4. l \notin Serves(k, i)
  BY <1>1, <1>3 DEF ScanIsExact
<1>5. Acknowledged(k)
  <2>1. ~Takes(k)
    BY <1>2, TakesOrAcknowledges DEF ControlInvariant, TypeOK
  <2> QED
    BY <1>2, <1>4, <2>1 DEF Serves, ServesAfter, ServesBefore
<1>6. consumer_read[l] = None /\ consumer_write[l] = None
  BY <1>2, <1>5 DEF Acknowledged, RequestsOnTheirWay, ChannelHasTheRequest
<1> QED
  BY <1>1, <1>6 DEF Asks

\* The consumer a busy channel serves is marked as served.
LEMMA BusyMeansServed ==
  ASSUME ControlInvariant, NEW i \in Channels, controller_state[i] # "IDLE"
  PROVE  current_consumer[i] \in channel_serving_consumer /\ current_consumer[i] \in Lsus
BY DEF ControlInvariant, ServingIsExact, Busy, TypeOK, ControllerTypeOK, Lsus

-----------------------------------------------------------------------------
(* One edge of the handshake.                                              *)

\* The registers between units and controller, and the controller, at an edge
\* without reset, as a unit sees them.
LEMMA RegistersMove ==
  ASSUME ControlInvariant, NEW answered \in SUBSET Asked, Clock(answered), NEW l \in Lsus
  PROVE  /\ consumer_read'[l] = lsu_read[l] /\ consumer_write'[l] = lsu_write[l]
         /\ lsu_answer'[l] = consumer_answer[l] /\ lsu_ack'[l] = consumer_ack[l]
         /\ l \notin channel_serving_consumer =>
              /\ consumer_answer[l] = None /\ ~consumer_ack[l]
              /\ consumer_answer'[l] = None /\ ~consumer_ack'[l]
         /\ l \notin channel_serving_consumer /\ consumer_read[l] = None /\ consumer_write[l] = None
              => l \notin channel_serving_consumer'
<1>1. ControllerTypeOK /\ answered \in SUBSET Channels /\ ControllerClock(answered, ReadData(answered))
  BY DEF Clock, ControlInvariant, TypeOK, Asked
<1>2. l \in Consumers
  BY DEF Lsus
<1>3. /\ consumer_read'[l] = lsu_read[l] /\ consumer_write'[l] = lsu_write[l]
      /\ lsu_answer'[l] = consumer_answer[l] /\ lsu_ack'[l] = consumer_ack[l]
  BY DEF Clock, DatapathClock, PipelineClock
<1>4. l \notin channel_serving_consumer =>
              /\ consumer_answer[l] = None /\ ~consumer_ack[l]
              /\ consumer_answer'[l] = None /\ ~consumer_ack'[l]
  BY <1>1, <1>2, UnservedGetNoAnswer DEF ControlInvariant
<1>5. ASSUME l \notin channel_serving_consumer, consumer_read[l] = None, consumer_write[l] = None,
             l \in channel_serving_consumer'
      PROVE  FALSE
  <2>1. ~Asks(l)
    BY <1>5 DEF Asks
  <2> QED
    BY <1>5, <2>1, ServedAskedOrWereServed, BusyMeansServed
<1> QED
  BY <1>3, <1>4, <1>5

\* What an edge does to the ready lines of the unit a busy channel serves.
LEMMA BusyChannelAnswers ==
  ASSUME ControlInvariant, NEW answered \in SUBSET Asked, Clock(answered),
         NEW i \in Channels, controller_state[i] # "IDLE"
  PROVE  /\ controller_state[i] = "READ_WAITING" /\ i \in answered
              => consumer_answer'[current_consumer[i]] = ReadData(answered)[i]
         /\ controller_state[i] = "WRITE_WAITING" /\ i \in answered
              => consumer_ack'[current_consumer[i]] = TRUE
         /\ (\/ controller_state[i] = "READ_WAITING" /\ i \notin answered
             \/ controller_state[i] = "READ_RELAYING" /\ ~Acknowledged(i)
             \/ controller_state[i] \in {"WRITE_WAITING", "WRITE_RELAYING"})
              => consumer_answer'[current_consumer[i]] = consumer_answer[current_consumer[i]]
         /\ (\/ controller_state[i] = "WRITE_WAITING" /\ i \notin answered
             \/ controller_state[i] = "WRITE_RELAYING" /\ ~Acknowledged(i)
             \/ controller_state[i] \in {"READ_WAITING", "READ_RELAYING"})
              => consumer_ack'[current_consumer[i]] = consumer_ack[current_consumer[i]]
<1>1. /\ ControllerTypeOK /\ answered \in SUBSET Channels /\ OneChannelPerConsumer
      /\ ControllerClock(answered, ReadData(answered))
  BY DEF Clock, ControlInvariant, TypeOK, Asked
<1> QED
  BY <1>1, ServedGetTheirAnswer

\* A unit with no request of its own in the controller has none afterwards.
LEMMA SettledStaysSettled ==
  ASSUME ControlInvariant, NEW answered \in SUBSET Asked, Clock(answered),
         NEW l \in Lsus, Settled(l), lsu_read[l] = None, lsu_write[l] = None
  PROVE  Settled(l)'
BY RegistersMove DEF Settled

\* The answer of a unit that waits stays until the unit has taken it.
LEMMA AnswerStays ==
  ASSUME ControlInvariant, RequestsOnTheirWay, NEW answered \in SUBSET Asked, Clock(answered),
         NEW l \in Lsus, lsu_state[l] = "LSU_WAITING"
  PROVE  /\ consumer_answer[l] # None =>
              /\ consumer_answer'[l] = consumer_answer[l] /\ ~consumer_ack[l]
              /\ l \in channel_serving_consumer'
              /\ consumer_read[l] = lsu_read[l] /\ lsu_read[l] # None /\ lsu_write[l] = None
         /\ consumer_ack[l] =>
              /\ consumer_ack'[l] /\ consumer_answer[l] = None /\ consumer_answer'[l] = None
              /\ l \in channel_serving_consumer'
              /\ consumer_write[l] = lsu_write[l] /\ lsu_write[l] # None /\ lsu_read[l] = None
<1>1. ControllerTypeOK /\ answered \in SUBSET Channels /\ ControllerClock(answered, ReadData(answered))
  BY DEF Clock, ControlInvariant, TypeOK, Asked
<1>2. RequestOnItsWay(l) /\ l \in Consumers /\ ReadyHasItsChannel
  BY DEF RequestsOnTheirWay, Lsus, ControlInvariant
<1>3. ASSUME consumer_answer[l] # None
      PROVE  /\ consumer_answer'[l] = consumer_answer[l] /\ ~consumer_ack[l]
             /\ l \in channel_serving_consumer'
             /\ consumer_read[l] = lsu_read[l] /\ lsu_read[l] # None /\ lsu_write[l] = None
  <2>1. PICK i \in Channels : controller_state[i] = "READ_RELAYING" /\ current_consumer[i] = l
    BY <1>2, <1>3 DEF ReadyHasItsChannel
  <2>2. l \in channel_serving_consumer
    BY <2>1, BusyMeansServed
  <2>3. consumer_read[l] = lsu_read[l]
    BY <1>2, <2>2 DEF RequestOnItsWay
  <2>4. lsu_read[l] # None /\ ~consumer_ack[l]
    BY <2>1 DEF RequestsOnTheirWay, ChannelHasTheRequest
  <2>5. lsu_write[l] = None
    BY <2>4, PortsOfUnits
  <2>6. ~Acknowledged(i)
    BY <2>1, <2>3, <2>4 DEF Acknowledged
  <2>7. l \in channel_serving_consumer'
    BY <2>1, <2>6, ServedStayServed
  <2>8. consumer_answer'[l] = consumer_answer[l]
    BY <1>1, <2>1, <2>6, ServedGetTheirAnswer DEF ControlInvariant
  <2> QED
    BY <2>3, <2>4, <2>5, <2>7, <2>8
<1>4. ASSUME consumer_ack[l]
      PROVE  /\ consumer_ack'[l] /\ consumer_answer[l] = None /\ consumer_answer'[l] = None
             /\ l \in channel_serving_consumer'
             /\ consumer_write[l] = lsu_write[l] /\ lsu_write[l] # None /\ lsu_read[l] = None
  <2>1. PICK i \in Channels : controller_state[i] = "WRITE_RELAYING" /\ current_consumer[i] = l
    BY <1>2, <1>4 DEF ReadyHasItsChannel
  <2>2. l \in channel_serving_consumer
    BY <2>1, BusyMeansServed
  <2>3. consumer_write[l] = lsu_write[l]
    BY <1>2, <2>2 DEF RequestOnItsWay
  <2>4. lsu_write[l] # None /\ consumer_answer[l] = None
    BY <2>1 DEF RequestsOnTheirWay, ChannelHasTheRequest
  <2>5. lsu_read[l] = None
    BY <2>4, PortsOfUnits
  <2>6. ~Acknowledged(i)
    BY <2>1, <2>3, <2>4 DEF Acknowledged
  <2>7. l \in channel_serving_consumer'
    BY <2>1, <2>6, ServedStayServed
  <2>8. consumer_ack'[l] = consumer_ack[l] /\ consumer_answer'[l] = consumer_answer[l]
    BY <1>1, <2>1, <2>6, ServedGetTheirAnswer DEF ControlInvariant
  <2> QED
    BY <1>4, <2>3, <2>4, <2>5, <2>7, <2>8
<1> QED
  BY <1>3, <1>4

\* The request of a unit after an edge without reset.
LEMMA RequestStaysOnItsWay ==
  ASSUME ControlInvariant, RequestsOnTheirWay, RESET_EDGES >= 3,
         NEW answered \in SUBSET Asked, Clock(answered), NEW l \in Lsus
  PROVE  RequestOnItsWay(l)'
<1>1. RequestOnItsWay(l)
  BY DEF RequestsOnTheirWay
<1>2. DatapathClock(answered)
  BY DEF Clock
<1>3. lsu_state[l] \in LsuStates
  BY PortsOfUnits
<1>4. CASE core_reset
  <2>1. reset_held # 1 => lsu_state[l] = "LSU_IDLE"
    BY <1>4 DEF ControlInvariant, UnitsFollowTheCore
  <2>2. CASE lsu_state[l] = "LSU_IDLE"
    <3>1. Settled(l)'
      BY <1>1, <2>2, SettledStaysSettled, PortsOfUnits DEF RequestOnItsWay
    <3>2. lsu_state'[l] = "LSU_IDLE"
      BY <1>2, <1>4, CoresResetEmpties DEF DatapathClock
    <3> QED
      BY <3>1, <3>2 DEF RequestOnItsWay
  <2>3. CASE reset_held = 1
    <3>1. RESET_EDGES = 1
      BY <2>3 DEF Clock
    <3> QED
      BY <3>1
  <2> QED
    BY <2>1, <2>2, <2>3
<1>5. CASE ~core_reset
  <2>1. CASE lsu_state[l] \in {"LSU_IDLE", "LSU_REQUESTING"}
    <3>1. Settled(l)'
      BY <1>1, <2>1, SettledStaysSettled, PortsOfUnits DEF RequestOnItsWay
    <3>2. lsu_state'[l] \in {"LSU_IDLE", "LSU_REQUESTING", "LSU_WAITING"}
      BY <1>2, <1>5, <2>1, UnitMoves
    <3> QED
      BY <3>1, <3>2 DEF RequestOnItsWay, Settled
  <2>2. CASE lsu_state[l] = "LSU_WAITING" /\ ~Answered(l)
    <3>1. /\ lsu_state'[l] = "LSU_WAITING"
          /\ lsu_read'[l] = lsu_read[l] /\ lsu_write'[l] = lsu_write[l]
      BY <1>2, <1>5, <2>2, UnitMoves
    <3>2. consumer_read'[l] = lsu_read'[l] /\ consumer_write'[l] = lsu_write'[l]
      BY <3>1, RegistersMove
    <3>3. /\ lsu_answer'[l] \in {None, consumer_answer'[l]}
          /\ lsu_ack'[l] => consumer_ack'[l]
      BY <2>2, RegistersMove, AnswerStays
    <3> QED
      BY <3>1, <3>2, <3>3 DEF RequestOnItsWay
  <2>3. CASE lsu_state[l] = "LSU_WAITING" /\ Answered(l)
    <3>1. lsu_state'[l] = "LSU_DONE" /\ warp_state'[CoreOf(l)] = "WAIT"
      BY <1>2, <1>5, <2>3, UnitMoves
    <3>2. consumer_answer[l] # None \/ consumer_ack[l]
      BY <1>1, <2>3, PortsOfUnits DEF RequestOnItsWay
    <3>3. l \in channel_serving_consumer'
      BY <2>3, <3>2, AnswerStays
    <3> QED
      BY <3>1, <3>3 DEF RequestOnItsWay
  <2>4. CASE lsu_state[l] = "LSU_DONE"
    <3>1. consumer_read'[l] = None /\ consumer_write'[l] = None
      BY <2>4, PortsOfUnits, RegistersMove
    <3>2. CASE warp_state[CoreOf(l)] = "WAIT"
      <4>1. lsu_state'[l] = "LSU_DONE" /\ warp_state'[CoreOf(l)] \in {"WAIT", "EXECUTE"}
        BY <1>2, <1>5, <2>4, <3>2, UnitMoves
      <4> QED
        BY <3>1, <4>1 DEF RequestOnItsWay
    <3>3. CASE warp_state[CoreOf(l)] # "WAIT"
      <4>1. consumer_read[l] = None /\ consumer_write[l] = None
        BY <1>1, <2>4, <3>3 DEF RequestOnItsWay
      <4>2. \A i \in Channels : controller_state[i] # "IDLE" /\ current_consumer[i] = l
                                  => Acknowledged(i)
        <5> SUFFICES ASSUME NEW i \in Channels, controller_state[i] # "IDLE",
                            current_consumer[i] = l
                     PROVE  Acknowledged(i)
          OBVIOUS
        <5>1. ChannelHasTheRequest(i) /\ controller_state[i] \in ControllerStates
          BY DEF RequestsOnTheirWay, ControlInvariant, TypeOK, ControllerTypeOK
        <5> QED
          BY <2>4, <4>1, <5>1 DEF ChannelHasTheRequest, Acknowledged, ControllerStates
      <4>3. l \notin channel_serving_consumer'
        BY <4>1, <4>2, ServedAskedOrWereServed DEF Asks
      <4>4. CASE warp_state[CoreOf(l)] = "EXECUTE" /\ lsu_state'[l] = "LSU_DONE"
        BY <3>1, <4>3, <4>4 DEF RequestOnItsWay
      <4>5. CASE warp_state[CoreOf(l)] = "UPDATE" /\ lsu_state'[l] = "LSU_IDLE"
        <5>1. l \notin channel_serving_consumer
          BY <1>1, <2>4, <4>5 DEF RequestOnItsWay
        <5> QED
          BY <3>1, <4>3, <4>5, <5>1, RegistersMove DEF RequestOnItsWay, Settled
      <4> QED
        BY <1>2, <1>5, <2>4, <3>3, <4>4, <4>5, UnitMoves
    <3> QED
      BY <3>2, <3>3
  <2> QED
    BY <1>3, <2>1, <2>2, <2>3, <2>4 DEF LsuStates
<1> QED
  BY <1>4, <1>5

\* What a channel does to the unit it serves, and the unit to it, at an edge
\* without reset.
LEMMA ChannelKeepsTheRequest ==
  ASSUME ControlInvariant, RequestsOnTheirWay, RESET_EDGES >= 3,
         NEW answered \in SUBSET Asked, Clock(answered), NEW i \in Channels
  PROVE  ChannelHasTheRequest(i)'
<1> DEFINE l == current_consumer[i]
           new == current_consumer'[i]
<1>0. /\ ControllerTypeOK /\ answered \in SUBSET Channels
      /\ ControllerClock(answered, ReadData(answered)) /\ DatapathClock(answered)
  BY DEF Clock, ControlInvariant, TypeOK, Asked
<1>1. /\ controller_state[i] \in ControllerStates
      /\ mem_read[i] # None <=> controller_state[i] = "READ_WAITING"
      /\ mem_write[i] # None <=> controller_state[i] = "WRITE_WAITING"
      /\ ChannelHasTheRequest(i) /\ l \in Lsus
  BY DEF RequestsOnTheirWay, ControlInvariant, TypeOK, ControllerTypeOK, Lsus
<1>2. RequestOnItsWay(l)
  BY <1>1 DEF RequestsOnTheirWay
<1>3. ASSUME core_reset PROVE \A m \in Lsus : lsu_state[m] = "LSU_IDLE"
  <2>1. reset_held # 1
    BY SystemAssumption DEF Clock
  <2> QED
    BY <1>3, <2>1 DEF ControlInvariant, UnitsFollowTheCore
\* A unit that waits, has no answer yet and goes on waiting.
<1>4. ASSUME NEW m \in Lsus, lsu_state[m] = "LSU_WAITING", ~lsu_ack[m], lsu_answer[m] = None
      PROVE  /\ lsu_state'[m] = "LSU_WAITING"
             /\ lsu_read'[m] = lsu_read[m] /\ lsu_write'[m] = lsu_write[m]
  <2>1. ~core_reset
    BY <1>3, <1>4
  <2>2. ~Answered(m)
    BY <1>4 DEF Answered
  <2> QED
    BY <1>0, <1>4, <2>1, <2>2, UnitMoves
<1>8. controller_state[i] # "IDLE" =>
        /\ controller_state[i] = "READ_WAITING" /\ i \in answered
             => consumer_answer'[l] = ReadData(answered)[i]
        /\ controller_state[i] = "WRITE_WAITING" /\ i \in answered
             => consumer_ack'[l] = TRUE
        /\ (\/ controller_state[i] = "READ_WAITING" /\ i \notin answered
            \/ controller_state[i] = "READ_RELAYING" /\ ~Acknowledged(i)
            \/ controller_state[i] \in {"WRITE_WAITING", "WRITE_RELAYING"})
             => consumer_answer'[l] = consumer_answer[l]
        /\ (\/ controller_state[i] = "WRITE_WAITING" /\ i \notin answered
            \/ controller_state[i] = "WRITE_RELAYING" /\ ~Acknowledged(i)
            \/ controller_state[i] \in {"READ_WAITING", "READ_RELAYING"})
             => consumer_ack'[l] = consumer_ack[l]
  BY <1>0, ServedGetTheirAnswer DEF ControlInvariant
<1>5. CASE controller_state[i] \in {"READ_WAITING", "WRITE_WAITING"}
  <2>1. /\ lsu_state[l] = "LSU_WAITING" /\ consumer_answer[l] = None /\ ~consumer_ack[l]
        /\ mem_read[i] # None => mem_read[i] = lsu_read[l]
        /\ mem_write[i] # None => mem_write[i] = lsu_write[l]
    BY <1>1, <1>5 DEF ChannelHasTheRequest
  <2>2. lsu_answer[l] = None /\ ~lsu_ack[l]
    BY <1>2, <2>1 DEF RequestOnItsWay
  <2>3. /\ lsu_state'[l] = "LSU_WAITING"
        /\ lsu_read'[l] = lsu_read[l] /\ lsu_write'[l] = lsu_write[l]
    BY <1>1, <1>4, <2>1, <2>2
  <2>4. consumer_read'[l] = lsu_read[l] /\ consumer_write'[l] = lsu_write[l]
    BY <1>1, RegistersMove
  <2>5. CASE Keeps(i)
    <3>1. i \notin answered
      <4>1. \/ mem_read'[i] = None /\ mem_write'[i] = None
            \/ i \notin answered
        <5>1. ~Takes(i)
          BY <2>5 DEF Keeps
        <5> QED
          BY <1>0, <5>1 DEF ControllerClock
      <4> QED
        BY <1>1, <1>5, <2>5, <4>1 DEF Keeps
    <3>2. consumer_answer'[l] = None /\ ~consumer_ack'[l]
      <4>1. /\ consumer_answer'[l] = consumer_answer[l] /\ consumer_ack'[l] = consumer_ack[l]
        BY <1>5, <1>8, <3>1
      <4> QED
        BY <2>1, <4>1
    <3> QED
      BY <1>1, <1>5, <2>1, <2>3, <2>5, <3>2 DEF Keeps, ChannelHasTheRequest
  <2>6. CASE i \in answered /\ Relays(i, "READ_WAITING", "READ_RELAYING")
    <3>1. controller_state[i] = "READ_WAITING" /\ new = l /\ controller_state'[i] = "READ_RELAYING"
      BY <2>6 DEF Relays
    <3>2. lsu_read[l] # None /\ lsu_write[l] = None
      BY <1>1, <2>1, <3>1, PortsOfUnits
    <3>3. ReadData(answered)[i] \in Values
      BY <2>6, <3>1, ReadersGetData DEF ControlInvariant
    <3>4. consumer_answer'[l] # None
      <4>1. consumer_answer'[l] = ReadData(answered)[i]
        BY <1>8, <2>6, <3>1
      <4> QED
        BY <3>3, <4>1, ControllerAssumption
    <3>5. ~consumer_ack'[l]
      <4>1. consumer_ack'[l] = consumer_ack[l]
        BY <1>8, <3>1
      <4> QED
        BY <2>1, <4>1
    <3> QED
      BY <2>3, <2>4, <3>1, <3>2, <3>4, <3>5 DEF ChannelHasTheRequest
  <2>7. CASE i \in answered /\ Relays(i, "WRITE_WAITING", "WRITE_RELAYING")
    <3>1. controller_state[i] = "WRITE_WAITING" /\ new = l /\ controller_state'[i] = "WRITE_RELAYING"
      BY <2>7 DEF Relays
    <3>2. lsu_write[l] # None /\ lsu_read[l] = None
      BY <1>1, <2>1, <3>1, PortsOfUnits
    <3>3. consumer_answer'[l] = None
      <4>1. consumer_answer'[l] = consumer_answer[l]
        BY <1>8, <3>1
      <4> QED
        BY <2>1, <4>1
    <3>4. consumer_ack'[l] = TRUE
      BY <1>8, <2>7, <3>1
    <3> QED
      BY <2>3, <2>4, <3>1, <3>2, <3>3, <3>4 DEF ChannelHasTheRequest
  <2>8. ~TakesRequest(i) /\ ~Releases(i)
    BY <1>5 DEF TakesRequest, Releases, Acknowledged
  <2> QED
    BY <1>0, <2>5, <2>6, <2>7, <2>8, ChannelSteps
<1>6. CASE controller_state[i] \in {"READ_RELAYING", "WRITE_RELAYING"}
  <2>1. CASE Acknowledged(i)
    <3>1. ~Takes(i)
      BY <1>6 DEF Takes
    <3>2. controller_state'[i] = "IDLE"
      <4>1. ~TakesRequest(i) /\ ~Keeps(i)
        BY <1>6, <2>1 DEF TakesRequest, Keeps
      <4>2. /\ ~Relays(i, "READ_WAITING", "READ_RELAYING")
            /\ ~Relays(i, "WRITE_WAITING", "WRITE_RELAYING")
        BY <1>6 DEF Relays
      <4>3. Releases(i)
        BY <1>0, <4>1, <4>2, ChannelSteps
      <4> QED
        BY <4>3 DEF Releases
    <3> QED
      BY <3>2 DEF ChannelHasTheRequest
  <2>2. CASE ~Acknowledged(i)
    <3>1. controller_state'[i] = controller_state[i] /\ new = l
      <4>1. ~TakesRequest(i) /\ ~Releases(i)
        BY <1>6, <2>2 DEF TakesRequest, Releases
      <4>2. /\ ~Relays(i, "READ_WAITING", "READ_RELAYING")
            /\ ~Relays(i, "WRITE_WAITING", "WRITE_RELAYING")
        BY <1>6 DEF Relays
      <4>3. Keeps(i)
        BY <1>0, <4>1, <4>2, ChannelSteps
      <4> QED
        BY <4>3 DEF Keeps
    <3>2. consumer_answer'[l] = consumer_answer[l] /\ consumer_ack'[l] = consumer_ack[l]
      BY <1>6, <1>8, <2>2
    <3>3. consumer_read'[l] = lsu_read[l] /\ consumer_write'[l] = lsu_write[l]
      BY <1>1, RegistersMove
    <3>4. CASE lsu_state[l] = "LSU_DONE"
      <4>1. consumer_read[l] # None \/ consumer_write[l] # None
        BY <1>6, <2>2 DEF Acknowledged
      <4>2. warp_state[CoreOf(l)] = "WAIT"
        BY <1>2, <3>4, <4>1 DEF RequestOnItsWay
      <4>3. ~core_reset
        BY <1>1, <1>3, <3>4
      <4>4. lsu_state'[l] = "LSU_DONE"
        BY <1>0, <1>1, <3>4, <4>2, <4>3, UnitMoves
      <4>5. lsu_read[l] = None /\ lsu_write[l] = None
        BY <1>1, <3>4, PortsOfUnits
      <4> QED
        BY <1>1, <1>6, <3>1, <3>2, <3>3, <4>4, <4>5 DEF ChannelHasTheRequest
    <3>5. CASE lsu_state[l] # "LSU_DONE"
      <4>1. /\ controller_state[i] = "READ_RELAYING" => lsu_read[l] # None
            /\ controller_state[i] = "WRITE_RELAYING" => lsu_write[l] # None
        BY <1>1, <3>5 DEF ChannelHasTheRequest
      <4>2. /\ lsu_state[l] = "LSU_WAITING"
            /\ controller_state[i] = "READ_RELAYING" => lsu_write[l] = None
            /\ controller_state[i] = "WRITE_RELAYING" => lsu_read[l] = None
        BY <1>1, <1>6, <4>1, PortsOfUnits
      <4>3. ~core_reset
        BY <1>1, <1>3, <4>2
      <4>4. \/ lsu_state'[l] = "LSU_DONE"
            \/ lsu_read'[l] = lsu_read[l] /\ lsu_write'[l] = lsu_write[l]
        BY <1>0, <1>1, <4>2, <4>3, UnitMoves
      <4> QED
        BY <1>1, <1>6, <3>1, <3>2, <3>3, <4>1, <4>2, <4>4 DEF ChannelHasTheRequest
    <3> QED
      BY <3>4, <3>5
  <2> QED
    BY <2>1, <2>2
<1>7. CASE controller_state[i] = "IDLE"
  <2>1. CASE TakesRequest(i)
    <3>1. /\ new = Taken(i) /\ new \in Lsus /\ Asks(new)
          /\ controller_state'[i] =
               IF consumer_read[new] # None THEN "READ_WAITING" ELSE "WRITE_WAITING"
          /\ mem_read'[i] = consumer_read[new]
          /\ mem_write'[i] = IF consumer_read[new] # None THEN None ELSE consumer_write[new]
      BY <2>1 DEF TakesRequest, Lsus
    <3> HIDE DEF new
    <3>2. new \notin channel_serving_consumer
      BY <2>1, <3>1, TakenWereUnserved
    <3>3. RequestOnItsWay(new)
      BY <3>1 DEF RequestsOnTheirWay
    <3>4. consumer_read[new] # None \/ consumer_write[new] # None
      BY <3>1 DEF Asks
    <3>5. /\ consumer_answer[new] = None /\ ~consumer_ack[new]
          /\ consumer_answer'[new] = None /\ ~consumer_ack'[new]
      BY <3>1, <3>2, RegistersMove
    <3>6. lsu_state[new] \in LsuStates
      BY <3>1, PortsOfUnits
    <3>7. /\ lsu_state[new] = "LSU_WAITING" /\ lsu_answer[new] = None /\ ~lsu_ack[new]
          /\ consumer_read[new] = lsu_read[new] /\ consumer_write[new] = lsu_write[new]
      BY <3>2, <3>3, <3>4, <3>5, <3>6 DEF RequestOnItsWay, Settled, LsuStates
    <3>8. /\ lsu_state'[new] = "LSU_WAITING"
          /\ lsu_read'[new] = lsu_read[new] /\ lsu_write'[new] = lsu_write[new]
      BY <1>4, <3>1, <3>7
    <3> QED
      BY <3>1, <3>5, <3>7, <3>8 DEF ChannelHasTheRequest, new
  <2>2. CASE ~TakesRequest(i)
    <3>1. Keeps(i)
      BY <1>0, <1>7, <2>2, ChannelSteps DEF Relays, Releases, Acknowledged
    <3> QED
      BY <1>7, <3>1 DEF Keeps, ChannelHasTheRequest
  <2> QED
    BY <2>1, <2>2
<1> QED
  BY <1>1, <1>5, <1>6, <1>7 DEF ControllerStates

-----------------------------------------------------------------------------
(* The invariant.                                                          *)

\* Nothing is on its way at first.
LEMMA InitHasMemoryInvariant ==
  Init => MemoryInvariant
<1> SUFFICES ASSUME Init PROVE MemoryInvariant
  OBVIOUS
<1>1. ControlInvariant
  BY InitHasInvariant
<1>2. reset_held = 0 /\ RequestsOnTheirWay
  BY DEF Init, ControllerInit, RequestsOnTheirWay, RequestOnItsWay, Settled,
         ChannelHasTheRequest, Lsus
<1>3. ~(reset_held >= 1) /\ ~(reset_held >= 2) /\ ~(reset_held >= 3)
  BY <1>2
<1> QED
  BY <1>1, <1>2, <1>3 DEF MemoryInvariant, ResetEmpties

\* A unit that is about to ask finds nothing left of its previous request.
LEMMA AboutToAskIsSettled ==
  ASSUME MemoryInvariant
  PROVE  HandshakeSettled
<1>1. CASE reset_held = 0
  BY <1>1 DEF MemoryInvariant, RequestsOnTheirWay, RequestOnItsWay, HandshakeSettled
<1>2. CASE reset_held # 0
  <2>1. reset_held >= 1
    BY <1>2, SystemAssumption DEF MemoryInvariant, ControlInvariant, TypeOK
  <2> QED
    BY <2>1 DEF MemoryInvariant, ResetEmpties
<1> QED
  BY <1>1, <1>2

\* An edge of a reset empties what is left.
LEMMA ResetStep ==
  ASSUME MemoryInvariant, NEW answered \in SUBSET Asked, Reset(answered)
  PROVE  ResetEmpties'
<1> USE DEF MemoryInvariant
<1>1. /\ ControllerReset /\ DatapathClock(answered)
      /\ \A l \in Lsus : /\ consumer_read'[l] = lsu_read[l] /\ consumer_write'[l] = lsu_write[l]
                         /\ lsu_answer'[l] = consumer_answer[l] /\ lsu_ack'[l] = consumer_ack[l]
  BY DEF Reset, DatapathClock, PipelineClock
<1>2. /\ channel_serving_consumer' = {}
      /\ \A i \in Channels : controller_state'[i] = "IDLE"
      /\ \A l \in Lsus : consumer_answer'[l] = None /\ ~consumer_ack'[l]
  BY <1>1, ResetEmptiesController DEF Lsus
<1>3. HandshakeSettled'
  <2> SUFFICES ASSUME NEW l \in Lsus, lsu_state'[l] = "LSU_REQUESTING" PROVE Settled(l)'
    BY DEF HandshakeSettled
  <2>1. ~core_reset
    BY <1>1, CoresResetEmpties DEF DatapathClock
  <2>2. reset_held = 0
    BY <2>1 DEF ControlInvariant, UnitsFollowTheCore
  <2>3. lsu_state[l] \in LsuStates /\ RequestOnItsWay(l)
    BY <2>2, PortsOfUnits DEF RequestsOnTheirWay
  <2>4. lsu_state[l] = "LSU_IDLE"
    BY <1>1, <2>1, <2>3, UnitMoves DEF LsuStates
  <2>5. Settled(l) /\ lsu_read[l] = None /\ lsu_write[l] = None
    BY <2>3, <2>4, PortsOfUnits DEF RequestOnItsWay
  <2> QED
    BY <1>1, <1>2, <2>5 DEF Settled
<1>4. ASSUME reset_held' >= 2 PROVE \A l \in Lsus : lsu_answer'[l] = None /\ ~lsu_ack'[l]
  <2>1. reset_held >= 1
    <3>1. reset_held \in 0 .. RESET_EDGES /\ RESET_EDGES \in Nat
      BY SystemAssumption DEF ControlInvariant, TypeOK
    <3>2. reset_held' = IF reset_held = RESET_EDGES THEN RESET_EDGES ELSE reset_held + 1
      BY DEF Reset
    <3> QED
      BY <1>4, <3>1, <3>2
  <2>2. \A i \in Channels : controller_state[i] = "IDLE"
    BY <2>1 DEF ResetEmpties
  <2>3. \A l \in Lsus : consumer_answer[l] = None /\ ~consumer_ack[l]
    BY <2>2 DEF ControlInvariant, ReadyHasItsChannel, Lsus
  <2> QED
    BY <1>1, <2>3
<1>5. ASSUME reset_held' >= 3
      PROVE  \A l \in Lsus : consumer_read'[l] = None /\ consumer_write'[l] = None
  <2>1. reset_held >= 2
    <3>1. reset_held \in 0 .. RESET_EDGES /\ RESET_EDGES \in Nat
      BY SystemAssumption DEF ControlInvariant, TypeOK
    <3>2. reset_held' = IF reset_held = RESET_EDGES THEN RESET_EDGES ELSE reset_held + 1
      BY DEF Reset
    <3> QED
      BY <1>5, <3>1, <3>2
  <2>2. \A l \in Lsus : lsu_state[l] = "LSU_IDLE"
    <3>1. reset_held # 0 /\ reset_held # 1
      BY <2>1
    <3> QED
      BY <3>1 DEF ControlInvariant, UnitsFollowTheCore
  <2>3. \A l \in Lsus : lsu_read[l] = None /\ lsu_write[l] = None
    BY <2>2, PortsOfUnits
  <2> QED
    BY <1>1, <2>3
<1> QED
  BY <1>2, <1>3, <1>4, <1>5 DEF ResetEmpties

\* Every edge keeps the handshake in order.
LEMMA EdgeKeepsMemoryInvariant ==
  ASSUME MemoryInvariant, RESET_EDGES >= 3, NEW answered \in SUBSET Asked,
         Clock(answered) \/ Reset(answered)
  PROVE  MemoryInvariant'
<1>1. ControlInvariant'
  BY EdgeKeepsInvariant DEF MemoryInvariant
<1>2. CASE Clock(answered)
  <2>1. RequestsOnTheirWay /\ ControlInvariant
    BY <1>2, OnTheirWay DEF Clock, MemoryInvariant
  <2>2. RequestsOnTheirWay'
    <3>1. ASSUME NEW l \in Lsus PROVE RequestOnItsWay(l)'
      BY <1>2, <2>1, RequestStaysOnItsWay
    <3>2. ASSUME NEW i \in Channels PROVE ChannelHasTheRequest(i)'
      BY <1>2, <2>1, ChannelKeepsTheRequest
    <3> QED
      BY <3>1, <3>2 DEF RequestsOnTheirWay
  <2>3. reset_held' = 0
    BY <1>2 DEF Clock
  <2>4. ~(reset_held' >= 1) /\ ~(reset_held' >= 2) /\ ~(reset_held' >= 3)
    BY <2>3
  <2> QED
    BY <1>1, <2>2, <2>4 DEF MemoryInvariant, ResetEmpties
<1>3. CASE Reset(answered)
  <2>1. reset_held' # 0
    BY <1>3, SystemAssumption DEF Reset, MemoryInvariant, ControlInvariant, TypeOK
  <2> QED
    BY <1>1, <1>3, <2>1, ResetStep DEF MemoryInvariant
<1> QED
  BY <1>2, <1>3

\* Nothing changes when nothing happens.
LEMMA StutterKeepsMemoryInvariant ==
  ASSUME MemoryInvariant, UNCHANGED vars
  PROVE  MemoryInvariant'
<1>1. ControlInvariant'
  BY StutterKeepsInvariant DEF MemoryInvariant
<1> USE DEF vars, coreVars, lsuVars, consumerVars, controllerVars, MemoryInvariant
<1>2. reset_held' = 0 => RequestsOnTheirWay'
  BY DEF RequestsOnTheirWay, RequestOnItsWay, Settled, ChannelHasTheRequest
<1>3. ResetEmpties'
  BY DEF ResetEmpties, HandshakeSettled, Settled
<1> QED
  BY <1>1, <1>2, <1>3

\* The handshake of units, registers and controller is in order, if a reset is
\* held for three edges.
THEOREM HandshakeIsRight ==
  ASSUME RESET_EDGES >= 3
  PROVE  Spec => []MemoryInvariant
<1>1. ASSUME MemoryInvariant, [Next]_vars PROVE MemoryInvariant'
  BY <1>1, EdgeKeepsMemoryInvariant, StutterKeepsMemoryInvariant DEF Next
<1> QED
  BY <1>1, InitHasMemoryInvariant, PTL DEF Spec

\* No unit takes an old answer for a new one: when it asks, nothing of its
\* previous request is left in the registers of gpu.sv or in the controller.
THEOREM HandshakeSettles ==
  ASSUME RESET_EDGES >= 3
  PROVE  Spec => []HandshakeSettled
<1>1. MemoryInvariant => HandshakeSettled
  BY AboutToAskIsSettled
<1> QED
  BY <1>1, HandshakeIsRight, PTL

-----------------------------------------------------------------------------
(* The units see an atomic memory.                                         *)

\* The instant at which the request of a waiting unit takes effect is the edge
\* at which memory answers its channel.
LEMMA RequestsTakeEffect ==
  ASSUME ControlInvariant, RequestsOnTheirWay, NEW answered \in SUBSET Asked, Clock(answered),
         NEW l \in Lsus, lsu_state[l] = "LSU_WAITING",
         consumer_answer[l] = None, ~consumer_ack[l]
  PROVE  \/ /\ consumer_answer'[l] = None /\ ~consumer_ack'[l]
            /\ \A i \in answered : current_consumer[i] # l
         \/ /\ \E i \in answered : current_consumer[i] = l
            /\ lsu_read[l] \in Addresses /\ lsu_read[l] # None
            /\ consumer_answer'[l] = memory'[lsu_read[l]] /\ consumer_answer'[l] # None
         \/ /\ \E i \in answered : current_consumer[i] = l /\ mem_write[i] = lsu_write[l]
            /\ lsu_read[l] = None /\ lsu_write[l] \in Stores
            /\ consumer_answer'[l] = None /\ consumer_ack'[l]
<1>0. /\ ControllerTypeOK /\ answered \in SUBSET Channels /\ OneChannelPerConsumer
      /\ ControllerClock(answered, ReadData(answered)) /\ DatapathClock(answered)
  BY DEF Clock, ControlInvariant, TypeOK, Asked
<1>1. \A i \in answered : controller_state[i] \in {"READ_WAITING", "WRITE_WAITING"}
  BY <1>0 DEF Asked, ControllerTypeOK
<1>2. CASE l \notin channel_serving_consumer
  <2>1. consumer_answer'[l] = None /\ ~consumer_ack'[l]
    BY <1>2, RegistersMove
  <2>2. \A i \in answered : current_consumer[i] # l
    BY <1>0, <1>1, <1>2, BusyMeansServed
  <2> QED
    BY <2>1, <2>2
<1>3. CASE l \in channel_serving_consumer
  <2>1. PICK i \in Channels : controller_state[i] # "IDLE" /\ current_consumer[i] = l
    BY <1>3 DEF ControlInvariant, ServingIsExact, Busy
  <2>2. \A k \in answered : current_consumer[k] = l => k = i
    BY <1>0, <1>1, <2>1 DEF OneChannelPerConsumer, Busy
  <2>3. controller_state[i] \in {"READ_WAITING", "WRITE_WAITING"}
    BY <1>0, <2>1 DEF RequestsOnTheirWay, ChannelHasTheRequest, ControllerTypeOK, ControllerStates
  <2>0. /\ controller_state[i] = "READ_WAITING" /\ i \in answered
             => consumer_answer'[l] = ReadData(answered)[i]
        /\ controller_state[i] = "WRITE_WAITING" /\ i \in answered
             => consumer_ack'[l] = TRUE
        /\ (\/ controller_state[i] = "READ_WAITING" /\ i \notin answered
            \/ controller_state[i] = "READ_RELAYING" /\ ~Acknowledged(i)
            \/ controller_state[i] \in {"WRITE_WAITING", "WRITE_RELAYING"})
             => consumer_answer'[l] = consumer_answer[l]
        /\ (\/ controller_state[i] = "WRITE_WAITING" /\ i \notin answered
            \/ controller_state[i] = "WRITE_RELAYING" /\ ~Acknowledged(i)
            \/ controller_state[i] \in {"READ_WAITING", "READ_RELAYING"})
             => consumer_ack'[l] = consumer_ack[l]
    BY <2>1, BusyChannelAnswers
  <2>4. CASE i \notin answered
    <3>1. consumer_answer'[l] = consumer_answer[l] /\ consumer_ack'[l] = consumer_ack[l]
      BY <2>0, <2>3, <2>4
    <3>2. \A k \in answered : current_consumer[k] # l
      BY <2>2, <2>4
    <3> QED
      BY <3>1, <3>2
  <2>5. CASE i \in answered /\ controller_state[i] = "READ_WAITING"
    <3>1. mem_read[i] = lsu_read[l] /\ mem_read[i] \in Addresses /\ mem_read[i] # None
      BY <1>0, <2>1, <2>5 DEF RequestsOnTheirWay, ChannelHasTheRequest, ControllerTypeOK
    <3>2. consumer_answer'[l] = ReadData(answered)[i]
      BY <2>0, <2>5
    <3>3. /\ ReadData(answered)[i] = MemoryAfter(answered, mem_read[i])
          /\ ReadData(answered)[i] \in Values
      BY <2>5, ReadersGetData DEF ControlInvariant
    <3>4. memory'[mem_read[i]] = MemoryAfter(answered, mem_read[i])
      BY <1>0, <3>1 DEF DatapathClock
    <3>5. consumer_answer'[l] # None
      BY <3>2, <3>3, ControllerAssumption
    <3> QED
      BY <2>1, <2>5, <3>1, <3>2, <3>3, <3>4, <3>5
  <2>6. CASE i \in answered /\ controller_state[i] = "WRITE_WAITING"
    <3>1. mem_write[i] = lsu_write[l] /\ mem_write[i] \in Stores /\ mem_write[i] # None
      BY <1>0, <2>1, <2>6 DEF RequestsOnTheirWay, ChannelHasTheRequest, ControllerTypeOK
    <3>2. lsu_read[l] = None
      BY <3>1, PortsOfUnits
    <3>3. consumer_answer'[l] = consumer_answer[l] /\ consumer_ack'[l] = TRUE
      BY <2>0, <2>6
    <3> QED
      BY <2>1, <2>6, <3>1, <3>2, <3>3
  <2> QED
    BY <2>3, <2>4, <2>5, <2>6
<1> QED
  BY <1>2, <1>3

\* A unit that takes its answer is handed the outcome of its request, also when
\* its requests are taken back by a reset at that edge.
LEMMA WaitingUnitIsHanded ==
  ASSUME NEW l \in Lsus, ControlInvariant, RequestsOnTheirWay,
         NEW answered, DatapathClock(answered), ~core_reset, reset_held = 0,
         lsu_state[l] = "LSU_WAITING", Answered(l)
  PROVE  Handed(l)' = Result(l) /\ Result(l) # [op |-> "none"]
<1>1. /\ lsu_state'[l] = "LSU_DONE"
      /\ lsu_out'[l] = IF lsu_read[l] # None THEN lsu_answer[l] ELSE None
  BY UnitMoves
<1>2. /\ lsu_answer[l] \in {None, consumer_answer[l]}
      /\ lsu_ack[l] => consumer_ack[l]
  BY DEF RequestsOnTheirWay, RequestOnItsWay
<1>3. Waits(l)
  BY DEF Waits
<1>4. CASE lsu_read[l] # None
  <2>1. lsu_answer[l] # None /\ consumer_answer[l] = lsu_answer[l]
    BY <1>2, <1>4, PortsOfUnits
  <2> QED
    BY <1>1, <1>3, <1>4, <2>1 DEF Handed, Result
<1>5. CASE lsu_read[l] = None
  <2>1. consumer_ack[l]
    BY <1>2, <1>5, PortsOfUnits
  <2>2. consumer_answer[l] = None
    <3>1. PICK i \in Channels : controller_state[i] = "WRITE_RELAYING" /\ current_consumer[i] = l
      BY <2>1 DEF ControlInvariant, ReadyHasItsChannel, Lsus
    <3> QED
      BY <3>1 DEF RequestsOnTheirWay, ChannelHasTheRequest
  <2> QED
    BY <1>1, <1>3, <1>5, <2>1, <2>2 DEF Handed, Result
<1> QED
  BY <1>4, <1>5

\* A unit whose answer appears at this edge reads what memory holds after the
\* edge; one that has its answer keeps it.
LEMMA WaitingUnitTakesEffect ==
  ASSUME NEW l \in Lsus, ControlInvariant, RequestsOnTheirWay,
         NEW answered \in SUBSET Asked, Clock(answered),
         lsu_state[l] = "LSU_WAITING", Waits(l), Waits(l)',
         Request(l)' = Request(l), Request(l) # [op |-> "none"],
         Handed(l)' = Handed(l), Result(l)' # Result(l)
  PROVE  Atomic!TakesEffect(l)
<1> DEFINE none == [op |-> "none"]
<1>1. consumer_answer[l] = None /\ ~consumer_ack[l]
  BY AnswerStays DEF Result
<1>2. Result(l) = none
  BY <1>1 DEF Result
<1>3. ~(consumer_answer'[l] = None /\ ~consumer_ack'[l])
  BY <1>2 DEF Result
<1>4. CASE /\ lsu_read[l] \in Addresses /\ lsu_read[l] # None
           /\ consumer_answer'[l] = memory'[lsu_read[l]] /\ consumer_answer'[l] # None
  <2>1. Request(l) = [op |-> "read", addr |-> lsu_read[l]]
    BY <1>4 DEF Request
  <2>2. Result(l)' = [op |-> "read", data |-> memory'[lsu_read[l]]]
    BY <1>4 DEF Result
  <2>3. Result(l)' = Atomic!Outcome(Request(l))
    BY <2>1, <2>2 DEF Atomic!Outcome
  <2> QED
    BY <1>2, <2>3 DEF Atomic!TakesEffect, Atomic!NoResult, Atomic!NoRequest
<1>5. CASE /\ lsu_read[l] = None /\ lsu_write[l] \in Stores
           /\ consumer_answer'[l] = None /\ consumer_ack'[l]
  <2>1. Request(l).op = "write"
    BY <1>5 DEF Request
  <2>2. Result(l)' = [op |-> "write"]
    BY <1>5 DEF Result
  <2>3. Result(l)' = Atomic!Outcome(Request(l))
    BY <2>1, <2>2 DEF Atomic!Outcome
  <2> QED
    BY <1>2, <2>3 DEF Atomic!TakesEffect, Atomic!NoResult, Atomic!NoRequest
<1> QED
  BY <1>1, <1>3, <1>4, <1>5, RequestsTakeEffect

\* A unit at an edge without reset.
LEMMA UnitsWork ==
  ASSUME MemoryInvariant, RESET_EDGES >= 3, NEW answered \in SUBSET Asked, Clock(answered),
         NEW l \in Lsus
  PROVE  Atomic!Works(l)
<1> DEFINE none == [op |-> "none"]
<1>0. ControlInvariant /\ RequestsOnTheirWay /\ DatapathClock(answered)
  BY OnTheirWay DEF Clock, MemoryInvariant
<1>1. /\ Waits(l) <=> lsu_state[l] = "LSU_WAITING"
      /\ Waits(l)' <=> lsu_state'[l] = "LSU_WAITING"
      /\ core_reset => lsu_state[l] = "LSU_IDLE"
  <2>1. reset_held' = 0 /\ reset_held # 1 /\ (reset_held # 0 => core_reset)
    BY <1>0, SystemAssumption DEF Clock, ControlInvariant, UnitsFollowTheCore
  <2>2. core_reset => lsu_state[l] = "LSU_IDLE"
    BY <1>0, <2>1 DEF ControlInvariant, UnitsFollowTheCore
  <2> QED
    BY <2>1, <2>2 DEF Waits
<1>2. lsu_state[l] \in LsuStates
  BY <1>0, PortsOfUnits
<1>3. CASE lsu_state[l] = "LSU_IDLE"
  <2>1. lsu_state'[l] \in {"LSU_IDLE", "LSU_REQUESTING"}
    <3>1. CASE core_reset
      BY <1>0, <3>1, CoresResetEmpties DEF DatapathClock
    <3>2. CASE ~core_reset
      BY <1>0, <1>3, <3>2, UnitMoves
    <3> QED
      BY <3>1, <3>2
  <2>2. /\ Request(l) = none /\ Result(l) = none /\ Handed(l) = none
        /\ Request(l)' = none /\ Result(l)' = none /\ Handed(l)' = none
    BY <1>1, <1>3, <2>1 DEF Request, Result, Handed
  <2>3. Atomic!Rests(l)
    BY <2>2 DEF Atomic!Rests, Atomic!NoResult
  <2> QED
    BY <2>3 DEF Atomic!Works
<1>4. CASE lsu_state[l] = "LSU_REQUESTING"
  <2>1. ~core_reset
    BY <1>1, <1>4
  <2>2. /\ lsu_state'[l] = "LSU_WAITING"
        /\ \/ lsu_read'[l] \in Addresses /\ lsu_write'[l] = None
           \/ lsu_write'[l] \in Stores /\ lsu_read'[l] = None
    BY <1>0, <1>4, <2>1, UnitMoves
  <2>3. consumer_answer'[l] = None /\ ~consumer_ack'[l]
    <3>1. l \notin channel_serving_consumer
      BY <1>0, <1>4 DEF RequestsOnTheirWay, RequestOnItsWay, Settled
    <3> QED
      BY <1>0, <3>1, RegistersMove
  <2>4. /\ Request(l) = none /\ Handed(l) = none
        /\ Result(l)' = none /\ Handed(l)' = none
    BY <1>1, <1>4, <2>2, <2>3 DEF Request, Result, Handed
  <2>5. Request(l)' \in Atomic!Requests
    <3>1. CASE lsu_read'[l] \in Addresses
      <4>1. lsu_read'[l] # None
        BY <3>1, ControllerAssumption
      <4>2. Request(l)' = [op |-> "read", addr |-> lsu_read'[l]]
        BY <1>1, <2>2, <4>1 DEF Request
      <4> QED
        BY <3>1, <4>2 DEF Atomic!Requests
    <3>2. CASE lsu_write'[l] \in Stores /\ lsu_read'[l] = None
      <4>1. lsu_write'[l].addr \in Addresses /\ lsu_write'[l].data \in Values
        BY <3>2 DEF Stores
      <4>2. Request(l)' = [op |-> "write", addr |-> lsu_write'[l].addr,
                                           data |-> lsu_write'[l].data]
        BY <1>1, <2>2, <3>2 DEF Request
      <4> QED
        BY <4>1, <4>2 DEF Atomic!Requests
    <3> QED
      BY <2>2, <3>1, <3>2
  <2>6. Atomic!Issues(l)
    BY <2>4, <2>5 DEF Atomic!Issues, Atomic!NoResult, Atomic!NoRequest
  <2> QED
    BY <2>6 DEF Atomic!Works
<1>5. CASE lsu_state[l] = "LSU_WAITING" /\ Answered(l)
  <2>1. ~core_reset
    BY <1>1, <1>5
  <2>2. reset_held = 0 /\ lsu_state'[l] = "LSU_DONE"
    BY <1>0, <1>1, <1>5, <2>1, UnitMoves DEF ControlInvariant, UnitsFollowTheCore
  <2>3. Handed(l)' = Result(l) /\ Result(l) # none
    BY <1>0, <1>5, <2>1, <2>2, WaitingUnitIsHanded
  <2>4. Request(l)' = none /\ Result(l)' = none
    BY <1>1, <2>2 DEF Request, Result
  <2>5. Atomic!Completes(l)
    BY <2>3, <2>4 DEF Atomic!Completes, Atomic!NoResult, Atomic!NoRequest
  <2> QED
    BY <2>5 DEF Atomic!Works
<1>6. CASE lsu_state[l] = "LSU_WAITING" /\ ~Answered(l)
  <2>1. /\ lsu_state'[l] = "LSU_WAITING"
        /\ lsu_read'[l] = lsu_read[l] /\ lsu_write'[l] = lsu_write[l]
    BY <1>0, <1>1, <1>6, UnitMoves
  <2>2. /\ Request(l)' = Request(l) /\ Request(l) # none
        /\ Handed(l) = none /\ Handed(l)' = none
    BY <1>1, <1>6, <2>1 DEF Request, Handed
  <2>3. CASE Result(l)' = Result(l)
    <3>1. Atomic!Rests(l)
      BY <2>2, <2>3 DEF Atomic!Rests, Atomic!NoResult
    <3> QED
      BY <3>1 DEF Atomic!Works
  <2>4. CASE Result(l)' # Result(l)
    <3>1. Atomic!TakesEffect(l)
      BY <1>0, <1>1, <1>6, <2>1, <2>2, <2>4, WaitingUnitTakesEffect
    <3> QED
      BY <3>1 DEF Atomic!Works
  <2> QED
    BY <2>3, <2>4
<1>7. CASE lsu_state[l] = "LSU_DONE"
  <2>1. ~core_reset
    BY <1>1, <1>7
  <2>2. \/ lsu_state'[l] = "LSU_DONE" /\ lsu_out'[l] = lsu_out[l]
        \/ lsu_state'[l] = "LSU_IDLE"
    BY <1>0, <1>7, <2>1, UnitMoves
  <2>3. /\ Request(l) = none /\ Result(l) = none
        /\ Request(l)' = none /\ Result(l)' = none
        /\ Handed(l)' \in {Handed(l), none}
    BY <1>1, <1>7, <2>2 DEF Request, Result, Handed
  <2>4. Atomic!Rests(l)
    BY <2>3 DEF Atomic!Rests, Atomic!NoResult
  <2> QED
    BY <2>4 DEF Atomic!Works
<1> QED
  BY <1>2, <1>3, <1>4, <1>5, <1>6, <1>7 DEF LsuStates

\* The write a channel carries is the pending request of the unit it serves.
LEMMA WritesArePending ==
  ASSUME ControlInvariant, RequestsOnTheirWay, reset_held = 0,
         NEW a \in Addresses, NEW i \in Channels, mem_write[i] # None, mem_write[i].addr = a
  PROVE  /\ current_consumer[i] \in Lsus /\ Waits(current_consumer[i])
         /\ lsu_write[current_consumer[i]] = mem_write[i]
         /\ consumer_answer[current_consumer[i]] = None /\ ~consumer_ack[current_consumer[i]]
         /\ Atomic!Pending(current_consumer[i], a)
         /\ Request(current_consumer[i]).data = mem_write[i].data
<1> DEFINE l == current_consumer[i]
<1>1. controller_state[i] = "WRITE_WAITING" /\ l \in Lsus
  BY DEF ControlInvariant, TypeOK, ControllerTypeOK, Lsus
<1>2. /\ lsu_state[l] = "LSU_WAITING" /\ mem_write[i] = lsu_write[l]
      /\ consumer_answer[l] = None /\ ~consumer_ack[l]
  BY <1>1 DEF RequestsOnTheirWay, ChannelHasTheRequest
<1> HIDE DEF l
<1>3. lsu_read[l] = None
  BY <1>1, <1>2, PortsOfUnits
<1>4. Waits(l)
  BY <1>2 DEF Waits
<1>5. Request(l) = [op |-> "write", addr |-> lsu_write[l].addr, data |-> lsu_write[l].data]
  BY <1>3, <1>4 DEF Request
<1>6. Result(l) = [op |-> "none"]
  BY <1>2 DEF Result
<1>7. Atomic!Pending(l, a)
  BY <1>1, <1>2, <1>5, <1>6 DEF Atomic!Pending, Atomic!NoResult
<1> QED
  BY <1>1, <1>2, <1>4, <1>5, <1>7 DEF l

\* Memory at an edge without reset changes by the writes that take effect.
LEMMA MemoryWorks ==
  ASSUME MemoryInvariant, RESET_EDGES >= 3, NEW answered \in SUBSET Asked, Clock(answered)
  PROVE  Atomic!MemoryStep
<1>0. ControlInvariant /\ RequestsOnTheirWay /\ DatapathClock(answered) /\ TypeOK
  BY OnTheirWay DEF Clock, MemoryInvariant, ControlInvariant
<1>1. memory' \in [Addresses -> Values]
  BY <1>0, DatapathKeepsTypes
<1>2. \A a \in Addresses : memory'[a] = MemoryAfter(answered, a)
  BY <1>0 DEF DatapathClock
<1>3. reset_held' = 0
  BY DEF Clock
<1>4. ASSUME NEW a \in Addresses, Writers(answered, a) # {}
      PROVE  \E c \in Atomic!MayWriteTo(a) : memory'[a] = Request(c).data
  <2>1. PICK i \in Writers(answered, a) : memory'[a] = mem_write[i].data
    BY <1>0, <1>2, <1>4, MemoryAfterIsWritten
  <2>2. i \in answered /\ i \in Channels /\ mem_write[i] # None /\ mem_write[i].addr = a
    BY DEF Writers, Asked
  <2>0. PICK l : l = current_consumer[i]
    OBVIOUS
  <2>3. reset_held = 0
    <3>1. controller_state[i] # "IDLE"
      BY <1>0, <2>2 DEF TypeOK, ControllerTypeOK
    <3>2. l \in Lsus /\ lsu_state[l] = "LSU_WAITING"
      BY <1>0, <2>0, <2>2 DEF RequestsOnTheirWay, ChannelHasTheRequest, TypeOK, ControllerTypeOK, Lsus
    <3>3. reset_held # 1
      BY SystemAssumption DEF Clock
    <3> QED
      BY <1>0, <3>2, <3>3 DEF ControlInvariant, UnitsFollowTheCore
  <2>4. /\ l \in Lsus /\ Waits(l) /\ lsu_write[l] = mem_write[i]
        /\ consumer_answer[l] = None /\ ~consumer_ack[l]
        /\ Atomic!Pending(l, a) /\ Request(l).data = mem_write[i].data
    BY <1>0, <2>0, <2>2, <2>3, WritesArePending
  <2>5. lsu_state[l] = "LSU_WAITING" /\ ~Answered(l) /\ ~core_reset
    <3>1. lsu_state[l] = "LSU_WAITING"
      BY <2>4 DEF Waits
    <3>2. lsu_answer[l] = None /\ ~lsu_ack[l]
      BY <1>0, <2>4, <3>1 DEF RequestsOnTheirWay, RequestOnItsWay
    <3>3. ~core_reset
      BY <1>0, <2>3, <2>4, <3>1 DEF ControlInvariant, UnitsFollowTheCore
    <3> QED
      BY <3>1, <3>2, <3>3 DEF Answered
  <2>6. /\ lsu_state'[l] = "LSU_WAITING"
        /\ lsu_read'[l] = lsu_read[l] /\ lsu_write'[l] = lsu_write[l]
    BY <1>0, <2>4, <2>5, UnitMoves
  <2>7. Waits(l)'
    BY <1>3, <2>6 DEF Waits
  <2>8. Request(l)' = Request(l) /\ Request(l) # [op |-> "none"] /\ Handed(l)' = Handed(l)
    BY <2>4, <2>5, <2>6, <2>7 DEF Request, Handed
  <2>9. Result(l)' # Result(l)
    <3>1. consumer_answer'[l] # None \/ consumer_ack'[l]
      BY <1>0, <2>0, <2>2, <2>4, <2>5, RequestsTakeEffect
    <3> QED
      BY <2>4, <2>7, <3>1 DEF Result
  <2>10. Atomic!TakesEffect(l)
    BY <1>0, <2>4, <2>5, <2>7, <2>8, <2>9, WaitingUnitTakesEffect
  <2> QED
    BY <2>1, <2>4, <2>10 DEF Atomic!MayWriteTo
<1>5. ASSUME NEW a \in Addresses, Writers(answered, a) = {}, NEW l \in Atomic!WritesTo(a)
      PROVE  FALSE
  <2>1. l \in Lsus /\ Atomic!Pending(l, a) /\ Atomic!TakesEffect(l)
    BY <1>5 DEF Atomic!WritesTo
  <2>2. /\ Result(l) = [op |-> "none"] /\ Request(l).op = "write" /\ Request(l).addr = a
        /\ Result(l)' = [op |-> "write"]
    BY <2>1 DEF Atomic!Pending, Atomic!TakesEffect, Atomic!Outcome, Atomic!NoResult
  <2>3. /\ Waits(l) /\ lsu_read[l] = None /\ lsu_write[l].addr = a
        /\ consumer_answer[l] = None /\ ~consumer_ack[l]
    BY <2>2 DEF Request, Result
  <2>4. lsu_state[l] = "LSU_WAITING" /\ consumer_answer'[l] = None /\ consumer_ack'[l]
    BY <2>2, <2>3 DEF Result, Waits
  <2>5. \E i \in answered : current_consumer[i] = l /\ mem_write[i] = lsu_write[l]
    BY <1>0, <2>1, <2>3, <2>4, RequestsTakeEffect
  <2>6. lsu_write[l] # None
    BY <1>0, <2>1, <2>3, <2>4, PortsOfUnits
  <2> QED
    BY <1>5, <2>3, <2>5, <2>6 DEF Writers
<1>6. ASSUME NEW a \in Addresses, Writers(answered, a) = {}
      PROVE  Atomic!WritesTo(a) = {} /\ memory'[a] = memory[a]
  BY <1>0, <1>2, <1>5, <1>6, MemoryAfterIsWritten
<1>7. ASSUME NEW a \in Addresses
      PROVE  \/ Atomic!WritesTo(a) = {} /\ memory'[a] = memory[a]
             \/ memory'[a] \in {[l \in Lsus |-> Request(l)][c].data : c \in Atomic!MayWriteTo(a)}
  <2>1. Atomic!MayWriteTo(a) \subseteq Lsus
    BY DEF Atomic!MayWriteTo
  <2> HIDE DEF Atomic!MayWriteTo
  <2> QED
    BY <1>4, <1>6, <2>1
<1> QED
  BY <1>1, <1>7 DEF Atomic!MemoryStep

\* At an edge of a reset every unit gives its request up.
LEMMA UnitsAbandon ==
  ASSUME MemoryInvariant, NEW answered \in SUBSET Asked, Reset(answered), NEW l \in Lsus
  PROVE  /\ Atomic!Abandons(l) /\ Request(l)' = [op |-> "none"]
<1> DEFINE none == [op |-> "none"]
<1>0. ControlInvariant /\ DatapathClock(answered) /\ lsu_state[l] \in LsuStates
  BY PortsOfUnits DEF Reset, MemoryInvariant
<1>1. ~Waits(l)'
  <2>1. reset_held' # 0
    BY SystemAssumption DEF Reset, MemoryInvariant, ControlInvariant, TypeOK
  <2> QED
    BY <2>1 DEF Waits
<1>2. Request(l)' = none /\ Result(l)' = none
  BY <1>1 DEF Request, Result
<1>3. Handed(l)' \in {Handed(l), Result(l), none}
  <2>1. CASE core_reset
    <3>1. lsu_state'[l] = "LSU_IDLE"
      BY <1>0, <2>1, CoresResetEmpties DEF DatapathClock
    <3> QED
      BY <3>1 DEF Handed
  <2>2. CASE ~core_reset
    <3>1. reset_held = 0 /\ RequestsOnTheirWay
      BY <1>0, <2>2 DEF MemoryInvariant, ControlInvariant, UnitsFollowTheCore
    <3>2. CASE lsu_state[l] = "LSU_WAITING" /\ Answered(l)
      BY <1>0, <2>2, <3>1, <3>2, WaitingUnitIsHanded
    <3>3. CASE lsu_state[l] = "LSU_DONE"
      BY <1>0, <2>2, <3>3, UnitMoves DEF Handed
    <3>4. CASE /\ lsu_state[l] # "LSU_DONE"
               /\ ~(lsu_state[l] = "LSU_WAITING" /\ Answered(l))
      <4>1. lsu_state'[l] # "LSU_DONE"
        BY <1>0, <2>2, <3>4, UnitMoves DEF LsuStates
      <4> QED
        BY <4>1 DEF Handed
    <3> QED
      BY <3>2, <3>3, <3>4
  <2> QED
    BY <2>1, <2>2
<1>4. Atomic!Abandons(l)
  BY <1>2, <1>3 DEF Atomic!Abandons, Atomic!NoRequest, Atomic!NoResult
<1> QED
  BY <1>2, <1>4

\* Memory at an edge of a reset changes by writes that are given up.
LEMMA MemoryResets ==
  ASSUME MemoryInvariant, NEW answered \in SUBSET Asked, Reset(answered)
  PROVE  Atomic!MemoryStep
<1>0. ControlInvariant /\ DatapathClock(answered) /\ TypeOK
  BY DEF Reset, MemoryInvariant, ControlInvariant
<1>1. memory' \in [Addresses -> Values]
  BY <1>0, DatapathKeepsTypes
<1>2. \A a \in Addresses : memory'[a] = MemoryAfter(answered, a)
  BY <1>0 DEF DatapathClock
<1>3. ASSUME NEW a \in Addresses, Writers(answered, a) # {}
      PROVE  \E c \in Atomic!MayWriteTo(a) : memory'[a] = Request(c).data
  <2>1. PICK i \in Writers(answered, a) : memory'[a] = mem_write[i].data
    BY <1>0, <1>2, <1>3, MemoryAfterIsWritten
  <2>2. i \in Channels /\ mem_write[i] # None /\ mem_write[i].addr = a
    BY DEF Writers, Asked
  <2>3. reset_held = 0
    <3>1. controller_state[i] # "IDLE"
      BY <1>0, <2>2 DEF TypeOK, ControllerTypeOK
    <3>2. ~(reset_held >= 1)
      BY <2>2, <3>1 DEF MemoryInvariant, ResetEmpties
    <3> QED
      BY <1>0, <3>2, SystemAssumption DEF TypeOK
  <2>4. PICK l : l = current_consumer[i]
    OBVIOUS
  <2>5. l \in Lsus /\ Atomic!Pending(l, a) /\ Request(l).data = mem_write[i].data
    <3>1. RequestsOnTheirWay
      BY <2>3 DEF MemoryInvariant
    <3> QED
      BY <1>0, <2>2, <2>3, <2>4, <3>1, WritesArePending
  <2>6. Atomic!Abandons(l)
    BY <2>5, UnitsAbandon
  <2> QED
    BY <2>1, <2>5, <2>6 DEF Atomic!MayWriteTo
<1>4. ASSUME NEW a \in Addresses
      PROVE  Atomic!WritesTo(a) = {}
  <2> SUFFICES ASSUME NEW l \in Atomic!WritesTo(a) PROVE FALSE
    OBVIOUS
  <2>1. l \in Lsus /\ Request(l) # [op |-> "none"] /\ Request(l)' = Request(l)
    BY DEF Atomic!WritesTo, Atomic!TakesEffect, Atomic!NoRequest
  <2> QED
    BY <2>1, UnitsAbandon
<1>5. ASSUME NEW a \in Addresses
      PROVE  \/ Atomic!WritesTo(a) = {} /\ memory'[a] = memory[a]
             \/ memory'[a] \in {[l \in Lsus |-> Request(l)][c].data : c \in Atomic!MayWriteTo(a)}
  <2>1. Atomic!MayWriteTo(a) \subseteq Lsus
    BY DEF Atomic!MayWriteTo
  <2>2. Writers(answered, a) = {} => memory'[a] = memory[a]
    BY <1>0, <1>2, MemoryAfterIsWritten
  <2> HIDE DEF Atomic!MayWriteTo
  <2> QED
    BY <1>3, <1>4, <2>1, <2>2
<1> QED
  BY <1>1, <1>5 DEF Atomic!MemoryStep

\* The load-store units see an atomic memory: every request takes effect once,
\* at one instant between its issue and its completion, and is completed with
\* what memory held then; a reset takes back what is under way.
THEOREM UnitsSeeAtomicMemory ==
  ASSUME RESET_EDGES >= 3
  PROVE  Spec => ImplementsAtomicMemory
<1>1. Init => Atomic!Init
  <2> SUFFICES ASSUME Init PROVE Atomic!Init
    OBVIOUS
  <2>1. \A l \in Lsus : /\ Request(l) = [op |-> "none"] /\ Result(l) = [op |-> "none"]
                        /\ Handed(l) = [op |-> "none"]
    BY DEF Init, Request, Result, Handed, Waits
  <2>2. memory \in [Addresses -> Values]
    BY SystemAssumption DEF Init
  <2> QED
    BY <2>1, <2>2 DEF Atomic!Init, Atomic!NoRequest, Atomic!NoResult
<1>2. MemoryInvariant /\ [Next]_vars => [Atomic!Next]_(Atomic!vars)
  <2> SUFFICES ASSUME MemoryInvariant, [Next]_vars
               PROVE  Atomic!Next \/ UNCHANGED Atomic!vars
    OBVIOUS
  <2>1. CASE UNCHANGED vars
    BY <2>1 DEF vars, coreVars, lsuVars, consumerVars, controllerVars, Atomic!vars,
                Request, Result, Handed, Waits
  <2>2. ASSUME NEW answered \in SUBSET Asked, Clock(answered)
        PROVE  Atomic!Next
    <3>1. \A l \in Lsus : Atomic!Works(l)
      BY <2>2, UnitsWork
    <3> QED
      BY <2>2, <3>1, MemoryWorks DEF Atomic!Next
  <2>3. ASSUME NEW answered \in SUBSET Asked, Reset(answered)
        PROVE  Atomic!Next
    <3>1. \A l \in Lsus : Atomic!Abandons(l)
      BY <2>3, UnitsAbandon
    <3> QED
      BY <2>3, <3>1, MemoryResets DEF Atomic!Next
  <2> QED
    BY <2>1, <2>2, <2>3 DEF Next
<1> QED
  BY <1>1, <1>2, HandshakeIsRight, PTL DEF Spec, ImplementsAtomicMemory, Atomic!Spec
=============================================================================
