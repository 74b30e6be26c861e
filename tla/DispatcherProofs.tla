--------------------------- MODULE DispatcherProofs ---------------------------
(***************************************************************************)
(* Proofs about Dispatcher.tla, for every number of cores and every set of *)
(* kernel sizes.                                                           *)
(***************************************************************************)
EXTENDS Dispatcher, FiniteSetTheorems, TLAPS

-----------------------------------------------------------------------------
(* Facts about the dispatch loop.                                          *)

\* There are finitely many cores, and so finitely many of any kind.
LEMMA CoresFinite == \A S \in SUBSET Cores : IsFiniteSet(S) /\ Cardinality(S) \in Nat
<1>1. IsFiniteSet(Cores)
  BY NumCoresAssumption, FS_Interval DEF Cores
<1> QED
  BY <1>1, FS_Subset, FS_CardinalityType

\* The rank of a core in the dispatch loop grows strictly with its index.
LEMMA RankGrows ==
  /\ \A c \in Cores : Rank(c) \in Nat
  /\ \A c, d \in Cores : core_reset[c] /\ c < d => Rank(c) < Rank(d)
<1> DEFINE Below(c) == {d \in Resetting : d < c}
<1>1. \A c \in Cores : Below(c) \in SUBSET Cores
  BY DEF Resetting
<1>2. \A c \in Cores : Rank(c) = Cardinality(Below(c)) /\ Rank(c) \in Nat
  BY <1>1, CoresFinite DEF Rank
<1>3. ASSUME NEW c \in Cores, NEW d \in Cores, core_reset[c], c < d
      PROVE  Rank(c) < Rank(d)
  <2>1. c \in Below(d) /\ c \notin Below(c) /\ Below(c) \subseteq Below(d)
    BY <1>3, NumCoresAssumption DEF Resetting, Cores
  <2>2. IsFiniteSet(Below(d))
    BY <1>1, CoresFinite
  <2>3. Cardinality(Below(c)) <= Cardinality(Below(d))
        /\ Cardinality(Below(c)) # Cardinality(Below(d))
    BY <2>1, <2>2, FS_Subset
  <2> QED
    BY <2>3, <1>2
<1> QED
  BY <1>2, <1>3

\* The dispatch loop gives different blocks to different cores, all of them
\* between the old and the new value of blocks_dispatched, which does not pass
\* num_blocks.
LEMMA DispatchLoop ==
  ASSUME TypeOK
  PROVE  /\ Cardinality(Dispatching) \in Nat
         /\ blocks_dispatched + Cardinality(Dispatching) <= num_blocks
         /\ \A c \in Dispatching :
               /\ BlockFor(c) \in Nat
               /\ blocks_dispatched <= BlockFor(c)
               /\ BlockFor(c) < blocks_dispatched + Cardinality(Dispatching)
         /\ \A c, d \in Dispatching : BlockFor(c) = BlockFor(d) => c = d
<1>1. /\ Dispatching \in SUBSET Cores
      /\ IsFiniteSet(Dispatching)
      /\ Cardinality(Dispatching) \in Nat
  BY CoresFinite DEF Dispatching
<1>2. /\ blocks_dispatched \in Nat
      /\ num_blocks \in Nat
      /\ blocks_dispatched <= num_blocks
      /\ \A c \in Cores : Rank(c) \in Nat
  BY RankGrows DEF TypeOK
<1>3. ASSUME NEW c \in Dispatching, NEW d \in Dispatching, BlockFor(c) = BlockFor(d)
      PROVE  c = d
  <2>1. /\ c \in Cores /\ d \in Cores /\ core_reset[c] /\ core_reset[d]
        /\ Rank(c) = Rank(d)
    BY <1>1, <1>2, <1>3 DEF BlockFor, Dispatching, Dispatches
  <2>2. ~(c < d) /\ ~(d < c)
    BY <2>1, <1>2, RankGrows
  <2> QED
    BY <2>1, <2>2, NumCoresAssumption DEF Cores
<1>4. ASSUME NEW c \in Dispatching
      PROVE  Rank(c) < Cardinality(Dispatching)
  <2> DEFINE B == {d \in Resetting : d < c}
  <2>1. B \subseteq Dispatching
    <3> SUFFICES ASSUME NEW d \in Resetting, d < c
                 PROVE  d \in Dispatching
      BY DEF Resetting
    <3>1. d \in Cores /\ core_reset[d] /\ Rank(d) < Rank(c)
      BY <1>1, RankGrows DEF Resetting
    <3>2. blocks_dispatched + Rank(c) < num_blocks
      BY DEF Dispatching, Dispatches, BlockFor
    <3> QED
      BY <3>1, <3>2, <1>1, <1>2 DEF Dispatching, Dispatches, BlockFor
  <2>2. c \in Dispatching /\ c \notin B
    BY <1>1, NumCoresAssumption DEF Cores
  <2>3. Cardinality(B) <= Cardinality(Dispatching)
        /\ Cardinality(B) # Cardinality(Dispatching)
    BY <2>1, <2>2, <1>1, FS_Subset
  <2>4. Rank(c) = Cardinality(B)
    BY DEF Rank
  <2>5. Rank(c) \in Nat
    BY <1>1, <1>2
  <2> HIDE DEF B
  <2> QED
    BY <2>3, <2>4, <2>5, <1>1
<1>5. Cardinality(Dispatching) <= num_blocks - blocks_dispatched
  <2> DEFINE T == blocks_dispatched .. num_blocks - 1
             f == [c \in Dispatching |-> BlockFor(c)]
  <2>1. f \in Injection(Dispatching, T)
    <3>1. ASSUME NEW c \in Dispatching
          PROVE  BlockFor(c) \in T
      BY <1>1, <1>2 DEF Dispatching, Dispatches, BlockFor
    <3> QED
      BY <3>1, <1>3 DEF Injection, IsInjective
  <2>2. IsFiniteSet(T)
        /\ Cardinality(T) = IF blocks_dispatched > num_blocks - 1 THEN 0
                            ELSE (num_blocks - 1) - blocks_dispatched + 1
    <3>1. blocks_dispatched \in Int /\ num_blocks - 1 \in Int
      BY <1>2
    <3> HIDE <1>2
    <3> QED
      BY <3>1, FS_Interval
  <2>3. Cardinality(Dispatching) <= Cardinality(T)
    <3> HIDE DEF f, T
    <3> QED
      BY <2>1, <2>2, FS_Injection
  <2>4. Cardinality(T) = num_blocks - blocks_dispatched
    <3> HIDE DEF T
    <3> QED
    BY <2>2, <1>2
  <2> HIDE DEF T
  <2> QED
    BY <2>3, <2>4, <1>1, <1>2
<1>6. ASSUME NEW c \in Dispatching
      PROVE  /\ BlockFor(c) \in Nat
             /\ blocks_dispatched <= BlockFor(c)
             /\ BlockFor(c) < blocks_dispatched + Cardinality(Dispatching)
  BY <1>1, <1>2, <1>4 DEF BlockFor
<1> QED
  BY <1>1, <1>2, <1>3, <1>5, <1>6

-----------------------------------------------------------------------------
(* The handshake invariant is inductive.                                   *)

USE DEF gpuVars, dispatcherVars, coreVars

\* The invariant holds at first.
LEMMA InitEstablishes == Init => HandshakeInvariant
<1> SUFFICES ASSUME Init PROVE HandshakeInvariant
  OBVIOUS
<1>1. TypeOK
  <2>1. num_blocks = 0 /\ blocks_dispatched = 0 /\ blocks_done = 0
    BY DEF Init
  <2>2. /\ num_blocks \in Nat
        /\ blocks_dispatched \in 0 .. num_blocks
        /\ blocks_done \in 0 .. num_blocks
    BY <2>1
  <2> QED
    BY <2>2 DEF Init, TypeOK
<1>2. /\ NothingBeforeLaunch /\ HandshakeOrder /\ BlocksInRange
      /\ HeldBlocksDiffer /\ HeldBlockEndsWithWarps
  BY DEF Init, NothingBeforeLaunch, HandshakeOrder, BlocksInRange,
         HeldBlocksDiffer, HeldBlockEndsWithWarps
<1>3. CountIsBelowRetired
  <2>1. Retired = {}
    BY DEF Init, Retired
  <2> QED
    BY <2>1, FS_EmptySet DEF Init, CountIsBelowRetired
<1> QED
  BY <1>1, <1>2, <1>3 DEF HandshakeInvariant

\* What an edge does to the cores, whatever the dispatcher does at that edge.
LEMMA CoresStep ==
  ASSUME TypeOK, HandshakeOrder,
         NEW ending \in SUBSET {c \in Cores : Executing(c)}, CoresClock(ending)
  PROVE  /\ core_started' \in [Cores -> BOOLEAN]
         /\ core_done' \in [Cores -> BOOLEAN]
         /\ warps_done' \in [Cores -> BOOLEAN]
         /\ \A c \in Cores :
               /\ core_started'[c] <=> ~core_reset[c] /\ (core_started[c] \/ core_start[c])
               /\ warps_done'[c] <=> ~core_reset[c] /\ (warps_done[c] \/ c \in ending)
               /\ core_done'[c] => ~core_reset[c] /\ warps_done[c]
               /\ c \in ending => /\ core_started[c] /\ core_start[c]
                                  /\ ~core_reset[c] /\ ~warps_done[c]
<1>1. \A c \in ending : c \in Cores /\ Executing(c)
  OBVIOUS
<1>2. \A c \in Cores : CoreDoneAfter(c) \in BOOLEAN
  BY DEF CoreDoneAfter
<1>3. \A c \in Cores : CoreDoneAfter(c) => ~core_reset[c] /\ warps_done[c]
  BY DEF CoreDoneAfter, HandshakeOrder
<1> QED
  BY <1>1, <1>2, <1>3 DEF CoresClock, TypeOK, HandshakeOrder, Executing

\* A reset edge leaves nothing of the kernel behind.
LEMMA ResetPreserves ==
  ASSUME HandshakeInvariant,
         NEW ending \in SUBSET {c \in Cores : Executing(c)}, Reset(ending)
  PROVE  HandshakeInvariant'
<1>1. TypeOK /\ HandshakeOrder /\ CoresClock(ending)
  BY DEF HandshakeInvariant, Reset
<1>2. TypeOK'
  <2>1. num_blocks' \in Nat /\ 0 \in 0 .. num_blocks'
    BY <1>1 DEF TypeOK, Reset
  <2>2. /\ core_started' \in [Cores -> BOOLEAN]
        /\ core_done' \in [Cores -> BOOLEAN]
        /\ warps_done' \in [Cores -> BOOLEAN]
    BY <1>1, CoresStep
  <2> QED
    BY <2>1, <2>2 DEF TypeOK, Reset
<1>3. NothingBeforeLaunch' /\ BlocksInRange' /\ HeldBlocksDiffer' /\ HeldBlockEndsWithWarps'
  BY DEF Reset, NothingBeforeLaunch, BlocksInRange, HeldBlocksDiffer, HeldBlockEndsWithWarps
<1>4. HandshakeOrder'
  BY <1>1, CoresStep DEF Reset, HandshakeOrder
<1>5. CountIsBelowRetired'
  <2>1. Retired' = {}
    BY DEF Reset, Retired
  <2> QED
    BY <2>1, FS_EmptySet DEF Reset, CountIsBelowRetired
<1> QED
  BY <1>2, <1>3, <1>4, <1>5 DEF HandshakeInvariant

\* Before a launch no core holds a block, and latching the configuration only
\* chooses the size of the grid.
LEMMA IdlePreserves ==
  ASSUME HandshakeInvariant,
         NEW ending \in SUBSET {c \in Cores : Executing(c)},
         Wait(ending) \/ Launch(ending)
  PROVE  HandshakeInvariant'
<1>1. TypeOK /\ HandshakeOrder /\ CoresClock(ending)
  BY DEF HandshakeInvariant, Wait, Launch
<1>2. /\ ~launched /\ blocks_dispatched = 0 /\ blocks_done = 0 /\ ~done
      /\ ~start_execution
      /\ \A c \in Cores : ~core_start[c]
      /\ finished = {}
  BY DEF HandshakeInvariant, NothingBeforeLaunch, BlocksInRange, Wait, Launch
<1>3. /\ UNCHANGED dispatcherVars
      /\ UNCHANGED finished
      /\ launched' \in BOOLEAN
      /\ num_blocks' \in Nat
  BY <1>1, KernelSizesAssumption DEF Wait, Launch, TypeOK
<1>4. TypeOK'
  BY <1>1, <1>2, <1>3, CoresStep DEF TypeOK
<1>5. NothingBeforeLaunch' /\ BlocksInRange' /\ HeldBlocksDiffer' /\ HeldBlockEndsWithWarps'
  BY <1>2, <1>3 DEF NothingBeforeLaunch, BlocksInRange, HeldBlocksDiffer, HeldBlockEndsWithWarps
<1>6. HandshakeOrder'
  BY <1>1, <1>2, <1>3, CoresStep DEF HandshakeOrder
<1>7. CountIsBelowRetired'
  <2>1. Retired' = {}
    BY <1>2, <1>3 DEF Retired
  <2> QED
    BY <2>1, <1>2, <1>3, FS_EmptySet DEF CountIsBelowRetired
<1> QED
  BY <1>4, <1>5, <1>6, <1>7 DEF HandshakeInvariant

\* The edge of a running kernel.
LEMMA RunPreserves ==
  ASSUME HandshakeInvariant,
         NEW ending \in SUBSET {c \in Cores : Executing(c)}, Run(ending)
  PROVE  HandshakeInvariant'
<1> DEFINE n == Cardinality(Dispatching)
<1>a. /\ TypeOK /\ NothingBeforeLaunch /\ HandshakeOrder /\ BlocksInRange
      /\ HeldBlocksDiffer /\ HeldBlockEndsWithWarps /\ CountIsBelowRetired
  BY DEF HandshakeInvariant
<1>b. launched /\ DispatchClock /\ CoresClock(ending) /\ UNCHANGED gpuVars
  BY DEF Run
<1>c. /\ n \in Nat
      /\ blocks_dispatched' = blocks_dispatched + n
      /\ blocks_dispatched + n <= num_blocks
      /\ blocks_dispatched' \in 0 .. num_blocks
  BY <1>a, <1>b, DispatchLoop DEF DispatchClock, BlockIdAfter, TypeOK
<1>d. \A c \in Cores :
         Dispatches(c) => /\ BlockFor(c) \in Nat
                          /\ blocks_dispatched <= BlockFor(c)
                          /\ BlockFor(c) < blocks_dispatched'
  BY <1>a, <1>c, DispatchLoop DEF Dispatching
<1>e. \A c \in Cores :
         /\ core_start'[c] <=> ~Collects(c) /\ (core_start[c] \/ Dispatches(c))
         /\ core_reset'[c] <=> Collects(c) \/ (~core_reset[c] /\ ~start_execution)
         /\ core_block_id'[c] = IF Dispatches(c) THEN BlockFor(c) ELSE core_block_id[c]
         /\ Dispatches(c) => core_reset[c] /\ ~core_start[c]
  BY <1>a, <1>b DEF DispatchClock, BlockIdAfter, CoreResetAfter, HandshakeOrder, Dispatches
<1>f. finished' = finished \union {core_block_id[c] : c \in ending}
  BY DEF Run
\* A core that holds a block after the edge held it before, or was just given it.
<1>g. \A c \in Cores :
         core_start'[c] => \/ /\ core_start[c] /\ ~Collects(c) /\ ~Dispatches(c)
                              /\ core_block_id'[c] = core_block_id[c]
                              /\ core_block_id[c] < blocks_dispatched
                              /\ core_block_id[c] \in Nat
                           \/ Dispatches(c) /\ core_block_id'[c] = BlockFor(c)
  BY <1>a, <1>e DEF BlocksInRange, TypeOK
<1>1. core_start' \in [Cores -> BOOLEAN] /\ core_reset' \in [Cores -> BOOLEAN]
      /\ core_block_id' \in [Cores -> Nat]
  <2>1. \A c \in Cores : CoreResetAfter(c) \in BOOLEAN
    BY DEF CoreResetAfter
  <2>2. \A c \in Cores : (IF Dispatches(c) THEN BlockFor(c) ELSE core_block_id[c]) \in Nat
    BY <1>a, <1>d DEF TypeOK
  <2> QED
    BY <1>b, <2>1, <2>2 DEF DispatchClock, BlockIdAfter
<1>2. HandshakeOrder'
  <2> SUFFICES ASSUME NEW c \in Cores
               PROVE  /\ core_start'[c] => ~core_reset'[c]
                      /\ core_started'[c] => core_start'[c] \/ core_reset'[c]
                      /\ warps_done'[c] => core_started'[c]
                      /\ core_done'[c] => warps_done'[c]
    BY DEF HandshakeOrder
  <2>1. core_start'[c] => ~core_reset'[c]
    BY <1>a, <1>e, <1>g DEF NothingBeforeLaunch, Dispatches
  <2>2. core_started'[c] => core_start'[c] \/ core_reset'[c]
    BY <1>a, <1>b, <1>e, CoresStep DEF HandshakeOrder
  <2>3. /\ warps_done'[c] => core_started'[c]
        /\ core_done'[c] => warps_done'[c]
    BY <1>a, <1>b, CoresStep DEF HandshakeOrder
  <2> QED
    BY <2>1, <2>2, <2>3
<1>3. BlocksInRange'
  <2>1. \A c \in ending : core_block_id[c] \in Nat /\ core_block_id[c] < blocks_dispatched
    BY <1>a, <1>b, CoresStep DEF BlocksInRange, TypeOK
  <2>2. finished' \subseteq 0 .. blocks_dispatched' - 1
    <3> SUFFICES ASSUME NEW b \in finished'
                 PROVE  b \in Nat /\ b < blocks_dispatched
      BY <1>a, <1>c DEF TypeOK
    <3>1. CASE b \in finished
      BY <3>1, <1>a DEF BlocksInRange, TypeOK
    <3>2. CASE b \in {core_block_id[c] : c \in ending}
      BY <3>2, <2>1
    <3> QED
      BY <3>1, <3>2, <1>f
  <2>3. \A c \in Cores : core_start'[c] => core_block_id'[c] < blocks_dispatched'
    BY <1>a, <1>c, <1>d, <1>g DEF TypeOK
  <2> QED
    BY <2>2, <2>3 DEF BlocksInRange
<1>4. HeldBlocksDiffer'
  <2> SUFFICES ASSUME NEW c \in Cores, NEW d \in Cores, core_start'[c], core_start'[d],
                      core_block_id'[c] = core_block_id'[d]
               PROVE  c = d
    BY DEF HeldBlocksDiffer
  <2>1. CASE ~Dispatches(c) /\ ~Dispatches(d)
    BY <2>1, <1>a, <1>g DEF HeldBlocksDiffer
  <2>2. CASE Dispatches(c) /\ Dispatches(d)
    <3>1. c \in Dispatching /\ d \in Dispatching /\ BlockFor(c) = BlockFor(d)
      BY <2>2, <1>g DEF Dispatching
    <3> QED
      BY <3>1, <1>a, DispatchLoop
  <2>3. CASE Dispatches(c) /\ ~Dispatches(d)
    BY <2>3, <1>a, <1>d, <1>g DEF TypeOK
  <2>4. CASE ~Dispatches(c) /\ Dispatches(d)
    BY <2>4, <1>a, <1>d, <1>g DEF TypeOK
  <2> QED
    BY <2>1, <2>2, <2>3, <2>4
<1>5. HeldBlockEndsWithWarps'
  <2> SUFFICES ASSUME NEW c \in Cores, core_start'[c]
               PROVE  warps_done'[c] <=> core_block_id'[c] \in finished'
    BY DEF HeldBlockEndsWithWarps
  <2>1. CASE Dispatches(c)
    <3>1. ~warps_done'[c]
      BY <2>1, <1>a, <1>b, <1>e, CoresStep
    <3>2. \A b \in finished' : b < blocks_dispatched
      BY <1>a, <1>b, <1>f, CoresStep DEF BlocksInRange, TypeOK
    <3> QED
      BY <2>1, <3>1, <3>2, <1>a, <1>d, <1>g DEF TypeOK
  <2>2. CASE ~Dispatches(c)
    <3>1. core_start[c] /\ core_block_id'[c] = core_block_id[c]
      BY <2>2, <1>g
    <3>2. warps_done'[c] <=> warps_done[c] \/ c \in ending
      BY <3>1, <1>a, <1>b, CoresStep DEF HandshakeOrder
    <3>3. core_block_id[c] \in {core_block_id[d] : d \in ending} <=> c \in ending
      BY <3>1, <1>a, <1>b, CoresStep DEF HeldBlocksDiffer
    <3> QED
      BY <3>1, <3>2, <3>3, <1>a, <1>f DEF HeldBlockEndsWithWarps
  <2> QED
    BY <2>1, <2>2
\* No block leaves Retired, and a completed handshake adds the block it names.
<1>6. Retired \subseteq Retired'
  <2> SUFFICES ASSUME NEW b \in Retired, NEW c \in Cores, core_start'[c]
               PROVE  core_block_id'[c] # b
    BY <1>f DEF Retired
  <2>1. b \in finished /\ b < blocks_dispatched /\ b \in Nat
    BY <1>a DEF Retired, BlocksInRange, TypeOK
  <2> QED
    BY <2>1, <1>a, <1>d, <1>g DEF Retired, TypeOK
<1>7. ASSUME NEW c \in Cores, Collects(c)
      PROVE  core_block_id[c] \notin Retired /\ core_block_id[c] \in Retired'
  <2>1. core_start[c] /\ core_block_id[c] \in finished
    BY <1>7, <1>a DEF Collects, HandshakeOrder, HeldBlockEndsWithWarps
  <2>2. ASSUME NEW d \in Cores, core_start'[d]
        PROVE  core_block_id'[d] # core_block_id[c]
    <3>1. core_block_id[c] \in Nat /\ core_block_id[c] < blocks_dispatched
      BY <2>1, <1>a DEF BlocksInRange, TypeOK
    <3>2. CASE Dispatches(d)
      BY <2>2, <3>1, <3>2, <1>a, <1>d, <1>g DEF TypeOK
    <3>3. CASE ~Dispatches(d)
      BY <2>1, <2>2, <3>3, <1>7, <1>a, <1>g DEF HeldBlocksDiffer
    <3> QED
      BY <3>2, <3>3
  <2> QED
    BY <2>1, <2>2, <1>f DEF Retired
<1>8. IsFiniteSet(finished') /\ Cardinality(finished') \in Nat
      /\ Cardinality(finished') <= blocks_dispatched'
  <2>1. blocks_dispatched' - 1 \in Int /\ finished' \subseteq 0 .. blocks_dispatched' - 1
    BY <1>c, <1>3 DEF BlocksInRange
  <2>2. IsFiniteSet(0 .. blocks_dispatched' - 1)
        /\ Cardinality(0 .. blocks_dispatched' - 1) = blocks_dispatched'
    BY <1>c, <2>1, FS_Interval
  <2> QED
    BY <2>1, <2>2, FS_Subset, FS_CardinalityType
<1>9. IsFiniteSet(Retired') /\ Cardinality(Retired') \in Nat
      /\ Cardinality(Retired') <= Cardinality(finished')
  BY <1>8, FS_Subset, FS_CardinalityType DEF Retired
<1>10. blocks_done' <= Cardinality(Retired') /\ blocks_done' \in Nat
  <2>0. blocks_done \in Nat /\ blocks_done <= Cardinality(Retired)
    BY <1>a DEF TypeOK, CountIsBelowRetired
  <2>1. IsFiniteSet(Retired) /\ Cardinality(Retired) \in Nat
        /\ Cardinality(Retired) <= Cardinality(Retired')
        /\ (Retired # Retired' => Cardinality(Retired) # Cardinality(Retired'))
    BY <1>6, <1>9, FS_Subset, FS_CardinalityType
  <2>2. CASE \E c \in Cores : Collects(c)
    <3>1. Retired # Retired'
      BY <2>2, <1>7
    <3>2. blocks_done' = blocks_done + 1
      BY <2>2, <1>b DEF DispatchClock, BlocksDoneAfter
    <3> QED
      BY <2>0, <2>1, <3>1, <3>2, <1>9
  <2>3. CASE ~\E c \in Cores : Collects(c)
    <3>1. blocks_done' = blocks_done
      BY <2>3, <1>b DEF DispatchClock, BlocksDoneAfter
    <3> QED
      BY <2>0, <2>1, <3>1, <1>9
  <2> QED
    BY <2>2, <2>3
<1>11. TypeOK'
  <2>1. blocks_done' \in 0 .. num_blocks'
    BY <1>8, <1>9, <1>10, <1>b, <1>c, <1>a DEF TypeOK
  <2>2. blocks_dispatched' \in 0 .. num_blocks'
    BY <1>b, <1>c
  <2>3. done' \in BOOLEAN /\ start_execution' \in BOOLEAN
    BY <1>a, <1>b DEF DispatchClock, KernelComplete, TypeOK
  <2>4. finished' \subseteq Nat
    BY <1>3, <1>c DEF BlocksInRange
  <2> QED
    BY <2>1, <2>2, <2>3, <2>4, <1>a, <1>b, <1>1, CoresStep DEF TypeOK
<1>12. NothingBeforeLaunch'
  BY <1>b DEF DispatchClock, NothingBeforeLaunch
\* Once every block has been counted there is none left for a core to hold.
<1>13. CountIsBelowRetired'
  <2>1. ASSUME done' PROVE blocks_done = num_blocks
    BY <2>1, <1>a, <1>b DEF DispatchClock, KernelComplete, CountIsBelowRetired
  <2>2. blocks_done \in Nat /\ blocks_done <= blocks_done' /\ num_blocks \in Nat
    BY <1>a, <1>b DEF DispatchClock, BlocksDoneAfter, TypeOK
  <2>3. blocks_done' <= num_blocks /\ num_blocks' = num_blocks
    BY <1>b, <1>11 DEF TypeOK
  <2>4. done' => blocks_done' = num_blocks'
    BY <2>1, <2>2, <2>3, <1>10
  <2> QED
    BY <2>4, <1>10 DEF CountIsBelowRetired
<1> QED
  BY <1>2, <1>3, <1>4, <1>5, <1>11, <1>12, <1>13 DEF HandshakeInvariant
\* Nothing changes when nothing happens.
LEMMA StutterPreserves == HandshakeInvariant /\ UNCHANGED vars => HandshakeInvariant'
<1> SUFFICES ASSUME HandshakeInvariant, UNCHANGED vars PROVE HandshakeInvariant'
  OBVIOUS
<1>1. TypeOK' /\ NothingBeforeLaunch' /\ HandshakeOrder'
  BY DEF HandshakeInvariant, TypeOK, NothingBeforeLaunch, HandshakeOrder, vars
<1>2. BlocksInRange' /\ HeldBlocksDiffer' /\ HeldBlockEndsWithWarps'
  BY DEF HandshakeInvariant, BlocksInRange, HeldBlocksDiffer, HeldBlockEndsWithWarps, vars
<1>3. CountIsBelowRetired'
  BY DEF HandshakeInvariant, CountIsBelowRetired, Retired, vars
<1> QED
  BY <1>1, <1>2, <1>3 DEF HandshakeInvariant

\* Every step keeps the invariant.
LEMMA StepPreserves == HandshakeInvariant /\ [Next]_vars => HandshakeInvariant'
<1> SUFFICES ASSUME HandshakeInvariant, [Next]_vars PROVE HandshakeInvariant'
  OBVIOUS
<1>1. CASE UNCHANGED vars
  BY <1>1, StutterPreserves
<1>2. CASE Next
  <2>1. PICK ending \in SUBSET {c \in Cores : Executing(c)} :
           Reset(ending) \/ Wait(ending) \/ Launch(ending) \/ Run(ending)
    BY <1>2 DEF Next
  <2>2. CASE Reset(ending)
    BY <2>2, ResetPreserves
  <2>3. CASE Wait(ending) \/ Launch(ending)
    BY <2>3, IdlePreserves
  <2>4. CASE Run(ending)
    BY <2>4, RunPreserves
  <2> QED
    BY <2>1, <2>2, <2>3, <2>4
<1> QED
  BY <1>1, <1>2

-----------------------------------------------------------------------------
(* Theorems.                                                               *)

\* The handshake of dispatcher.sv and compute_core.sv keeps HandshakeInvariant.
THEOREM HandshakeCorrect == Spec => []HandshakeInvariant
<1> QED
  BY InitEstablishes, StepPreserves, PTL DEF Spec

\* Type correctness; in particular neither counter of dispatcher.sv passes
\* num_blocks, so neither overflows its 32 bits.
THEOREM TypeCorrect == Spec => []TypeOK
<1>1. HandshakeInvariant => TypeOK
  BY DEF HandshakeInvariant
<1> QED
  BY <1>1, HandshakeCorrect, PTL

\* When as many completions are counted as there are blocks, all blocks ended.
LEMMA AllCountedAllFinished ==
  ASSUME HandshakeInvariant, blocks_done = num_blocks
  PROVE  finished = Blocks
<1>1. /\ num_blocks \in Nat /\ blocks_dispatched \in Nat
      /\ blocks_dispatched <= num_blocks
      /\ num_blocks <= Cardinality(Retired)
      /\ finished \subseteq 0 .. blocks_dispatched - 1
  BY DEF HandshakeInvariant, TypeOK, CountIsBelowRetired, BlocksInRange
<1>2. finished \subseteq Blocks
  BY <1>1 DEF Blocks
<1>3. IsFiniteSet(Blocks) /\ Cardinality(Blocks) = num_blocks
  BY <1>1, FS_Interval DEF Blocks
<1>4. Retired \subseteq Blocks
  BY <1>2 DEF Retired
<1>5. Cardinality(Retired) \in Nat /\ Cardinality(Retired) <= num_blocks
  BY <1>3, <1>4, FS_Subset, FS_CardinalityType
<1>6. Cardinality(Retired) = Cardinality(Blocks)
  BY <1>1, <1>3, <1>5
<1>7. Retired = Blocks
  BY <1>3, <1>4, <1>6, FS_Subset
<1> QED
  BY <1>2, <1>7 DEF Retired

\* execution_done is never early, for any number of cores and blocks: although
\* increments of blocks_done can be lost, none is ever made for nothing.
THEOREM DoneIsSound == Spec => []DoneMeansAllFinished
<1>1. HandshakeInvariant => DoneMeansAllFinished
  BY AllCountedAllFinished
     DEF HandshakeInvariant, CountIsBelowRetired, DoneMeansAllFinished
<1> QED
  BY <1>1, HandshakeCorrect, PTL

\* No block is run by two cores and none is run again, for any number of cores.
THEOREM BlocksRunOnce == Spec => []NoBlockRunsTwice
<1>1. HandshakeInvariant => NoBlockRunsTwice
  BY DEF HandshakeInvariant, HeldBlocksDiffer, HeldBlockEndsWithWarps,
         NoBlockRunsTwice, Running, Executing
<1> QED
  BY <1>1, HandshakeCorrect, PTL

\* The dispatcher never takes a core's old "done" for the end of its new block.
THEOREM CompletionsAreFresh == Spec => []CompletionIsFresh
<1>1. HandshakeInvariant => CompletionIsFresh
  BY DEF HandshakeInvariant, HandshakeOrder, HeldBlockEndsWithWarps,
         CompletionIsFresh, Collects
<1> QED
  BY <1>1, HandshakeCorrect, PTL

\* A core's block_id does not move while the core executes.
THEOREM BlockIdsAreStable == Spec => BlockIdIsStable
<1>1. HandshakeInvariant /\ [Next]_vars =>
         [launched' => \A c \in Running : core_block_id'[c] = core_block_id[c]]_vars
  <2> SUFFICES ASSUME HandshakeInvariant, Next, launched', NEW c \in Running
               PROVE  core_block_id'[c] = core_block_id[c]
    OBVIOUS
  <2>1. PICK ending \in SUBSET {d \in Cores : Executing(d)} :
           Reset(ending) \/ Wait(ending) \/ Launch(ending) \/ Run(ending)
    BY DEF Next
  <2>2. c \in Cores /\ ~Dispatches(c)
    BY DEF HandshakeInvariant, HandshakeOrder, Running, Dispatches
  <2>3. CASE Run(ending)
    BY <2>2, <2>3 DEF Run, DispatchClock, BlockIdAfter
  <2>4. CASE Wait(ending) \/ Launch(ending)
    BY <2>4 DEF Wait, Launch
  <2> QED
    BY <2>1, <2>3, <2>4 DEF Reset
<1> QED
  BY <1>1, HandshakeCorrect, PTL DEF Spec, BlockIdIsStable

\* Every step of the dispatcher and the cores is a step of the launch contract.
THEOREM DispatcherImplementsContract == Spec => ImplementsContract
<1> DEFINE running == {core_block_id[c] : c \in Running}
<1>1. Init => Contract!Init
  BY DEF Init, Contract!Init, Running
<1>2. HandshakeInvariant /\ HandshakeInvariant' /\ [Next]_vars
         => [Contract!Next]_(Contract!vars)
  <2> SUFFICES ASSUME HandshakeInvariant, HandshakeInvariant', [Next]_vars
               PROVE  Contract!Next \/ UNCHANGED Contract!vars
    OBVIOUS
  <2>1. CASE UNCHANGED vars
    BY <2>1 DEF vars, Contract!vars, Running, Executing
  <2>2. ASSUME NEW ending \in SUBSET {d \in Cores : Executing(d)}, Reset(ending)
        PROVE  Contract!Next
    <3>1. Running' = {}
      BY <2>2 DEF Reset, Running
    <3> QED
      BY <2>2, <3>1 DEF Reset, Contract!Next, Contract!Reset
  <2>3. ASSUME NEW ending \in SUBSET {d \in Cores : Executing(d)},
               Wait(ending) \/ Launch(ending)
        PROVE  Contract!Next \/ UNCHANGED Contract!vars
    <3>1. Running = {} /\ Running' = {}
      BY <2>3 DEF Wait, Launch, Running, HandshakeInvariant, NothingBeforeLaunch
    <3> QED
      BY <2>3, <3>1 DEF Wait, Launch, Contract!Next, Contract!Launch, Contract!vars
  <2>4. ASSUME NEW ending \in SUBSET {d \in Cores : Executing(d)}, Run(ending)
        PROVE  Contract!Next
    <3> DEFINE starting == running' \ running
               ended == {core_block_id[c] : c \in ending}
    <3>1. /\ TypeOK /\ HandshakeOrder /\ CoresClock(ending) /\ DispatchClock
          /\ launched /\ UNCHANGED gpuVars /\ finished' = finished \union ended
      BY <2>4 DEF HandshakeInvariant, Run
    <3>2. ended \subseteq running
      BY <3>1, CoresStep DEF Running
    <3>3. \A b \in running' : b \in Blocks /\ b \notin finished'
      BY <3>1 DEF Running, Executing, HandshakeInvariant, HeldBlockEndsWithWarps,
                  BlocksInRange, TypeOK, Blocks
    <3>4. ASSUME NEW c \in Running, c \notin ending
          PROVE  c \in Running' /\ core_block_id'[c] = core_block_id[c]
      <4>1. /\ c \in Cores /\ core_start[c] /\ core_started[c]
            /\ ~warps_done[c] /\ ~core_reset[c]
        BY DEF Running, Executing
      <4>2. start_execution /\ ~Collects(c) /\ ~Dispatches(c)
        BY <4>1, <3>1 DEF HandshakeInvariant, NothingBeforeLaunch, HandshakeOrder,
                          Collects, Dispatches
      <4>3. core_start'[c] /\ ~core_reset'[c] /\ core_block_id'[c] = core_block_id[c]
        BY <4>1, <4>2, <3>1 DEF DispatchClock, CoreResetAfter, BlockIdAfter
      <4>4. core_started'[c] /\ ~warps_done'[c]
        BY <4>1, <3>1, <3>4, CoresStep
      <4> QED
        BY <4>1, <4>3, <4>4 DEF Running, Executing
    <3>5. running' = (running \union starting) \ ended
      <4>1. running \ ended \subseteq running'
        BY <3>4
      <4>2. running' \intersect ended = {}
        BY <3>1, <3>3
      <4> HIDE DEF ended, running
      <4> QED
        BY <4>1, <4>2
    <3>6. starting \in SUBSET (Blocks \ (running \union finished))
      BY <3>1, <3>3
    <3>7. done' \in {done, finished = Blocks} /\ (done => done')
      <4>1. done \in BOOLEAN /\ done' = (done \/ blocks_done = num_blocks)
        BY <3>1 DEF TypeOK, DispatchClock, KernelComplete
      <4>2. blocks_done = num_blocks => finished = Blocks
        BY AllCountedAllFinished
      <4> QED
        BY <4>1, <4>2
    <3>8. Contract!Progress
      <4>1. Contract!Waiting = Blocks \ (running \union finished)
        BY DEF Contract!Waiting, Contract!Blocks, Blocks
      <4>2. \E s \in SUBSET Contract!Waiting, e \in SUBSET running :
               /\ running' = (running \union s) \ e
               /\ finished' = finished \union e
        <5> HIDE DEF running, ended, starting
        <5> QED
          BY <4>1, <3>1, <3>2, <3>5, <3>6
      <4> QED
        BY <4>2, <3>1, <3>7 DEF Contract!Progress, Contract!Blocks, Blocks
    <3> QED
      BY <3>8 DEF Contract!Next
  <2> QED
    BY <2>1, <2>2, <2>3, <2>4 DEF Next
<1> QED
  BY <1>1, <1>2, HandshakeCorrect, PTL DEF Spec, ImplementsContract, Contract!Spec
=============================================================================
