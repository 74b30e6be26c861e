--------------------------- MODULE KernelContract ---------------------------
(***************************************************************************)
(* What launching a kernel promises to the host, without cores, counters   *)
(* or handshakes: every block of the launched grid is started once, runs   *)
(* once to its end, and execution_done rises only when no block is left.   *)
(* Dispatcher.tla is shown to implement this module.                       *)
(***************************************************************************)
EXTENDS Naturals

CONSTANT KernelSizes        \* the values of num_blocks a host may configure

VARIABLES
    launched,               \* a kernel has been accepted and not reset away
    num_blocks,             \* the size of the accepted grid
    running,                \* blocks some core is executing
    finished,               \* blocks executed to their end
    done                    \* execution_done

vars == <<launched, num_blocks, running, finished, done>>

Blocks == 0 .. num_blocks - 1

Waiting == Blocks \ (running \union finished)

Init ==
    /\ launched = FALSE
    /\ num_blocks = 0
    /\ running = {}
    /\ finished = {}
    /\ done = FALSE

Launch ==
    /\ ~launched
    /\ launched' = TRUE
    /\ num_blocks' \in KernelSizes
    /\ UNCHANGED <<running, finished, done>>

\* Within one clock cycle any waiting blocks may start and any running
\* blocks may end; the kernel is reported done only once none is left.
Progress ==
    /\ launched
    /\ \E starting \in SUBSET Waiting, ending \in SUBSET running :
          /\ running' = (running \union starting) \ ending
          /\ finished' = finished \union ending
    /\ done' \in {done, finished = Blocks}
    /\ done => done'
    /\ UNCHANGED <<launched, num_blocks>>

Reset ==
    /\ launched' = FALSE
    /\ running' = {}
    /\ finished' = {}
    /\ done' = FALSE
    /\ UNCHANGED num_blocks

Next == Launch \/ Progress \/ Reset

Spec == Init /\ [][Next]_vars
=============================================================================
