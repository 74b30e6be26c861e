---------------------------- MODULE AtomicMemory ----------------------------
(***************************************************************************)
(* What the data memory promises to the load-store units, without          *)
(* channels, handshakes or latencies: each unit has at most one request    *)
(* outstanding, the request takes effect exactly once and at one instant   *)
(* between its issue and its completion, and it is completed with the      *)
(* value it read at that instant.  DataMemorySystem.tla implements this.   *)
(***************************************************************************)
CONSTANTS Consumers, Addresses, Values

\* request[c] or result[c] when there is none.
NoRequest == [op |-> "none"]
NoResult == [op |-> "none"]

Requests ==
    [op : {"read"}, addr : Addresses]
        \union [op : {"write"}, addr : Addresses, data : Values]

VARIABLES
    memory,         \* the value at each address
    request,        \* what each consumer has asked for and not been answered
    result,         \* the outcome of a request that has taken effect
    out             \* the value a consumer was last handed, while it uses it

vars == <<memory, request, result, out>>

Init ==
    /\ memory \in [Addresses -> Values]
    /\ request = [c \in Consumers |-> NoRequest]
    /\ result = [c \in Consumers |-> NoResult]
    /\ out = [c \in Consumers |-> NoResult]

Outcome(r) ==
    IF r.op = "read" THEN [op |-> "read", data |-> memory'[r.addr]]
                     ELSE [op |-> "write"]

\* What can happen to consumer c in one clock cycle.
Rests(c) ==
    /\ request'[c] = request[c]
    /\ result'[c] = result[c]
    /\ out'[c] \in {out[c], NoResult}

Issues(c) ==
    /\ request[c] = NoRequest
    /\ request'[c] \in Requests
    /\ result'[c] = NoResult
    /\ out'[c] = NoResult

TakesEffect(c) ==
    /\ request[c] # NoRequest
    /\ result[c] = NoResult
    /\ request'[c] = request[c]
    /\ result'[c] = Outcome(request[c])
    /\ out'[c] = out[c]

Completes(c) ==
    /\ result[c] # NoResult
    /\ request'[c] = NoRequest
    /\ result'[c] = NoResult
    /\ out'[c] = result[c]

\* A reset: the consumer gives up its request, which may have taken effect or
\* take effect at this instant, but not later.
Abandons(c) ==
    /\ request'[c] = NoRequest
    /\ result'[c] = NoResult
    /\ out'[c] \in {out[c], result[c], NoResult}

\* The writes to an address that take effect, and those that may.
Pending(c, a) ==
    result[c] = NoResult /\ request[c].op = "write" /\ request[c].addr = a
WritesTo(a) == {c \in Consumers : Pending(c, a) /\ TakesEffect(c)}
MayWriteTo(a) == {c \in Consumers : Pending(c, a) /\ (TakesEffect(c) \/ Abandons(c))}

\* Memory changes only by the writes that take effect; of several writes to
\* an address in one cycle one is the last.
MemoryStep ==
    /\ memory' \in [Addresses -> Values]
    /\ \A a \in Addresses :
          \/ WritesTo(a) = {} /\ memory'[a] = memory[a]
          \/ memory'[a] \in {request[c].data : c \in MayWriteTo(a)}

\* One clock cycle; in a reset every consumer gives up.
Works(c) == Rests(c) \/ Issues(c) \/ TakesEffect(c) \/ Completes(c)

Next ==
    /\ (\A c \in Consumers : Works(c)) \/ (\A c \in Consumers : Abandons(c))
    /\ MemoryStep

Spec == Init /\ [][Next]_vars
=============================================================================
