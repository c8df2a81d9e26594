----------------------------- MODULE RateLimit -----------------------------
(***************************************************************************)
(* The fixed-window request limiters of generic_agent/rate_limit.py: the   *)
(* thread-safe one of a process and the one that replicas share.           *)
(***************************************************************************)
EXTENDS RuntimeSetup

CONSTANTS Route,          \* the keys: method, path and caller
          Capacity,       \* requests admitted per window
          WindowSeconds

ASSUME CapacityAssumption == Capacity \in Nat \ {0} /\ WindowSeconds \in Nat \ {0}

VARIABLE window           \* window[k]: its start or number, and its count

NoWindow == [id |-> 0, count |-> 0]
LimitInit == window = [k \in Route |-> NoWindow]

\* Mutant: a window that is over is emptied and keeps its start.
LocalWindowKeepsStart(k) ==
    IF window[k].count = 0 THEN [id |-> now, count |-> 1]
    ELSE IF now - window[k].id >= WindowSeconds
    THEN [window[k] EXCEPT !.count = 1]
    ELSE [window[k] EXCEPT !.count = @ + 1]

\* The window of key k after one more request in the local limiter: a window
\* starts with the first request that finds none, or finds an old one.
LocalWindow(k) ==
    IF window[k].count = 0 \/ now - window[k].id >= WindowSeconds
    THEN [id |-> now, count |-> 1]
    ELSE [window[k] EXCEPT !.count = @ + 1]

\* Mutant: the count goes on in the next window.
SharedWindowNoReset(k, at) ==
    [id |-> at \div WindowSeconds,
     count |-> IF window[k].count = 0 THEN 1 ELSE window[k].count + 1]

\* ... in the shared table, for a request that read the clock at time at.
SharedWindow(k, at) ==
    LET id == at \div WindowSeconds
    IN [id |-> id,
        count |-> IF window[k].count > 0 /\ window[k].id = id
                  THEN window[k].count + 1 ELSE 1]

\* The transaction deletes the rows of windows before the previous one.
Pruned(w, at) ==
    [k \in Route |-> IF w[k].id + 1 < at \div WindowSeconds THEN NoWindow ELSE w[k]]

CheckLocal(k) == window' = [window EXCEPT ![k] = LocalWindow(k)]
CheckShared(k, at) ==
    window' = Pruned([window EXCEPT ![k] = SharedWindow(k, at)], at)

\* The decision on the request that has just been counted.
Admits(w) == w.count <= Capacity
=============================================================================
