----------------------------- MODULE LeaseTable -----------------------------
(***************************************************************************)
(* What a table of leases promises to the operations that work under them  *)
(* (the contract of DeploymentOperationOwnershipStore.acquire, heartbeat   *)
(* and release): a key is granted when nobody's lease on it is live,       *)
(* whoever had it before; a lease is renewed for its owner, while that     *)
(* works under it, and given up by its owner only.  Nothing here speaks of *)
(* clocks, epochs or transactions.                                         *)
(***************************************************************************)
CONSTANTS Client,    \* whoever asks for a lease
          Resource,  \* what the leases are on
          Nobody     \* the owner of a key that nobody has

VARIABLES owner,     \* owner[k]: who was granted k last and has not given it up
          live,      \* live[k]: that lease has not expired
          relying    \* the clients that work under a lease of theirs

leaseVars == <<owner, live, relying>>

TypeOK ==
    /\ owner \in [Resource -> Client \cup {Nobody}]
    /\ live \in [Resource -> BOOLEAN]
    /\ relying \subseteq Client

Init ==
    /\ owner = [k \in Resource |-> Nobody]
    /\ live = [k \in Resource |-> FALSE]
    /\ relying = {}

\* The new expiry of k is told: a slow call may leave it in the past.
Dated(k) == \E b \in BOOLEAN : live' = [live EXCEPT ![k] = b]

\* c, which has no lease yet, is granted k.
Grant(c, k) ==
    /\ c \notin relying
    /\ ~live[k]
    /\ owner' = [owner EXCEPT ![k] = c]
    /\ relying' = relying \cup {c}
    /\ Dated(k)

\* A heartbeat of c: it may find a lease that has expired and that nobody has
\* taken over.
Renew(c, k) ==
    /\ c \in relying
    /\ owner[k] = c
    /\ Dated(k)
    /\ UNCHANGED <<owner, relying>>

\* c gives its lease up.
GiveUp(c, k) ==
    /\ c \in relying
    /\ owner[k] = c
    /\ owner' = [owner EXCEPT ![k] = Nobody]
    /\ live' = [live EXCEPT ![k] = FALSE]
    /\ relying' = relying \ {c}

\* Time passes.
Lapse ==
    /\ live' \in [Resource -> BOOLEAN]
    /\ \A k \in Resource : live'[k] => live[k]
    /\ UNCHANGED <<owner, relying>>

\* Clients stop, or die, and leave their leases to expire.
Abandon ==
    /\ relying' \subseteq relying
    /\ UNCHANGED <<owner, live>>

Next ==
    \/ \E c \in Client, k \in Resource : Grant(c, k) \/ Renew(c, k) \/ GiveUp(c, k)
    \/ Lapse \/ Abandon

Spec == Init /\ [][Next]_leaseVars
=============================================================================
