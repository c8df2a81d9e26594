---------------------------- MODULE FencingToken ----------------------------
(***************************************************************************)
(* What a lease store promises to the operations that write under it       *)
(* (ADR-011, "Shared lease and fencing record"): tokens are issued in      *)
(* increasing order for each resource, and a write is accepted only under  *)
(* the newest token.  Nothing here speaks of clocks, rows or expiry; the   *)
(* stores of the Control Plane and of the A2A server implement it.         *)
(***************************************************************************)
EXTENDS Naturals

CONSTANTS Client,    \* whoever asks for a token
          Resource,  \* what the tokens protect
          KeyOf      \* the resource each client works on

VARIABLES newest,    \* newest[r]: the last token issued for r; 0 when none was
          token,     \* token[c]: the token c was given; 0 before that
          accepted   \* accepted[r]: the token of the last write accepted for r

fencingVars == <<newest, token, accepted>>

TypeOK ==
    /\ newest \in [Resource -> Nat]
    /\ token \in [Client -> Nat]
    /\ accepted \in [Resource -> Nat]

Init ==
    /\ newest = [r \in Resource |-> 0]
    /\ token = [c \in Client |-> 0]
    /\ accepted = [r \in Resource |-> 0]

\* A client gets a token larger than every token issued before it.
Issue(c) ==
    /\ newest' = [newest EXCEPT ![KeyOf[c]] = @ + 1]
    /\ token' = [token EXCEPT ![c] = newest[KeyOf[c]] + 1]
    /\ UNCHANGED accepted

\* A write goes through under the newest token only.
Accept(c) ==
    /\ token[c] > 0
    /\ token[c] = newest[KeyOf[c]]
    /\ accepted' = [accepted EXCEPT ![KeyOf[c]] = token[c]]
    /\ UNCHANGED <<newest, token>>

Next == \E c \in Client : Issue(c) \/ Accept(c)

Spec == Init /\ [][Next]_fencingVars
=============================================================================
