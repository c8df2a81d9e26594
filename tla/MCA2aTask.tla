----------------------------- MODULE MCA2aTask -----------------------------
(* Instances of A2aTask for TLC: three requests about one task. *)
EXTENDS A2aTask, TLC

CONSTANTS q1, q2, q3, r1, r2

Symmetry == Permutations(Replica)

\* Two sends of one message, or one, with a cancellation and a subscription.
SendsCancelStream ==
    {[q \in Req |-> CASE q = q1 -> "send" [] q = q2 -> "send" [] OTHER -> "cancel"],
     [q \in Req |-> CASE q = q1 -> "send" [] q = q2 -> "cancel" [] OTHER -> "stream"]}
SendSend == {[q \in Req |-> "send"]}
SendCancel == {[q \in Req |-> IF q = q1 THEN "send" ELSE "cancel"]}
=============================================================================
