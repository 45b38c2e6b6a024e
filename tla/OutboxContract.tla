--------------------------- MODULE OutboxContract ---------------------------
(***************************************************************************)
(* What the Birdwatch outbox promises of one event, whichever store holds  *)
(* it: it completes only when the webhooks subscribed at its emission have *)
(* acknowledged it, it is abandoned only after exactly MaxAttempts failed  *)
(* rounds, and it never leaves those two states.                           *)
(***************************************************************************)
EXTENDS Naturals

CONSTANTS Events, Hooks, MaxAttempts

VARIABLES status,   \* progress of each event
          owed,     \* the webhooks each event must still reach to complete
          got,      \* the webhooks that acknowledged it
          rounds    \* its failed rounds

vars == <<status, owed, got, rounds>>

Init ==
    /\ status = [e \in Events |-> "none"]
    /\ owed = [e \in Events |-> {}]
    /\ got = [e \in Events |-> {}]
    /\ rounds = [e \in Events |-> 0]

Accept(e) ==
    /\ status[e] = "none"
    /\ status' = [status EXCEPT ![e] = "pending"]
    /\ \E H \in SUBSET Hooks : owed' = [owed EXCEPT ![e] = H]
    /\ UNCHANGED <<got, rounds>>

Acknowledge(e, h) ==
    /\ status[e] = "pending"
    /\ got' = [got EXCEPT ![e] = @ \cup {h}]
    /\ UNCHANGED <<status, owed, rounds>>

(* A webhook is removed: nothing is owed to it any more. *)
Release(h) ==
    /\ owed' = [e \in Events |-> owed[e] \ {h}]
    /\ UNCHANGED <<status, got, rounds>>

Complete(e) ==
    /\ status[e] = "pending" /\ owed[e] \subseteq got[e]
    /\ status' = [status EXCEPT ![e] = "delivered"]
    /\ UNCHANGED <<owed, got, rounds>>

FailRound(e) ==
    /\ status[e] = "pending"
    /\ rounds' = [rounds EXCEPT ![e] = @ + 1]
    /\ status' = [status EXCEPT ![e] = IF rounds[e] + 1 = MaxAttempts THEN "failed" ELSE @]
    /\ UNCHANGED <<owed, got>>

Next ==
    \/ \E e \in Events : Accept(e) \/ Complete(e) \/ FailRound(e)
    \/ \E e \in Events, h \in Hooks : Acknowledge(e, h)
    \/ \E h \in Hooks : Release(h)

Spec == Init /\ [][Next]_vars
=============================================================================
