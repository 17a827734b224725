---------------------------- MODULE OutboxQueue ----------------------------
(***************************************************************************)
(* What an outbox promises the code that enqueues: at-least-once delivery  *)
(* within a budget.  A row is delivered zero or more times, is reported    *)
(* sent only after a delivery took effect, is dead-lettered otherwise, and *)
(* keeps its outcome.  No relays, leases, clocks or crashes appear here.   *)
(***************************************************************************)
EXTENDS Integers

CONSTANTS Rows, MaxAttempts

VARIABLES
    state,      \* "absent", "pending", "sent" or "failed"
    calls,      \* delivery attempts charged to the row
    delivered   \* the side effect has happened at least once

Init ==
    /\ state = [r \in Rows |-> "absent"]
    /\ calls = [r \in Rows |-> 0]
    /\ delivered = [r \in Rows |-> FALSE]

Enqueue(r) ==
    /\ state[r] = "absent"
    /\ state' = [state EXCEPT ![r] = "pending"]
    /\ UNCHANGED <<calls, delivered>>

Call(r) ==
    /\ state[r] = "pending" /\ calls[r] < MaxAttempts
    /\ calls' = [calls EXCEPT ![r] = @ + 1]
    /\ UNCHANGED <<state, delivered>>

\* A call that turned out not to be an attempt is taken back.
Withdraw(r) ==
    /\ state[r] = "pending"
    /\ calls' = [calls EXCEPT ![r] = @ - 1]
    /\ UNCHANGED <<state, delivered>>

\* A call may still take effect after the row was settled.
Effect(r) ==
    /\ state[r] # "absent"
    /\ delivered' = [delivered EXCEPT ![r] = TRUE]
    /\ UNCHANGED <<state, calls>>

Send(r) ==
    /\ state[r] = "pending" /\ delivered[r]
    /\ state' = [state EXCEPT ![r] = "sent"]
    /\ UNCHANGED <<calls, delivered>>

\* Pending rows are dead-lettered, several at a time by the reaper.
DeadLetter(R) ==
    /\ \A r \in R : state[r] = "pending"
    /\ state' = [r \in Rows |-> IF r \in R THEN "failed" ELSE state[r]]
    /\ UNCHANGED <<calls, delivered>>

Next ==
    \/ \E r \in Rows : Enqueue(r) \/ Call(r) \/ Withdraw(r) \/ Effect(r) \/ Send(r)
    \/ \E R \in SUBSET Rows : DeadLetter(R)

Spec == Init /\ [][Next]_<<state, calls, delivered>>

=============================================================================
