------------------------- MODULE OutboxRelayProofs -------------------------
(***************************************************************************)
(* Proofs about OutboxRelay, for every number of rows and relays, every    *)
(* limit and every combination of faults.                                  *)
(***************************************************************************)
EXTENDS OutboxRelay, FiniteSetTheorems, TLAPS

USE DEF MaxOf, MinOf

----------------------------------------------------------------------------
(* The delays fail() and defer() write are natural numbers.                 *)

\* Powers of two, of which the back-off is made, are natural numbers.
LEMMA PowerOfTwo == ASSUME NEW n \in Nat PROVE 2^n \in Nat
<1>1. IsFiniteSet(1..n) /\ Cardinality(1..n) = n
  BY FS_Interval
<1>2. IsFiniteSet(SUBSET (1..n)) /\ Cardinality(SUBSET (1..n)) = 2^n
  BY <1>1, FS_SUBSET
<1> QED
  BY <1>2, FS_CardinalityType

\* backoffDelayMs is never negative for an attempt the claim has charged.
LEMMA BackoffType == ASSUME NEW n \in 1..MaxAttempts PROVE backoffDelay(n) \in Nat
<1>1. n - 1 \in Nat
  BY LimitsAssumption
<1>2. 2^(n - 1) \in Nat
  BY <1>1, PowerOfTwo
<1>3. \A b, p \in Nat : b * p \in Nat
  OBVIOUS
<1> QED
  BY <1>2, <1>3, DelaysAssumption DEF backoffDelay

\* Whatever a server answers, the clamped hint and the retry delay are natural.
LEMMA DelayTypes ==
  ASSUME NEW e \in Thrown
  PROVE  /\ Clamp(e.delay) \in Nat
         /\ \A n \in 1..MaxAttempts : RetryDelay(e, n) \in Nat
<1>1. e.delay \in Int
  BY DelaysAssumption DEF Thrown, Transient, NonRetryable, RetryAfter, Defer
<1>2. Clamp(e.delay) \in Nat
  BY <1>1, DelaysAssumption DEF Clamp
<1>3. ASSUME NEW n \in 1..MaxAttempts PROVE RetryDelay(e, n) \in Nat
  BY <1>2, BackoffType DEF RetryDelay
<1> QED
  BY <1>2, <1>3

\* An ordinary error is one fail() can be given.
LEMMA TransientThrown == Transient \in Thrown
BY DEF Thrown

\* The hold of a batch is a natural number.
LEMMA HoldType == ASSUME NEW S \in SUBSET Rows PROVE hold(S) \in Nat
<1>1. Cardinality(S) \in Nat
  BY RowsAssumption, FS_Subset, FS_CardinalityType
<1> QED
  BY <1>1, LimitsAssumption DEF hold

----------------------------------------------------------------------------
(* IInv is an inductive invariant: one lemma per action.                    *)

\* The empty table and the idle relays satisfy the invariant.
LEMMA InitInv == Init => IInv
BY RelaysAssumption, LimitsAssumption
   DEF Init, IInv, TypeOK, ClaimsAreCharged, LeasedIsPending, HeldRowIsCurrent, CallsArePaid,
       CallsWithinBudget, EffectIsRecorded, SentWasDelivered, TableTypeOK, RelayTypeOK, Work, Thrown, Transient

\* Inserting a row touches no lease and no relay.
LEMMA enqueueInv == ASSUME IInv, NEW r \in Rows, enqueue(r) PROVE IInv'
<1> USE DEF IInv, enqueue, process, Work, holdsLease
<1>1. TypeOK'
  BY RelaysAssumption, LimitsAssumption DEF TypeOK, TableTypeOK, RelayTypeOK
<1>2. ClaimsAreCharged' /\ LeasedIsPending' /\ HeldRowIsCurrent'
  BY RelaysAssumption DEF TypeOK, TableTypeOK, RelayTypeOK, ClaimsAreCharged, LeasedIsPending, HeldRowIsCurrent
<1>3. CallsArePaid' /\ CallsWithinBudget' /\ EffectIsRecorded' /\ SentWasDelivered'
  BY RelaysAssumption DEF TypeOK, TableTypeOK, RelayTypeOK, ClaimsAreCharged, HeldRowIsCurrent, LeasedIsPending, CallsArePaid,
        CallsWithinBudget, EffectIsRecorded, SentWasDelivered
<1> QED
  BY <1>1, <1>2, <1>3

\* A claim charges the rows it stamps, takes only pending rows within budget, and reaps only rows no longer leased to it.
LEMMA claimInv == ASSUME IInv, NEW w \in Relays, NEW S \in SUBSET Rows, claim(w, S) PROVE IInv'
<1> USE DEF IInv, claim, stampLeases, StatusAfterReap, TokensAfterReap, Spend, Due, Abandoned, notLeased, Work, holdsLease
<1>1. TypeOK'
  BY RelaysAssumption, LimitsAssumption, HoldType DEF TypeOK, TableTypeOK, RelayTypeOK
<1>2. ClaimsAreCharged' /\ LeasedIsPending' /\ HeldRowIsCurrent'
  BY RelaysAssumption, HoldType, LimitsAssumption DEF TypeOK, TableTypeOK, RelayTypeOK, ClaimsAreCharged, LeasedIsPending, HeldRowIsCurrent
<1>3. CallsArePaid' /\ CallsWithinBudget' /\ EffectIsRecorded' /\ SentWasDelivered'
  BY RelaysAssumption, HoldType, LimitsAssumption DEF TypeOK, TableTypeOK, RelayTypeOK, ClaimsAreCharged, HeldRowIsCurrent, LeasedIsPending, CallsArePaid,
        CallsWithinBudget, EffectIsRecorded, SentWasDelivered
<1> QED
  BY <1>1, <1>2, <1>3

\* Renewing the lease starts the one call the claim's attempt pays for.
LEMMA renewLeaseInv == ASSUME IInv, NEW w \in Relays, NEW r \in Rows, renewLease(w, r) PROVE IInv'
<1> USE DEF IInv, renewLease, table, Work, holdsLease
<1>1. TypeOK'
  BY RelaysAssumption, LimitsAssumption DEF TypeOK, TableTypeOK, RelayTypeOK
<1>2. ClaimsAreCharged' /\ LeasedIsPending' /\ HeldRowIsCurrent'
  BY RelaysAssumption DEF TypeOK, TableTypeOK, RelayTypeOK, ClaimsAreCharged, LeasedIsPending, HeldRowIsCurrent
<1>3. CallsArePaid' /\ CallsWithinBudget' /\ EffectIsRecorded' /\ SentWasDelivered'
  BY RelaysAssumption DEF TypeOK, TableTypeOK, RelayTypeOK, ClaimsAreCharged, HeldRowIsCurrent, LeasedIsPending, CallsArePaid,
        CallsWithinBudget, EffectIsRecorded, SentWasDelivered
<1> QED
  BY <1>1, <1>2, <1>3

\* A row whose lease is lost is dropped from the batch.
LEMMA renewLostInv == ASSUME IInv, NEW w \in Relays, NEW r \in Rows, renewLost(w, r) PROVE IInv'
<1> USE DEF IInv, renewLost, table, Work, holdsLease
<1>1. TypeOK'
  BY RelaysAssumption, LimitsAssumption DEF TypeOK, TableTypeOK, RelayTypeOK
<1>2. ClaimsAreCharged' /\ LeasedIsPending' /\ HeldRowIsCurrent'
  BY RelaysAssumption DEF TypeOK, TableTypeOK, RelayTypeOK, ClaimsAreCharged, LeasedIsPending, HeldRowIsCurrent
<1>3. CallsArePaid' /\ CallsWithinBudget' /\ EffectIsRecorded' /\ SentWasDelivered'
  BY RelaysAssumption DEF TypeOK, TableTypeOK, RelayTypeOK, ClaimsAreCharged, HeldRowIsCurrent, LeasedIsPending, CallsArePaid,
        CallsWithinBudget, EffectIsRecorded, SentWasDelivered
<1> QED
  BY <1>1, <1>2, <1>3

\* A failed renewal drops the row, and at most moves its expiry.
LEMMA renewErrorInv == ASSUME IInv, NEW w \in Relays, NEW r \in Rows, renewError(w, r) PROVE IInv'
<1> USE DEF IInv, renewError, table, Work, holdsLease
<1>1. TypeOK'
  <2>1. CASE UNCHANGED lockedUntil
    BY <2>1 DEF TypeOK, TableTypeOK, RelayTypeOK
  <2>2. CASE lockedUntil' = [lockedUntil EXCEPT ![r] = Lease]
    BY <2>2, LimitsAssumption DEF TypeOK, TableTypeOK, RelayTypeOK
  <2> QED
    BY <2>1, <2>2
<1>2. ClaimsAreCharged' /\ LeasedIsPending' /\ HeldRowIsCurrent'
  BY RelaysAssumption DEF TypeOK, TableTypeOK, RelayTypeOK, ClaimsAreCharged, LeasedIsPending, HeldRowIsCurrent
<1>3. CallsArePaid' /\ CallsWithinBudget' /\ EffectIsRecorded' /\ SentWasDelivered'
  BY RelaysAssumption DEF TypeOK, TableTypeOK, RelayTypeOK, ClaimsAreCharged, HeldRowIsCurrent, LeasedIsPending, CallsArePaid,
        CallsWithinBudget, EffectIsRecorded, SentWasDelivered
<1> QED
  BY <1>1, <1>2, <1>3

\* The side effect is recorded when it happens.
LEMMA deliverEffectInv == ASSUME IInv, NEW w \in Relays, deliverEffect(w) PROVE IInv'
<1> USE DEF IInv, deliverEffect, table, Work, holdsLease
<1>1. TypeOK'
  BY RelaysAssumption, LimitsAssumption DEF TypeOK, TableTypeOK, RelayTypeOK
<1>2. ClaimsAreCharged' /\ LeasedIsPending' /\ HeldRowIsCurrent'
  BY RelaysAssumption DEF TypeOK, TableTypeOK, RelayTypeOK, ClaimsAreCharged, LeasedIsPending, HeldRowIsCurrent
<1>3. CallsArePaid' /\ CallsWithinBudget' /\ EffectIsRecorded' /\ SentWasDelivered'
  BY RelaysAssumption DEF TypeOK, TableTypeOK, RelayTypeOK, ClaimsAreCharged, HeldRowIsCurrent, LeasedIsPending, CallsArePaid,
        CallsWithinBudget, EffectIsRecorded, SentWasDelivered
<1> QED
  BY <1>1, <1>2, <1>3

\* A delivery that returns has had its effect.
LEMMA deliverReturnInv == ASSUME IInv, NEW w \in Relays, deliverReturn(w) PROVE IInv'
<1> USE DEF IInv, deliverReturn, table, Work, holdsLease
<1>1. TypeOK'
  BY RelaysAssumption, LimitsAssumption DEF TypeOK, TableTypeOK, RelayTypeOK
<1>2. ClaimsAreCharged' /\ LeasedIsPending' /\ HeldRowIsCurrent'
  BY RelaysAssumption DEF TypeOK, TableTypeOK, RelayTypeOK, ClaimsAreCharged, LeasedIsPending, HeldRowIsCurrent
<1>3. CallsArePaid' /\ CallsWithinBudget' /\ EffectIsRecorded' /\ SentWasDelivered'
  BY RelaysAssumption DEF TypeOK, TableTypeOK, RelayTypeOK, ClaimsAreCharged, HeldRowIsCurrent, LeasedIsPending, CallsArePaid,
        CallsWithinBudget, EffectIsRecorded, SentWasDelivered
<1> QED
  BY <1>1, <1>2, <1>3

\* A thrown error is carried to fail().
LEMMA deliverThrowInv == ASSUME IInv, NEW w \in Relays, NEW e \in Thrown, deliverThrow(w, e) PROVE IInv'
<1> USE DEF IInv, deliverThrow, table, Work, holdsLease
<1>1. TypeOK'
  BY RelaysAssumption, LimitsAssumption DEF TypeOK, TableTypeOK, RelayTypeOK
<1>2. ClaimsAreCharged' /\ LeasedIsPending' /\ HeldRowIsCurrent'
  BY RelaysAssumption DEF TypeOK, TableTypeOK, RelayTypeOK, ClaimsAreCharged, LeasedIsPending, HeldRowIsCurrent
<1>3. CallsArePaid' /\ CallsWithinBudget' /\ EffectIsRecorded' /\ SentWasDelivered'
  BY RelaysAssumption DEF TypeOK, TableTypeOK, RelayTypeOK, ClaimsAreCharged, HeldRowIsCurrent, LeasedIsPending, CallsArePaid,
        CallsWithinBudget, EffectIsRecorded, SentWasDelivered
<1> QED
  BY <1>1, <1>2, <1>3

\* The fenced finish marks only a pending, delivered row sent.
LEMMA finishInv == ASSUME IInv, NEW w \in Relays, finish(w) PROVE IInv'
<1> USE DEF IInv, finish, Leave, markSent, Write, table, Work, holdsLease
<1>1. TypeOK'
  <2>1. row[w] \in Rows
    BY RelaysAssumption DEF TypeOK, RelayTypeOK
  <2>2. TableTypeOK'
    BY <2>1 DEF TypeOK, TableTypeOK
  <2>3. RelayTypeOK'
    BY <2>1, RelaysAssumption, TransientThrown DEF TypeOK, RelayTypeOK
  <2> QED
    BY <2>2, <2>3 DEF TypeOK
<1>2. ClaimsAreCharged' /\ LeasedIsPending' /\ HeldRowIsCurrent'
  BY RelaysAssumption DEF TypeOK, TableTypeOK, RelayTypeOK, ClaimsAreCharged, LeasedIsPending, HeldRowIsCurrent
<1>3. CallsArePaid' /\ CallsWithinBudget' /\ EffectIsRecorded' /\ SentWasDelivered'
  BY RelaysAssumption DEF TypeOK, TableTypeOK, RelayTypeOK, ClaimsAreCharged, HeldRowIsCurrent, LeasedIsPending, CallsArePaid,
        CallsWithinBudget, EffectIsRecorded, SentWasDelivered
<1> QED
  BY <1>1, <1>2, <1>3

\* A finish that throws committed nothing, or exactly what finish commits.
LEMMA finishErrorInv == ASSUME IInv, NEW w \in Relays, finishError(w) PROVE IInv'
<1> USE DEF IInv, finishError, table, Work, holdsLease
<1>1. row[w] \in Rows /\ pc[w] = "finish"
  BY RelaysAssumption DEF TypeOK, TableTypeOK, RelayTypeOK
<1>2. CASE UNCHANGED table
  <2>1. TypeOK'
    BY <1>2, TransientThrown, RelaysAssumption DEF TypeOK, TableTypeOK, RelayTypeOK
  <2>2. ClaimsAreCharged' /\ LeasedIsPending' /\ HeldRowIsCurrent'
    BY <1>1, <1>2, RelaysAssumption DEF TypeOK, TableTypeOK, RelayTypeOK, ClaimsAreCharged, LeasedIsPending, HeldRowIsCurrent
  <2>3. CallsArePaid' /\ CallsWithinBudget' /\ EffectIsRecorded' /\ SentWasDelivered'
    BY <1>1, <1>2 DEF TypeOK, TableTypeOK, RelayTypeOK, CallsArePaid, CallsWithinBudget, EffectIsRecorded, SentWasDelivered
  <2> QED
    BY <2>1, <2>2, <2>3
<1>3. CASE holdsLease(w, row[w]) /\ markSent(row[w])
  <2> USE DEF markSent, Write
  <2>1. TypeOK'
    BY <1>1, <1>3, TransientThrown, RelaysAssumption DEF TypeOK, TableTypeOK, RelayTypeOK
  <2>2. ClaimsAreCharged' /\ LeasedIsPending'
    BY <1>1, <1>3, RelaysAssumption DEF TypeOK, TableTypeOK, RelayTypeOK, ClaimsAreCharged, LeasedIsPending
  <2>3. HeldRowIsCurrent' /\ CallsArePaid'
    BY <1>1, <1>3, RelaysAssumption DEF TypeOK, TableTypeOK, RelayTypeOK, HeldRowIsCurrent, CallsArePaid
  <2>4. CallsWithinBudget' /\ EffectIsRecorded' /\ SentWasDelivered'
    BY <1>1, <1>3 DEF TypeOK, TableTypeOK, RelayTypeOK, CallsWithinBudget, EffectIsRecorded, SentWasDelivered
  <2> QED
    BY <2>1, <2>2, <2>3, <2>4
<1> QED
  BY <1>2, <1>3

\* An unrecorded failure leaves the table alone.
LEMMA failErrorInv == ASSUME IInv, NEW w \in Relays, failError(w) PROVE IInv'
<1> USE DEF IInv, failError, Leave, table, Work, holdsLease
<1>1. TypeOK'
  BY RelaysAssumption, LimitsAssumption, TransientThrown DEF TypeOK, TableTypeOK, RelayTypeOK
<1>2. ClaimsAreCharged' /\ LeasedIsPending' /\ HeldRowIsCurrent'
  BY RelaysAssumption DEF TypeOK, TableTypeOK, RelayTypeOK, ClaimsAreCharged, LeasedIsPending, HeldRowIsCurrent
<1>3. CallsArePaid' /\ CallsWithinBudget' /\ EffectIsRecorded' /\ SentWasDelivered'
  BY RelaysAssumption DEF TypeOK, TableTypeOK, RelayTypeOK, ClaimsAreCharged, HeldRowIsCurrent, LeasedIsPending, CallsArePaid,
        CallsWithinBudget, EffectIsRecorded, SentWasDelivered
<1> QED
  BY <1>1, <1>2, <1>3

\* A crash forgets the batch and leaves the table alone.
LEMMA crashInv == ASSUME IInv, NEW w \in Relays, crash(w) PROVE IInv'
<1> USE DEF IInv, crash, Leave, table, Work, holdsLease
<1>1. TypeOK'
  BY RelaysAssumption, LimitsAssumption, TransientThrown DEF TypeOK, TableTypeOK, RelayTypeOK
<1>2. ClaimsAreCharged' /\ LeasedIsPending' /\ HeldRowIsCurrent'
  BY RelaysAssumption DEF TypeOK, TableTypeOK, RelayTypeOK, ClaimsAreCharged, LeasedIsPending, HeldRowIsCurrent
<1>3. CallsArePaid' /\ CallsWithinBudget' /\ EffectIsRecorded' /\ SentWasDelivered'
  BY RelaysAssumption DEF TypeOK, TableTypeOK, RelayTypeOK, ClaimsAreCharged, HeldRowIsCurrent, LeasedIsPending, CallsArePaid,
        CallsWithinBudget, EffectIsRecorded, SentWasDelivered
<1> QED
  BY <1>1, <1>2, <1>3

\* The fenced failure retries, dead-letters or refunds a row its relay still holds.
LEMMA failInv == ASSUME IInv, NEW w \in Relays, fail(w) PROVE IInv'
<1> USE DEF IInv, Work, holdsLease
<1> DEFINE r == row[w]
<1>1. /\ r \in Rows /\ pc[w] = "fail" /\ r \notin batch[w]
      /\ seen[w][r] \in 1..MaxAttempts /\ err[w] \in Thrown
  BY RelaysAssumption, LimitsAssumption DEF fail, TypeOK, RelayTypeOK, ClaimsAreCharged
<1>2. /\ pc' = [pc EXCEPT ![w] = "ready"]
      /\ row' = [row EXCEPT ![w] = NoRelay]
      /\ err' = [err EXCEPT ![w] = Transient]
      /\ spent' = [spent EXCEPT ![w] = 0]
      /\ UNCHANGED <<batch, seen, effects, unsure>>
  BY DEF fail, Leave
<1>3. CASE ~holdsLease(w, r)
  <2>0. UNCHANGED <<status, attempts, leaseToken, lockedUntil, scheduledAt, calls>>
    BY <1>3 DEF fail, table
  <2>1. TypeOK'
    BY <1>1, <1>2, <2>0, TransientThrown, RelaysAssumption DEF TypeOK, TableTypeOK, RelayTypeOK
  <2>2. ClaimsAreCharged' /\ LeasedIsPending' /\ HeldRowIsCurrent'
    BY <1>1, <1>2, <2>0, RelaysAssumption
       DEF TypeOK, TableTypeOK, RelayTypeOK, ClaimsAreCharged, LeasedIsPending, HeldRowIsCurrent
  <2>3. CallsArePaid' /\ CallsWithinBudget' /\ EffectIsRecorded' /\ SentWasDelivered'
    BY <1>1, <1>2, <2>0
       DEF TypeOK, TableTypeOK, RelayTypeOK, CallsArePaid, CallsWithinBudget, EffectIsRecorded, SentWasDelivered
  <2> QED
    BY <2>1, <2>2, <2>3
<1>4. CASE holdsLease(w, r)
  <2>0. /\ status[r] = "pending" /\ attempts[r] > 0 /\ calls[r] > 0 /\ calls[r] <= attempts[r]
    BY <1>1, <1>4 DEF HeldRowIsCurrent, CallsArePaid, CallsWithinBudget
  \* The row is written in one of the two ways below, and its lease released.
  <2>1. /\ leaseToken' = [leaseToken EXCEPT ![r] = NoRelay]
        /\ lockedUntil' = [lockedUntil EXCEPT ![r] = 0]
        /\ \E st \in {"pending", "failed"} : status' = [status EXCEPT ![r] = st]
        /\ \E d \in Nat : scheduledAt' = [scheduledAt EXCEPT ![r] = d]
        /\ \/ UNCHANGED <<attempts, calls>>
           \/ /\ attempts' = [attempts EXCEPT ![r] = attempts[r] - 1]
              /\ calls' = [calls EXCEPT ![r] = calls[r] - 1]
    <3>1. CASE err[w].kind = "defer"
      <4>1. Clamp(err[w].delay) \in Nat
        BY <1>1, DelayTypes
      <4>2. MaxOf(attempts[r] - 1, 0) = attempts[r] - 1
        BY <2>0, <1>1 DEF TypeOK, TableTypeOK, RelayTypeOK
      <4> QED
        BY <1>4, <3>1, <4>1, <4>2 DEF fail, refundAttempt, Write
    <3>2. CASE err[w].kind # "defer"
      <4>1. newStatus(w) \in {"pending", "failed"}
        BY DEF newStatus
      <4>2. RetryDelay(err[w], seen[w][r]) \in Nat /\ scheduledAt[r] \in Nat
        BY <1>1, DelayTypes DEF TypeOK, TableTypeOK, RelayTypeOK
      <4>3. UNCHANGED calls /\ markFailed(w, r)
        BY <1>4, <3>2 DEF fail
      <4>4. attempts' = attempts
        BY <4>3, <1>1 DEF markFailed, Write, TypeOK, TableTypeOK
      <4> QED
        BY <4>1, <4>2, <4>3, <4>4 DEF markFailed, Write
    <3> QED
      BY <3>1, <3>2
  <2>2. TypeOK'
    <3>1. TableTypeOK'
      BY <1>1, <1>2, <2>0, <2>1, LimitsAssumption DEF TypeOK, TableTypeOK
    <3>2. RelayTypeOK'
      BY <1>1, <1>2, TransientThrown, RelaysAssumption DEF TypeOK, RelayTypeOK
    <3> QED
      BY <3>1, <3>2 DEF TypeOK
  <2>3. ClaimsAreCharged' /\ LeasedIsPending'
    BY <1>1, <1>2, <2>0, <2>1, RelaysAssumption
       DEF TypeOK, TableTypeOK, RelayTypeOK, ClaimsAreCharged, LeasedIsPending
  <2>4. HeldRowIsCurrent' /\ CallsArePaid'
    BY <1>1, <1>2, <2>0, <2>1, RelaysAssumption DEF TypeOK, TableTypeOK, RelayTypeOK, HeldRowIsCurrent, CallsArePaid
  <2>5. CallsWithinBudget'
    BY <1>1, <2>0, <2>1, LimitsAssumption DEF TypeOK, TableTypeOK, CallsWithinBudget
  <2>6. EffectIsRecorded' /\ SentWasDelivered'
    BY <1>1, <1>2, <2>1
       DEF TypeOK, TableTypeOK, RelayTypeOK, EffectIsRecorded, SentWasDelivered
  <2> QED
    BY <2>2, <2>3, <2>4, <2>5, <2>6
<1> QED
  BY <1>3, <1>4

\* The clock only moves the timers.
LEMMA tickInv == ASSUME IInv, tick PROVE IInv'
<1> USE DEF IInv, tick, Elapse, Work, holdsLease
<1>1. TypeOK'
  BY DEF TypeOK, TableTypeOK, RelayTypeOK
<1>2. ClaimsAreCharged' /\ LeasedIsPending' /\ HeldRowIsCurrent'
  BY DEF ClaimsAreCharged, LeasedIsPending, HeldRowIsCurrent
<1>3. CallsArePaid' /\ CallsWithinBudget' /\ EffectIsRecorded' /\ SentWasDelivered'
  BY DEF CallsArePaid, CallsWithinBudget, EffectIsRecorded, SentWasDelivered
<1> QED
  BY <1>1, <1>2, <1>3

\* IInv is inductive.
LEMMA StepInv == IInv /\ [Next]_vars => IInv'
<1> SUFFICES ASSUME IInv, [Next]_vars PROVE IInv'
  OBVIOUS
<1>1. CASE Next
  <2>1. ASSUME NEW r \in Rows, enqueue(r) PROVE IInv'
    BY <2>1, enqueueInv
  <2>2. ASSUME NEW w \in Relays, NEW S \in SUBSET Rows, claim(w, S) PROVE IInv'
    BY <2>2, claimInv
  <2>3. ASSUME NEW w \in Relays, handle(w) PROVE IInv'
    <3>1. ASSUME NEW r \in Rows, renewLease(w, r) \/ renewLost(w, r) \/ renewError(w, r)
          PROVE  IInv'
      BY <3>1, renewLeaseInv, renewLostInv, renewErrorInv
    <3>2. ASSUME NEW e \in Thrown, deliverThrow(w, e) PROVE IInv'
      BY <3>2, deliverThrowInv
    <3>3. CASE deliverEffect(w) \/ deliverReturn(w)
      BY <3>3, deliverEffectInv, deliverReturnInv
    <3>4. CASE finish(w) \/ finishError(w) \/ fail(w) \/ failError(w)
      BY <3>4, finishInv, finishErrorInv, failInv, failErrorInv
    <3> QED
      BY <2>3, <3>1, <3>2, <3>3, <3>4 DEF handle
  <2>4. ASSUME NEW w \in Relays, crash(w) PROVE IInv'
    BY <2>4, crashInv
  <2>5. CASE tick
    BY <2>5, tickInv
  <2> QED
    BY <1>1, <2>1, <2>2, <2>3, <2>4, <2>5 DEF Next
<1>2. CASE UNCHANGED vars
  BY <1>2 DEF vars, table, process, IInv, TypeOK, TableTypeOK, RelayTypeOK, ClaimsAreCharged,
       LeasedIsPending, HeldRowIsCurrent, CallsArePaid, CallsWithinBudget, EffectIsRecorded,
       SentWasDelivered, Work, holdsLease
<1> QED
  BY <1>1, <1>2

\* The inductive invariant holds in every state.
THEOREM RelayInvariant == Spec => []IInv
BY InitInv, StepInv, PTL DEF Spec

\* The table and the relays keep their types: no negative delay, attempt or
\* timer is ever written, and attempts never passes maxAttempts.
THEOREM TypeCorrect == Spec => []TypeOK
<1>1. IInv => TypeOK
  BY DEF IInv
<1> QED
  BY <1>1, RelayInvariant, PTL

\* deliver is called at most once per charged attempt, and at most maxAttempts
\* times, through any crashes, lost leases and unrecorded failures.
THEOREM BudgetHolds == Spec => []CallsWithinBudget
<1>1. IInv => CallsWithinBudget
  BY DEF IInv
<1> QED
  BY <1>1, RelayInvariant, PTL

\* The attempt count in the memory of a relay that passes the fence is the
\* row's own: fail() never decides on a stale count.
THEOREM FenceImpliesCurrent == Spec => []HeldRowIsCurrent
<1>1. IInv => HeldRowIsCurrent
  BY DEF IInv
<1> QED
  BY <1>1, RelayInvariant, PTL

\* A row is marked sent only after one of its deliveries took effect.
THEOREM SentOnlyAfterDelivery == Spec => []SentWasDelivered
<1>1. IInv => SentWasDelivered
  BY DEF IInv
<1> QED
  BY <1>1, RelayInvariant, PTL

----------------------------------------------------------------------------
(* The fence: a settled row is never written again.                         *)

SettledRowsStay ==
    \A r \in Rows : status[r] \in Terminal =>
        status'[r] = status[r] /\ attempts'[r] = attempts[r] /\ leaseToken'[r] = NoRelay

\* What finish, fail and their failing forms write goes to a row the relay
\* holds, which is pending.
LEMMA FencedWrite ==
  ASSUME IInv, NEW w \in Relays, finish(w) \/ finishError(w) \/ fail(w)
  PROVE  /\ row[w] \in Rows
         /\ \A r \in Rows : r # row[w] \/ status[r] # "pending" =>
              status'[r] = status[r] /\ attempts'[r] = attempts[r] /\ leaseToken'[r] = leaseToken[r]
<1>1. row[w] \in Rows
  BY RelaysAssumption DEF IInv, TypeOK, RelayTypeOK, finish, finishError, fail
<1>2. holdsLease(w, row[w]) => status[row[w]] = "pending"
  BY <1>1, RelaysAssumption DEF IInv, LeasedIsPending, holdsLease
<1> USE DEF IInv, TypeOK, TableTypeOK, table, markSent, markFailed, refundAttempt, Write
<1>3. CASE finish(w)
  BY <1>1, <1>2, <1>3 DEF finish
<1>4. CASE finishError(w)
  BY <1>1, <1>2, <1>4 DEF finishError
<1>5. CASE fail(w)
  BY <1>1, <1>2, <1>5 DEF fail
<1> QED
  BY <1>1, <1>3, <1>4, <1>5

\* Every step leaves settled rows alone.
LEMMA StepKeepsSettled == IInv /\ IInv' /\ [Next]_vars => [SettledRowsStay]_vars
<1> SUFFICES ASSUME IInv, IInv', Next PROVE SettledRowsStay
  OBVIOUS
<1> USE DEF SettledRowsStay, Terminal, table
<1>0. \A r \in Rows : status[r] \in Terminal => leaseToken[r] = NoRelay
  BY DEF IInv, LeasedIsPending
<1>1. ASSUME NEW r \in Rows, enqueue(r) PROVE SettledRowsStay
  BY <1>0, <1>1 DEF enqueue, IInv, TypeOK, TableTypeOK
<1>2. ASSUME NEW w \in Relays, NEW S \in SUBSET Rows, claim(w, S) PROVE SettledRowsStay
  BY <1>0, <1>2 DEF claim, stampLeases, StatusAfterReap, TokensAfterReap, Due, Abandoned
<1>3. ASSUME NEW w \in Relays, handle(w) PROVE SettledRowsStay
  <2>1. CASE finish(w) \/ finishError(w) \/ fail(w)
    BY <1>0, <2>1, FencedWrite
  <2>2. ASSUME NEW r \in Rows, renewLease(w, r) \/ renewLost(w, r) \/ renewError(w, r)
        PROVE  SettledRowsStay
    BY <1>0, <2>2 DEF renewLease, renewLost, renewError
  <2>3. CASE deliverEffect(w) \/ deliverReturn(w) \/ failError(w)
    BY <1>0, <2>3 DEF deliverEffect, deliverReturn, failError
  <2>4. ASSUME NEW e \in Thrown, deliverThrow(w, e) PROVE SettledRowsStay
    BY <1>0, <2>4 DEF deliverThrow
  <2> QED
    BY <1>3, <2>1, <2>2, <2>3, <2>4 DEF handle
<1>4. ASSUME NEW w \in Relays, crash(w) PROVE SettledRowsStay
  BY <1>0, <1>4 DEF crash
<1>5. CASE tick
  BY <1>0, <1>5 DEF tick
<1> QED
  BY <1>1, <1>2, <1>3, <1>4, <1>5 DEF Next

\* A sent or dead-lettered row keeps its outcome, however many relays still
\* work on it and whatever they are told of their commits.
THEOREM OutcomeIsFinal == Spec => TerminalIsFinal
<1>1. IInv /\ IInv' /\ [Next]_vars => [SettledRowsStay]_vars
  BY StepKeepsSettled
<1> QED
  BY <1>1, RelayInvariant, PTL DEF Spec, TerminalIsFinal, SettledRowsStay

----------------------------------------------------------------------------
(* The relays implement the outbox's promise (OutboxQueue).                 *)

delivered == [r \in Rows |-> effects[r] > 0]
Stutter == UNCHANGED <<status, calls, delivered>>

\* A step that leaves the effects alone leaves what was delivered alone.
LEMMA SameEffects == UNCHANGED effects => UNCHANGED delivered
BY DEF delivered

\* A finish, seen or unseen, is the queue's Send or nothing.
LEMMA SendRefines ==
  ASSUME IInv, NEW w \in Relays, finish(w) \/ finishError(w)
  PROVE  Queue!Send(row[w]) \/ Stutter
<1>1. row[w] \in Rows /\ effects[row[w]] > 0
  BY RelaysAssumption
     DEF IInv, TypeOK, RelayTypeOK, EffectIsRecorded, finish, finishError
<1>2. holdsLease(w, row[w]) => status[row[w]] = "pending"
  BY <1>1, RelaysAssumption DEF IInv, LeasedIsPending, holdsLease
<1>3. UNCHANGED delivered /\ UNCHANGED calls /\ delivered[row[w]]
  BY <1>1, SameEffects DEF finish, finishError, delivered
<1>4. \/ UNCHANGED status
      \/ holdsLease(w, row[w]) /\ status' = [status EXCEPT ![row[w]] = "sent"]
  BY DEF finish, finishError, markSent, Write, table
<1> QED
  BY <1>2, <1>3, <1>4 DEF Queue!Send, Stutter, delivered

\* A recorded failure withdraws the call, dead-letters the row or does nothing.
LEMMA FailRefines ==
  ASSUME IInv, NEW w \in Relays, fail(w)
  PROVE  Queue!Withdraw(row[w]) \/ Queue!DeadLetter({row[w]}) \/ Stutter
<1> DEFINE r == row[w]
<1>1. r \in Rows
  BY RelaysAssumption DEF IInv, TypeOK, RelayTypeOK, fail
<1>2. holdsLease(w, r) => status[r] = "pending"
  BY <1>1, RelaysAssumption DEF IInv, LeasedIsPending, holdsLease
<1>3. UNCHANGED delivered
  BY SameEffects DEF fail
<1>4. CASE ~holdsLease(w, r)
  BY <1>3, <1>4 DEF fail, table, Stutter
<1>5. CASE holdsLease(w, r) /\ err[w].kind = "defer"
  <2>1. status' = [status EXCEPT ![r] = "pending"] /\ calls' = [calls EXCEPT ![r] = @ - 1]
    BY <1>5 DEF fail, refundAttempt, Write
  <2>2. status' = status
    BY <1>1, <1>2, <1>5, <2>1 DEF IInv, TypeOK, TableTypeOK
  <2> QED
    BY <1>2, <1>3, <1>5, <2>1, <2>2 DEF Queue!Withdraw, delivered
<1>6. CASE holdsLease(w, r) /\ err[w].kind # "defer"
  <2>1. status' = [status EXCEPT ![r] = newStatus(w)] /\ UNCHANGED calls
    BY <1>6 DEF fail, markFailed, Write
  <2>2. CASE newStatus(w) = "pending"
    <3>1. status' = status
      BY <1>1, <1>2, <1>6, <2>1, <2>2 DEF IInv, TypeOK, TableTypeOK
    <3> QED
      BY <1>3, <2>1, <3>1 DEF Stutter
  <2>3. CASE newStatus(w) = "failed"
    <3>1. status' = [q \in Rows |-> IF q \in {r} THEN "failed" ELSE status[q]]
      BY <1>1, <2>1, <2>3 DEF IInv, TypeOK, TableTypeOK
    <3> QED
      BY <1>1, <1>2, <1>3, <1>6, <2>1, <3>1 DEF Queue!DeadLetter, delivered
  <2> QED
    BY <2>2, <2>3 DEF newStatus
<1> QED
  BY <1>4, <1>5, <1>6

\* Every step of the relays is a step of the queue or leaves it unchanged.
LEMMA StepRefines == IInv /\ [Next]_vars => [Queue!Next]_<<status, calls, delivered>>
<1> SUFFICES ASSUME IInv, [Next]_vars PROVE Queue!Next \/ Stutter
  BY DEF Stutter
<1>1. ASSUME NEW r \in Rows, enqueue(r) PROVE Queue!Enqueue(r)
  BY <1>1, SameEffects DEF enqueue, Queue!Enqueue, delivered
<1>2. ASSUME NEW w \in Relays, NEW S \in SUBSET Rows, claim(w, S)
      PROVE  Queue!DeadLetter(Abandoned)
  BY <1>2, SameEffects DEF claim, StatusAfterReap, Abandoned, Queue!DeadLetter, delivered
<1>3. ASSUME NEW w \in Relays, NEW r \in Rows, renewLease(w, r) PROVE Queue!Call(r)
  <2>1. status[r] = "pending" /\ calls[r] < MaxAttempts
    BY <1>3, RelaysAssumption, LimitsAssumption
       DEF renewLease, holdsLease, Work, IInv, LeasedIsPending, CallsArePaid, CallsWithinBudget,
           TypeOK, TableTypeOK
  <2> QED
    BY <1>3, <2>1, SameEffects DEF renewLease, Queue!Call, delivered
<1>4. ASSUME NEW w \in Relays, deliverEffect(w) PROVE \E r \in Rows : Queue!Effect(r)
  <2>1. row[w] \in Rows /\ status[row[w]] # "absent"
    BY <1>4, RelaysAssumption
       DEF deliverEffect, IInv, TypeOK, RelayTypeOK, ClaimsAreCharged, Work
  <2>2. PICK r \in Rows : r = row[w]
    BY <2>1
  <2>3. effects' = [effects EXCEPT ![r] = @ + 1]
    BY <1>4, <2>2 DEF deliverEffect
  <2>4. \A q \in Rows : (effects'[q] > 0) = IF q = r THEN TRUE ELSE effects[q] > 0
    <3>1. effects'[r] > 0 /\ \A q \in Rows : q # r => effects'[q] = effects[q]
      BY <2>3 DEF IInv, TypeOK, TableTypeOK
    <3> QED
      BY <3>1, Zenon
  <2>5. delivered' = [delivered EXCEPT ![r] = TRUE]
    BY <2>4 DEF delivered
  <2>6. Queue!Effect(r)
    BY <1>4, <2>1, <2>2, <2>5 DEF deliverEffect, table, Queue!Effect, delivered
  <2> QED
    BY <2>6
<1>5. ASSUME NEW w \in Relays, finish(w) \/ finishError(w) \/ fail(w)
      PROVE  Queue!Next \/ Stutter
  <2>1. row[w] \in Rows /\ {row[w]} \in SUBSET Rows
    BY <1>5, FencedWrite
  <2> QED
    BY <1>5, <2>1, SendRefines, FailRefines DEF Queue!Next
<1>6. ASSUME NEW w \in Relays, NEW r \in Rows, renewLost(w, r) \/ renewError(w, r) PROVE Stutter
  BY <1>6, SameEffects DEF renewLost, renewError, table, Stutter
<1>7. ASSUME NEW w \in Relays, deliverReturn(w) \/ failError(w) \/ crash(w) PROVE Stutter
  BY <1>7, SameEffects DEF deliverReturn, failError, crash, table, Stutter
<1>8. ASSUME NEW w \in Relays, NEW e \in Thrown, deliverThrow(w, e) PROVE Stutter
  BY <1>8, SameEffects DEF deliverThrow, table, Stutter
<1>9. CASE tick
  BY <1>9, SameEffects DEF tick, Stutter
<1>10. CASE UNCHANGED vars
  BY <1>10, SameEffects DEF vars, table, Stutter
<1>11. Abandoned \in SUBSET Rows
  BY DEF Abandoned
<1>12. ASSUME NEW w \in Relays, handle(w) PROVE Queue!Next \/ Stutter
  <2>1. ASSUME NEW r \in Rows, renewLease(w, r) \/ renewLost(w, r) \/ renewError(w, r)
        PROVE  Queue!Next \/ Stutter
    BY <2>1, <1>3, <1>6 DEF Queue!Next
  <2>2. CASE deliverEffect(w)
    BY <2>2, <1>4 DEF Queue!Next
  <2>3. ASSUME NEW e \in Thrown, deliverThrow(w, e) PROVE Stutter
    BY <2>3, <1>8
  <2> QED
    BY <1>12, <2>1, <2>2, <2>3, <1>5, <1>7 DEF handle
<1> QED
  BY <1>1, <1>2, <1>7, <1>9, <1>10, <1>11, <1>12 DEF Next, Queue!Next

\* The relays implement OutboxQueue: at-least-once delivery within a budget,
\* for any number of relays, crashes, lost leases and lost answers.
THEOREM RelayRefinesQueue == Spec => ImplementsQueue
<1>1. Init => Queue!Init
  <2>1. ASSUME Init PROVE \A r \in Rows : (effects[r] > 0) = FALSE
    BY <2>1 DEF Init
  <2> QED
    BY <2>1, Zenon DEF Init, Queue!Init
<1>2. IInv /\ [Next]_vars => [Queue!Next]_<<status, calls, delivered>>
  BY StepRefines
<1> QED
  BY <1>1, <1>2, RelayInvariant, PTL DEF Spec, ImplementsQueue, Queue!Spec, delivered

----------------------------------------------------------------------------
(* What the hold of a claim is for: the properties of relays that work each *)
(* row within its lease ("slow" \notin Faults).                             *)

\* The rows relay w still waits to handle are leased to it for a lease each and
\* one for the row it handles, less the time it has spent on that; and so is the
\* row it delivers.
Handling(w) == pc[w] \in {"calling", "applied", "finish"}
TimeOf(w) ==
    /\ spent[w] < Lease
    /\ \A r \in batch[w] : holdsLease(w, r) /\ lockedUntil[r] + spent[w] >= hold(Work(w))
    /\ Handling(w) => holdsLease(w, row[w]) /\ lockedUntil[row[w]] + spent[w] >= Lease
TimeInv == \A w \in Relays : TimeOf(w)

\* Each row of a batch adds one lease to its hold.
LEMMA HoldOfRow ==
  ASSUME NEW S \in SUBSET Rows, NEW r \in S
  PROVE  /\ hold(S) \in Nat /\ hold(S) >= Lease
         /\ hold(S \ {r}) = hold(S) - Lease
<1>1. IsFiniteSet(S)
  BY RowsAssumption, FS_Subset
<1>2. Cardinality(S) \in Nat /\ Cardinality(S \ {r}) = Cardinality(S) - 1
  BY <1>1, FS_CardinalityType, FS_RemoveElement
<1>3. Cardinality(S \ {r}) \in Nat
  BY <1>1, FS_RemoveElement, FS_CardinalityType
<1>4. \A n, k \in Nat : n * k \in Nat /\ (n + 1) * k = n * k + k
  OBVIOUS
<1> QED
  BY <1>2, <1>3, <1>4, LimitsAssumption DEF hold

\* A row that a timely relay waits for or delivers is its own, and not due.
LEMMA TimelyHeld ==
  ASSUME IInv, NEW w \in Relays, TimeOf(w)
  PROVE  /\ \A r \in batch[w] : holdsLease(w, r) /\ lockedUntil[r] > 0
         /\ Handling(w) => row[w] \in Rows /\ holdsLease(w, row[w]) /\ lockedUntil[row[w]] > 0
<1>1. /\ batch[w] \subseteq Rows /\ Work(w) \subseteq Rows /\ (Handling(w) => row[w] \in Rows)
      /\ lockedUntil \in [Rows -> Nat] /\ spent[w] \in Nat
  BY DEF IInv, TypeOK, TableTypeOK, RelayTypeOK, Work, Handling
<1>2. \A r \in batch[w] : hold(Work(w)) \in Nat /\ hold(Work(w)) >= Lease
  BY <1>1, HoldOfRow DEF Work
<1> QED
  BY <1>1, <1>2, LimitsAssumption DEF TimeOf

\* A step of another relay leaves v its rows.
LEMMA TimeFrame ==
  ASSUME IInv, NEW v \in Relays, TimeOf(v),
         pc'[v] = pc[v], batch'[v] = batch[v], row'[v] = row[v], spent'[v] = spent[v],
         \A r \in Rows : leaseToken[r] = v /\ lockedUntil[r] > 0 =>
             leaseToken'[r] = v /\ lockedUntil'[r] = lockedUntil[r]
  PROVE  TimeOf(v)'
<1>1. Work(v)' = Work(v) /\ (Handling(v)' <=> Handling(v)) /\ batch[v] \subseteq Rows
  BY DEF Work, Handling, IInv, TypeOK, RelayTypeOK
<1>2. \A r \in batch[v] : leaseToken'[r] = v /\ lockedUntil'[r] = lockedUntil[r]
  BY <1>1, TimelyHeld DEF holdsLease
<1>3. Handling(v) => leaseToken'[row[v]] = v /\ lockedUntil'[row[v]] = lockedUntil[row[v]]
  BY TimelyHeld DEF holdsLease
<1> QED
  BY <1>1, <1>2, <1>3 DEF TimeOf, holdsLease, hold

\* A relay that is done with row r turns to the rest of its batch in time.
LEMMA TimeNextRow ==
  ASSUME IInv, NEW w \in Relays, TimeOf(w), NEW r \in Work(w),
         pc'[w] = "ready", batch'[w] = Work(w) \ {r}, batch'[w] \subseteq batch[w], spent'[w] = 0,
         \A x \in batch[w] : x # r => leaseToken'[x] = leaseToken[x] /\ lockedUntil'[x] = lockedUntil[x]
  PROVE  TimeOf(w)'
<1>1. Work(w) \subseteq Rows /\ lockedUntil \in [Rows -> Nat] /\ spent[w] \in Nat /\ batch[w] \subseteq Work(w)
  BY DEF IInv, TypeOK, TableTypeOK, RelayTypeOK, Work
<1>2. hold(Work(w)) \in Nat /\ hold(Work(w) \ {r}) = hold(Work(w)) - Lease
  BY <1>1, HoldOfRow
<1>3. Work(w)' = Work(w) \ {r}
  BY DEF Work
<1>4. \A x \in batch'[w] : holdsLease(w, x)' /\ lockedUntil'[x] + 0 >= hold(Work(w) \ {r})
  BY <1>1, <1>2, LimitsAssumption DEF TimeOf, holdsLease
<1>5. hold(Work(w))' = hold(Work(w) \ {r})
  BY <1>3 DEF hold
<1>6. \A x \in batch'[w] : (holdsLease(w, x) /\ lockedUntil[x] + spent[w] >= hold(Work(w)))'
  BY <1>4, <1>5
<1>7. spent'[w] < Lease /\ ~Handling(w)'
  BY LimitsAssumption DEF Handling
<1> QED
  BY <1>6, <1>7 DEF TimeOf

\* The table before the first row, and idle relays.
LEMMA TimeInit == Init => TimeInv
BY LimitsAssumption DEF Init, TimeInv, TimeOf, Handling

\* A claim holds its batch for the sum of the leases.
LEMMA claimTime == ASSUME IInv, TimeInv, NEW w \in Relays, NEW S \in SUBSET Rows, claim(w, S) PROVE TimeInv'
<1>1. ASSUME NEW v \in Relays, v # w PROVE TimeOf(v)'
  BY <1>1, TimeFrame DEF TimeInv, claim, stampLeases, TokensAfterReap, Due, Abandoned, notLeased, IInv, TypeOK, TableTypeOK, RelayTypeOK
<1>2. TimeOf(w)'
  <2>1. pc'[w] = "ready" /\ batch'[w] = S /\ spent'[w] = 0
    BY DEF claim, IInv, TypeOK, RelayTypeOK
  <2>2. \A r \in S : leaseToken'[r] = w /\ lockedUntil'[r] = hold(S)
    BY DEF claim, stampLeases
  <2>3. Work(w)' = S
    BY <2>1 DEF Work
  <2>4. hold(S) \in Nat
    BY HoldType
  <2> QED
    BY <2>1, <2>2, <2>3, <2>4, LimitsAssumption DEF TimeOf, Handling, holdsLease, hold
<1> QED
  BY <1>1, <1>2 DEF TimeInv

\* A renewal starts the call with a lease ahead of it.
LEMMA renewTime == ASSUME IInv, TimeInv, NEW w \in Relays, NEW r \in Rows, renewLease(w, r) PROVE TimeInv'
<1>1. ASSUME NEW v \in Relays, v # w PROVE TimeOf(v)'
  BY <1>1, TimeFrame DEF TimeInv, renewLease, holdsLease, IInv, TypeOK, TableTypeOK, RelayTypeOK
<1>2. TimeOf(w)'
  <2>1. /\ pc[w] = "ready" /\ pc'[w] = "calling" /\ row'[w] = r /\ r \in batch[w] /\ batch'[w] = batch[w] \ {r}
        /\ spent'[w] = spent[w] /\ leaseToken' = leaseToken /\ leaseToken[r] = w
        /\ lockedUntil' = [lockedUntil EXCEPT ![r] = Lease]
    BY DEF renewLease, holdsLease, IInv, TypeOK, RelayTypeOK
  <2>2. Work(w)' = Work(w)
    BY <2>1 DEF Work
  <2>3. lockedUntil \in [Rows -> Nat] /\ spent[w] \in Nat /\ batch[w] \subseteq Rows
    BY DEF IInv, TypeOK, TableTypeOK, RelayTypeOK
  <2>4. lockedUntil'[r] + spent'[w] >= Lease
    BY <2>1, <2>3, LimitsAssumption
  <2> QED
    BY <2>1, <2>2, <2>3, <2>4 DEF TimeInv, TimeOf, Handling, holdsLease, hold
<1> QED
  BY <1>1, <1>2 DEF TimeInv

\* A row whose renewal fails is left for the next one.
LEMMA renewErrorTime == ASSUME IInv, TimeInv, NEW w \in Relays, NEW r \in Rows, renewError(w, r) PROVE TimeInv'
<1>1. /\ leaseToken' = leaseToken /\ \A x \in Rows : x # r \/ leaseToken[x] # w => lockedUntil'[x] = lockedUntil[x]
  BY DEF renewError, holdsLease, IInv, TypeOK, TableTypeOK
<1>2. ASSUME NEW v \in Relays, v # w PROVE TimeOf(v)'
  BY <1>1, <1>2, TimeFrame DEF TimeInv, renewError, IInv, TypeOK, RelayTypeOK
<1>3. /\ pc[w] = "ready" /\ pc'[w] = "ready" /\ r \in batch[w] /\ batch'[w] = batch[w] \ {r} /\ spent'[w] = 0
      /\ batch[w] \subseteq Rows
  BY DEF renewError, IInv, TypeOK, RelayTypeOK
<1>4. Work(w) = batch[w]
  BY <1>3 DEF Work
<1>5. TimeOf(w)'
  BY <1>1, <1>3, <1>4, TimeNextRow DEF TimeInv
<1> QED
  BY <1>2, <1>5 DEF TimeInv

\* Timely relays find the token on every row they turn to.
LEMMA renewLostTime == ASSUME IInv, TimeInv, NEW w \in Relays, NEW r \in Rows, renewLost(w, r) PROVE FALSE
BY DEF TimeInv, TimeOf, renewLost

\* deliver goes on, or throws, within the lease.
LEMMA deliverTime ==
  ASSUME IInv, TimeInv, NEW w \in Relays,
         deliverEffect(w) \/ deliverReturn(w) \/ \E e \in Thrown : deliverThrow(w, e)
  PROVE  TimeInv'
<1>1. UNCHANGED <<table, batch, row, spent>> /\ pc[w] # "ready" /\ pc'[w] # "ready"
  BY DEF deliverEffect, deliverReturn, deliverThrow, IInv, TypeOK, RelayTypeOK
<1>2. \A v \in Relays : v # w => pc'[v] = pc[v]
  BY DEF deliverEffect, deliverReturn, deliverThrow, IInv, TypeOK, RelayTypeOK
<1>3. Handling(w)' => Handling(w)
  BY DEF deliverEffect, deliverReturn, deliverThrow, Handling, IInv, TypeOK, RelayTypeOK
<1>4. ASSUME NEW v \in Relays, v # w PROVE TimeOf(v)'
  BY <1>1, <1>2, <1>4, TimeFrame DEF TimeInv, table
<1>5. Work(w)' = Work(w)
  BY <1>1 DEF Work
<1>6. TimeOf(w)'
  BY <1>1, <1>3, <1>5 DEF TimeInv, TimeOf, holdsLease, hold, table
<1> QED
  BY <1>4, <1>6 DEF TimeInv

\* The writes of a relay to its current row leave the leases of other rows alone.
LEMMA OwnRowOnly ==
  ASSUME IInv, NEW w \in Relays, finish(w) \/ finishError(w) \/ fail(w) \/ failError(w)
  PROVE  /\ pc[w] # "ready" /\ row[w] \in Rows
         /\ \A x \in Rows : x # row[w] \/ leaseToken[x] # w =>
                leaseToken'[x] = leaseToken[x] /\ lockedUntil'[x] = lockedUntil[x]
<1>1. pc[w] # "ready" /\ row[w] \in Rows /\ leaseToken \in [Rows -> Relays \cup {NoRelay}] /\ lockedUntil \in [Rows -> Nat]
  BY DEF finish, finishError, fail, failError, IInv, TypeOK, TableTypeOK, RelayTypeOK
<1>2. \/ UNCHANGED <<leaseToken, lockedUntil>>
      \/ /\ leaseToken[row[w]] = w
         /\ leaseToken' = [leaseToken EXCEPT ![row[w]] = NoRelay]
         /\ lockedUntil' = [lockedUntil EXCEPT ![row[w]] = 0]
  <2>1. CASE finish(w)
    BY <2>1 DEF finish, markSent, Write, holdsLease, table
  <2>2. CASE finishError(w)
    BY <2>2 DEF finishError, markSent, Write, holdsLease, table
  <2>3. CASE fail(w)
    BY <2>3 DEF fail, refundAttempt, markFailed, Write, holdsLease, table
  <2>4. CASE failError(w)
    BY <2>4 DEF failError, table
  <2> QED
    BY <2>1, <2>2, <2>3, <2>4
<1> QED
  BY <1>1, <1>2

\* With its outcome written, or not, a relay leaves its row for the next.
LEMMA outcomeTime ==
  ASSUME IInv, TimeInv, NEW w \in Relays, finish(w) \/ fail(w) \/ failError(w)
  PROVE  TimeInv'
<1>1. /\ pc'[w] = "ready" /\ spent'[w] = 0 /\ batch' = batch
      /\ \A v \in Relays : v # w => pc'[v] = pc[v] /\ row'[v] = row[v] /\ spent'[v] = spent[v]
  BY DEF finish, fail, failError, Leave, IInv, TypeOK, RelayTypeOK
<1>2. row[w] \notin batch[w] /\ batch[w] \subseteq Rows
  BY DEF IInv, ClaimsAreCharged, TypeOK, RelayTypeOK
<1>3. ASSUME NEW v \in Relays, v # w PROVE TimeOf(v)'
  BY <1>1, <1>3, OwnRowOnly, TimeFrame DEF TimeInv
<1>4. Work(w) = batch[w] \cup {row[w]}
  BY OwnRowOnly DEF Work
<1>5. TimeOf(w)'
  BY <1>1, <1>2, <1>4, OwnRowOnly, TimeNextRow DEF TimeInv
<1> QED
  BY <1>3, <1>5 DEF TimeInv

\* A finish that throws goes on to fail.
LEMMA finishErrorTime == ASSUME IInv, TimeInv, NEW w \in Relays, finishError(w) PROVE TimeInv'
<1>1. /\ pc'[w] = "fail" /\ UNCHANGED <<batch, row, spent>>
      /\ \A v \in Relays : v # w => pc'[v] = pc[v]
  BY DEF finishError, IInv, TypeOK, RelayTypeOK
<1>2. row[w] \notin batch[w] /\ batch[w] \subseteq Rows
  BY DEF IInv, ClaimsAreCharged, TypeOK, RelayTypeOK
<1>3. ASSUME NEW v \in Relays, v # w PROVE TimeOf(v)'
  BY <1>1, <1>3, OwnRowOnly, TimeFrame DEF TimeInv
<1>4. Work(w)' = Work(w)
  BY <1>1, OwnRowOnly DEF Work
<1>5. TimeOf(w)'
  BY <1>1, <1>2, <1>4, OwnRowOnly DEF TimeInv, TimeOf, Handling, holdsLease, hold
<1> QED
  BY <1>3, <1>5 DEF TimeInv

\* A crash forgets the batch.
LEMMA crashTime == ASSUME IInv, TimeInv, NEW w \in Relays, crash(w) PROVE TimeInv'
<1>1. /\ pc'[w] = "ready" /\ spent'[w] = 0 /\ batch'[w] = {} /\ UNCHANGED table
      /\ \A v \in Relays : v # w => pc'[v] = pc[v] /\ row'[v] = row[v] /\ spent'[v] = spent[v] /\ batch'[v] = batch[v]
  BY DEF crash, Leave, IInv, TypeOK, RelayTypeOK
<1>2. ASSUME NEW v \in Relays, v # w PROVE TimeOf(v)'
  BY <1>1, <1>2, TimeFrame DEF TimeInv, table
<1>3. TimeOf(w)'
  BY <1>1, LimitsAssumption DEF TimeOf, Handling
<1> QED
  BY <1>2, <1>3 DEF TimeInv

\* A tick takes one from the hold and gives it to the time spent.
LEMMA tickTime == ASSUME "slow" \notin Faults, IInv, TimeInv, tick PROVE TimeInv'
<1> SUFFICES ASSUME NEW v \in Relays PROVE TimeOf(v)'
  BY DEF TimeInv
<1>1. UNCHANGED <<pc, batch, row, leaseToken>> /\ Work(v)' = Work(v) /\ (Handling(v)' <=> Handling(v))
  BY DEF tick, Work, Handling
<1>2. /\ lockedUntil \in [Rows -> Nat] /\ spent[v] \in Nat /\ batch[v] \subseteq Rows
      /\ (Handling(v) => row[v] \in Rows) /\ lockedUntil' = [r \in Rows |-> Elapse(lockedUntil[r])]
      /\ spent' = [w \in Relays |-> IF Timely(w) /\ Busy(w) THEN spent[w] + 1 ELSE spent[w]]
  BY DEF tick, Handling, IInv, TypeOK, TableTypeOK, RelayTypeOK
<1>3. \A r \in Rows : lockedUntil[r] > 0 => lockedUntil'[r] = lockedUntil[r] - 1
  BY <1>2 DEF Elapse
<1>4. CASE Busy(v)
  <2>1. spent'[v] = spent[v] + 1 /\ spent[v] + 1 < Lease
    BY <1>2, <1>4 DEF tick, Timely
  <2>2. \A r \in batch[v] : lockedUntil'[r] + spent'[v] = lockedUntil[r] + spent[v]
    BY <1>2, <1>3, <2>1, TimelyHeld DEF TimeInv
  <2>3. Handling(v) => lockedUntil'[row[v]] + spent'[v] = lockedUntil[row[v]] + spent[v]
    BY <1>2, <1>3, <2>1, TimelyHeld DEF TimeInv
  <2> QED
    BY <1>1, <2>1, <2>2, <2>3 DEF TimeInv, TimeOf, holdsLease, hold
<1>5. CASE ~Busy(v)
  <2>1. spent'[v] = spent[v] /\ batch[v] = {} /\ ~Handling(v)
    BY <1>2, <1>5 DEF Busy, Handling
  <2> QED
    BY <1>1, <2>1 DEF TimeInv, TimeOf
<1> QED
  BY <1>4, <1>5

\* Without slow relays every step keeps the holds long enough.
LEMMA TimeStep == ASSUME "slow" \notin Faults PROVE IInv /\ TimeInv /\ [Next]_vars => TimeInv'
<1> SUFFICES ASSUME IInv, TimeInv, [Next]_vars PROVE TimeInv'
  OBVIOUS
<1>1. ASSUME NEW r \in Rows, enqueue(r) PROVE TimeInv'
  BY <1>1, TimeFrame DEF TimeInv, enqueue, process
<1>2. ASSUME NEW w \in Relays, handle(w) PROVE TimeInv'
  BY <1>2, renewTime, renewLostTime, renewErrorTime, deliverTime, outcomeTime, finishErrorTime DEF handle
<1>3. ASSUME UNCHANGED vars PROVE TimeInv'
  BY <1>3, TimeFrame DEF TimeInv, vars, table, process
<1> QED
  BY <1>1, <1>2, <1>3, claimTime, crashTime, tickTime DEF Next

\* So TimeInv holds in every state.
LEMMA TimeHolds == ASSUME "slow" \notin Faults PROVE Spec => []TimeInv
<1>1. IInv /\ TimeInv /\ [Next]_vars => TimeInv'
  BY TimeStep
<1> QED
  BY <1>1, TimeInit, RelayInvariant, PTL DEF Spec

\* A relay that works each row within its lease loses none it has claimed, for
\* any batch size and lease.
THEOREM TimelyRelaysKeepTheirRows == Spec => []ClaimedRowsStayHeld
<1>1. CASE "slow" \in Faults
  <2>1. ClaimedRowsStayHeld
    BY <1>1 DEF ClaimedRowsStayHeld
  <2> QED
    BY <2>1, PTL
<1>2. CASE "slow" \notin Faults
  <2>1. IInv /\ TimeInv => ClaimedRowsStayHeld
    BY TimelyHeld DEF ClaimedRowsStayHeld, TimeInv, Work, Delivering, Handling
  <2>2. Spec => []TimeInv
    BY <1>2, TimeHolds
  <2> QED
    BY <2>1, <2>2, RelayInvariant, PTL
<1> QED
  BY <1>1, <1>2

\* No two timely relays deliver one row at the same time.
THEOREM DeliveriesAreExclusive == Spec => []NoConcurrentDelivery
<1>1. CASE "slow" \in Faults
  <2>1. NoConcurrentDelivery
    BY <1>1 DEF NoConcurrentDelivery
  <2> QED
    BY <2>1, PTL
<1>2. CASE "slow" \notin Faults
  <2>1. IInv /\ TimeInv => NoConcurrentDelivery
    BY TimelyHeld DEF NoConcurrentDelivery, TimeInv, Delivering, Handling, holdsLease
  <2>2. Spec => []TimeInv
    BY <1>2, TimeHolds
  <2> QED
    BY <2>1, <2>2, RelayInvariant, PTL
<1> QED
  BY <1>1, <1>2

\* A row that nothing left in doubt had its effect once: it is sent, or the
\* relay that delivered it is about to say so.
Settling(r) == \E w \in Relays : row[w] = r /\ pc[w] \in {"applied", "finish"}
EffectInv == \A r \in Rows \ unsure : effects[r] = 0 \/ (effects[r] = 1 /\ (status[r] = "sent" \/ Settling(r)))

\* Every step of timely relays keeps it.
LEMMA EffectStep ==
  ASSUME "slow" \notin Faults
  PROVE  IInv /\ TimeInv /\ EffectInv /\ [Next]_vars => EffectInv'
<1> SUFFICES ASSUME IInv, TimeInv, EffectInv, [Next]_vars PROVE EffectInv'
  OBVIOUS
<1> USE DEF EffectInv, Settling
<1>0. TableTypeOK /\ RelayTypeOK /\ LeasedIsPending
  BY DEF IInv, TypeOK
<1>f. ASSUME UNCHANGED <<effects, row, pc>>, unsure \subseteq unsure',
             \A r \in Rows : status[r] = "sent" => status'[r] = "sent"
      PROVE  EffectInv'
  BY <1>f
<1>1. ASSUME NEW r \in Rows, enqueue(r) PROVE EffectInv'
  BY <1>f, <1>1, <1>0 DEF enqueue, process, TableTypeOK
<1>2. ASSUME NEW w \in Relays, NEW S \in SUBSET Rows, claim(w, S) PROVE EffectInv'
  <2>1. \A r \in Rows : status[r] = "sent" => status'[r] = "sent"
    BY <1>2, <1>0 DEF claim, StatusAfterReap, Abandoned, TableTypeOK
  <2> QED
    BY <1>f, <1>2, <2>1 DEF claim
\* The steps of w that leave the table alone and are not past the effect.
<1>3. ASSUME NEW w \in Relays, NEW r \in Rows, renewLease(w, r) \/ renewLost(w, r) \/ renewError(w, r) PROVE EffectInv'
  <2>1. /\ UNCHANGED <<effects, status, unsure>> /\ pc[w] = "ready"
        /\ \A v \in Relays : v # w => row'[v] = row[v] /\ pc'[v] = pc[v]
    BY <1>3, <1>0 DEF renewLease, renewLost, renewError, table, RelayTypeOK
  <2> QED
    BY <2>1
<1>4. ASSUME NEW w \in Relays, deliverEffect(w) PROVE EffectInv'
  <2>1. row[w] \in Rows /\ holdsLease(w, row[w]) /\ pc[w] = "calling"
    BY <1>4, TimelyHeld DEF deliverEffect, TimeInv, Handling
  <2>2. status[row[w]] # "sent"
    BY <2>1, <1>0, RelaysAssumption DEF LeasedIsPending, holdsLease
  <2>3. ~Settling(row[w])
    BY <2>1, TimelyHeld DEF TimeInv, Handling, holdsLease
  <2>4. /\ UNCHANGED <<row, status, unsure>> /\ pc'[w] = "applied" /\ \A v \in Relays : v # w => pc'[v] = pc[v]
        /\ effects' = [effects EXCEPT ![row[w]] = @ + 1] /\ effects \in [Rows -> Nat]
    BY <1>4, <1>0 DEF deliverEffect, table, TableTypeOK, RelayTypeOK
  <2>5. row[w] \notin unsure => effects[row[w]] = 0
    BY <2>1, <2>2, <2>3
  <2>6. ASSUME NEW r \in Rows \ unsure PROVE effects'[r] = 0 \/ (effects'[r] = 1 /\ (status'[r] = "sent" \/ Settling(r)'))
    <3>1. CASE r = row[w]
      BY <2>4, <2>5, <3>1
    <3>2. CASE r # row[w]
      BY <2>1, <2>4, <3>2
    <3> QED
      BY <3>1, <3>2
  <2> QED
    BY <2>4, <2>6
<1>5. ASSUME NEW w \in Relays, deliverReturn(w) PROVE EffectInv'
  BY <1>5, <1>0 DEF deliverReturn, table, RelayTypeOK
<1>6. ASSUME NEW w \in Relays, NEW e \in Thrown, deliverThrow(w, e) PROVE EffectInv'
  <2>1. /\ UNCHANGED <<effects, status, row>> /\ unsure \subseteq unsure' /\ \A v \in Relays : v # w => pc'[v] = pc[v]
        /\ pc[w] = "calling" \/ (pc[w] = "applied" /\ row[w] \in unsure')
    BY <1>6, <1>0 DEF deliverThrow, table, RelayTypeOK
  <2> QED
    BY <2>1
<1>7. ASSUME NEW w \in Relays, finish(w) PROVE EffectInv'
  <2>1. row[w] \in Rows /\ holdsLease(w, row[w])
    BY <1>7, TimelyHeld DEF finish, TimeInv, Handling
  <2>2. /\ UNCHANGED <<effects, unsure>> /\ status' = [status EXCEPT ![row[w]] = "sent"]
        /\ \A v \in Relays : v # w => pc'[v] = pc[v] /\ row'[v] = row[v]
    BY <1>7, <2>1, <1>0 DEF finish, Leave, markSent, Write, RelayTypeOK
  <2> QED
    BY <2>1, <2>2, <1>0 DEF TableTypeOK
<1>8. ASSUME NEW w \in Relays, finishError(w) PROVE EffectInv'
  <2>1. row[w] \in Rows
    BY <1>8, TimelyHeld DEF finishError, TimeInv, Handling
  <2>2. /\ UNCHANGED <<effects, row>> /\ unsure' = unsure \cup {row[w]} /\ (\A v \in Relays : v # w => pc'[v] = pc[v])
        /\ (status' = status \/ status' = [status EXCEPT ![row[w]] = "sent"])
    BY <1>8, <1>0 DEF finishError, markSent, Write, table, RelayTypeOK
  <2> QED
    BY <2>1, <2>2, <1>0 DEF TableTypeOK
<1>9. ASSUME NEW w \in Relays, fail(w) \/ failError(w) PROVE EffectInv'
  <2>1. /\ UNCHANGED <<effects, unsure>> /\ pc[w] = "fail" /\ row[w] \in Rows
        /\ \A v \in Relays : v # w => pc'[v] = pc[v] /\ row'[v] = row[v]
    BY <1>9, <1>0 DEF fail, failError, Leave, RelayTypeOK
  <2>2. \A r \in Rows : status[r] = "sent" => status'[r] = "sent"
    <3>1. CASE status' = status
      BY <3>1
    <3>2. CASE holdsLease(w, row[w]) /\ \A r \in Rows : r # row[w] => status'[r] = status[r]
      BY <3>2, <1>0, RelaysAssumption DEF LeasedIsPending, holdsLease
    <3>3. CASE fail(w)
      <4>1. status' = status \/ (holdsLease(w, row[w]) /\ \E st : status' = [status EXCEPT ![row[w]] = st])
        BY <3>3 DEF fail, refundAttempt, markFailed, Write, table
      <4> QED
        BY <3>1, <3>2, <4>1, <1>0 DEF TableTypeOK
    <3> QED
      BY <1>9, <3>1, <3>3 DEF failError, table
  <2> QED
    BY <2>1, <2>2
<1>10. ASSUME NEW w \in Relays, crash(w) PROVE EffectInv'
  <2>1. /\ UNCHANGED <<effects, status>> /\ unsure \subseteq unsure' /\ (row[w] # NoRelay => row[w] \in unsure')
        /\ \A v \in Relays : v # w => pc'[v] = pc[v] /\ row'[v] = row[v]
    BY <1>10, <1>0 DEF crash, Leave, table, RelayTypeOK
  <2> QED
    BY <2>1, RelaysAssumption
<1>11. ASSUME tick \/ UNCHANGED vars PROVE EffectInv'
  BY <1>f, <1>11 DEF tick, vars, table, process
<1> QED
  BY <1>1, <1>2, <1>3, <1>4, <1>5, <1>6, <1>7, <1>8, <1>9, <1>10, <1>11 DEF Next, handle

\* While relays are timely, only a crash or an error after the side effect makes
\* deliver's effect happen twice.
THEOREM EffectsHappenOnce == Spec => []EffectAtMostOnce
<1>1. CASE "slow" \in Faults
  <2>1. EffectAtMostOnce
    BY <1>1 DEF EffectAtMostOnce
  <2> QED
    BY <2>1, PTL
<1>2. CASE "slow" \notin Faults
  <2>1. Init => EffectInv
    BY DEF Init, EffectInv
  <2>2. EffectInv => EffectAtMostOnce
    BY DEF EffectInv, EffectAtMostOnce
  <2>3. Spec => []TimeInv
    BY <1>2, TimeHolds
  <2>4. IInv /\ TimeInv /\ EffectInv /\ [Next]_vars => EffectInv'
    BY <1>2, EffectStep
  <2> QED
    BY <2>1, <2>2, <2>3, <2>4, RelayInvariant, PTL DEF Spec
<1> QED
  BY <1>1, <1>2

=============================================================================
