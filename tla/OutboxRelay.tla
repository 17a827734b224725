---------------------------- MODULE OutboxRelay ----------------------------
(***************************************************************************)
(* The claim / deliver / finish protocol of AbstractOutboxRelay            *)
(* (libs/platform/src/outbox/abstract-outbox-relay.ts), as several worker  *)
(* processes run it over one outbox table.                                 *)
(*                                                                         *)
(* A relay claims a batch of due rows in one transaction that spends an    *)
(* attempt on each and stamps a lease, works the rows one after another    *)
(* with no transaction open, and writes each outcome in a transaction      *)
(* fenced on the lease token.                                              *)
(*                                                                         *)
(* A claim's token (a fresh UUID) is modelled by the relay that holds it:  *)
(* a relay claims again only when its last batch is finished, so no two    *)
(* live claims of one relay exist.  locked_until and scheduled_at are the  *)
(* ticks of the database clock left until they pass; 0 is "not after       *)
(* now()".                                                                 *)
(***************************************************************************)
EXTENDS Integers, FiniteSets

CONSTANTS
    Rows,           \* the rows of the outbox table
    Relays,         \* the worker processes that run this relay
    NoRelay,        \* lease_token IS NULL; also "no row" of an idle relay
    MaxAttempts,    \* maxAttempts
    BatchSize,      \* batchSize
    Lease,          \* leaseMsFor(row), in ticks
    BackoffBase,    \* baseMs of backoffDelayMs, in ticks
    BackoffCap,     \* capMs of backoffDelayMs, in ticks
    MaxRetryAfter,  \* MAX_RETRY_AFTER_MS, in ticks
    Hints,          \* the Retry-After values a server may answer, in ticks
    Faults          \* what may go wrong besides a delivery that fails:
                    \*   "crash"     a worker process dies
                    \*   "db"        a statement of the relay fails, or commits unseen
                    \*   "slow"      a row takes its relay longer than its lease
                    \*   "uncertain" a delivery takes effect and still reports failure
                    \*   "defer"     deliver throws DeferError

ASSUME RowsAssumption == IsFiniteSet(Rows)
ASSUME RelaysAssumption == NoRelay \notin Relays /\ NoRelay \notin Rows
ASSUME LimitsAssumption == /\ MaxAttempts \in Nat \ {0}
                           /\ BatchSize \in Nat \ {0}
                           /\ Lease \in Nat \ {0}
ASSUME DelaysAssumption == /\ BackoffBase \in Nat /\ BackoffCap \in Nat
                           /\ MaxRetryAfter \in Nat
                           /\ Hints \subseteq Int

VARIABLES
    \* the outbox table (one column each)
    status,         \* "pending", "sent" or "failed"; "absent" before the row is inserted
    attempts,       \* attempts spent, at claim time
    leaseToken,     \* the relay whose claim holds the row, or NoRelay
    lockedUntil,    \* ticks until the lease lapses
    scheduledAt,    \* ticks until the row is due
    \* each relay process
    pc,             \* where handle() is: "ready", "calling", "applied", "finish", "fail"
    batch,          \* the claimed rows still to be handled
    row,            \* the row being handled
    seen,           \* Claimed.attempts: the attempt count the claim returned
    err,            \* what deliver or settle threw
    spent,          \* ticks since this relay turned to its current row
    \* history
    calls,          \* deliver calls started for the row and not deferred
    effects,        \* deliver calls whose external side effect happened
    unsure          \* rows that a crash or an error left in doubt of their effect

table == <<status, attempts, leaseToken, lockedUntil, scheduledAt>>
process == <<pc, batch, row, seen, err, spent>>
vars == <<table, process, calls, effects, unsure>>

----------------------------------------------------------------------------
(* The errors fail() tells apart.                                           *)

Transient == [kind |-> "error", delay |-> 0]         \* any other Error
NonRetryable == [kind |-> "permanent", delay |-> 0]  \* NonRetryableError
RetryAfter(h) == [kind |-> "retryAfter", delay |-> h]
Defer(h) == [kind |-> "defer", delay |-> h]

Thrown == {Transient, NonRetryable} \cup {RetryAfter(h) : h \in Hints}
             \cup (IF "defer" \in Faults THEN {Defer(h) : h \in Hints} ELSE {})

MaxOf(a, b) == IF a >= b THEN a ELSE b
MinOf(a, b) == IF a <= b THEN a ELSE b

\* Mutant: a negative hint is not raised to 0.
ClampAbove(ms) == MinOf(ms, MaxRetryAfter)

\* Math.min(Math.max(ms, 0), MAX_RETRY_AFTER_MS)
Clamp(ms) == MinOf(MaxOf(ms, 0), MaxRetryAfter)

\* min(base * 2^(newAttempts - 1), cap)
backoffDelay(newAttempts) == MinOf(BackoffBase * 2^(newAttempts - 1), BackoffCap)

\* A server's hint never shortens the back-off.
RetryDelay(e, newAttempts) ==
    MaxOf(IF e.kind = "retryAfter" THEN Clamp(e.delay) ELSE 0, backoffDelay(newAttempts))

----------------------------------------------------------------------------
Init ==
    /\ status = [r \in Rows |-> "absent"]
    /\ attempts = [r \in Rows |-> 0]
    /\ leaseToken = [r \in Rows |-> NoRelay]
    /\ lockedUntil = [r \in Rows |-> 0]
    /\ scheduledAt = [r \in Rows |-> 0]
    /\ pc = [w \in Relays |-> "ready"]
    /\ batch = [w \in Relays |-> {}]
    /\ row = [w \in Relays |-> NoRelay]
    /\ seen = [w \in Relays |-> [r \in Rows |-> 0]]
    /\ err = [w \in Relays |-> Transient]
    /\ spent = [w \in Relays |-> 0]
    /\ calls = [r \in Rows |-> 0]
    /\ effects = [r \in Rows |-> 0]
    /\ unsure = {}

\* The domain transaction that inserts the row commits.
enqueue(r) ==
    /\ status[r] = "absent"
    /\ status' = [status EXCEPT ![r] = "pending"]
    /\ UNCHANGED <<attempts, leaseToken, lockedUntil, scheduledAt, process, calls, effects, unsure>>

\* Mutant: selectDue and the reaper forget notLeased.
AnyLease(r) == TRUE

notLeased(r) == lockedUntil[r] = 0

\* Mutant: claim() does not reap.
NothingAbandoned == {}

\* reapAbandoned's WHERE
Abandoned == {r \in Rows : status[r] = "pending" /\ attempts[r] >= MaxAttempts /\ notLeased(r)}

\* Mutant: selectDue forgets the status.
DueInAnyStatus == {r \in Rows : /\ status[r] # "absent" /\ attempts[r] < MaxAttempts
                                /\ scheduledAt[r] = 0 /\ notLeased(r)}

\* selectDue's WHERE
Due == {r \in Rows : /\ status[r] = "pending" /\ attempts[r] < MaxAttempts
                     /\ scheduledAt[r] = 0 /\ notLeased(r)}

\* Mutant: the reaper leaves the lease token on the row.
KeepTokens == leaseToken

\* reapAbandoned's SET (lockedUntil is past already)
StatusAfterReap == [r \in Rows |-> IF r \in Abandoned THEN "failed" ELSE status[r]]
TokensAfterReap == [r \in Rows |-> IF r \in Abandoned THEN NoRelay ELSE leaseToken[r]]

\* Mutant: the attempt is not spent by the claim.
SpendNothing(r) == attempts[r]

Spend(r) == attempts[r] + 1

\* Mutant: the batch is held for one lease.
HoldOneLease(S) == Lease

\* The rows of a batch are worked one after another: it is held for the SUM of
\* their leases.
hold(S) == Cardinality(S) * Lease

\* Spend an attempt on each row of the batch and lease it to w.
stampLeases(w, S) ==
    /\ attempts' = [r \in Rows |-> IF r \in S THEN Spend(r) ELSE attempts[r]]
    /\ leaseToken' = [r \in Rows |-> IF r \in S THEN w ELSE TokensAfterReap[r]]
    /\ lockedUntil' = [r \in Rows |-> IF r \in S THEN hold(S) ELSE lockedUntil[r]]

(***************************************************************************)
(* claim(): one transaction that dead-letters the abandoned rows, selects  *)
(* due rows FOR UPDATE SKIP LOCKED and stamps them.  S is any batch: which *)
(* rows come first, and which are skipped because another transaction has  *)
(* them locked, is left open.                                              *)
(***************************************************************************)
claim(w, S) ==
    /\ pc[w] = "ready" /\ batch[w] = {}
    /\ S \subseteq Due /\ Cardinality(S) <= BatchSize
    /\ S = {} => Due = {}
    /\ status' = StatusAfterReap
    /\ stampLeases(w, S)
    /\ batch' = [batch EXCEPT ![w] = S]
    /\ seen' = [seen EXCEPT ![w] = [r \in Rows |-> IF r \in S THEN attempts'[r] ELSE 0]]
    /\ spent' = [spent EXCEPT ![w] = 0]
    /\ UNCHANGED <<scheduledAt, pc, row, err, calls, effects, unsure>>

----------------------------------------------------------------------------
(* handle(row)                                                              *)

holdsLease(w, r) == leaseToken[r] = w

\* Leave the current row, whatever became of it, and turn to the next one.
Leave(w) ==
    /\ pc' = [pc EXCEPT ![w] = "ready"]
    /\ row' = [row EXCEPT ![w] = NoRelay]
    /\ err' = [err EXCEPT ![w] = Transient]
    /\ spent' = [spent EXCEPT ![w] = 0]

\* renewLease finds the token: the lease is pushed out and deliver is called.
renewLease(w, r) ==
    /\ pc[w] = "ready" /\ r \in batch[w]
    /\ holdsLease(w, r)
    /\ lockedUntil' = [lockedUntil EXCEPT ![r] = Lease]
    /\ batch' = [batch EXCEPT ![w] = @ \ {r}]
    /\ row' = [row EXCEPT ![w] = r]
    /\ pc' = [pc EXCEPT ![w] = "calling"]
    /\ calls' = [calls EXCEPT ![r] = @ + 1]
    /\ UNCHANGED <<status, attempts, leaseToken, scheduledAt, seen, err, spent, effects, unsure>>

\* renewLease finds another token: the row is skipped.
renewLost(w, r) ==
    /\ pc[w] = "ready" /\ r \in batch[w]
    /\ ~holdsLease(w, r)
    /\ batch' = [batch EXCEPT ![w] = @ \ {r}]
    /\ spent' = [spent EXCEPT ![w] = 0]
    /\ UNCHANGED <<table, pc, row, seen, err, calls, effects, unsure>>

\* The renewing UPDATE throws: the row is skipped, whether or not it took effect.
renewError(w, r) ==
    /\ "db" \in Faults
    /\ pc[w] = "ready" /\ r \in batch[w]
    /\ \/ UNCHANGED lockedUntil
       \/ holdsLease(w, r) /\ lockedUntil' = [lockedUntil EXCEPT ![r] = Lease]
    /\ batch' = [batch EXCEPT ![w] = @ \ {r}]
    /\ spent' = [spent EXCEPT ![w] = 0]
    /\ UNCHANGED <<status, attempts, leaseToken, scheduledAt, pc, row, seen, err, calls, effects, unsure>>

\* The external side effect of deliver(row) takes place.
deliverEffect(w) ==
    /\ pc[w] = "calling"
    /\ pc' = [pc EXCEPT ![w] = "applied"]
    /\ effects' = [effects EXCEPT ![row[w]] = @ + 1]
    /\ UNCHANGED <<table, batch, row, seen, err, spent, calls, unsure>>

deliverReturn(w) ==
    /\ pc[w] = "applied"
    /\ pc' = [pc EXCEPT ![w] = "finish"]
    /\ UNCHANGED <<table, batch, row, seen, err, spent, calls, effects, unsure>>

\* Mutant: deliver's error is swallowed.
deliverSwallow(w, e) ==
    /\ pc[w] = "calling"
    /\ pc' = [pc EXCEPT ![w] = "finish"]
    /\ UNCHANGED <<table, batch, row, seen, err, spent, calls, effects, unsure>>

deliverThrow(w, e) ==
    /\ \/ pc[w] = "calling"
       \/ pc[w] = "applied" /\ "uncertain" \in Faults /\ e.kind # "defer"
    /\ pc' = [pc EXCEPT ![w] = "fail"]
    /\ err' = [err EXCEPT ![w] = e]
    /\ unsure' = IF pc[w] = "applied" THEN unsure \cup {row[w]} ELSE unsure
    /\ UNCHANGED <<table, batch, row, seen, spent, calls, effects>>

----------------------------------------------------------------------------
(* finish(row, work): each outcome is one transaction fenced on the token.  *)

\* The transaction's writes: work(tx), then releaseLease.
Write(r, st, att, at) ==
    /\ status' = [status EXCEPT ![r] = st]
    /\ attempts' = [attempts EXCEPT ![r] = att]
    /\ scheduledAt' = [scheduledAt EXCEPT ![r] = at]
    /\ leaseToken' = [leaseToken EXCEPT ![r] = NoRelay]
    /\ lockedUntil' = [lockedUntil EXCEPT ![r] = 0]

markSent(r) == Write(r, "sent", attempts[r], scheduledAt[r])

newStatus(w) ==
    IF err[w] = NonRetryable \/ seen[w][row[w]] >= MaxAttempts THEN "failed" ELSE "pending"

markFailed(w, r) ==
    Write(r, newStatus(w), attempts[r],
          IF newStatus(w) = "pending" THEN RetryDelay(err[w], seen[w][r]) ELSE scheduledAt[r])

refundAttempt(w, r) == Write(r, "pending", MaxOf(attempts[r] - 1, 0), Clamp(err[w].delay))

\* Mutant: finish without the fence.
finishUnfenced(w) ==
    /\ pc[w] = "finish"
    /\ markSent(row[w])
    /\ Leave(w)
    /\ UNCHANGED <<batch, seen, calls, effects, unsure>>

\* settle and markSent commit together; a lost lease writes nothing.
finish(w) ==
    /\ pc[w] = "finish"
    /\ IF holdsLease(w, row[w]) THEN markSent(row[w]) ELSE UNCHANGED table
    /\ Leave(w)
    /\ UNCHANGED <<batch, seen, calls, effects, unsure>>

\* settle, a write or the COMMIT throws.  Nothing was committed, or the COMMIT
\* was and its answer was lost; handle() goes on to fail(row, err) either way.
finishError(w) ==
    /\ "db" \in Faults
    /\ pc[w] = "finish"
    /\ \/ UNCHANGED table
       \/ holdsLease(w, row[w]) /\ markSent(row[w])
    /\ pc' = [pc EXCEPT ![w] = "fail"]
    /\ err' = [err EXCEPT ![w] = Transient]
    /\ unsure' = unsure \cup {row[w]}
    /\ UNCHANGED <<batch, row, seen, spent, calls, effects>>

\* Mutant: the failure is recorded without the fence.
failUnfenced(w) ==
    /\ pc[w] = "fail"
    /\ IF err[w].kind = "defer"
       THEN refundAttempt(w, row[w]) /\ calls' = [calls EXCEPT ![row[w]] = @ - 1]
       ELSE markFailed(w, row[w]) /\ UNCHANGED calls
    /\ Leave(w)
    /\ UNCHANGED <<batch, seen, effects, unsure>>

\* fail(row, err): record the failure, or give the attempt back for a DeferError.
fail(w) ==
    /\ pc[w] = "fail"
    /\ IF ~holdsLease(w, row[w]) THEN UNCHANGED <<table, calls>>
       ELSE IF err[w].kind = "defer"
       THEN refundAttempt(w, row[w]) /\ calls' = [calls EXCEPT ![row[w]] = @ - 1]
       ELSE markFailed(w, row[w]) /\ UNCHANGED calls
    /\ Leave(w)
    /\ UNCHANGED <<batch, seen, effects, unsure>>

\* The failure cannot be recorded: the lease is left to lapse.
failError(w) ==
    /\ "db" \in Faults
    /\ pc[w] = "fail"
    /\ Leave(w)
    /\ UNCHANGED <<table, batch, seen, calls, effects, unsure>>

----------------------------------------------------------------------------
(* The environment                                                          *)

\* A worker process dies, between any two of the steps above, and is restarted.
crash(w) ==
    /\ "crash" \in Faults
    /\ pc[w] # "ready" \/ batch[w] # {}
    /\ batch' = [batch EXCEPT ![w] = {}]
    /\ seen' = [seen EXCEPT ![w] = [r \in Rows |-> 0]]
    /\ Leave(w)
    /\ unsure' = unsure \cup ({row[w]} \ {NoRelay})
    /\ UNCHANGED <<table, calls, effects>>

Busy(w) == pc[w] # "ready" \/ batch[w] # {}

\* "leaseMsFor must exceed the longest deliver for the row": the work on one
\* row, from turning to it to its finish transaction, stays within a lease.
Timely(w) == Busy(w) => spent[w] + 1 < Lease

Elapse(t) == IF t > 0 THEN t - 1 ELSE 0

tick ==
    /\ \A w \in Relays : Timely(w) \/ "slow" \in Faults
    /\ lockedUntil' = [r \in Rows |-> Elapse(lockedUntil[r])]
    /\ scheduledAt' = [r \in Rows |-> Elapse(scheduledAt[r])]
    /\ spent' = [w \in Relays |-> IF Timely(w) /\ Busy(w) THEN spent[w] + 1 ELSE spent[w]]
    /\ UNCHANGED <<status, attempts, leaseToken, pc, batch, row, seen, err, calls, effects, unsure>>

handle(w) ==
    \/ \E r \in Rows : renewLease(w, r) \/ renewLost(w, r) \/ renewError(w, r)
    \/ deliverEffect(w) \/ deliverReturn(w)
    \/ \E e \in Thrown : deliverThrow(w, e)
    \/ finish(w) \/ finishError(w) \/ fail(w) \/ failError(w)

Next ==
    \/ \E r \in Rows : enqueue(r)
    \/ \E w \in Relays : (\E S \in SUBSET Rows : claim(w, S)) \/ handle(w) \/ crash(w)
    \/ tick

Spec == Init /\ [][Next]_vars

\* The scheduler calls relay() every few seconds, every statement and external
\* call has a deadline, and the database clock runs.  No fairness for faults.
Fairness ==
    /\ \A w \in Relays : WF_vars(\E S \in SUBSET Rows : claim(w, S))
    /\ \A w \in Relays : WF_vars(handle(w))
    /\ WF_vars(tick)

FairSpec == Spec /\ Fairness

----------------------------------------------------------------------------
(* Properties                                                               *)

Work(w) == batch[w] \cup (IF pc[w] = "ready" THEN {} ELSE {row[w]})
Delivering(w) == pc[w] \in {"calling", "applied"}
Terminal == {"sent", "failed"}

TableTypeOK ==
    /\ status \in [Rows -> {"absent", "pending", "sent", "failed"}]
    /\ attempts \in [Rows -> 0..MaxAttempts]
    /\ leaseToken \in [Rows -> Relays \cup {NoRelay}]
    /\ lockedUntil \in [Rows -> Nat]
    /\ scheduledAt \in [Rows -> Nat]
    /\ calls \in [Rows -> Nat]
    /\ effects \in [Rows -> Nat]
    /\ unsure \subseteq Rows

RelayTypeOK ==
    /\ pc \in [Relays -> {"ready", "calling", "applied", "finish", "fail"}]
    /\ batch \in [Relays -> SUBSET Rows]
    /\ row \in [Relays -> Rows \cup {NoRelay}]
    /\ \A w \in Relays : pc[w] = "ready" <=> row[w] = NoRelay
    /\ seen \in [Relays -> [Rows -> 0..MaxAttempts]]
    /\ err \in [Relays -> Thrown]
    /\ spent \in [Relays -> Nat]

\* Types: the columns of the table and the local state of handle().
TypeOK == TableTypeOK /\ RelayTypeOK

\* A sent or dead-lettered row is never touched again, whichever relay still
\* works on it: a relay that lost its lease, or whose COMMIT was answered with
\* an error, writes nothing over the outcome (finish(), the fence).
TerminalIsFinal ==
    [][\A r \in Rows : status[r] \in Terminal =>
          status'[r] = status[r] /\ attempts'[r] = attempts[r] /\ leaseToken'[r] = NoRelay]_vars

\* "the budget still runs out": however a call ends (a crash, an unrecorded
\* failure, a lost lease), deliver is never called more often than the attempts
\* the row was charged, and never more than maxAttempts times.
CallsWithinBudget ==
    \A r \in Rows : calls[r] <= attempts[r] /\ attempts[r] <= MaxAttempts

\* While a relay holds a row's lease, the attempt count in its memory, from
\* which fail() decides between retry and dead letter, is the row's own count,
\* and the row is still pending.
HeldRowIsCurrent ==
    \A w \in Relays : \A r \in Work(w) :
        holdsLease(w, r) => status[r] = "pending" /\ seen[w][r] = attempts[r] /\ attempts[r] > 0

\* A row is sent only if one of its deliver calls took effect.
SentWasDelivered == \A r \in Rows : status[r] = "sent" => effects[r] > 0

\* The inductive invariant behind the properties above.
\* A claimed row was charged, its relay turns to it once, and a relay past
\* deliver's side effect has it recorded.
ClaimsAreCharged ==
    \A w \in Relays : /\ row[w] \notin batch[w]
                      /\ \A r \in Work(w) : seen[w][r] > 0 /\ status[r] # "absent"

\* Only a pending row is leased, and an absent row is untouched.
LeasedIsPending ==
    \A r \in Rows : /\ leaseToken[r] # NoRelay => status[r] = "pending"
                    /\ status[r] = "absent" => attempts[r] = 0 /\ calls[r] = 0

\* The attempt of a claim pays for one call: it is unspent while the row waits
\* in the batch of the relay that holds it, and spent once it is being handled.
CallsArePaid ==
    \A w \in Relays : \A r \in Work(w) :
        holdsLease(w, r) => IF r \in batch[w] THEN calls[r] < attempts[r] ELSE calls[r] > 0

EffectIsRecorded ==
    \A w \in Relays : pc[w] \in {"applied", "finish"} => effects[row[w]] > 0

IInv ==
    /\ TypeOK
    /\ ClaimsAreCharged
    /\ LeasedIsPending
    /\ HeldRowIsCurrent
    /\ CallsArePaid
    /\ CallsWithinBudget
    /\ EffectIsRecorded
    /\ SentWasDelivered

\* The relays implement the outbox's promise (OutboxQueue).
Queue == INSTANCE OutboxQueue WITH state <- status, delivered <- [r \in Rows |-> effects[r] > 0]
ImplementsQueue == Queue!Spec

\* As long as each row is worked within its lease, a relay never loses a row
\* it claimed: the hold covers the time a row waits behind the rest of its
\* batch ("a hold shorter than that would let its lease lapse while it waited,
\* so another relay re-claims it and an attempt is burned").
ClaimedRowsStayHeld ==
    "slow" \notin Faults => \A w \in Relays : \A r \in Work(w) : r \in batch[w] \/ Delivering(w)
                               => holdsLease(w, r) /\ lockedUntil[r] > 0

\* Under the same condition no two relays deliver one row at the same time.
NoConcurrentDelivery ==
    "slow" \notin Faults =>
        \A v, w \in Relays : v # w /\ Delivering(v) /\ Delivering(w) => row[v] # row[w]

\* Under the same condition only a crash or an error after the side effect
\* repeats it: rows that none of these left in doubt are delivered at most once,
\* whatever happened to the relays and to the other rows.
EffectAtMostOnce ==
    "slow" \notin Faults => \A r \in Rows \ unsure : effects[r] <= 1

\* Every row reaches an outcome, through crashes, lost answers and slow calls:
\* the attempts run out and the row is dead-lettered by fail() or by the reaper.
EveryRowSettles == \A r \in Rows : status[r] = "pending" ~> status[r] \in Terminal

=============================================================================
