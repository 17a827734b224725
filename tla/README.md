# Rova: TLA+ models and proofs

Rova is a work-management application: a NestJS API (`apps/api`), a worker process
(`apps/worker`) and a React client (`apps/web`) over PostgreSQL (Drizzle, READ COMMITTED
transactions), a Valkey cache and an S3-compatible bucket. Several API and worker processes run at
the same time. This directory models the parts of it where concurrency, failure and time decide
whether it is correct; TLC checks them on small instances and TLAPS proves the main results for
every value of the constants.

## 1. Inventory

| Part | State it keeps | Operations | Talks to |
|---|---|---|---|
| Outbox relay (`libs/platform/src/outbox/abstract-outbox-relay.ts`) | outbox rows: status, attempts, lease token, `locked_until`, `scheduled_at`; per process a batch | enqueue, reap, claim, renew, deliver, finish, fail, defer | external services; six subclasses: email, notifications, guest invites, SCM webhooks, SCM backfill, audit projection |
| Passes of one relay process (same file) | `inFlight`, `queued` | `relay()` by cron and by wake signals, hand-off in `finally` | the claim protocol above |
| Uploaded files (`libs/modules/attachments`, `libs/platform/src/storage`) | `storage.files`, `work.attachments`, objects in the bucket | presign, PUT, confirm, delete, discard | the sweep of the worker; avatars of the identity module |
| Daily cleanup (`apps/worker/src/cron/cleanup.cron.ts`) | the rows it selected | select, delete objects, delete rows | files, bucket |
| Idempotency keys (`libs/platform/src/http/idempotency.interceptor.ts`) | two cache keys per (user, route, key) | read, SET NX, run, store, release, expiry | cache, every mutating route |
| Task roll-up of work items (`libs/modules/work-items`) | `work.tasks`, `work.work_items`, row locks, advisory locks | create, update, re-parent, delete of a task; edit, delete of the parent; `reconcileParentScheduleState` | unit of work, activity log |
| Iterations and moves (`libs/modules/iterations`, work-items, migrations 0095, 0114, 0138) | iteration state, `iteration_id` of Stories and tasks, `version`, transition log, row locks | edit (move, accept), bulk assign, carry over, delete and create of items; commit, accept, reopen, delete and roll over of iterations; auto-accept; triggers and foreign-key actions | unit of work, reporting snapshots |
| Workspace invitations and members (`libs/modules/workspace`) | `workspace_invitations` with status and token hash, `workspace_members`, roles, project grants | invite, resend, copy link, cancel, accept, add, suspend, remove, daily expiry | email outbox, guest-invite outbox, access |
| Guest invites (`apps/worker/src/guest-invite`) | `guest_invite_outbox` with the raw token of the first email | schedule (behind a flag), invite, settle, dead-letter | outbox relay, Entra, invitations, email outbox |
| Notifications | notification rows, push channel | deliver, settle, push, email | outbox relay, cache pub/sub |
| Splits, defect workflow | items, state | split, transition | work items |
| Capacity, portfolio, releases, milestones, test cases, projects, workspace settings, team status, quality, collaboration, activity, audit, SCM linking, reporting | rows of their own | single-row edits, look-ups, aggregates | access checks |
| Sessions, API tokens, rate limits, resilience | cache counters, circuits | decisions on one request | cache, libraries |
| Rank keys (`libs/platform/src/utils/lexorank.util.ts`) | none | `between` | every ordered list |
| MCP bridge, web client | none that outlives a call / UI state | requests | the API |

What is hard to test here:

- a worker that dies or is slow between the claim of a row and its outcome, a COMMIT whose answer is
  lost, a lease that lapses while its holder still works;
- wake signals at every point of a pass, and a pass that throws while another is queued;
- confirms that interleave with each other and with a sweep whose selection is minutes old;
- requests with one idempotency key in several processes, with a marker that expires under its
  holder and a cache that fails between two commands;
- READ COMMITTED transactions that count rows other transactions are changing, and the order in
  which they take row and advisory locks;
- moves of Stories between iterations that other requests accept, delete or roll over, with triggers
  that mirror the move on tasks and an auto-accept check in the same transaction;
- handlers that check what they read before their transaction and write by id inside it: two of them
  overlap, or time passes, between the check and the write;
- a secret (the invitation's token) that travels through an outbox row while rotations replace it.

`PROJECT.json` lists these hazards at their lines, each with the properties that cover it or with
the reason none does yet.

What makes each part correct: an outbox row is delivered at least once within its budget, and its
outcome is final; a wake signal is never lost; what a reader sees can be downloaded and no object is
leaked; a retried request runs once; a parent's state follows its tasks, and requests do not wait for
each other in a circle; every move of a Story is logged with its real source and target, no item
points at an iteration that is gone, and an iteration is accepted when its Stories are; an invitee can
be reached, an acceptance is all or nothing, and a workspace keeps an admin.

## 2. Modules

| Module | Models | Uses |
|---|---|---|
| `OutboxQueue` | the abstract promise of an outbox: delivered zero or more times within a budget, sent only after a delivery, outcome kept | |
| `OutboxRelay` | the claim / deliver / finish protocol of any number of relays over one table | instantiates `OutboxQueue` as its refinement |
| `RelayPass` | how `relay()` calls of one process share passes | |
| `StorageFiles` | files, bucket, links, avatar, confirms, sweep | |
| `Idempotency` | the interceptor's cache commands | |
| `ParentState` | the roll-up as interleaved transactions | |
| `IterationScope` | which iteration holds which Story: moves, their log, mirrors on tasks, acceptance | |
| `Membership` | invitations, guest rows, tokens and members | the promise of `OutboxQueue`, restated for one kind of row |
| `*Proofs` | theorems about the module of that name | `TLAPS` |
| `MC*` | symmetry and small values for TLC | |

Mutated forms of definitions ("Mutant: ...") stand in front of the definitions they replace. They
show that each property notices a plausible bug; no specification uses them.

### OutboxRelay

Each column of the table is a function of the row, each local of `handle()` a function of the relay.
A transaction of the code is one action: `claim` reaps, selects and stamps; `finish` and `fail` are
fenced on the token. `deliver` is split into the call (`renewLease`), the moment its side effect
happens (`deliverEffect`) and its return or throw, so that a crash or a lapse can fall between them.

- A claim's token is modelled by its relay. This is sound because a process works one batch at a
  time, which `RelayPass` proves (`PassesAreSerial`).
- `locked_until` and `scheduled_at` are ticks left on the database's clock. `spent` counts the
  ticks since a relay turned to its row; without the fault `"slow"` it stays below `Lease`, which is
  what the comment on `leaseMsFor` asks of its subclasses.
- `finishError` and `renewError` cover both outcomes of a statement that failed: it had no effect,
  or it took effect and its answer was lost.
- An email suppressed by the recipient's preference is, for the relay, a delivery that took effect.
- The due predicate, `markSent` and `markFailed` are the email relay's; the other subclasses differ
  in their columns and in what they deliver.

### RelayPass

An action is what JavaScript runs between two awaits. A promise is named by the call that made it,
and `.then` without a rejection handler has two actions: `runQueued` and `skipQueued`.

### StorageFiles

One entity, its attachments and one user's avatar. A confirm is a request that steps through
`head`, `mark`, `count`, `link` (or `profile`) with no transaction across the steps; the sweep
selects, deletes objects and deletes rows. `Clients` says what clients may do besides confirming one
file at a time: `"parallel"`, `"double"`, `"late"`. The client PUTs a file at most once. The checks of
type, size and access refuse a request without a write and are left out.

### Idempotency

Each cache command is a step; a command that fails without effect spends a fault. A command that
takes effect and reports a failure leaves the request where its success does (`lockTaken`, `store`,
`release`) and spends none. A run stays within the 24
hours a stored response lives.

### ParentState

`com` is the committed version of each row and `cur` the one with uncommitted writes; `View(q)` is
what a statement of transaction `q` sees. An UPDATE waits until no other transaction has written the
row. A request reads its item before its transaction starts, as the code does, so a task may have
been deleted or moved since (`taskGone`, `taskGoneTouch`, `updateGone`). The state `release` behaves
as `accepted` does. Changes of a task's hours are left out of what a patch may hold besides its
state and its parent.

### IterationScope

Built like `ParentState`: `com`, `cur`, `lock` and `View(q)`, a read before the transaction and one
action per statement. `share` holds the FOR SHARE locks of carryovers. `op[q]` keeps what the request
was asked and what its read returned (`src`, the iterations; `seen`, the row behind an If-Match token;
`checks`, the iterations whose acceptance it re-evaluates); `Recorded(o)` are the transitions it logs.

- A statement that writes several rows waits for all of them (`Blockers`). The triggers of
  migration 0095 are part of the statement that fires them (`Cascade`, `FromParent`), and so is the
  ON DELETE SET NULL of 0114 (`Unscheduled`).
- A version number is modelled by the set `stale` of requests whose token is of an earlier version.
- `rolloverUnfinished` is a loop of edits, one transaction each: `op[q].rest` is what is left.
- `changeState` and `deleteIteration` are single statements that do not look at the state again.
- `accepted` stands for {accepted, release}, and `open` for every state below; so a create's roll-up may
  or may not write an open Story (`reconcileWrite`, `reconcileSkip`). Dates are left out: any other
  open iteration may be the later one a carryover needs. Gated snapshots after an acceptance, ranks
  and the access checks of the handlers are left out.

### Membership

One address, its invitations, and the users that may redeem them. A token is named by its invitation
and the rotation that minted it (`<<i, gen>>`); `mails` and `links` are the tokens that left the
database. A request is its read with its checks (`start...`), kept in `op`, and its transaction, one
step at the commit: those transactions lock what they write in one order, and nothing in them is read
that their writes depend on, but for `grantProjectAccess`, which reads the member before the rest and
is a step of its own. The guest relay appears as what `OutboxQueue` promises of it; `settle` without
an object id reads the invitation without a lock, so it takes two steps (`settleRead`, `settle`).
Windows and cooldowns may end at any moment (`lapse`). `removed` stands for {suspended, removed}.

## 3. Runs

| Run | Checks | Bounds and why they are enough |
|---|---|---|
| `relay_faults` | types, the budget, that a held row is current, sent only after delivery, final outcomes, refinement of `OutboxQueue` | 2 relays, 2 rows, 2 attempts, batches of up to 2, all faults. Two relays are needed to lose a row to each other, two attempts to tell retry from dead letter |
| `relay_timely` | claimed rows stay held, no concurrent delivery, effect at most once for rows nothing left in doubt; every row settles | 2 relays, 2 rows, leases of 2 ticks and batches of 2, so that a row can wait for longer than one lease; crashes and errors at every step |
| `relay_pass` | one pass at a time, bursts share one, callers await a later pass, every call is served or told | 4 calls: one running, one queued, one that joins it and one that comes after the hand-off |
| `relay_pass_wedged` | *violated*: `inFlight` is null when idle | 3 calls |
| `storage_files` | what is visible can be downloaded, stays until deleted, no leaked object, the quota's overshoot | 3 attachments, 1 avatar, 2 requests, limit 1: enough to pass the limit by one and to try to pass it by two |
| `storage_live` | every presigned file ends up visible or swept | 2 attachments, sweeps of 1 row, deletes that may fail |
| `storage_avatar` | *violated*: the avatar is served | 1 avatar |
| `idempotency` | duplicates are paid for by faults, replays are of the same body, an answered request is stored | 4 requests, 2 bodies, 2 faults: a holder, a waiter, a late-comer and a retry |
| `parent_state` | no deadlock, a write that clashes with no other reconciles its parent | 1 parent, 2 tasks, 2 requests, all task states, rollbacks. Moves between two parents are covered by the theorems, which hold for any number of them |
| `parent_race` | *violated*: the parent's state is derived between requests | 1 parent, 2 tasks, 2 requests |
| `iteration_scope` | no dangling iteration, deadlocks need an acceptance, moves are logged, a carryover's target is open, If-Match is current, lone writes accept and mirror, lone rollovers accept | 2 Stories, 1 task, 2 iterations, 2 requests at a time, 4 requests in all (`MaxStarts`), every operation: enough to prepare a scheduled Story and its task with two requests and then let two others clash |
| `membership` | pending invitations are reachable, tokens are scrubbed, acceptances are whole, emails are live, settled stays settled, lone requests supersede, reach their member and keep an admin | 2 invitations of one address, 1 guest and 2 admins, 2 requests at a time, 3 in all (`MaxStarts`), 2 rotations (`MaxRotations`), the flag on and off: an invitation, then two requests that clash over it |

`StorageFiles`, `Idempotency` and `Membership` are checked with deadlock checking off: once every file
is gone, every request answered and the bound on requests reached, nothing has to happen. `RelayPass`,
`ParentState` and `IterationScope` have a stuttering step for exactly that state (`done`, `quiet`), so
TLC reports any other state in which nothing can happen.

### Fairness

- `relay_timely`: weak fairness of each relay's claim (the scheduler polls every few seconds), of the
  steps of `handle` (statements and calls have deadlines) and of the clock. No fairness of faults.
- `relay_pass`: weak fairness of each promise's continuation.
- `storage_live`: weak fairness of a request's steps, of the sweep and of the hour after a confirm;
  strong fairness of the day after a presign, because a retried confirm may take the
  file in and out of use meanwhile; and the worker does not die in every one of its sweeps.

## 4. What the violated runs show

- **A relay can stop for good.** A pass that throws while a call is queued leaves `inFlight` at the
  queued promise, which rejects without running (`abstract-outbox-relay.ts:476`, `:586`). Every
  later call queues behind it.
- **Avatars are swept.** `confirmAvatar` writes no `work.attachments` row, so the sweep takes the file
  for unreachable an hour later.
- **Overlapping task writes leave the parent behind.** Two transactions count each other's old
  rows; nothing locks the parent before the count.

The models show other limits of the code when a constant is changed; the passing runs state their
properties for the other setting:

- `Clients = {"late"}`: a confirm more than 24 hours after its presign races the sweep and
  `VisibleIsDownloadable` fails.
- `Clients = {"double"}`: the same confirm sent twice at the limit retires the file it has just
  linked, and `VisibleUntilDeleted` fails.
- `DeleteFails = TRUE`: `deleteObject` resolves whatever happened, so the sweep deletes the row of an
  object it could not delete, and `NoLeakedObject` fails.
- `Clients = {"parallel"}` passes the attachment limit by up to the number of requests less one, which
  is what `QuotaOvershootBounded` states; the limit itself does not hold.
- `Ops = {"create", "reparent"}` with one client: a task moved to another Story reconciles neither, so
  `ParentIsDerived` fails without any concurrency.

`IterationScope`, when the conditions of its properties are dropped:

- Two overlapping edits that accept the last two open Stories of an iteration each miss the other
  (READ COMMITTED) and leave it complete and open.
- One client that deletes the last open Story, or carries it over, completes the iteration without the
  auto-accept check. For carryovers this is deliberate; for deletes it is not what
  `work-items.service.ts:2709-2711` asks ("every write that can change membership has to re-check it").
- A task created while its Story moves keeps the Story's old iteration, though migration 0095 says the
  two "cannot diverge": the insert trigger and the cascade each read committed rows.
- `deleteIteration` deletes an iteration that was committed after its check; the gate of a manual
  acceptance is a statement before the UPDATE, so an iteration may be accepted with an open Story.
- An edit or bulk assignment without If-Match that sends again the iteration it read moves a Story back
  without a transition record when another request has moved it meanwhile.
- Two bulk assignments can deadlock on Stories alone, when one of them writes Stories it had no need
  to lock.

`Membership`, likewise:

- Resending an invitation that has expired, after the address was invited again, leaves two pending ones.
- A removed member who accepts an invitation without projects is marked as having accepted and stays
  removed.
- Two admins who demote each other at the same time both pass the check, and no active admin is left.
- A rotation that overlaps an acceptance or a cancellation reopens the invitation, and an acceptance that
  read before a cancellation or a re-invitation is carried out after it: `updateStatus` and
  `rotateForResend` write by id alone.
- The relay can mail a token that a rotation has replaced a moment before (only without an object id),
  and an invitation past its expiry.
- `acceptInvitation` binds on `entraGuestObjectId` (`workspace.service.ts:1049`), although
  `db/schema/workspace.ts:104` and the relay's settle say nothing reads it for authorization.

## 5. Proofs

All theorems hold for every value of the constants that satisfies the ASSUMEs of the modules: finite
sets where something is counted, a null value outside the other sets, positive limits. TLC
evaluates these on every run.

Each module's type invariant is proved, for every value of the constants. Only `relay_faults`
also checks it as a property of a run: there it carries the clamp of the due time (`Retry-After`);
the other runs check what goes beyond types.

- **OutboxRelayProofs.** `IInv` adds to the properties that a claimed row was charged and is worked on
  once (`ClaimsAreCharged`), that only pending rows are leased (`LeasedIsPending`), and that the
  attempt of a claim pays for one call (`CallsArePaid`): it is unspent while the row waits in its
  holder's batch and spent once it is handled. Without the last, the budget is not inductive: nothing
  would stop a renewal from calling once more than was charged. One lemma per action; from the
  invariant follow `TypeCorrect`, `BudgetHolds`, `FenceImpliesCurrent`, `SentOnlyAfterDelivery`,
  `OutcomeIsFinal` and the refinement `RelayRefinesQueue`.
  `TimeInv` (for relays without the fault `"slow"`): a relay at its row has spent at most a lease, and
  each row waiting in its batch is held for at least the leases of the rows still to be worked, less
  what is spent. From it `TimelyRelaysKeepTheirRows`, `DeliveriesAreExclusive` and `EffectsHappenOnce`.
- **RelayPassProofs.** `PassInv`: a running pass is `inFlight`, a waiting one is `queued` behind it or
  next in flight. `PassesAreSerial` follows, failing passes included. `BurstInv` ties the calls of a
  burst to the queued pass, `ServedInv` says that a call no pass has served awaits one that has not
  started or has rejected: `BurstsShareOnePass`, `CallersAreServed`. `ChainInv` says that a queued pass
  is chained to one that has started, and what the fields hold while no pass throws:
  `RelaysAreIdleUnlessPassesFail` (the state of `relay_pass_wedged` needs a pass that has thrown) and
  `WaitingCallsCanMove` (no call waits for a pass that nothing will start; fairness of the promise
  callbacks, checked by TLC, does the rest).
- **StorageFilesProofs.** `FilesInvariant`, the bound on the quota (`QuotaInv`: visible files plus
  requests about to link), and `NoLeakWhenDeletesSucceed` (`LeakInv`: no PUT arrives for a file once
  the sweep has tried its object). `ReachInv` says that a file a request
  works on is never one the sweep may take (swept files are past the grace, deleted, or left without a
  link by a request that is over), which gives `VisibleFilesAreDownloadable` when confirms come in time; `OwnFileInv`
  adds that only one request confirms a file, and `VisibleFilesStay` follows when each confirm is
  sent once.
- **IdempotencyProofs.** `CountInv` is the heart: while nothing is stored, the runs started and the
  DELs still to come are no more than the faults plus one for a marker whose setter stands behind it.
  `DuplicatesAreBounded` and `ReplaysAreSound` follow. `StoredInv` keeps an answered request's response
  in the cache while no cache command has failed: `AnswersAreStored`.
- **ParentStateProofs.** `LoneInv` says what a request that clashes with no other knows of its view:
  its derived state is current, and at commit its parent is rolled up. `CreateInv` says why creates do
  not clash with each other: past its first statement each holds the rank scope of its parent, and
  its task is nobody else's. `LockInv` orders the locks by where a transaction can be, which gives
  `RequestsNeverDeadlock`. One lemma per kind of statement (start, read, write, end). `SourceInv` (the
  parent a request read for its task is still the task's parent, unless it moves it) gives
  `LoneWritesKeepParents`: a write that overlaps no clashing request disturbs no other parent either. So
  `ParentsStayDerived`: without edits by hand and moves of tasks, every parent is derived between
  requests, for creates in any number and for all task writes one at a time. What loses a parent is an
  overlap, as in `parent_race`, or one of those two operations.
- **IterationScopeProofs.** `CoreInv` says where in its transaction a request can be while it holds a
  lock (`LockInv`), that what `lockForManualMove` has compared stays as it was read (`MoveInv`), that a
  task being created is one request's (`TaskInv`), and that every written reference is to an iteration
  that exists (`RefInv`): a DELETE waits for the uncommitted ones. From it `IterationsNeverDangle` and
  `DeadlocksAreOfAcceptance` (Stories are locked before iterations, so only an auto-accept or a bulk
  assignment can wait against the order). `CarryInv` (the share lock outlives the check) gives
  `CarryoversReachAnOpenTarget`, `TokenInv` (a token that is not stale stands for the committed row,
  because every writer of a row makes its tokens stale) gives `TokensAreCurrent`, and with `ScopeInv`
  (a transaction moves only the Stories it was asked to) `MovesAreRecorded` follows. `LoneInv` follows
  a request that overlaps no other through its transaction: its checks cover the iterations its write
  touches (`ChecksOK`), a touched iteration that is complete is accepted or still to be checked and tasks
  follow their Story (`WritesOK`), and between the transactions of a rollover `Remaining` is what still
  blocks the iteration. From it `LoneWritesAccept`, `LoneWritesMirror` and `LoneRolloversAccept`.
- **MembershipProofs.** `MemberInv`: `GuestInv` (a guest row belongs to an invitation, and an open finish
  has decided on what the row still owes), `OpInv` (what requests read and cannot change, whoever
  else writes) and `LoneInv` (what a request that overlaps no other read is still so). All eight
  properties of the run follow from it.

Only model-checked: liveness (`EveryRowSettles`, `EveryCallIsServed`, `EveryFileIsResolved`), because
the prover does not handle fairness and ENABLED. Every other property of a passing run is a theorem.

## 6. Not modelled

`PROJECT.json` gives the reason part by part. In short: the client and the MCP bridge hold no shared
state; access checks, sessions and parsing decide on one request; reporting aggregates; most other
modules edit single rows behind access checks. Of the parts that are modelled, what follows a commit
is left out (the push and email of a notification, cache invalidation, revoked credentials of a removed
member), and so are splits of Stories, the table of defect transitions, ranks, dates and the internals
of project grants. Rank keys are strings whose contract is an order on strings; a model would only
restate the algorithm.

## 7. What is left

Done: the relay protocol with its refinement, passes, files, idempotency, the task roll-up, the scope of
iterations, invitations and members; theorems for all safety properties of the passing runs.

What would add most from here:

1. `NotificationDelivery`: the settle step of the notification relay and its post-commit push and email,
   composed with `OutboxQueue`; after a crash between deliver and finish neither is sent.
2. Defect transitions checked against a row read before the transaction.
3. Splits of Stories against moves of their tasks, in `IterationScope`.
