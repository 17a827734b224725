--------------------------- MODULE IterationScope ---------------------------
(***************************************************************************)
(* The scope of iterations: which Stories an iteration holds, the log of   *)
(* their moves, the iteration each task mirrors, and the acceptance of     *)
(* complete iterations.  Requests edit, bulk-assign, carry over and delete *)
(* Stories, create tasks, and change, delete and roll over iterations.     *)
(*                                                                         *)
(* As in ParentState a request reads first and then runs a READ COMMITTED  *)
(* transaction, one statement per step; a statement that writes several    *)
(* rows waits for all of them.  Iteration state changes and deletes are    *)
(* single statements outside any transaction.  Dates are left out: any     *)
(* other open iteration may be the later one a carryover needs.            *)
(***************************************************************************)
EXTENDS Integers, FiniteSets

CONSTANTS
    Stories, Tasks, Iterations,
    Requests,       \* API request handlers
    None,           \* null: the Backlog; no request
    Keep,           \* a field the patch leaves out
    Ops,            \* the operations clients use
    Patches,        \* what an edit may patch: "move", "state", "both"
    Matches,        \* whether edits carry If-Match: a subset of BOOLEAN
    MaxStarts       \* bound: the number of requests in a behaviour

ASSUME ScopeRowsAssumption ==
    /\ Stories \cap Tasks = {} /\ Stories \cap Iterations = {} /\ Tasks \cap Iterations = {}
    /\ None \notin Stories \cup Tasks \cup Iterations \cup Requests
    /\ Keep \notin Iterations \cup {None}
ASSUME ScopeOpsAssumption ==
    /\ Ops \subseteq {"edit", "bulk", "carry", "drop", "task", "state", "remove", "rollover"}
    /\ Patches \subseteq {"move", "state", "both"}
    /\ Matches \subseteq BOOLEAN

Items == Stories \cup Tasks
Rows == Items \cup Iterations
IterationStates == {"planning", "committed", "accepted"}
StoryStates == {"open", "accepted"}     \* accepted stands for {accepted, release}

ASSUME KeepAssumption == Keep \notin StoryStates

VARIABLES
    com,        \* work_items, tasks and iterations as committed
    cur,        \* the same with uncommitted writes
    lock,       \* per row, the request whose transaction has locked it
    share,      \* per iteration, the requests that hold it FOR SHARE
    pc, op,     \* per request: its next statement, and what it read and was asked
    left,       \* per request, the iterations it has still to check
    cand,       \* per request, the iteration it has found complete
    stale,      \* requests whose If-Match token is of an earlier version
    overlapped, \* history: requests that ran while another did
    starts      \* bound: requests so far

tables == <<com, cur, lock, share>>
running == <<pc, op, left, cand, stale, overlapped>>
vars == <<tables, running, starts>>

Active(q) == pc[q] # "idle"

\* What a statement of q sees.
View(q) == [x \in Rows |-> IF lock[x] = q THEN cur[x] ELSE com[x]]

LiveTasks(v, s) == {t \in Tasks : v[t].row = "live" /\ v[t].parent = s}

Members(v, i) == {s \in Stories : v[s].row = "live" /\ v[s].iter = i}

\* What blocks the acceptance of iteration i.
Unfinished(v, i) == {s \in Members(v, i) : v[s].state # "accepted"}

NoOp == [kind |-> "none", items |-> {}, src |-> [s \in Stories |-> None], to |-> Keep, state |-> Keep,
         match |-> FALSE, seen |-> None, checks |-> {}, task |-> None, iter |-> None, rest |-> {}]

Init ==
    /\ com = [x \in Rows |-> [row |-> IF x \in Tasks THEN "absent" ELSE "live",
                              state |-> IF x \in Iterations THEN "planning" ELSE "open",
                              iter |-> None, parent |-> None]]
    /\ cur = com
    /\ lock = [x \in Rows |-> None]
    /\ share = [i \in Iterations |-> {}]
    /\ pc = [q \in Requests |-> "idle"]
    /\ op = [q \in Requests |-> NoOp]
    /\ left = [q \in Requests |-> {}]
    /\ cand = [q \in Requests |-> None]
    /\ stale = {}
    /\ overlapped = {}
    /\ starts = 0

----------------------------------------------------------------------------
(* The read that starts a request                                           *)

Start(q, o, l) ==
    LET others == {r \in Requests : Active(r)} IN
    /\ ~Active(q) /\ starts < MaxStarts
    /\ starts' = starts + 1
    /\ op' = [op EXCEPT ![q] = o]
    /\ pc' = [pc EXCEPT ![q] = l]
    /\ overlapped' = IF others = {} THEN overlapped ELSE overlapped \cup {q} \cup others
    /\ UNCHANGED <<tables, left, cand, stale>>

Assignable(i) == i \in Iterations => com[i].row = "live"

\* Mutant: only the iteration that is joined is checked again.
AffectedJoined(S, i) == (IF i = Keep THEN {com[s].iter : s \in S} ELSE {i}) \ {None}

\* The iterations whose acceptance a write of S to iteration i re-evaluates: the
\* ones the Stories are leaving and the one they are joining.
Affected(S, i) == ({com[s].iter : s \in S} \cup (IF i = Keep THEN {} ELSE {i})) \ {None}

\* The Stories of a write whose iteration it changes, going by what was read: each
\* is a Manual Move (storyMove, movedStories).
Moved(o) == IF o.to = Keep THEN {} ELSE {s \in o.items : o.src[s] # o.to}

\* recordManualMoves, and the transition of a carryover: one event for each of
\* them, with the source that was read and the target.
Recorded(o) == {[story |-> s, from |-> o.src[s], to |-> o.to] : s \in Moved(o)}

FirstStep(o) == IF Moved(o) = {} THEN "write" ELSE "lock"

\* What a patch of Story s to iteration i and state a asks for, and read.
Edit(s, i, a, m) ==
    LET moves == i # Keep /\ i # com[s].iter
        accepts == a = "accepted" /\ com[s].state # "accepted" IN
    [NoOp EXCEPT !.kind = "edit", !.items = {s}, !.src[s] = com[s].iter, !.to = i, !.state = a,
                 !.match = m, !.seen = IF m THEN com[s] ELSE None, !.checks = IF moves \/ accepts THEN Affected({s}, i) ELSE {}]

updateWorkItem(q, s, i, a, m) ==
    LET o == Edit(s, i, a, m) IN
    /\ "edit" \in Ops /\ com[s].row = "live" /\ Assignable(i)
    /\ Start(q, o, FirstStep(o))

bulkAssignIteration(q, S, i) ==
    LET o == [NoOp EXCEPT !.kind = "bulk", !.items = S, !.to = i, !.checks = Affected(S, i),
                          !.src = [s \in Stories |-> IF s \in S THEN com[s].iter ELSE None]] IN
    /\ "bulk" \in Ops /\ (\A s \in S : com[s].row = "live") /\ Assignable(i)
    /\ Start(q, o, FirstStep(o))

\* A carryover names a scheduled Story and another iteration, not yet accepted.
carryOverWorkItem(q, s, i) ==
    /\ "carry" \in Ops /\ com[s].row = "live" /\ com[s].iter \notin {None, i}
    /\ com[i].row = "live" /\ com[i].state # "accepted"
    /\ Start(q, [NoOp EXCEPT !.kind = "carry", !.items = {s}, !.src[s] = com[s].iter, !.to = i], "lock")

deleteWorkItem(q, s) ==
    /\ "drop" \in Ops /\ com[s].row = "live"
    /\ Start(q, [NoOp EXCEPT !.kind = "drop", !.items = {s}], "write")

createTask(q, t, s) ==
    /\ "task" \in Ops /\ com[s].row = "live"
    /\ com[t].row = "absent" /\ \A r \in Requests : op[r].task # t
    /\ Start(q, [NoOp EXCEPT !.kind = "task", !.items = {s}, !.task = t], "insert")

\* applyStateChange: PATCH, commit and accept; a no-op is refused.
changeState(q, i, st) ==
    /\ "state" \in Ops /\ com[i].row = "live" /\ com[i].state # st
    /\ Start(q, [NoOp EXCEPT !.kind = "state", !.iter = i, !.state = st],
             IF st = "accepted" THEN "gate" ELSE "set")

deleteIteration(q, i) ==
    /\ "remove" \in Ops /\ com[i].row = "live" /\ com[i].state = "planning"
    /\ Start(q, [NoOp EXCEPT !.kind = "remove", !.iter = i], "remove")

\* rolloverUnfinished selects the Stories that block acceptance.
rolloverUnfinished(q, i, d) ==
    /\ "rollover" \in Ops /\ com[i].row = "live" /\ Assignable(d) /\ Unfinished(com, i) # {}
    /\ Start(q, [NoOp EXCEPT !.kind = "edit", !.iter = i, !.to = d, !.rest = Unfinished(com, i)], "pick")

----------------------------------------------------------------------------
(* Locks                                                                    *)

Holders(q, X) == {lock[x] : x \in X} \ {None, q}

\* An UPDATE of an iteration waits for FOR SHARE too; one that no longer finds it
\* planning or committed does not wait.
IterationHolders(q, i) == Holders(q, {i}) \cup (share[i] \ {q})

Open(v, i) == v[i].row = "live" /\ v[i].state # "accepted"

\* The rows a DELETE of i updates: what is scheduled in i, and the tasks its
\* Stories cascade to.
Scheduled(i) ==
    {x \in Items : com[x].iter = i} \cup {t \in Tasks : com[t].row = "live" /\ com[com[t].parent].iter = i}

\* It also waits for uncommitted references to i.
References(i) == Scheduled(i) \cup {x \in Items : cur[x].iter = i}

\* The Story of a new task may be in the derived state already.
MaySkip(q) == \A s \in op[q].items : com[s].row # "live" \/ com[s].state = "open"

\* The requests that hold what the next statement of q needs.
Blockers(q) ==
    CASE pc[q] = "lock" -> Holders(q, Moved(op[q]))
      [] pc[q] = "source" -> Holders(q, {op[q].src[s] : s \in op[q].items})
      [] pc[q] = "target" -> Holders(q, {op[q].to})
      [] pc[q] = "write" -> Holders(q, op[q].items)
      [] pc[q] = "flip" -> IF Open(com, cand[q]) THEN IterationHolders(q, cand[q]) ELSE {}
      [] pc[q] = "set" -> IterationHolders(q, op[q].iter)
      [] pc[q] = "remove" -> IterationHolders(q, op[q].iter) \cup Holders(q, References(op[q].iter))
      [] pc[q] = "roll" -> IF MaySkip(q) THEN {} ELSE Holders(q, op[q].items)
      [] OTHER -> {}

At(q, l) == pc[q] = l /\ Blockers(q) = {}

Goto(q, l) == pc' = [pc EXCEPT ![q] = l]

\* The end of q's transaction releases its locks.
Release(q) ==
    /\ lock' = [x \in Rows |-> IF lock[x] = q THEN None ELSE lock[x]]
    /\ share' = [i \in Iterations |-> share[i] \ {q}]

\* The request is over.
Finish(q) ==
    /\ Goto(q, "idle")
    /\ op' = [op EXCEPT ![q] = NoOp]
    /\ left' = [left EXCEPT ![q] = {}]
    /\ cand' = [cand EXCEPT ![q] = None]
    /\ overlapped' = overlapped \ {q}

\* The request fails and its transaction is rolled back.
Abort(q) ==
    /\ cur' = [x \in Rows |-> IF lock[x] = q THEN com[x] ELSE cur[x]]
    /\ Release(q) /\ Finish(q)
    /\ stale' = stale \ {q}
    /\ UNCHANGED com

\* q locks rows X; f is what they and the others hold after it.
Write(q, X, f) ==
    /\ lock' = [x \in Rows |-> IF x \in X THEN q ELSE lock[x]]
    /\ cur' = f
    /\ UNCHANGED <<com, share, op, stale, overlapped>>

----------------------------------------------------------------------------
(* lockForManualMove and carryOverWorkItem: nothing moved since the read    *)

\* Mutant: the Stories are locked and not compared.
AnyLocation(o) == TRUE

AsRead(o) == \A s \in Moved(o) : cur[s].row = "live" /\ cur[s].iter = o.src[s]

lockRows(q) ==
    /\ At(q, "lock") /\ AsRead(op[q])
    /\ Write(q, Moved(op[q]), cur)
    /\ Goto(q, IF op[q].kind = "carry" THEN "source" ELSE "write")
    /\ UNCHANGED <<left, cand>>

\* WORK_ITEM_ITERATION_CHANGED, CARRYOVER_SOURCE_ITERATION_CHANGED
lockRefused(q) ==
    /\ At(q, "lock") /\ ~AsRead(op[q])
    /\ Abort(q)

\* Mutant: the iterations are read without FOR SHARE.
NoShare(q, i) == share

Shared(q, i) == [share EXCEPT ![i] = @ \cup {q}]

\* Mutant: the source is locked FOR UPDATE.
lockSourceForUpdate(q) ==
    /\ At(q, "source")
    /\ \E s \in op[q].items : lock' = [lock EXCEPT ![op[q].src[s]] = q]
    /\ Goto(q, "target")
    /\ UNCHANGED <<com, cur, share, op, left, cand, stale, overlapped>>

lockSource(q) ==
    /\ At(q, "source")
    /\ \E s \in op[q].items : share' = Shared(q, op[q].src[s])
    /\ Goto(q, "target")
    /\ UNCHANGED <<com, cur, lock, op, left, cand, stale, overlapped>>

lockTarget(q) ==
    /\ At(q, "target") /\ Open(com, op[q].to)
    /\ share' = Shared(q, op[q].to)
    /\ Goto(q, "write")
    /\ UNCHANGED <<com, cur, lock, op, left, cand, stale, overlapped>>

\* CARRYOVER_TARGET_INVALID
targetRefused(q) ==
    /\ At(q, "target") /\ ~Open(com, op[q].to)
    /\ Abort(q)

----------------------------------------------------------------------------
(* The writes, with the triggers they fire                                  *)

\* Mutant: trg_cascade_iteration_to_tasks is missing.
NoCascade(q, S, i) == {}

\* The tasks that trg_cascade_iteration_to_tasks updates when S moves to i: it
\* fires for a Story whose iteration changes, on the tasks the transaction sees.
Cascade(q, S, i) ==
    {t \in Tasks : View(q)[t].iter # i /\ \E s \in S : cur[s].iter # i /\ t \in LiveTasks(View(q), s)}

\* The UPDATE of Stories S and what it cascades to.
Update(q, S) ==
    LET o == op[q]
        T == IF o.to = Keep THEN {} ELSE Cascade(q, S, o.to)
        Patch(r) == [r EXCEPT !.iter = IF o.to = Keep THEN @ ELSE o.to,
                              !.state = IF o.state = Keep THEN @ ELSE o.state] IN
    /\ Write(q, S \cup T, [x \in Rows |-> IF x \in S THEN Patch(cur[x])
                                          ELSE IF x \in T THEN [cur[x] EXCEPT !.iter = o.to]
                                          ELSE cur[x]])
    /\ left' = [left EXCEPT ![q] = o.checks]
    /\ Goto(q, IF o.checks = {} THEN "commit" ELSE "check")
    /\ UNCHANGED cand

\* ifVersion in the WHERE of the UPDATE
TokenMatches(q) == op[q].match => q \notin stale

\* The foreign key of the iteration
Referable(i) == i \in Iterations => com[i].row = "live"

\* WorkItemRepository.update, which also writes a deleted row
update(q) ==
    /\ At(q, "write") /\ op[q].kind \in {"edit", "carry"}
    /\ TokenMatches(q) /\ Referable(op[q].to)
    /\ Update(q, op[q].items)

\* WorkItemRepository.assignIteration, of live rows
assignIteration(q) ==
    /\ At(q, "write") /\ op[q].kind = "bulk" /\ Referable(op[q].to)
    /\ Update(q, {s \in op[q].items : cur[s].row = "live"})

\* WORK_ITEM_STALE, or the iteration is gone
updateRefused(q) ==
    /\ At(q, "write") /\ op[q].kind # "drop"
    /\ ~(TokenMatches(q) /\ Referable(op[q].to))
    /\ Abort(q)

softDelete(q) ==
    /\ At(q, "write") /\ op[q].kind = "drop"
    /\ Write(q, op[q].items, [x \in Rows |-> IF x \in op[q].items THEN [cur[x] EXCEPT !.row = "deleted"]
                                                                  ELSE cur[x]])
    /\ Goto(q, "commit")
    /\ UNCHANGED <<left, cand>>

\* trg_task_iteration_from_parent
FromParent(q, s) == View(q)[s].iter

insertTask(q) ==
    LET t == op[q].task IN
    /\ At(q, "insert")
    /\ \E s \in op[q].items :
          Write(q, {t}, [cur EXCEPT ![t] = [row |-> "live", state |-> "open", parent |-> s,
                                            iter |-> FromParent(q, s)]])
    /\ Goto(q, "roll")
    /\ UNCHANGED <<left, cand>>

\* reconcileParentScheduleState: a Story with a new task is not accepted.  The
\* states below accepted are one here, so an open Story may or may not be written.
reconcileWrite(q) ==
    /\ pc[q] = "roll" /\ Holders(q, op[q].items) = {}
    /\ Write(q, op[q].items, [x \in Rows |-> IF x \in op[q].items THEN [cur[x] EXCEPT !.state = "open"]
                                                                  ELSE cur[x]])
    /\ Goto(q, "commit")
    /\ UNCHANGED <<left, cand>>

reconcileSkip(q) ==
    /\ pc[q] = "roll" /\ MaySkip(q)
    /\ Goto(q, "commit")
    /\ UNCHANGED <<tables, op, left, cand, stale, overlapped>>

----------------------------------------------------------------------------
(* autoAcceptIterationIfComplete                                            *)

\* "total > 0 and bool_and(accepted)"
Complete(v, i) == Members(v, i) # {} /\ \A s \in Members(v, i) : v[s].state = "accepted"

AfterCheck(S) == IF S = {} THEN "commit" ELSE "check"

countItems(q) ==
    /\ pc[q] = "check"
    /\ \E i \in left[q] :
          /\ left' = [left EXCEPT ![q] = @ \ {i}]
          /\ IF Complete(View(q), i)
                THEN Goto(q, "flip") /\ cand' = [cand EXCEPT ![q] = i]
                ELSE Goto(q, AfterCheck(left[q] \ {i})) /\ UNCHANGED cand
    /\ UNCHANGED <<tables, op, stale, overlapped>>

acceptComplete(q) ==
    LET i == cand[q] IN
    /\ At(q, "flip")
    /\ IF Open(View(q), i) THEN Write(q, {i}, [cur EXCEPT ![i].state = "accepted"])
                           ELSE UNCHANGED <<tables, op, stale, overlapped>>
    /\ cand' = [cand EXCEPT ![q] = None]
    /\ Goto(q, AfterCheck(left[q]))
    /\ UNCHANGED left

----------------------------------------------------------------------------
(* Iterations: applyStateChange, deleteIteration                            *)

\* assertAcceptable, a statement of its own before the UPDATE
gatePassed(q) ==
    /\ pc[q] = "gate" /\ Complete(com, op[q].iter)
    /\ Goto(q, "set")
    /\ UNCHANGED <<tables, op, left, cand, stale, overlapped>>

gateRefused(q) ==
    /\ pc[q] = "gate" /\ ~Complete(com, op[q].iter)
    /\ Abort(q)

\* The UPDATE is by id: it does not look at the state again.
setState(q) ==
    LET i == op[q].iter IN
    /\ At(q, "set")
    /\ com' = IF com[i].row = "live" THEN [com EXCEPT ![i].state = op[q].state] ELSE com
    /\ cur' = IF com[i].row = "live" THEN [cur EXCEPT ![i].state = op[q].state] ELSE cur
    /\ Finish(q)
    /\ UNCHANGED <<lock, share, stale>>

\* Tokens of the rows in X, written by q, are stale.
Touch(q, X) ==
    stale' = (stale \cup {r \in Requests : Active(r) /\ op[r].match /\ op[r].items \cap X # {}}) \ {q}

\* Mutant: the version is incremented by WorkItemRepository.update only.
BumpedByUpdate(q) == IF op[q].kind = "edit" THEN op[q].items ELSE {}

\* trg_bump_version: every UPDATE of a row, whoever makes it
Bumped(q) ==
    IF op[q].kind = "remove" THEN Scheduled(op[q].iter) ELSE {x \in Items : lock[x] = q}

\* Mutant: 0114 is missing and the rows keep the id.
KeepReferences(f, i) == f

\* ON DELETE SET NULL: the Stories of i go to the Backlog and their tasks follow;
\* a task that had lost its Story is set to the Story's iteration by its trigger.
Unscheduled(f, i) ==
    [x \in Rows |->
        IF x \notin Scheduled(i) THEN f[x]
        ELSE [f[x] EXCEPT !.iter = IF x \in Stories \/ com[com[x].parent].iter = i THEN None
                                                                              ELSE com[com[x].parent].iter]]

\* The DELETE, which does not look at the state again either
removeIteration(q) ==
    LET i == op[q].iter IN
    /\ At(q, "remove")
    /\ com' = [Unscheduled(com, i) EXCEPT ![i].row = "deleted"]
    /\ cur' = [Unscheduled(cur, i) EXCEPT ![i].row = "deleted"]
    /\ Touch(q, Bumped(q))
    /\ Finish(q)
    /\ UNCHANGED <<lock, share>>

----------------------------------------------------------------------------
(* Transactions, and the loop of rolloverUnfinished over them               *)

\* A rollover goes on with its next Story.
commit(q) ==
    /\ pc[q] = "commit"
    /\ com' = View(q)
    /\ Touch(q, Bumped(q))
    /\ Release(q)
    /\ IF op[q].rest = {} THEN Finish(q)
                          ELSE Goto(q, "pick") /\ UNCHANGED <<op, left, cand, overlapped>>
    /\ UNCHANGED cur

\* Mutant: the loop ends after its first Story.
pickFirst(q) ==
    /\ pc[q] = "pick"
    /\ \E s \in op[q].rest :
          /\ com[s].row = "live" /\ Assignable(op[q].to)
          /\ LET o == [Edit(s, op[q].to, Keep, FALSE) EXCEPT !.iter = op[q].iter] IN
                op' = [op EXCEPT ![q] = o] /\ Goto(q, FirstStep(o))
    /\ UNCHANGED <<tables, left, cand, stale, overlapped>>

\* updateWorkItem of the next unfinished Story, as it is now
pickUnfinished(q) ==
    /\ pc[q] = "pick"
    /\ \E s \in op[q].rest :
          /\ com[s].row = "live" /\ Assignable(op[q].to)
          /\ LET o == [Edit(s, op[q].to, Keep, FALSE) EXCEPT !.iter = op[q].iter, !.rest = op[q].rest \ {s}] IN
                op' = [op EXCEPT ![q] = o] /\ Goto(q, FirstStep(o))
    /\ UNCHANGED <<tables, left, cand, stale, overlapped>>

\* A Story or the target has been deleted since: the exception ends the rollover.
pickFails(q) ==
    /\ pc[q] = "pick"
    /\ \E s \in op[q].rest : com[s].row # "live" \/ ~Assignable(op[q].to)
    /\ Abort(q)

\* PostgreSQL ends a circular wait by failing one of its transactions.
deadlockDetected(q) ==
    /\ \E C \in SUBSET Requests : q \in C /\ \A r \in C : Blockers(r) \cap C # {}
    /\ Abort(q)

Step(q) ==
    \/ lockRows(q) \/ lockRefused(q) \/ lockSource(q) \/ lockTarget(q) \/ targetRefused(q)
    \/ update(q) \/ assignIteration(q) \/ updateRefused(q) \/ softDelete(q)
    \/ insertTask(q) \/ reconcileWrite(q) \/ reconcileSkip(q)
    \/ countItems(q) \/ acceptComplete(q) \/ gatePassed(q) \/ gateRefused(q)
    \/ setState(q) \/ removeIteration(q) \/ commit(q) \/ pickUnfinished(q) \/ pickFails(q)
    \/ deadlockDetected(q)

Statement(q) == Step(q) /\ UNCHANGED starts

\* The patches of iteration and state that clients send.
PatchInputs ==
    {p \in (Iterations \cup {None, Keep}) \X (StoryStates \cup {Keep}) :
        \/ "move" \in Patches /\ p[1] # Keep /\ p[2] = Keep
        \/ "state" \in Patches /\ p[1] = Keep /\ p[2] # Keep
        \/ "both" \in Patches /\ p[1] # Keep /\ p[2] # Keep}

\* No request is under way and none has to come.
quiet == (\A q \in Requests : ~Active(q)) /\ UNCHANGED vars

Next ==
    \/ \E q \in Requests :
        \/ \E s \in Stories :
            \/ \E p \in PatchInputs, m \in Matches : updateWorkItem(q, s, p[1], p[2], m)
            \/ \E i \in Iterations : carryOverWorkItem(q, s, i)
            \/ \E t \in Tasks : createTask(q, t, s)
            \/ deleteWorkItem(q, s)
        \/ \E S \in (SUBSET Stories) \ {{}}, i \in Iterations \cup {None} : bulkAssignIteration(q, S, i)
        \/ \E i \in Iterations :
            \/ \E st \in IterationStates : changeState(q, i, st)
            \/ \E d \in Iterations \cup {None} : rolloverUnfinished(q, i, d)
            \/ deleteIteration(q, i)
        \/ Statement(q)
    \/ quiet

Spec == Init /\ [][Next]_vars

----------------------------------------------------------------------------
(* Properties                                                               *)

Row == [row : {"absent", "live", "deleted"}, state : StoryStates \cup IterationStates,
        iter : Iterations \cup {None}, parent : Stories \cup {None}]

Operations ==
    [kind : {"none", "edit", "bulk", "carry", "drop", "task", "state", "remove"},
     items : SUBSET Stories, src : [Stories -> Iterations \cup {None}],
     to : Iterations \cup {None, Keep}, state : StoryStates \cup IterationStates \cup {Keep},
     match : BOOLEAN, seen : Row \cup {None}, checks : SUBSET Iterations,
     task : Tasks \cup {None}, iter : Iterations \cup {None}, rest : SUBSET Stories]

\* Types: the three tables, the locks and the requests.
TypeOK ==
    /\ com \in [Rows -> Row] /\ cur \in [Rows -> Row]
    /\ lock \in [Rows -> Requests \cup {None}]
    /\ share \in [Iterations -> SUBSET Requests]
    /\ pc \in [Requests -> {"idle", "lock", "source", "target", "write", "insert", "roll", "check",
                            "flip", "gate", "set", "remove", "pick", "commit"}]
    /\ op \in [Requests -> Operations]
    /\ left \in [Requests -> SUBSET Iterations]
    /\ cand \in [Requests -> Iterations \cup {None}]
    /\ stale \subseteq Requests /\ overlapped \subseteq Requests
    /\ starts \in Nat

\* Deleting an iteration unschedules its work: no committed item points at an
\* iteration that is gone, whatever was being moved or created meanwhile.
NoDanglingIteration == \A x \in Items : com[x].iter # None => com[com[x].iter].row = "live"

Circle(C) == C # {} /\ \A q \in C : Blockers(q) \cap C # {}

\* "a deterministic lock order": moves and carryovers by themselves never wait in
\* a circle.  Every circle has a request that accepts an iteration in the same
\* transaction, or a bulk assignment that writes Stories it has not locked.
DeadlocksNeedAcceptance ==
    \A C \in SUBSET Requests : Circle(C) =>
        \E q \in C : pc[q] = "flip" \/ (pc[q] = "write" /\ op[q].kind = "bulk")

\* A Manual Move or Carryover "must not be written for a Story another writer moved
\* in between": every recorded move has the Story's real source and target.  And
\* every move is recorded, but for a request without If-Match that sends again
\* the iteration it read, while another has moved the Story.
MovesAreLogged ==
    [][\A q \in Requests : commit(q) =>
          /\ \A e \in Recorded(op[q]) : com[e.story].iter = e.from /\ com'[e.story].iter = e.to
          /\ \A s \in Stories : com'[s].iter # com[s].iter =>
                \/ \E e \in Recorded(op[q]) : e.story = s
                \/ s \in op[q].items /\ op[q].src[s] = op[q].to /\ ~op[q].match /\ q \in overlapped]_vars

\* "the check, the move and the immutable event all see the same data": when a
\* carryover commits, its target is still open, whoever tries to accept it.
CarryoverTargetIsOpen ==
    [][\A q \in Requests : commit(q) /\ op[q].kind = "carry" => Open(com, op[q].to)]_vars

\* "any concurrent write, however close in time, makes the token stale": a patch
\* with If-Match commits only onto the row its client read.
TokenIsCurrent ==
    [][\A q \in Requests : commit(q) /\ op[q].match => \A s \in op[q].items : com[s] = op[q].seen]_vars

\* A Story left or joined i, or was accepted in it.
TouchedBy(v, w, i) ==
    \E s \in Stories :
        \/ v[s].iter # w[s].iter /\ i \in {v[s].iter, w[s].iter}
        \/ w[s].iter = i /\ w[s].state = "accepted" /\ v[s].state # "accepted"

\* "auto-changes to Accepted when all ASSIGNED Story/Defect items are Accepted":
\* whatever came before, an edit or bulk assignment that overlaps no other
\* request leaves no iteration it touches complete and open, and accepts none
\* that is not complete.
LoneWriteAccepts ==
    [][\A q \in Requests : commit(q) /\ q \notin overlapped =>
          /\ op[q].kind \in {"edit", "bulk"} =>
                \A i \in Iterations : TouchedBy(com, com', i) /\ Complete(com', i) => com'[i].state = "accepted"
          /\ \A i \in Iterations : com'[i].state # com[i].state => Complete(com', i)]_vars

\* "the column is a mirror": a move or a create that overlaps no other request
\* leaves the tasks of its Story, or the new task, in the Story's iteration.
LoneWriteMirrors ==
    [][\A q \in Requests : commit(q) /\ q \notin overlapped =>
          \A s \in Stories : \A t \in LiveTasks(com', s) :
              t = op[q].task \/ com'[s].iter # com[s].iter => com'[t].iter = com'[s].iter]_vars

\* "After a rollover only accepted items remain, so the iteration can be accepted":
\* at the end of one that overlaps no other request it is, if any item is left.
LoneRolloverAccepts ==
    [][\A q \in Requests :
          commit(q) /\ q \notin overlapped /\ op[q].iter \notin {None, op[q].to} /\ op[q].rest = {} =>
              /\ \A s \in Members(com', op[q].iter) : com'[s].state = "accepted"
              /\ Members(com', op[q].iter) # {} => com'[op[q].iter].state = "accepted"]_vars

----------------------------------------------------------------------------
(* Inductive invariants                                                     *)

Moves == {"edit", "bulk", "carry"}
Locked == {"source", "target", "write"}     \* between lockRows and the write
Written == {"check", "flip", "commit"}      \* after the write

\* The operation o of a request whose next statement is l.
OpOK(o, l) ==
    /\ l = "lock" => o.kind \in Moves /\ Moved(o) # {}
    /\ l \in {"source", "target"} => o.kind = "carry"
    /\ l = "write" => o.kind \in Moves \cup {"drop"}
    /\ l \in {"insert", "roll"} => o.kind = "task"
    /\ l \in {"check", "flip"} => o.kind \in {"edit", "bulk"}
    /\ l \in {"gate", "set"} => o.kind = "state"
    /\ l = "remove" => o.kind = "remove"
    /\ l = "pick" => o.kind = "edit" /\ o.to # Keep
    /\ l = "commit" => o.kind \in Moves \cup {"drop", "task"}
    /\ o.kind = "carry" =>
           o.to \in Iterations /\ o.checks = {} /\ \E s \in Stories : o.items = {s} /\ o.src[s] \in Iterations \ {o.to}
    /\ o.kind = "edit" /\ l # "pick" => \E s \in Stories : o.items = {s}
    /\ o.kind = "task" => o.task \in Tasks /\ \E s \in Stories : o.items = {s}
    /\ o.kind = "state" => o.state \in IterationStates
    /\ o.kind \in {"state", "remove"} => o.iter \in Iterations
    /\ o.kind \notin Moves => o.to = Keep
    /\ o.kind # "edit" => ~o.match /\ o.rest = {}
    /\ o.rest # {} => o.to # Keep /\ ~o.match

OpInv == \A q \in Requests : OpOK(op[q], pc[q]) /\ (pc[q] = "flip" => cand[q] \in Iterations)

\* Who may hold which lock, and where its transaction then is.
LockInv ==
    /\ \A x \in Rows : lock[x] = None => cur[x] = com[x]
    /\ \A i \in Iterations : cur[i].row = com[i].row
    /\ \A i \in Iterations, q \in Requests : lock[i] = q => pc[q] \in Written
    /\ \A t \in Tasks, q \in Requests : lock[t] = q =>
           /\ pc[q] \in Written \cup {"roll"}
           /\ (op[q].kind = "task" /\ op[q].task = t) \/ (com[t].row = "live" /\ lock[com[t].parent] = q)
    /\ \A s \in Stories, q \in Requests : lock[s] = q =>
           \/ pc[q] \in Written
           \/ pc[q] \in Locked /\ s \in Moved(op[q]) /\ cur[s] = com[s]
    /\ \A i \in Iterations, q \in Requests : q \in share[i] =>
           op[q].kind = "carry" /\ pc[q] \in {"target", "write", "commit"}

\* A task that is being created is the work of one request.
TaskInv ==
    \A q \in Requests : op[q].kind = "task" =>
        /\ com[op[q].task].row = "absent"
        /\ \A r \in Requests : op[r].kind = "task" /\ op[r].task = op[q].task => r = q

\* What a transaction has compared it still holds.
MoveInv ==
    \A q \in Requests : op[q].kind \in Moves /\ pc[q] \in Locked \cup Written =>
        \A s \in Moved(op[q]) :
            /\ lock[s] = q /\ com[s].row = "live" /\ com[s].iter = op[q].src[s]
            /\ pc[q] \in Written => cur[s].iter = op[q].to

\* Every iteration a row points at exists, in the committed tables and in what
\* transactions have written; a task has its Story.
RefInv ==
    /\ NoDanglingIteration
    /\ \A x \in Items : cur[x].iter # None => com[cur[x].iter].row = "live"
    /\ \A t \in Tasks : \A r \in {com[t], cur[t]} : r.row = "live" \/ r.iter # None => r.parent \in Stories

\* A carryover that has its target keeps it from being accepted or deleted.
CarryInv ==
    \A q \in Requests : op[q].kind = "carry" /\ pc[q] \in {"write", "commit"} =>
        q \in share[op[q].to] /\ lock[op[q].to] = None /\ Open(com, op[q].to)

\* A token that is not stale stands for the row that was read.
TokenInv ==
    /\ \A q \in stale : Active(q) /\ op[q].match
    /\ \A q \in Requests : op[q].match /\ Active(q) =>
           /\ \A s \in op[q].items : op[q].src[s] = op[q].seen.iter
           /\ q \notin stale => \A s \in op[q].items : com[s] = op[q].seen
           /\ pc[q] \in Written => q \notin stale /\ \A s \in op[q].items : lock[s] = q

\* A transaction changes the iteration of the Stories it was asked to, and of no
\* others; what a request that overlaps no other has read is what it finds.
ScopeInv ==
    /\ \A q \in Requests, s \in Stories :
           lock[s] = q /\ cur[s].iter # com[s].iter => op[q].kind \in Moves /\ s \in op[q].items /\ cur[s].iter = op[q].to
    /\ \A q \in Requests : Active(q) /\ q \notin overlapped =>
           /\ \A r \in Requests : Active(r) => r = q
           /\ op[q].kind \in Moves /\ pc[q] # "pick" => \A s \in op[q].items : com[s].iter = op[q].src[s]

\* The fields that only some operations use.
FieldsOK(o) ==
    /\ o.kind # "task" => o.task = None
    /\ o.kind \notin {"edit", "state", "remove"} => o.iter = None
    /\ o.kind \in {"bulk", "carry"} => o.state = Keep /\ o.to # Keep
    /\ o.kind = "edit" /\ o.iter # None => o.to # Keep

\* A write that moves one of its Stories, or accepts it, checks the iteration the
\* Story is in and the one it joins.
ChecksOK(o) ==
    o.kind \in {"edit", "bulk"} => \A s \in o.items :
        (o.to # Keep /\ o.to # com[s].iter) \/ (o.state = "accepted" /\ com[s].state # "accepted") =>
            {com[s].iter, IF o.to = Keep THEN com[s].iter ELSE o.to} \ {None} \subseteq o.checks

\* What is still to be carried over of what blocks the iteration's acceptance.
Remaining(q) == op[q].rest \cup (IF pc[q] = "pick" THEN {} ELSE op[q].items)

RollsOver(o) == o.kind = "edit" /\ o.iter \notin {None, o.to}

\* The writes of q, from the table com to cur: an edit or bulk assignment writes its
\* own Stories, tasks follow their Story, only complete iterations are accepted, and
\* one that is complete and touched is accepted or still to be checked.
WritesOK(q) ==
    /\ op[q].kind \in {"edit", "bulk"} =>
           /\ \A s \in Stories \ op[q].items : cur[s] = com[s]
           /\ \A i \in Iterations : TouchedBy(com, cur, i) /\ Complete(cur, i) =>
                  cur[i].state = "accepted" \/ i \in left[q] \/ (pc[q] = "flip" /\ i = cand[q])
    /\ op[q].kind = "edit" /\ op[q].to # Keep => \A s \in op[q].items : cur[s].iter = op[q].to
    /\ \A i \in Iterations : cur[i].state # com[i].state => Complete(cur, i)
    /\ pc[q] = "flip" => Complete(cur, cand[q])
    /\ \A s \in Stories : \A t \in LiveTasks(cur, s) :
           t = op[q].task \/ cur[s].iter # com[s].iter => cur[t].iter = cur[s].iter

\* What a request that overlaps no other knows of the tables.
LoneInv ==
    /\ \A q \in Requests : FieldsOK(op[q]) /\ (pc[q] = "commit" /\ op[q].kind \in {"edit", "bulk"} => left[q] = {})
    /\ \A q \in Requests : Active(q) /\ q \notin overlapped =>
           /\ pc[q] # "pick" => ChecksOK(op[q]) /\ (RollsOver(op[q]) => op[q].items \cap op[q].rest = {})
           /\ RollsOver(op[q]) => Remaining(q) = Unfinished(com, op[q].iter)
           /\ pc[q] \in Written \cup {"roll"} => WritesOK(q)

=============================================================================
