---------------------------- MODULE ParentState ----------------------------
(***************************************************************************)
(* The Schedule State of a Story or Defect, rolled up from its tasks       *)
(* (WorkItemsService.reconcileParentScheduleState), and the writes it      *)
(* follows: create, update, re-parent and delete of a task, edit and       *)
(* delete of the parent.                                                   *)
(*                                                                         *)
(* A request reads its item first, outside any transaction, and then runs  *)
(* one READ COMMITTED transaction.  Each statement of it is one step: it   *)
(* sees the rows committed by then and the transaction's own, and waits    *)
(* for a row another transaction has written.                              *)
(***************************************************************************)
EXTENDS Integers, FiniteSets

CONSTANTS
    Parents,        \* Stories and Defects
    Tasks,          \* ids of tasks, each created at most once
    Requests,       \* API request handlers
    None,           \* null; no request
    Ops,            \* the operations clients use: "create", "update", "reparent",
                    \* "delete", "edit" (of the parent), "drop" (delete of the parent)
    TaskInputs,     \* the states clients give tasks
    EditInputs,     \* the states clients give parents
    CanFail         \* a transaction may be rolled back: a crash, a failed statement

ASSUME RowsAssumption == Parents \cap Tasks = {} /\ None \notin Parents \cup Tasks \cup Requests
ASSUME OpsAssumption == Ops \subseteq {"create", "update", "reparent", "delete", "edit", "drop"}
ASSUME CanFailAssumption == CanFail \in BOOLEAN

Rows == Parents \cup Tasks
TaskStates == {"defined", "in_progress", "completed"}
ScheduleStates == TaskStates \cup {"idea", "accepted"}  \* "release" is treated as "accepted" is

ASSUME InputsAssumption == TaskInputs \subseteq TaskStates /\ EditInputs \subseteq ScheduleStates
ASSUME NoneAssumption == None \notin ScheduleStates

VARIABLES
    com,        \* work_items and tasks as committed: state, parent, row:
                \* "absent", "live", or "deleted" (deleted_at is set)
    cur,        \* the same with uncommitted writes
    lock,       \* per row, the request whose transaction has written it
    scope,      \* per parent, the holder of its rank scope's advisory lock
    pc, op,     \* per request: its next statement, and what it read and was asked
    derived,    \* the state its roll-up computed
    overlapped  \* history: requests that ran while one they clash with did

tables == <<com, cur, lock, scope>>
vars == <<tables, pc, op, derived, overlapped>>

Active(q) == pc[q] # "idle"

\* What a statement of q sees.
View(q) == [x \in Rows |-> IF lock[x] = q THEN cur[x] ELSE com[x]]

LiveTasks(v, p) == {t \in Tasks : v[t].row = "live" /\ v[t].parent = p}

NoOp == [kind |-> "none", task |-> None, parent |-> None, dest |-> None, to |-> None]

Init ==
    /\ com = [x \in Rows |-> [state |-> IF x \in Parents THEN "idea" ELSE "defined",
                              parent |-> None,
                              row |-> IF x \in Parents THEN "live" ELSE "absent"]]
    /\ cur = com
    /\ lock = [x \in Rows |-> None]
    /\ scope = [p \in Parents |-> None]
    /\ pc = [q \in Requests |-> "idle"]
    /\ op = [q \in Requests |-> NoOp]
    /\ derived = [q \in Requests |-> "defined"]
    /\ overlapped = {}

----------------------------------------------------------------------------
(* The read that starts a request                                           *)

\* The rank scope serialises creates, of all pairs of requests only these.
Clash(o1, o2) == o1.kind # "create" \/ o2.kind # "create"

Start(q, o, l) ==
    LET clashing == {r \in Requests : Active(r) /\ Clash(o, op[r])} IN
    /\ ~Active(q)
    /\ op' = [op EXCEPT ![q] = o]
    /\ pc' = [pc EXCEPT ![q] = l]
    /\ overlapped' = IF clashing = {} THEN overlapped ELSE overlapped \cup {q} \cup clashing
    /\ UNCHANGED <<tables, derived>>

\* createTask under a live parent, with a fresh id
createTask(q, t, p, s) ==
    /\ "create" \in Ops /\ com[p].row = "live"
    /\ com[t].row = "absent" /\ \A r \in Requests : op[r].task # t
    /\ Start(q, [NoOp EXCEPT !.kind = "create", !.task = t, !.parent = p, !.to = s], "scope")

\* updateWorkItem of a task: a patch of its state, of its parent, or of both.
\* A new parent is live; moving to it takes its rank scope.  diffWorkItem finds
\* nothing to record in a patch that does not change the state ("touch").
updateTask(q, t, s, d) ==
    /\ com[t].row = "live"
    /\ s # None \/ d # None
    /\ IF d = None THEN "update" \in Ops ELSE "reparent" \in Ops
    /\ d \notin {None, com[t].parent} => com[d].row = "live"
    /\ Start(q, [kind |-> IF s \in {None, com[t].state} THEN "touch" ELSE "update",
                 task |-> t, parent |-> com[t].parent, dest |-> d, to |-> s],
             IF d \notin {None, com[t].parent} THEN "scope" ELSE "check")

\* deleteWorkItem of a task
deleteTask(q, t) ==
    /\ "delete" \in Ops /\ com[t].row = "live"
    /\ Start(q, [NoOp EXCEPT !.kind = "delete", !.task = t, !.parent = com[t].parent], "write")

\* updateWorkItem of a parent: "user may still change the parent status manually"
editParent(q, p, s) ==
    /\ "edit" \in Ops /\ com[p].row = "live"
    /\ Start(q, [NoOp EXCEPT !.kind = "edit", !.parent = p, !.to = s], "write")

\* deleteWorkItem of a parent, which keeps its tasks
deleteParent(q, p) ==
    /\ "drop" \in Ops /\ com[p].row = "live"
    /\ Start(q, [NoOp EXCEPT !.kind = "drop", !.parent = p], "write")

----------------------------------------------------------------------------
(* The statements of its transaction                                        *)

Goto(q, l) == pc' = [pc EXCEPT ![q] = l]

\* q's transaction ends: its row locks and advisory locks are released.
End(q) ==
    /\ Goto(q, "idle")
    /\ op' = [op EXCEPT ![q] = NoOp]
    /\ lock' = [x \in Rows |-> IF lock[x] = q THEN None ELSE lock[x]]
    /\ scope' = [p \in Parents |-> IF scope[p] = q THEN None ELSE scope[p]]
    /\ derived' = [derived EXCEPT ![q] = "defined"]
    /\ overlapped' = overlapped \ {q}

\* The transaction is rolled back.
Abort(q) ==
    /\ cur' = [x \in Rows |-> IF lock[x] = q THEN com[x] ELSE cur[x]]
    /\ End(q)
    /\ UNCHANGED com

\* Mutant: lockRankScope is not taken.
AnyScope(q, p) == TRUE

ScopeFree(q, p) == scope[p] = None

\* The (new) parent, whose scope the rank of the task is computed in.
ScopeOf(o) == IF o.kind = "create" THEN o.parent ELSE o.dest

\* lockRankScope: pg_advisory_xact_lock
lockRankScope(q) ==
    /\ pc[q] = "scope" /\ ScopeFree(q, ScopeOf(op[q]))
    /\ scope' = [scope EXCEPT ![ScopeOf(op[q])] = q]
    /\ Goto(q, IF op[q].kind = "create" THEN "write" ELSE "check")
    /\ UNCHANGED <<com, cur, lock, op, derived, overlapped>>

\* The UPDATE of row x waits for the row, and applies to its committed version.
Write(q, x, r) ==
    /\ lock[x] \in {None, q}
    /\ lock' = [lock EXCEPT ![x] = q]
    /\ cur' = [cur EXCEPT ![x] = r]
    /\ UNCHANGED <<com, scope, op, overlapped>>

insertTask(q) ==
    /\ pc[q] = "write" /\ op[q].kind = "create"
    /\ Write(q, op[q].task, [state |-> op[q].to, parent |-> op[q].parent, row |-> "live"])
    /\ Goto(q, "count")
    /\ UNCHANGED derived

\* The roll-up follows only a patch of the state, and of the parent that was read.
Reconciles(o) == o.kind \in {"create", "delete"} \/ (o.kind \in {"update", "touch"} /\ o.to # None)

AfterUpdate(q) == IF Reconciles(op[q]) THEN "count" ELSE "commit"

\* WorkItemRepository.update looks for a live task first.
taskCheck(q) ==
    /\ pc[q] = "check" /\ com[op[q].task].row = "live"
    /\ Goto(q, "write")
    /\ UNCHANGED <<tables, op, derived, overlapped>>

\* A task deleted since is looked for among the work items, in vain: the rows of
\* activity fail the transaction, if the patch has any.
taskGone(q) ==
    /\ pc[q] = "check" /\ com[op[q].task].row # "live" /\ op[q].kind = "update"
    /\ Abort(q)

taskGoneTouch(q) ==
    /\ pc[q] = "check" /\ com[op[q].task].row # "live" /\ op[q].kind = "touch"
    /\ Goto(q, AfterUpdate(q))
    /\ UNCHANGED <<tables, op, derived, overlapped>>

updateRow(q) ==
    LET t == op[q].task IN
    /\ pc[q] = "write" /\ op[q].kind \in {"update", "touch"} /\ cur[t].row = "live"
    /\ Write(q, t, [cur[t] EXCEPT !.state = IF op[q].to = None THEN @ ELSE op[q].to,
                                  !.parent = IF op[q].dest = None THEN @ ELSE op[q].dest])
    /\ Goto(q, AfterUpdate(q))
    /\ UNCHANGED derived

\* The UPDATE waited for the task's deletion: it is not found again after it, and
\* the first use of what was found fails.
updateGone(q) ==
    /\ pc[q] = "write" /\ op[q].kind \in {"update", "touch"}
    /\ lock[op[q].task] \in {None, q} /\ cur[op[q].task].row # "live"
    /\ Abort(q)

\* softDelete of the task, then the roll-up
deleteRow(q) ==
    LET t == op[q].task IN
    /\ pc[q] = "write" /\ op[q].kind = "delete"
    /\ Write(q, t, [cur[t] EXCEPT !.row = "deleted"])
    /\ Goto(q, "count")
    /\ UNCHANGED derived

editRow(q) ==
    LET p == op[q].parent IN
    /\ pc[q] = "write" /\ op[q].kind = "edit"
    /\ Write(q, p, [cur[p] EXCEPT !.state = op[q].to])
    /\ Goto(q, "commit")
    /\ UNCHANGED derived

dropRow(q) ==
    LET p == op[q].parent IN
    /\ pc[q] = "write" /\ op[q].kind = "drop"
    /\ Write(q, p, [cur[p] EXCEPT !.row = "deleted"])
    /\ Goto(q, "commit")
    /\ UNCHANGED derived

----------------------------------------------------------------------------
(* reconcileParentScheduleState                                             *)

Derived(v, p) ==
    IF \A t \in LiveTasks(v, p) : v[t].state = "completed" THEN "completed"
    ELSE IF \A t \in LiveTasks(v, p) : v[t].state = "defined" THEN "defined"
    ELSE "in_progress"

\* taskStateCounts; a parent with no live task is left alone.
taskStateCounts(q) ==
    LET p == op[q].parent IN
    /\ pc[q] = "count"
    /\ derived' = [derived EXCEPT ![q] = Derived(View(q), p)]
    /\ Goto(q, IF LiveTasks(View(q), p) = {} THEN "commit" ELSE "parent")
    /\ UNCHANGED <<tables, op, overlapped>>

\* findById of the parent: nothing to do if it is deleted or already in the state
readParent(q) ==
    LET v == View(q)[op[q].parent] IN
    /\ pc[q] = "parent"
    /\ Goto(q, IF v.row = "live" /\ v.state # derived[q] THEN "roll" ELSE "commit")
    /\ UNCHANGED <<tables, op, derived, overlapped>>

updateParent(q) ==
    LET p == op[q].parent IN
    /\ pc[q] = "roll"
    /\ Write(q, p, [cur[p] EXCEPT !.state = derived[q]])
    /\ Goto(q, "commit")
    /\ UNCHANGED derived

\* Mutant: the advisory lock belongs to the session and outlives the transaction.
commitKeepScope(q) ==
    /\ pc[q] = "commit"
    /\ com' = View(q)
    /\ Goto(q, "idle")
    /\ op' = [op EXCEPT ![q] = NoOp]
    /\ lock' = [x \in Rows |-> IF lock[x] = q THEN None ELSE lock[x]]
    /\ derived' = [derived EXCEPT ![q] = "defined"]
    /\ overlapped' = overlapped \ {q}
    /\ UNCHANGED <<cur, scope>>

commit(q) ==
    /\ pc[q] = "commit"
    /\ com' = View(q)
    /\ End(q)
    /\ UNCHANGED cur

rollback(q) ==
    /\ CanFail /\ Active(q)
    /\ Abort(q)

Step(q) ==
    \/ lockRankScope(q) \/ insertTask(q) \/ taskCheck(q) \/ taskGone(q) \/ taskGoneTouch(q)
    \/ updateRow(q) \/ updateGone(q) \/ deleteRow(q) \/ editRow(q) \/ dropRow(q)
    \/ taskStateCounts(q) \/ readParent(q) \/ updateParent(q) \/ commit(q)

\* No request is under way and none has to come.
quiet == (\A q \in Requests : ~Active(q)) /\ UNCHANGED vars

Next ==
    \/ \E q \in Requests :
        \/ \E p \in Parents : (\E s \in EditInputs : editParent(q, p, s)) \/ deleteParent(q, p)
        \/ \E t \in Tasks :
            \/ \E p \in Parents, s \in TaskInputs : createTask(q, t, p, s)
            \/ \E s \in TaskInputs \cup {None}, d \in Parents \cup {None} : updateTask(q, t, s, d)
            \/ deleteTask(q, t)
        \/ Step(q) \/ rollback(q)
    \/ quiet

Spec == Init /\ [][Next]_vars

----------------------------------------------------------------------------
(* Properties                                                               *)

Operations ==
    [kind : {"none", "create", "update", "touch", "delete", "edit", "drop"}, task : Tasks \cup {None},
     parent : Parents \cup {None}, dest : Parents \cup {None}, to : ScheduleStates \cup {None}]

Row == [state : ScheduleStates, parent : Parents \cup {None}, row : {"absent", "live", "deleted"}]

\* Types: the two tables, the locks and the requests.
TypeOK ==
    /\ com \in [Rows -> Row] /\ cur \in [Rows -> Row]
    /\ lock \in [Rows -> Requests \cup {None}]
    /\ scope \in [Parents -> Requests \cup {None}]
    /\ pc \in [Requests -> {"idle", "scope", "check", "write", "count", "parent", "roll", "commit"}]
    /\ op \in [Requests -> Operations]
    /\ derived \in [Requests -> TaskStates]
    /\ overlapped \subseteq Requests

\* The parent's state is the one its live tasks derive.
RolledUp(v, p) == v[p].row = "live" /\ LiveTasks(v, p) # {} => v[p].state = Derived(v, p)

\* "Reconcile a parent Story/Defect's Schedule State from the CURRENT state of
\* its live tasks": between requests every parent is in its derived state.
ParentIsDerived == (\A q \in Requests : ~Active(q)) => \A p \in Parents : RolledUp(com, p)

\* "a manual parent state survives only until the next task write": whatever
\* edits, races and failures came before, a write of a task that overlaps no
\* other request leaves its parent in the derived state, and so does a create
\* among any number of creates.
LoneWriteReconciles ==
    [][\A q \in Requests : commit(q) /\ q \notin overlapped /\ Reconciles(op[q])
          => RolledUp(com', op[q].parent)]_vars

\* Who holds the lock that the next statement of q needs.
WaitsFor(q) ==
    IF pc[q] = "scope" THEN {scope[ScopeOf(op[q])]} \ {None}
    ELSE IF pc[q] = "write" THEN {lock[IF op[q].kind \in {"edit", "drop"} THEN op[q].parent
                                                                       ELSE op[q].task]} \ {None, q}
    ELSE IF pc[q] = "roll" THEN {lock[op[q].parent]} \ {None, q}
    ELSE {}

\* Requests never wait in a circle, or for a lock nobody gives back: rank scope,
\* task and parent are locked in this order, each for the transaction only.
NoDeadlock ==
    (\E q \in Requests : Active(q)) => \E q \in Requests : Active(q) /\ WaitsFor(q) = {}

----------------------------------------------------------------------------
(* Inductive invariant                                                      *)

\* A request knows the rows it works on, and a live task has a parent.
OpInv ==
    /\ \A q \in Requests : Active(q) =>
          /\ op[q].kind # "none" /\ op[q].parent \in Parents
          /\ op[q].kind \in {"create", "update", "touch", "delete"} => op[q].task \in Tasks
          /\ op[q].kind \in {"create", "edit"} => op[q].to # None
          /\ pc[q] = "scope" => ScopeOf(op[q]) \in Parents
    /\ \A t \in Tasks : /\ com[t].row = "live" => com[t].parent \in Parents
                        /\ cur[t].row = "live" => cur[t].parent \in Parents

\* Where a transaction that has written row x may be.
Held(x) == IF x \in Parents THEN {"commit"} ELSE {"count", "parent", "roll", "commit"}

\* Locks belong to running requests; an unlocked row has no other version.
LockInv ==
    /\ \A x \in Rows : IF lock[x] = None THEN cur[x] = com[x] ELSE pc[lock[x]] \in Held(x)
    /\ \A p \in Parents : scope[p] # None => pc[scope[p]] \notin {"idle", "scope"}

\* A transaction locks its own rows; a create past its first statement holds the
\* rank scope of its parent; its task is nobody else's, and not committed.
CreateInv ==
    \A q \in Requests : Active(q) =>
        /\ \A x \in Rows : lock[x] = q => x \in {op[q].task, op[q].parent}
        /\ op[q].kind = "create" =>
              /\ pc[q] # "scope" => scope[op[q].parent] = q
              /\ com[op[q].task].row = "absent"
              /\ lock[op[q].task] = q => cur[op[q].task].parent = op[q].parent
              /\ \A r \in Requests : Active(r) /\ r # q => op[r].task # op[q].task

\* What a request that overlaps none it clashes with knows of its own view.
LoneInv ==
    \A q \in Requests : Active(q) /\ q \notin overlapped =>
        /\ \A r \in Requests : Active(r) /\ r # q => ~Clash(op[q], op[r])
        /\ pc[q] \in {"parent", "roll"} => derived[q] = Derived(View(q), op[q].parent)
        /\ pc[q] = "commit" /\ Reconciles(op[q]) => RolledUp(View(q), op[q].parent)

ParentInv == TypeOK /\ OpInv /\ LockInv /\ CreateInv /\ LoneInv

=============================================================================
