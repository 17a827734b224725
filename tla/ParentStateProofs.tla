------------------------- MODULE ParentStateProofs -------------------------
(***************************************************************************)
(* Proofs about ParentState, for any number of parents, tasks and          *)
(* requests and whatever fails: types, and that a task write which         *)
(* overlaps no other request rolls its parent up.                          *)
(***************************************************************************)
EXTENDS ParentState, TLAPS

USE DEF Active

Labels == {"idle", "scope", "check", "write", "count", "parent", "roll", "commit"}

\* The initial tables are typed and no request runs.
LEMMA InitInv == Init => ParentInv
<1> SUFFICES ASSUME Init PROVE ParentInv
    OBVIOUS
<1>1. TypeOK
    BY DEF Init, TypeOK, Row, Operations, NoOp, ScheduleStates, TaskStates
<1>2. OpInv
    BY RowsAssumption DEF Init, OpInv, Rows
<1>3. LockInv
    BY DEF Init, LockInv, Rows
<1>4. CreateInv /\ LoneInv
    BY DEF Init, CreateInv, LoneInv
<1> QED BY <1>1, <1>2, <1>3, <1>4 DEF ParentInv

\* Rows outside the parent do not bear on it.
LEMMA SameRollUp ==
    ASSUME NEW v, NEW w, NEW p \in Parents, v[p] = w[p],
           \A t \in Tasks : v[t] = w[t] \/ (t \notin LiveTasks(v, p) /\ t \notin LiveTasks(w, p))
    PROVE  Derived(v, p) = Derived(w, p) /\ RolledUp(v, p) = RolledUp(w, p)
<1>1. LiveTasks(v, p) = LiveTasks(w, p)
    BY DEF LiveTasks
<1>2. \A t \in LiveTasks(v, p) : v[t] = w[t]
    BY <1>1 DEF LiveTasks
<1>3. Derived(v, p) = Derived(w, p)
    BY <1>1, <1>2 DEF Derived
<1> QED BY <1>1, <1>3 DEF RolledUp

\* The read that starts a request touches no table.
LEMMA StartInv ==
    ASSUME ParentInv, NEW q \in Requests, NEW o \in Operations, NEW l \in Labels,
           Start(q, o, l), l \notin {"idle", "parent", "roll", "commit"},
           o.kind # "none", o.parent \in Parents,
           o.kind \in {"create", "update", "touch", "delete"} => o.task \in Tasks,
           o.kind \in {"create", "edit"} => o.to # None,
           l = "scope" => ScopeOf(o) \in Parents,
           IF o.kind = "create"
           THEN l = "scope" /\ com[o.task].row = "absent" /\ \A r \in Requests : op[r].task # o.task
           ELSE o.task # None => com[o.task].row # "absent"
    PROVE  ParentInv'
<1> DEFINE clashing == {r \in Requests : pc[r] # "idle" /\ Clash(o, op[r])}
<1>0. /\ pc[q] = "idle" /\ pc' = [pc EXCEPT ![q] = l] /\ op' = [op EXCEPT ![q] = o]
      /\ overlapped' = IF clashing = {} THEN overlapped ELSE overlapped \cup {q} \cup clashing
      /\ UNCHANGED <<com, cur, lock, scope, derived>>
    BY DEF Start, tables
<1>1. TypeOK'
    BY <1>0 DEF ParentInv, TypeOK, Labels
<1>2. OpInv'
    BY <1>0 DEF ParentInv, OpInv, TypeOK
<1>a. \A x \in Rows : lock[x] # q
    BY <1>0, RowsAssumption DEF ParentInv, LockInv, Held, TypeOK
<1>b. \A p \in Parents : scope[p] # q
    BY <1>0, RowsAssumption DEF ParentInv, LockInv, TypeOK
<1>3. LockInv'
    BY <1>0, <1>a, <1>b DEF ParentInv, LockInv, TypeOK
<1>4. CreateInv'
    <2> SUFFICES ASSUME NEW r \in Requests, pc'[r] # "idle"
                 PROVE  /\ \A x \in Rows : lock[x] = r => x \in {op'[r].task, op'[r].parent}
                        /\ op'[r].kind = "create" =>
                              /\ pc'[r] # "scope" => scope[op'[r].parent] = r
                              /\ com[op'[r].task].row = "absent"
                              /\ lock[op'[r].task] = r => cur[op'[r].task].parent = op'[r].parent
                              /\ \A s \in Requests : pc'[s] # "idle" /\ s # r => op'[s].task # op'[r].task
        BY <1>0 DEF CreateInv
    <2>1. op \in [Requests -> Operations] /\ pc \in [Requests -> Labels]
        BY DEF ParentInv, TypeOK, Labels
    <2>2. CASE r = q
        <3>1. pc'[r] = l /\ op'[r] = o /\ \A s \in Requests : s # r => op'[s] = op[s]
            BY <1>0, <2>1, <2>2
        <3>2. o.kind = "create" => o.task \in Rows
            BY DEF Rows
        <3> QED BY <3>1, <3>2, <1>a, <2>2
    <2>3. CASE r # q
        <3>1. pc'[r] = pc[r] /\ op'[r] = op[r] /\ op'[q] = o
              /\ \A s \in Requests : s # q => op'[s] = op[s] /\ pc'[s] = pc[s]
            BY <1>0, <2>1, <2>3
        <3>2. op[r].kind = "create" => op[r].task \in Tasks /\ com[op[r].task].row = "absent"
            BY <3>1 DEF ParentInv, CreateInv, OpInv
        <3>3. op[r].kind = "create" => o.task # op[r].task
            BY <3>2, RowsAssumption
        <3> QED BY <3>1, <3>3 DEF ParentInv, CreateInv
    <2> QED BY <2>2, <2>3
<1>5. LoneInv'
    <2> SUFFICES ASSUME NEW r \in Requests, pc'[r] # "idle", r \notin overlapped'
                 PROVE  /\ \A s \in Requests : pc'[s] # "idle" /\ s # r => ~Clash(op'[r], op'[s])
                        /\ pc'[r] \in {"parent", "roll"} => derived[r] = Derived(View(r), op'[r].parent)
                        /\ pc'[r] = "commit" /\ Reconciles(op'[r]) => RolledUp(View(r), op'[r].parent)
        <3>1. \A r \in Requests : (View(r))' = View(r)
            BY <1>0 DEF View
        <3> QED BY <1>0, <3>1 DEF LoneInv
    <2>1. op \in [Requests -> Operations] /\ pc \in [Requests -> Labels]
        BY DEF ParentInv, TypeOK, Labels
    <2>2. /\ op'[q] = o /\ pc'[q] = l
          /\ \A s \in Requests : s # q => op'[s] = op[s] /\ pc'[s] = pc[s]
        BY <1>0, <2>1
    <2>3. CASE r = q
        <3>1. clashing = {}
            BY <1>0, <2>3
        <3>2. \A s \in Requests : s # q /\ pc[s] # "idle" => ~Clash(o, op[s])
            BY <3>1
        <3> QED BY <2>2, <2>3, <3>2
    <2>4. CASE r # q
        <3>1. r \notin overlapped /\ r \notin clashing
            BY <1>0
        <3>2. ~Clash(op[r], o)
            BY <3>1, <2>2, <2>4 DEF Clash
        <3> QED BY <2>2, <2>4, <3>1, <3>2 DEF ParentInv, LoneInv
    <2> QED BY <2>3, <2>4
<1> QED BY <1>1, <1>2, <1>3, <1>4, <1>5 DEF ParentInv

\* A statement that writes row x of request q's transaction, and goes on to l.
LEMMA WriteInv ==
    ASSUME ParentInv, NEW q \in Requests, NEW x \in Rows, NEW r \in Row, NEW l \in Labels,
           pc[q] \notin {"idle", "scope"}, l # "idle", Write(q, x, r), Goto(q, l), UNCHANGED derived,
           x \in Tasks /\ r.row = "live" => r.parent \in Parents,
           x \in {op[q].task, op[q].parent},
           op[q].kind = "create" /\ x \in Tasks => r.parent = op[q].parent,
           l = "commit" \/ (l = "count" /\ x \notin Parents /\ \A y \in Rows : lock[y] # q),
           l = "commit" /\ Reconciles(op[q]) /\ q \notin overlapped
              => RolledUp([y \in Rows |-> IF y = x THEN r ELSE View(q)[y]], op[q].parent)
    PROVE  ParentInv'
<1>0. /\ lock[x] \in {None, q} /\ lock' = [lock EXCEPT ![x] = q] /\ cur' = [cur EXCEPT ![x] = r]
      /\ pc' = [pc EXCEPT ![q] = l]
      /\ UNCHANGED <<com, scope, op, overlapped, derived>>
    BY DEF Write, Goto
<1>t. /\ pc \in [Requests -> Labels] /\ lock \in [Rows -> Requests \cup {None}]
      /\ cur \in [Rows -> Row] /\ com \in [Rows -> Row] /\ op \in [Requests -> Operations]
      /\ scope \in [Parents -> Requests \cup {None}]
    BY DEF ParentInv, TypeOK, Labels
<1>1. TypeOK'
    BY <1>0 DEF ParentInv, TypeOK, Labels
<1>2. OpInv'
    BY <1>0 DEF ParentInv, OpInv, TypeOK, Rows
<1>3. LockInv'
    <2>1. \A y \in Rows : lock'[y] = q => l \in Held(y)
        BY <1>0, <1>t DEF Held
    <2>2. \A y \in Rows : IF lock'[y] = None THEN cur'[y] = com[y] ELSE pc'[lock'[y]] \in Held(y)
        BY <1>0, <1>t, <2>1, RowsAssumption DEF ParentInv, LockInv
    <2>3. \A p \in Parents : scope[p] # None => pc'[scope[p]] \notin {"idle", "scope"}
        BY <1>0, <1>t DEF ParentInv, LockInv
    <2> QED BY <1>0, <2>2, <2>3 DEF LockInv
<1>4. CreateInv'
    <2> SUFFICES ASSUME NEW s \in Requests, pc'[s] # "idle"
                 PROVE  /\ \A y \in Rows : lock'[y] = s => y \in {op[s].task, op[s].parent}
                        /\ op[s].kind = "create" =>
                              /\ pc'[s] # "scope" => scope[op[s].parent] = s
                              /\ com[op[s].task].row = "absent"
                              /\ lock'[op[s].task] = s => cur'[op[s].task].parent = op[s].parent
                              /\ \A u \in Requests : pc'[u] # "idle" /\ u # s => op[u].task # op[s].task
        BY <1>0 DEF CreateInv
    <2>1. pc[s] # "idle" /\ (pc'[s] # "scope" => pc[s] # "scope")
        BY <1>0, <1>t
    <2>2. \A u \in Requests : pc'[u] # "idle" => pc[u] # "idle"
        BY <1>0, <1>t
    <2>3. \A y \in Rows : lock'[y] = s => y \in {op[s].task, op[s].parent}
        BY <1>0, <1>t, <2>1 DEF ParentInv, CreateInv
    <2>4. ASSUME op[s].kind = "create", lock'[op[s].task] = s
          PROVE  cur'[op[s].task].parent = op[s].parent
        <3>1. op[s].task \in Tasks /\ op[s].task \in Rows
            BY <2>1, <2>4 DEF ParentInv, OpInv, Rows
        <3>2. CASE x = op[s].task
            BY <1>0, <1>t, <2>4, <3>1, <3>2
        <3>3. CASE x # op[s].task
            BY <1>0, <1>t, <2>1, <2>4, <3>1, <3>3 DEF ParentInv, CreateInv
        <3> QED BY <3>2, <3>3
    <2> QED BY <2>1, <2>2, <2>3, <2>4 DEF ParentInv, CreateInv
<1>5. LoneInv'
    <2>1. (View(q))' = [y \in Rows |-> IF y = x THEN r ELSE View(q)[y]]
        BY <1>0, <1>t DEF View
    <2>2. \A s \in Requests : s # q => (View(s))' = View(s)
        BY <1>0, <1>t, RowsAssumption DEF View
    <2> SUFFICES ASSUME NEW s \in Requests, pc'[s] # "idle", s \notin overlapped
                 PROVE  /\ \A u \in Requests : pc'[u] # "idle" /\ u # s => ~Clash(op[s], op[u])
                        /\ pc'[s] \in {"parent", "roll"} => derived[s] = Derived((View(s))', op[s].parent)
                        /\ pc'[s] = "commit" /\ Reconciles(op[s]) => RolledUp((View(s))', op[s].parent)
        BY <1>0 DEF LoneInv
    <2>3. \A u \in Requests : pc'[u] # "idle" => pc[u] # "idle"
        BY <1>0, <1>t
    <2>4. \A u \in Requests : pc'[u] # "idle" /\ u # s => ~Clash(op[s], op[u])
        BY <2>3 DEF ParentInv, LoneInv
    <2>5. CASE s = q
        <3>1. pc'[s] = l
            BY <2>5, <1>0, <1>t
        <3> QED BY <2>1, <2>4, <2>5, <3>1
    <2>6. CASE s # q
        <3>1. pc'[s] = pc[s]
            BY <2>6, <1>0, <1>t
        <3> QED BY <2>2, <2>4, <2>6, <3>1 DEF ParentInv, LoneInv
    <2> QED BY <2>5, <2>6
<1> QED BY <1>1, <1>2, <1>3, <1>4, <1>5 DEF ParentInv

\* A statement that reads, or takes a scope, and goes on to l with d as the
\* derived state.
LEMMA ReadInv ==
    ASSUME ParentInv, NEW q \in Requests, NEW l \in Labels, NEW d \in TaskStates,
           pc[q] # "idle", l \notin {"idle", "scope"}, Goto(q, l), derived' = [derived EXCEPT ![q] = d],
           UNCHANGED <<com, cur, lock, op, overlapped>>,
           scope' \in [Parents -> Requests \cup {None}],
           \A p \in Parents : scope'[p] = scope[p] \/ (scope[p] = None /\ scope'[p] = q),
           op[q].kind = "create" => scope'[op[q].parent] = q,
           \A x \in Rows : lock[x] = q => l \in Held(x),
           l \in {"parent", "roll"} /\ q \notin overlapped => d = Derived(View(q), op[q].parent),
           l = "commit" /\ Reconciles(op[q]) /\ q \notin overlapped
              => RolledUp(View(q), op[q].parent)
    PROVE  ParentInv'
<1>0. pc' = [pc EXCEPT ![q] = l]
    BY DEF Goto
<1>t. /\ pc \in [Requests -> Labels] /\ lock \in [Rows -> Requests \cup {None}]
      /\ scope \in [Parents -> Requests \cup {None}] /\ derived \in [Requests -> TaskStates]
    BY DEF ParentInv, TypeOK, Labels
<1>1. TypeOK'
    BY <1>0 DEF ParentInv, TypeOK, Labels
<1>2. OpInv'
    BY <1>0 DEF ParentInv, OpInv, TypeOK
<1>3. LockInv'
    <2>1. \A y \in Rows : IF lock[y] = None THEN cur[y] = com[y] ELSE pc'[lock[y]] \in Held(y)
        BY <1>0, <1>t DEF ParentInv, LockInv
    <2>2. \A p \in Parents : scope'[p] # None => pc'[scope'[p]] \notin {"idle", "scope"}
        BY <1>0, <1>t DEF ParentInv, LockInv
    <2> QED BY <2>1, <2>2 DEF LockInv
<1>4. CreateInv'
    <2>1. \A s \in Requests : pc'[s] # "idle" => pc[s] # "idle"
        BY <1>0, <1>t
    <2>2. ASSUME NEW s \in Requests, pc'[s] # "idle", op[s].kind = "create", pc'[s] # "scope"
          PROVE  scope'[op[s].parent] = s
        <3>1. CASE s = q
            BY <2>2, <3>1
        <3>2. CASE s # q
            <4>1. pc[s] = pc'[s] /\ scope[op[s].parent] = s /\ op[s].parent \in Parents
                BY <1>0, <1>t, <2>1, <2>2, <3>2 DEF ParentInv, CreateInv, OpInv
            <4> QED BY <4>1, RowsAssumption
        <3> QED BY <3>1, <3>2
    <2> QED BY <2>1, <2>2 DEF ParentInv, CreateInv
<1>5. LoneInv'
    <2>1. \A s \in Requests : (View(s))' = View(s)
        BY DEF View
    <2> SUFFICES ASSUME NEW s \in Requests, pc'[s] # "idle", s \notin overlapped
                 PROVE  /\ \A u \in Requests : pc'[u] # "idle" /\ u # s => ~Clash(op[s], op[u])
                        /\ pc'[s] \in {"parent", "roll"} => derived'[s] = Derived(View(s), op[s].parent)
                        /\ pc'[s] = "commit" /\ Reconciles(op[s]) => RolledUp(View(s), op[s].parent)
        BY <2>1 DEF LoneInv
    <2>2. \A u \in Requests : pc'[u] # "idle" => pc[u] # "idle"
        BY <1>0, <1>t
    <2>3. \A u \in Requests : pc'[u] # "idle" /\ u # s => ~Clash(op[s], op[u])
        BY <2>2 DEF ParentInv, LoneInv
    <2>4. CASE s = q
        <3>1. pc'[s] = l /\ derived'[s] = d
            BY <2>4, <1>0, <1>t
        <3> QED BY <2>3, <2>4, <3>1
    <2>5. CASE s # q
        <3>1. pc'[s] = pc[s] /\ derived'[s] = derived[s]
            BY <2>5, <1>0, <1>t
        <3> QED BY <2>2, <2>3, <3>1 DEF ParentInv, LoneInv
    <2> QED BY <2>4, <2>5
<1> QED BY <1>1, <1>2, <1>3, <1>4, <1>5 DEF ParentInv

\* A transaction ends: committed (com takes its view) or rolled back (cur does).
LEMMA EndInv ==
    ASSUME ParentInv, NEW q \in Requests, pc[q] # "idle", End(q),
           \/ com' = View(q) /\ cur' = cur /\ pc[q] = "commit"
           \/ com' = com /\ cur' = [x \in Rows |-> IF lock[x] = q THEN com[x] ELSE cur[x]]
    PROVE  ParentInv'
<1>0. /\ pc' = [pc EXCEPT ![q] = "idle"] /\ op' = [op EXCEPT ![q] = NoOp]
      /\ lock' = [x \in Rows |-> IF lock[x] = q THEN None ELSE lock[x]]
      /\ scope' = [p \in Parents |-> IF scope[p] = q THEN None ELSE scope[p]]
      /\ derived' = [derived EXCEPT ![q] = "defined"] /\ overlapped' = overlapped \ {q}
    BY DEF End, Goto
<1>t. /\ pc \in [Requests -> Labels] /\ lock \in [Rows -> Requests \cup {None}]
      /\ scope \in [Parents -> Requests \cup {None}] /\ derived \in [Requests -> TaskStates]
      /\ op \in [Requests -> Operations] /\ com \in [Rows -> Row] /\ cur \in [Rows -> Row]
    BY DEF ParentInv, TypeOK, Labels
<1>a. /\ com' \in [Rows -> Row] /\ cur' \in [Rows -> Row]
      /\ \A x \in Rows : com'[x] \in {com[x], cur[x]} /\ cur'[x] \in {com[x], cur[x]}
      /\ \A x \in Rows : IF lock[x] = q THEN cur'[x] = com'[x]
                         ELSE cur'[x] = cur[x] /\ com'[x] = com[x]
    BY DEF View, ParentInv, TypeOK
<1>b. \A s \in Requests : s # q => pc'[s] = pc[s] /\ op'[s] = op[s] /\ derived'[s] = derived[s]
    BY <1>0, <1>t
<1>c. pc'[q] = "idle"
    BY <1>0, <1>t
<1>1. TypeOK'
    <2>1. NoOp \in Operations
        BY DEF NoOp, Operations
    <2> QED BY <1>0, <1>a, <2>1 DEF ParentInv, TypeOK, TaskStates
<1>2. OpInv'
    BY <1>0, <1>a DEF ParentInv, OpInv, TypeOK, Rows
<1>3. LockInv'
    BY <1>0, <1>a, <1>b, <1>t, RowsAssumption DEF ParentInv, LockInv
<1>4. CreateInv'
    <2> SUFFICES ASSUME NEW s \in Requests, s # q, pc[s] # "idle"
                 PROVE  /\ \A y \in Rows : lock'[y] = s => y \in {op[s].task, op[s].parent}
                        /\ op[s].kind = "create" =>
                              /\ pc[s] # "scope" => scope'[op[s].parent] = s
                              /\ com'[op[s].task].row = "absent"
                              /\ lock'[op[s].task] = s => cur'[op[s].task].parent = op[s].parent
                              /\ \A u \in Requests : pc'[u] # "idle" /\ u # s => op'[u].task # op[s].task
        BY <1>b, <1>c DEF CreateInv
    <2>1. \A y \in Rows : lock'[y] = s => lock[y] = s
        BY <1>0, <1>t, RowsAssumption
    <2>2. ASSUME op[s].kind = "create"
          PROVE  /\ op[s].task \in Tasks /\ op[s].task \in Rows /\ op[s].parent \in Parents
                 /\ lock[op[s].task] # q
        <3>1. op[s].task \in Tasks /\ op[s].task \in Rows /\ op[s].parent \in Parents
            BY <2>2 DEF ParentInv, OpInv, Rows
        <3>2. op[q].task # op[s].task /\ op[q].parent \in Parents
            BY <2>2 DEF ParentInv, CreateInv, OpInv
        <3>3. op[s].task \notin Parents
            BY <3>1, RowsAssumption
        <3>4. lock[op[s].task] # q
            BY <3>1, <3>2, <3>3 DEF ParentInv, CreateInv
        <3> QED BY <3>1, <3>4
    <2>3. op[s].kind = "create" /\ pc[s] # "scope" => scope'[op[s].parent] = s
        BY <1>0, <1>t, <2>2 DEF ParentInv, CreateInv
    <2>4. op[s].kind = "create" => com'[op[s].task].row = "absent"
        BY <1>a, <2>2 DEF ParentInv, CreateInv
    <2>5. op[s].kind = "create" /\ lock'[op[s].task] = s => cur'[op[s].task].parent = op[s].parent
        BY <1>a, <2>1, <2>2 DEF ParentInv, CreateInv
    <2>6. op[s].kind = "create" => \A u \in Requests : pc'[u] # "idle" /\ u # s => op'[u].task # op[s].task
        BY <1>b, <1>c DEF ParentInv, CreateInv
    <2>7. \A y \in Rows : lock'[y] = s => y \in {op[s].task, op[s].parent}
        BY <2>1 DEF ParentInv, CreateInv
    <2> QED BY <2>3, <2>4, <2>5, <2>6, <2>7
<1>5. LoneInv'
    <2> SUFFICES ASSUME NEW s \in Requests, s # q, pc[s] # "idle", s \notin overlapped
                 PROVE  /\ \A u \in Requests : pc'[u] # "idle" /\ u # s => ~Clash(op[s], op'[u])
                        /\ pc[s] \in {"parent", "roll"} => derived[s] = Derived((View(s))', op[s].parent)
                        /\ pc[s] = "commit" /\ Reconciles(op[s]) => RolledUp((View(s))', op[s].parent)
        BY <1>0, <1>b, <1>c DEF LoneInv
    <2>1. \A u \in Requests : pc'[u] # "idle" /\ u # s => ~Clash(op[s], op'[u])
        BY <1>b, <1>c DEF ParentInv, LoneInv
    <2>2. ~Clash(op[s], op[q])
        BY DEF ParentInv, LoneInv
    <2>3. op[s].kind = "create" /\ op[q].kind = "create"
        BY <2>2 DEF Clash
    <2>4. /\ op[s].parent \in Parents /\ op[q].parent \in Parents /\ op[q].task \in Tasks
          /\ op[s].parent \in Rows /\ op[q].task \in Rows
        BY <2>3 DEF ParentInv, OpInv, Rows
    <2> DEFINE p == op[s].parent
               v == View(s)
               v1 == (View(s))'
    <2>5. ASSUME pc[s] \in {"parent", "roll", "commit"}
          PROVE  Derived(v1, p) = Derived(v, p) /\ RolledUp(v1, p) = RolledUp(v, p)
        <3>1. \A x \in Rows : v[x] = (IF lock[x] = s THEN cur[x] ELSE com[x])
                              /\ v1[x] = (IF lock'[x] = s THEN cur'[x] ELSE com'[x])
            BY DEF View
        <3>2. \A x \in Rows : lock'[x] = s <=> lock[x] = s
            BY <1>0, <1>t, RowsAssumption
        <3>3. \A x \in Rows : lock[x] # q => v1[x] = v[x]
            BY <1>a, <3>1, <3>2
        <3>4. CASE com' = com
            <4>1. \A x \in Rows : v1[x] = v[x]
                BY <1>a, <3>1, <3>2, <3>4
            <4> HIDE DEF v, v1
            <4>2. v1[p] = v[p] /\ \A t \in Tasks : v1[t] = v[t]
                BY <4>1, <2>4 DEF Rows
            <4> QED BY <4>2, <2>4, SameRollUp
        <3>5. CASE pc[q] = "commit" /\ cur' = cur
            <4>1. scope[op[s].parent] = s /\ scope[op[q].parent] = q
                BY <2>3, <2>5, <3>5 DEF ParentInv, CreateInv
            <4>2. op[q].parent # p
                BY <4>1
            <4>3. p \notin Tasks
                BY <2>4, RowsAssumption
            <4>4. lock[p] # q
                BY <4>2, <4>3, <2>4 DEF ParentInv, CreateInv
            <4>5. ASSUME NEW t \in Tasks, lock[t] = q
                  PROVE  t \notin LiveTasks(v, p) /\ t \notin LiveTasks(v1, p)
                <5>1. t \in Rows /\ t \notin Parents
                    BY RowsAssumption DEF Rows
                <5>2. t = op[q].task
                    BY <4>5, <5>1, <2>4 DEF ParentInv, CreateInv
                <5>3. com[t].row = "absent" /\ cur[t].parent = op[q].parent
                    BY <4>5, <5>2, <2>3 DEF ParentInv, CreateInv
                <5>4. v[t] = com[t]
                    BY <4>5, <5>1, <3>1
                <5>5. v1[t] = cur[t]
                    BY <4>5, <5>1, <3>1, <3>2, <3>5, <1>a
                <5> HIDE DEF v, v1
                <5> QED BY <5>3, <5>4, <5>5, <4>2 DEF LiveTasks
            <4>6. \A t \in Tasks : t \in Rows
                BY DEF Rows
            <4> HIDE DEF v, v1
            <4>7. v1[p] = v[p]
                BY <4>4, <3>3, <2>4
            <4>8. \A t \in Tasks : v1[t] = v[t] \/ (t \notin LiveTasks(v1, p) /\ t \notin LiveTasks(v, p))
                BY <4>5, <4>6, <3>3
            <4> QED BY <4>7, <4>8, <2>4, SameRollUp
        <3> QED BY <3>4, <3>5
    <2> QED BY <2>1, <2>5 DEF ParentInv, LoneInv
<1> QED BY <1>1, <1>2, <1>3, <1>4, <1>5 DEF ParentInv

\* Every step preserves the invariant.
LEMMA NextInv == ParentInv /\ [Next]_vars => ParentInv'
<1> SUFFICES ASSUME ParentInv, [Next]_vars PROVE ParentInv'
    OBVIOUS
<1>t. TypeOK /\ OpInv /\ LockInv /\ CreateInv /\ LoneInv
    BY DEF ParentInv
<1>0. CASE UNCHANGED vars
    <2>1. UNCHANGED <<com, cur, lock, scope, pc, op, derived, overlapped>>
        BY <1>0 DEF vars, tables
    <2>2. \A s \in Requests : (View(s))' = View(s)
        BY <2>1 DEF View
    <2>3. TypeOK' /\ OpInv' /\ LockInv' /\ CreateInv'
        BY <1>t, <2>1 DEF TypeOK, OpInv, LockInv, CreateInv
    <2>4. LoneInv'
        BY <1>t, <2>1, <2>2 DEF LoneInv
    <2> QED BY <2>3, <2>4 DEF ParentInv
<1>1. ASSUME NEW q \in Requests, NEW t \in Tasks, NEW p \in Parents, NEW s \in TaskInputs,
             createTask(q, t, p, s)
      PROVE  ParentInv'
    <2> DEFINE o == [NoOp EXCEPT !.kind = "create", !.task = t, !.parent = p, !.to = s]
    <2>1. /\ o \in Operations /\ o.kind = "create" /\ o.parent = p /\ o.task = t
          /\ o.to = s /\ s \in ScheduleStates
        BY InputsAssumption DEF Operations, NoOp, ScheduleStates
    <2>2. s # None
        BY <2>1, NoneAssumption
    <2>3. Start(q, o, "scope") /\ com[t].row = "absent" /\ \A r \in Requests : op[r].task # t
        BY <1>1 DEF createTask
    <2> HIDE DEF o
    <2> QED BY <2>1, <2>2, <2>3, StartInv DEF Labels, ScopeOf
<1>2. ASSUME NEW q \in Requests, NEW t \in Tasks,
             NEW s \in TaskInputs \cup {None}, NEW d \in Parents \cup {None}, updateTask(q, t, s, d)
      PROVE  ParentInv'
    <2> DEFINE k == IF s \in {None, com[t].state} THEN "touch" ELSE "update"
               o == [kind |-> k, task |-> t, parent |-> com[t].parent, dest |-> d, to |-> s]
               l == IF d \notin {None, com[t].parent} THEN "scope" ELSE "check"
    <2>1. com[t].parent \in Parents
        BY <1>t, <1>2 DEF updateTask, OpInv
    <2>2. Start(q, o, l) /\ com[t].row = "live"
        BY <1>2 DEF updateTask
    <2>3. /\ o \in Operations /\ o.kind \in {"update", "touch"} /\ o.parent \in Parents
          /\ o.task = t
        BY <2>1, InputsAssumption DEF Operations, ScheduleStates
    <2>4. l \in {"scope", "check"} /\ (l = "scope" => ScopeOf(o) \in Parents)
        BY DEF ScopeOf
    <2> HIDE DEF k, o, l
    <2> QED BY <2>2, <2>3, <2>4, StartInv DEF Labels
<1>3. ASSUME NEW q \in Requests, NEW t \in Tasks, deleteTask(q, t)
      PROVE  ParentInv'
    <2> DEFINE o == [NoOp EXCEPT !.kind = "delete", !.task = t, !.parent = com[t].parent]
    <2>1. com[t].parent \in Parents
        BY <1>t, <1>3 DEF deleteTask, OpInv
    <2>2. o \in Operations /\ o.kind = "delete" /\ o.parent \in Parents /\ o.task = t
        BY <2>1 DEF Operations, NoOp
    <2>3. Start(q, o, "write") /\ com[t].row = "live"
        BY <1>3 DEF deleteTask
    <2> HIDE DEF o
    <2> QED BY <2>2, <2>3, StartInv DEF Labels
<1>4. ASSUME NEW q \in Requests, NEW p \in Parents, NEW s \in EditInputs, editParent(q, p, s)
      PROVE  ParentInv'
    <2> DEFINE o == [NoOp EXCEPT !.kind = "edit", !.parent = p, !.to = s]
    <2>1. o \in Operations /\ o.kind = "edit" /\ o.task = None /\ o.parent = p /\ o.to = s /\ s \in ScheduleStates
        BY InputsAssumption DEF Operations, NoOp
    <2>2. Start(q, o, "write")
        BY <1>4 DEF editParent
    <2>3. s # None
        BY <2>1, NoneAssumption
    <2> HIDE DEF o
    <2> QED BY <2>1, <2>2, <2>3, StartInv DEF Labels
<1>5. ASSUME NEW q \in Requests, NEW p \in Parents, deleteParent(q, p)
      PROVE  ParentInv'
    <2> DEFINE o == [NoOp EXCEPT !.kind = "drop", !.parent = p]
    <2>1. o \in Operations /\ o.kind = "drop" /\ o.task = None /\ o.parent = p
        BY DEF Operations, NoOp
    <2>2. Start(q, o, "write")
        BY <1>5 DEF deleteParent
    <2> HIDE DEF o
    <2> QED BY <2>1, <2>2, StartInv DEF Labels
<1>6. ASSUME NEW q \in Requests, Step(q) \/ rollback(q)
      PROVE  ParentInv'
    <2>0. /\ op[q] \in Operations /\ derived[q] \in TaskStates /\ derived = [derived EXCEPT ![q] = derived[q]]
          /\ com \in [Rows -> Row] /\ cur \in [Rows -> Row]
          /\ lock \in [Rows -> Requests \cup {None}]
          /\ scope \in [Parents -> Requests \cup {None}]
        BY <1>t DEF TypeOK
    <2>a. pc[q] # "idle" =>
             /\ op[q].kind # "none" /\ op[q].parent \in Parents /\ op[q].parent \in Rows
             /\ op[q].kind \in {"create", "update", "touch", "delete"} => op[q].task \in Tasks /\ op[q].task \in Rows
             /\ op[q].kind \in {"create", "edit"} => op[q].to \in ScheduleStates
        BY <1>t, <2>0 DEF OpInv, Operations, Rows
    <2>b. \A t \in Tasks : cur[t].row = "live" => cur[t].parent \in Parents
        BY <1>t DEF OpInv
    <2>c. \A x \in Rows : lock[x] = q => pc[q] \in Held(x)
        BY <1>t, RowsAssumption DEF LockInv
    <2>d. pc[q] \in {"scope", "check", "write"} => \A x \in Rows : lock[x] # q
        BY <2>c DEF Held
    <2>e. pc[q] \notin {"idle", "scope"} /\ op[q].kind = "create" => scope[op[q].parent] = q
        BY <1>t DEF CreateInv
    <2>1. CASE lockRankScope(q)
        <3> DEFINE p == ScopeOf(op[q])
                   l == IF op[q].kind = "create" THEN "write" ELSE "check"
        <3>1. /\ pc[q] = "scope" /\ scope' = [scope EXCEPT ![p] = q] /\ Goto(q, l) /\ scope[p] = None
              /\ UNCHANGED <<com, cur, lock, op, derived, overlapped>>
            BY <2>1 DEF lockRankScope, ScopeFree
        <3>2. /\ scope' \in [Parents -> Requests \cup {None}]
              /\ \A x \in Parents : scope'[x] = scope[x] \/ (scope[x] = None /\ scope'[x] = q)
            BY <2>0, <3>1
        <3>3. op[q].kind = "create" => scope'[op[q].parent] = q
            BY <2>0, <2>a, <3>1 DEF ScopeOf
        <3>4. l \in {"write", "check"}
            OBVIOUS
        <3> HIDE DEF p, l
        <3> QED BY <2>0, <2>d, <3>1, <3>2, <3>3, <3>4, ReadInv DEF Labels
    <2>2. CASE insertTask(q)
        <3> DEFINE r == [state |-> op[q].to, parent |-> op[q].parent, row |-> "live"]
        <3>1. /\ pc[q] = "write" /\ Write(q, op[q].task, r) /\ Goto(q, "count") /\ UNCHANGED derived
              /\ op[q].kind = "create"
            BY <2>2 DEF insertTask
        <3>2. r \in Row /\ r.parent \in Parents /\ r.parent = op[q].parent /\ op[q].task \notin Parents
            BY <2>a, <3>1, RowsAssumption DEF Row
        <3> HIDE DEF r
        <3> QED BY <2>a, <2>d, <3>1, <3>2, WriteInv DEF Labels
    <2>3. CASE taskCheck(q)
        BY <2>3, <2>0, <2>d, <2>e, ReadInv DEF taskCheck, tables, Labels
    <2>4. CASE taskGone(q)
        BY <2>4, EndInv DEF taskGone, Abort
    <2>5. CASE taskGoneTouch(q)
        <3>1. /\ pc[q] = "check" /\ Goto(q, AfterUpdate(q)) /\ UNCHANGED <<com, cur, lock, scope, op, derived, overlapped>>
            BY <2>5 DEF taskGoneTouch, tables
        <3>2. AfterUpdate(q) \in {"count", "commit"} /\ (AfterUpdate(q) = "commit" => ~Reconciles(op[q]))
            BY DEF AfterUpdate
        <3> QED BY <2>0, <2>d, <2>e, <3>1, <3>2, ReadInv DEF Labels
    <2>6. CASE updateRow(q)
        <3> DEFINE t == op[q].task
                   r == [cur[t] EXCEPT !.state = IF op[q].to = None THEN @ ELSE op[q].to,
                                       !.parent = IF op[q].dest = None THEN @ ELSE op[q].dest]
        <3>1. /\ pc[q] = "write" /\ Write(q, t, r) /\ Goto(q, AfterUpdate(q)) /\ UNCHANGED derived
              /\ op[q].kind \in {"update", "touch"}
            BY <2>6 DEF updateRow
        <3>2. t \in Tasks /\ t \in Rows /\ t \notin Parents /\ cur[t] \in Row
            BY <2>0, <2>a, <3>1, RowsAssumption
        <3>3. r \in Row /\ (r.row = "live" => r.parent \in Parents)
            BY <2>0, <2>b, <3>2 DEF Row, Operations
        <3>4. AfterUpdate(q) \in {"count", "commit"} /\ (AfterUpdate(q) = "commit" => ~Reconciles(op[q]))
            BY DEF AfterUpdate
        <3>5. t \in {op[q].task, op[q].parent}
            OBVIOUS
        <3> HIDE DEF t, r
        <3> QED BY <2>d, <3>1, <3>2, <3>3, <3>4, <3>5, WriteInv DEF Labels
    <2>7. CASE deleteRow(q)
        <3> DEFINE t == op[q].task
                   r == [cur[t] EXCEPT !.row = "deleted"]
        <3>1. /\ pc[q] = "write" /\ Write(q, t, r) /\ Goto(q, "count") /\ UNCHANGED derived
              /\ op[q].kind = "delete"
            BY <2>7 DEF deleteRow
        <3>2. t \in Rows /\ t \notin Parents /\ r \in Row /\ r.row = "deleted"
            BY <2>0, <2>a, <3>1, RowsAssumption DEF Row
        <3>3. t \in {op[q].task, op[q].parent}
            OBVIOUS
        <3> HIDE DEF t, r
        <3> QED BY <2>d, <3>1, <3>2, <3>3, WriteInv DEF Labels
    <2>8. CASE editRow(q)
        <3> DEFINE p == op[q].parent
                   r == [cur[p] EXCEPT !.state = op[q].to]
        <3>1. /\ pc[q] = "write" /\ Write(q, p, r) /\ Goto(q, "commit") /\ UNCHANGED derived
              /\ op[q].kind = "edit"
            BY <2>8 DEF editRow
        <3>a. p \in Rows /\ p \notin Tasks /\ op[q].to \in ScheduleStates
            BY <2>a, <3>1, RowsAssumption
        <3>2. p \in Rows /\ p \notin Tasks /\ r \in Row
            BY <2>0, <3>a DEF Row
        <3>3. ~Reconciles(op[q])
            BY <3>1 DEF Reconciles
        <3>4. p \in {op[q].task, op[q].parent}
            OBVIOUS
        <3> HIDE DEF p, r
        <3> QED BY <3>1, <3>2, <3>3, <3>4, WriteInv DEF Labels
    <2>9. CASE dropRow(q)
        <3> DEFINE p == op[q].parent
                   r == [cur[p] EXCEPT !.row = "deleted"]
        <3>1. /\ pc[q] = "write" /\ Write(q, p, r) /\ Goto(q, "commit") /\ UNCHANGED derived
              /\ op[q].kind = "drop"
            BY <2>9 DEF dropRow
        <3>2. p \in Rows /\ p \notin Tasks /\ r \in Row
            BY <2>0, <2>a, <3>1, RowsAssumption DEF Row
        <3>3. ~Reconciles(op[q])
            BY <3>1 DEF Reconciles
        <3>4. p \in {op[q].task, op[q].parent}
            OBVIOUS
        <3> HIDE DEF p, r
        <3> QED BY <3>1, <3>2, <3>3, <3>4, WriteInv DEF Labels
    <2>10. CASE taskStateCounts(q)
        <3> DEFINE p == op[q].parent
                   d == Derived(View(q), p)
                   l == IF LiveTasks(View(q), p) = {} THEN "commit" ELSE "parent"
        <3>1. /\ pc[q] = "count" /\ derived' = [derived EXCEPT ![q] = d] /\ Goto(q, l)
              /\ UNCHANGED <<com, cur, lock, scope, op, overlapped>>
            BY <2>10 DEF taskStateCounts, tables
        <3>2. d \in TaskStates
            BY DEF Derived, TaskStates
        <3>3. /\ l \in {"commit", "parent"}
              /\ l = "commit" => RolledUp(View(q), p)
            BY DEF RolledUp
        <3> HIDE DEF d, l
        <3>4. d = Derived(View(q), op[q].parent)
            BY DEF d
        <3>5. \A x \in Rows : lock[x] = q => l \in Held(x)
            BY <2>c, <3>1, <3>3 DEF Held
        <3>6. op[q].kind = "create" => scope[op[q].parent] = q
            BY <2>e, <3>1
        <3>7. /\ l \in Labels /\ pc[q] # "idle" /\ l \notin {"idle", "scope", "roll"}
              /\ scope' \in [Parents -> Requests \cup {None}] /\ scope' = scope
            BY <2>0, <3>1, <3>3 DEF Labels
        <3> HIDE DEF p
        <3>8. l = "commit" => RolledUp(View(q), op[q].parent)
            BY <3>3 DEF p
        <3> QED BY <3>1, <3>2, <3>4, <3>5, <3>6, <3>7, <3>8, ReadInv
    <2>11. CASE readParent(q)
        <3> DEFINE p == op[q].parent
                   v == View(q)[p]
                   l == IF v.row = "live" /\ v.state # derived[q] THEN "roll" ELSE "commit"
        <3>1. /\ pc[q] = "parent" /\ Goto(q, l)
              /\ UNCHANGED <<com, cur, lock, scope, op, derived, overlapped>>
            BY <2>11 DEF readParent, tables
        <3>2. q \notin overlapped => derived[q] = Derived(View(q), p)
            BY <1>t, <3>1 DEF LoneInv
        <3>3. /\ l \in {"commit", "roll"}
              /\ l = "commit" /\ q \notin overlapped => RolledUp(View(q), p)
            BY <3>2 DEF RolledUp
        <3> HIDE DEF l, v
        <3>4. \A x \in Rows : lock[x] = q => l \in Held(x)
            BY <2>c, <3>1, <3>3 DEF Held
        <3> QED BY <2>0, <2>e, <3>1, <3>2, <3>3, <3>4, ReadInv DEF Labels
    <2>12. CASE updateParent(q)
        <3> DEFINE p == op[q].parent
                   r == [cur[p] EXCEPT !.state = derived[q]]
                   v == [y \in Rows |-> IF y = p THEN r ELSE View(q)[y]]
        <3>1. /\ pc[q] = "roll" /\ Write(q, p, r) /\ Goto(q, "commit") /\ UNCHANGED derived
            BY <2>12 DEF updateParent
        <3>2. p \in Rows /\ p \notin Tasks /\ cur[p] \in Row
            BY <2>0, <2>a, <3>1, RowsAssumption
        <3>3. r \in Row /\ r.state = derived[q]
            BY <2>0, <3>2 DEF Row, ScheduleStates
        <3>4. \A t \in Tasks : v[t] = View(q)[t]
            BY <3>2 DEF Rows
        <3>5. v[p] = r
            BY <3>2
        <3> HIDE DEF r, v
        <3>6. LiveTasks(v, p) = LiveTasks(View(q), p)
            BY <3>4 DEF LiveTasks
        <3>7. Derived(v, p) = Derived(View(q), p)
            BY <3>4, <3>6 DEF Derived, LiveTasks
        <3>8. q \notin overlapped => RolledUp(v, p)
            BY <1>t, <3>1, <3>3, <3>5, <3>7 DEF LoneInv, RolledUp
        <3> QED BY <3>1, <3>2, <3>3, <3>8, WriteInv DEF Labels, v
    <2>13. CASE commit(q)
        BY <2>13, EndInv DEF commit
    <2>14. CASE rollback(q)
        BY <2>14, EndInv DEF rollback, Abort
    <2>15. CASE updateGone(q)
        BY <2>15, EndInv DEF updateGone, Abort
    <2> QED BY <1>6, <2>1, <2>2, <2>3, <2>4, <2>5, <2>6, <2>7, <2>8, <2>9, <2>10, <2>11, <2>12,
               <2>13, <2>14, <2>15 DEF Step
<1>7. CASE quiet
    BY <1>0, <1>7 DEF quiet
<1> QED BY <1>0, <1>1, <1>2, <1>3, <1>4, <1>5, <1>6, <1>7 DEF Next

\* ParentInv holds in every reachable state.
THEOREM ParentInvariant == Spec => []ParentInv
<1> QED BY InitInv, NextInv, PTL DEF Spec

\* Types, for every set of parents, tasks and requests.
THEOREM ParentTypeCorrect == Spec => []TypeOK
<1>1. ParentInv => TypeOK
    BY DEF ParentInv
<1> QED BY <1>1, ParentInvariant, PTL

\* A task write that overlaps no other request leaves its parent in the state
\* its live tasks derive, whatever edits, races and failures came before.
THEOREM LoneWritesReconcile == Spec => LoneWriteReconciles
<1> DEFINE A == \A q \in Requests : commit(q) /\ q \notin overlapped /\ Reconciles(op[q])
                   => RolledUp(com', op[q].parent)
<1>1. ParentInv => A
    <2> SUFFICES ASSUME ParentInv, NEW q \in Requests, commit(q), q \notin overlapped,
                        Reconciles(op[q])
                 PROVE  RolledUp(com', op[q].parent)
        OBVIOUS
    <2>1. pc[q] = "commit" /\ com' = View(q)
        BY DEF commit
    <2> QED BY <2>1 DEF ParentInv, LoneInv
<1> HIDE DEF A
<1>2. Spec => [][A]_vars
    BY <1>1, ParentInvariant, PTL
<1> QED BY <1>2 DEF LoneWriteReconciles, A

\* Requests never wait in a circle: who has written a parent only commits, who
\* has written a task waits at most for a parent, who holds a scope at most for
\* a row.
THEOREM RequestsNeverDeadlock == Spec => []NoDeadlock
<1>1. ParentInv => NoDeadlock
    <2> SUFFICES ASSUME ParentInv, NEW q \in Requests, pc[q] # "idle"
                 PROVE  \E r \in Requests : pc[r] # "idle" /\ WaitsFor(r) = {}
        BY DEF NoDeadlock
    <2> DEFINE Runs == \E r \in Requests : pc[r] # "idle" /\ WaitsFor(r) = {}
    <2>t. /\ lock \in [Rows -> Requests \cup {None}] /\ scope \in [Parents -> Requests \cup {None}]
          /\ pc \in [Requests -> Labels]
        BY DEF ParentInv, TypeOK, Labels
    <2>a. \A r \in Requests : pc[r] # "idle" => op[r].parent \in Parents
        BY DEF ParentInv, OpInv
    <2>1. ASSUME NEW r \in Requests, NEW p \in Parents, lock[p] = r PROVE Runs
        <3>1. pc[r] = "commit"
            BY <2>1, RowsAssumption DEF ParentInv, LockInv, Held, Rows
        <3>2. WaitsFor(r) = {}
            BY <3>1 DEF WaitsFor
        <3> QED BY <3>1, <3>2
    <2>2. ASSUME NEW r \in Requests, pc[r] \in {"check", "count", "parent", "roll", "commit"} PROVE Runs
        <3>1. CASE WaitsFor(r) = {}
            BY <2>2, <3>1
        <3>2. CASE WaitsFor(r) # {}
            <4>1. lock[op[r].parent] # None /\ op[r].parent \in Parents /\ op[r].parent \in Rows
                BY <2>2, <2>a, <3>2 DEF WaitsFor, Rows
            <4> QED BY <4>1, <2>1, <2>t
        <3> QED BY <3>1, <3>2
    <2>3. ASSUME NEW r \in Requests, NEW x \in Rows, lock[x] = r PROVE Runs
        <3>1. pc[r] \in {"count", "parent", "roll", "commit"}
            BY <2>3, RowsAssumption DEF ParentInv, LockInv, Held
        <3> QED BY <3>1, <2>2
    <2>4. ASSUME NEW r \in Requests, pc[r] \notin {"idle", "scope"} PROVE Runs
        <3>1. CASE pc[r] # "write"
            BY <3>1, <2>2, <2>4, <2>t DEF Labels
        <3>2. CASE WaitsFor(r) = {}
            BY <2>4, <3>2
        <3>3. CASE pc[r] = "write" /\ WaitsFor(r) # {}
            <4> DEFINE x == IF op[r].kind \in {"edit", "drop"} THEN op[r].parent ELSE op[r].task
            <4>1. WaitsFor(r) = {lock[x]} \ {None, r}
                BY <3>3 DEF WaitsFor
            <4>2. x \in Rows
                BY <2>a, <2>4, <3>3 DEF ParentInv, OpInv, TypeOK, Operations, Rows
            <4> HIDE DEF x
            <4>3. lock[x] \in Requests
                BY <4>1, <4>2, <3>3, <2>t
            <4> QED BY <4>2, <4>3, <2>3
        <3> QED BY <3>1, <3>2, <3>3
    <2>5. CASE pc[q] # "scope"
        BY <2>4, <2>5
    <2>6. CASE WaitsFor(q) = {}
        BY <2>6
    <2>7. CASE pc[q] = "scope" /\ WaitsFor(q) # {}
        <3> DEFINE p == ScopeOf(op[q])
        <3>1. scope[p] # None
            BY <2>7 DEF WaitsFor
        <3>2. p \in Parents
            BY <2>7 DEF ParentInv, OpInv
        <3> HIDE DEF p
        <3>3. scope[p] \in Requests /\ pc[scope[p]] \notin {"idle", "scope"}
            BY <3>1, <3>2, <2>t DEF ParentInv, LockInv
        <3> QED BY <3>3, <2>4
    <2> QED BY <2>5, <2>6, <2>7
<1> QED BY <1>1, ParentInvariant, PTL

----------------------------------------------------------------------------
(* Parents other than the one that is rolled up                             *)

\* The operation o goes by what is committed, and clients use it.
Fresh(o) ==
    /\ o.kind \in {"update", "touch", "delete"} => o.task \in Tasks /\ com[o.task].parent = o.parent
    /\ o.kind \in {"update", "touch"} /\ o.dest = None => o.to # None
    /\ o.kind = "drop" => o.task = None
    /\ o.kind = "edit" => "edit" \in Ops
    /\ o.dest # None => "reparent" \in Ops
    /\ o.kind # "create" => ~(Ops \subseteq {"create"})

\* A request starts with a fresh read, runs a statement, fails, or nothing happens.
LEMMA NextCases ==
    ASSUME ParentInv, [Next]_vars
    PROVE  \/ \E q \in Requests, o \in Operations, l \in Labels \ {"idle"} :
                  Start(q, o, l) /\ Fresh(o) /\ (o.kind = "drop" => l = "write")
           \/ \E q \in Requests : Step(q) \/ rollback(q)
           \/ UNCHANGED vars
<1> DEFINE Starts(q) ==
            \E o \in Operations, l \in Labels \ {"idle"} :
                Start(q, o, l) /\ Fresh(o) /\ (o.kind = "drop" => l = "write")
<1>0. \A t \in Tasks : com[t].row = "live" => com[t].parent \in Parents
    BY DEF ParentInv, OpInv
<1>1. ASSUME NEW q \in Requests, NEW t \in Tasks, NEW p \in Parents, NEW s \in TaskInputs, createTask(q, t, p, s)
      PROVE  Starts(q)
    <2> DEFINE o == [NoOp EXCEPT !.kind = "create", !.task = t, !.parent = p, !.to = s]
    <2>1. o \in Operations /\ o.kind = "create" /\ o.dest = None
        BY InputsAssumption DEF Operations, NoOp, ScheduleStates
    <2>2. Start(q, o, "scope")
        BY <1>1 DEF createTask
    <2> HIDE DEF o
    <2>3. Fresh(o)
        BY <2>1 DEF Fresh
    <2> QED BY <2>1, <2>2, <2>3 DEF Labels
<1>2. ASSUME NEW q \in Requests, NEW t \in Tasks, NEW s \in TaskInputs \cup {None}, NEW d \in Parents \cup {None},
             updateTask(q, t, s, d)
      PROVE  Starts(q)
    <2> DEFINE k == IF s \in {None, com[t].state} THEN "touch" ELSE "update"
               o == [kind |-> k, task |-> t, parent |-> com[t].parent, dest |-> d, to |-> s]
               l == IF d \notin {None, com[t].parent} THEN "scope" ELSE "check"
    <2>1. /\ Start(q, o, l) /\ com[t].row = "live" /\ (s # None \/ d # None)
          /\ IF d = None THEN "update" \in Ops ELSE "reparent" \in Ops
        BY <1>2 DEF updateTask
    <2>2. /\ o \in Operations /\ o.kind \in {"update", "touch"} /\ o.task = t /\ o.parent = com[t].parent
          /\ o.dest = d /\ o.to = s
        BY <1>0, <2>1, InputsAssumption DEF Operations, ScheduleStates
    <2>3. l \in {"scope", "check"}
        OBVIOUS
    <2> HIDE DEF k, o, l
    <2>4. Fresh(o)
        BY <2>1, <2>2 DEF Fresh
    <2> QED BY <2>1, <2>2, <2>3, <2>4 DEF Labels
<1>3. ASSUME NEW q \in Requests, NEW t \in Tasks, deleteTask(q, t) PROVE Starts(q)
    <2> DEFINE o == [NoOp EXCEPT !.kind = "delete", !.task = t, !.parent = com[t].parent]
    <2>1. Start(q, o, "write") /\ com[t].row = "live" /\ "delete" \in Ops
        BY <1>3 DEF deleteTask
    <2>2. o \in Operations /\ o.kind = "delete" /\ o.task = t /\ o.parent = com[t].parent /\ o.dest = None
        BY <1>0, <2>1 DEF Operations, NoOp
    <2> HIDE DEF o
    <2>3. Fresh(o)
        BY <2>1, <2>2 DEF Fresh
    <2> QED BY <2>1, <2>2, <2>3 DEF Labels
<1>4. ASSUME NEW q \in Requests, NEW p \in Parents, NEW s \in EditInputs, editParent(q, p, s) PROVE Starts(q)
    <2> DEFINE o == [NoOp EXCEPT !.kind = "edit", !.parent = p, !.to = s]
    <2>1. Start(q, o, "write") /\ "edit" \in Ops
        BY <1>4 DEF editParent
    <2>2. o \in Operations /\ o.kind = "edit" /\ o.dest = None
        BY InputsAssumption DEF Operations, NoOp
    <2> HIDE DEF o
    <2>3. Fresh(o)
        BY <2>1, <2>2 DEF Fresh
    <2> QED BY <2>1, <2>2, <2>3 DEF Labels
<1>5. ASSUME NEW q \in Requests, NEW p \in Parents, deleteParent(q, p) PROVE Starts(q)
    <2> DEFINE o == [NoOp EXCEPT !.kind = "drop", !.parent = p]
    <2>1. Start(q, o, "write") /\ "drop" \in Ops
        BY <1>5 DEF deleteParent
    <2>2. o \in Operations /\ o.kind = "drop" /\ o.dest = None /\ o.task = None
        BY DEF Operations, NoOp
    <2> HIDE DEF o
    <2>3. Fresh(o)
        BY <2>1, <2>2 DEF Fresh
    <2> QED BY <2>1, <2>2, <2>3 DEF Labels
<1> HIDE DEF Starts
<1>6. (\E q \in Requests : Starts(q)) \/ (\E q \in Requests : Step(q) \/ rollback(q)) \/ UNCHANGED vars
    BY <1>1, <1>2, <1>3, <1>4, <1>5 DEF Next, quiet
<1> QED BY <1>6 DEF Starts

\* What q's transaction has written of its own rows: a task stays with the parent
\* that was read unless it is moved, and a deleted parent is deleted.
OwnRows(q) ==
    /\ op[q].kind \in {"update", "touch", "delete"} /\ op[q].dest = None /\ lock[op[q].task] = q =>
           cur[op[q].task].parent = op[q].parent
    /\ op[q].kind = "drop" =>
           pc[q] \in {"write", "commit"} /\ (pc[q] = "commit" => cur[op[q].parent].row = "deleted" /\ lock[op[q].parent] = q)

\* What a request that overlaps none it clashes with has read is so still.
ReadsHold(q) == Active(q) /\ q \notin overlapped => Fresh(op[q]) /\ OwnRows(q)

SourceInv == \A q \in Requests : ReadsHold(q)

\* A step of q ends its transaction, or goes on with it and touches no table but
\* the rows it writes.
LEMMA StepEffect ==
    ASSUME ParentInv, NEW q \in Requests, Step(q) \/ rollback(q)
    PROVE  /\ pc[q] # "idle"
           /\ \/ End(q) /\ (com' = com \/ (commit(q) /\ com' = View(q)))
              \/ /\ UNCHANGED <<com, op, overlapped>>
                 /\ pc' = [pc EXCEPT ![q] = pc'[q]]
                 /\ Fresh(op[q]) /\ OwnRows(q) => OwnRows(q)'
<1>1. CASE commit(q)
    BY <1>1 DEF commit
<1>2. CASE taskGone(q) \/ updateGone(q) \/ rollback(q)
    BY <1>2 DEF taskGone, updateGone, rollback, Abort
<1> DEFINE GoesOn == /\ pc[q] # "idle" /\ UNCHANGED <<com, op, overlapped>>
                     /\ pc' = [pc EXCEPT ![q] = pc'[q]]
                     /\ Fresh(op[q]) /\ OwnRows(q) => OwnRows(q)'
<1>t. /\ pc \in [Requests -> Labels] /\ lock \in [Rows -> Requests \cup {None}]
      /\ cur \in [Rows -> Row] /\ com \in [Rows -> Row] /\ op \in [Requests -> Operations]
    BY DEF ParentInv, TypeOK, Labels
<1>a. pc[q] # "idle" =>
          /\ op[q].parent \in Parents /\ op[q].parent \in Rows /\ op[q].parent \notin Tasks
          /\ op[q].kind \in {"create", "update", "touch", "delete"} => op[q].task \in Tasks /\ op[q].task \in Rows
    BY RowsAssumption DEF ParentInv, OpInv, Rows
<1>b. \A x \in Rows : lock[x] = None => cur[x] = com[x]
    BY DEF ParentInv, LockInv
<1>3. CASE lockRankScope(q) \/ taskCheck(q) \/ taskGoneTouch(q) \/ taskStateCounts(q) \/ readParent(q)
    <2>1. /\ pc[q] \in {"scope", "check", "count", "parent"} /\ UNCHANGED <<com, cur, lock, op, overlapped>>
          /\ \E l : Goto(q, l)
        BY <1>3 DEF lockRankScope, taskCheck, taskGoneTouch, taskStateCounts, readParent, tables
    <2>2. pc' = [pc EXCEPT ![q] = pc'[q]]
        BY <1>t, <2>1 DEF Goto
    <2>3. OwnRows(q) => OwnRows(q)'
        BY <2>1 DEF OwnRows
    <2> QED BY <2>1, <2>2, <2>3
<1>4. ASSUME NEW x \in Rows, NEW r, NEW l, Write(q, x, r), Goto(q, l), pc[q] # "idle",
             Fresh(op[q]) /\ OwnRows(q) => OwnRows(q)'
      PROVE  GoesOn
    BY <1>4, <1>t DEF Write, Goto
<1>5. CASE insertTask(q) \/ editRow(q)
    <2>1. op[q].kind \in {"create", "edit"} /\ op' = op /\ pc[q] = "write"
        BY <1>5 DEF insertTask, editRow, Write
    <2>2. OwnRows(q)'
        BY <2>1 DEF OwnRows
    <2> QED BY <1>4, <1>5, <1>a, <2>1, <2>2 DEF insertTask, editRow
<1>6. CASE updateRow(q) \/ deleteRow(q)
    <2> DEFINE t == op[q].task
    <2>1. PICK r \in Row : /\ Write(q, t, r) /\ \E l : Goto(q, l)
                           /\ op[q].kind \in {"update", "touch", "delete"} /\ pc[q] = "write" /\ t \in Tasks /\ t \in Rows
                           /\ op[q].dest = None => r.parent = cur[t].parent
        <3>1. op[q].kind \in {"update", "touch", "delete"} /\ pc[q] = "write"
            BY <1>6 DEF updateRow, deleteRow
        <3>2. t \in Tasks /\ t \in Rows /\ cur[t] \in Row /\ op[q] \in Operations
            BY <1>a, <1>t, <3>1
        <3>3. CASE updateRow(q)
            <4> DEFINE r == [cur[t] EXCEPT !.state = IF op[q].to = None THEN @ ELSE op[q].to,
                                           !.parent = IF op[q].dest = None THEN @ ELSE op[q].dest]
            <4>1. Write(q, t, r) /\ Goto(q, AfterUpdate(q))
                BY <3>3 DEF updateRow
            <4>2. r \in Row /\ (op[q].dest = None => r.parent = cur[t].parent)
                BY <3>2 DEF Row, Operations
            <4> HIDE DEF r, t
            <4> QED BY <3>1, <3>2, <4>1, <4>2
        <3>4. CASE deleteRow(q)
            <4> DEFINE r == [cur[t] EXCEPT !.row = "deleted"]
            <4>1. Write(q, t, r) /\ Goto(q, "count")
                BY <3>4 DEF deleteRow
            <4>2. r \in Row /\ r.parent = cur[t].parent
                BY <3>2 DEF Row
            <4> HIDE DEF r, t
            <4> QED BY <3>1, <3>2, <4>1, <4>2
        <3> QED BY <1>6, <3>3, <3>4
    <2>2. cur'[t] = r /\ op' = op /\ lock[t] \in {None, q}
        BY <1>t, <2>1 DEF Write
    <2>3. ASSUME Fresh(op[q]), OwnRows(q), op[q].dest = None PROVE cur'[t].parent = op[q].parent
        <3>1. lock[t] = None => cur[t].parent = op[q].parent
            BY <1>b, <2>1, <2>3 DEF Fresh
        <3>2. lock[t] = q => cur[t].parent = op[q].parent
            BY <2>1, <2>3 DEF OwnRows
        <3> QED BY <2>1, <2>2, <2>3, <3>1, <3>2
    <2>4. Fresh(op[q]) /\ OwnRows(q) => OwnRows(q)'
        BY <2>1, <2>2, <2>3 DEF OwnRows
    <2> QED BY <1>4, <2>1, <2>4
<1>7. CASE dropRow(q)
    <2> DEFINE p == op[q].parent  r == [cur[p] EXCEPT !.row = "deleted"]
    <2>1. Write(q, p, r) /\ Goto(q, "commit") /\ op[q].kind = "drop" /\ pc[q] = "write" /\ p \in Rows
        BY <1>7, <1>a DEF dropRow
    <2>2. r.row = "deleted"
        BY <1>t, <2>1 DEF Row
    <2> HIDE DEF r
    <2>3. cur'[p] = r /\ lock'[p] = q /\ op' = op /\ pc'[q] = "commit"
        BY <1>t, <2>1 DEF Write, Goto
    <2>4. OwnRows(q)'
        BY <2>1, <2>2, <2>3 DEF OwnRows
    <2> QED BY <1>4, <2>1, <2>4
<1>8. CASE updateParent(q)
    <2> DEFINE p == op[q].parent  r == [cur[p] EXCEPT !.state = derived[q]]
    <2>1. Write(q, p, r) /\ Goto(q, "commit") /\ pc[q] = "roll" /\ p \in Rows /\ p \notin Tasks
        BY <1>8, <1>a DEF updateParent
    <2> HIDE DEF r
    <2>2. op' = op /\ \A t \in Tasks : cur'[t] = cur[t] /\ lock'[t] = lock[t]
        BY <1>t, <2>1 DEF Write, Rows
    <2>3. OwnRows(q) => OwnRows(q)'
        BY <1>a, <2>1, <2>2 DEF OwnRows
    <2> QED BY <1>4, <2>1, <2>3
<1> QED BY <1>1, <1>2, <1>3, <1>5, <1>6, <1>7, <1>8 DEF Step

\* What a lone request has read stays so until another one it clashes with starts.
LEMMA SourceStep == ParentInv /\ SourceInv /\ [Next]_vars => SourceInv'
<1> SUFFICES ASSUME ParentInv, SourceInv, [Next]_vars PROVE SourceInv'
    OBVIOUS
<1>t. /\ pc \in [Requests -> Labels] /\ op \in [Requests -> Operations] /\ OpInv'
    BY NextInv DEF ParentInv, TypeOK, Labels
<1>1. ASSUME NEW q \in Requests, NEW o \in Operations, NEW l \in Labels \ {"idle"},
             Start(q, o, l), Fresh(o), o.kind = "drop" => l = "write"
      PROVE  SourceInv'
    <2>1. /\ pc[q] = "idle" /\ pc' = [pc EXCEPT ![q] = l] /\ op' = [op EXCEPT ![q] = o]
          /\ overlapped \subseteq overlapped' /\ UNCHANGED <<com, cur, lock>>
        BY <1>1 DEF Start, tables
    <2>2. pc'[q] = l /\ op'[q] = o /\ \A r \in Requests : r # q => pc'[r] = pc[r] /\ op'[r] = op[r]
        BY <1>t, <2>1
    <2>3. \A x \in Rows : lock[x] # q
        BY <2>1, RowsAssumption DEF ParentInv, LockInv, Held
    <2>4. ReadsHold(q)'
        <3>1. o.kind \in {"update", "touch", "delete"} => o.task \in Rows
            BY <1>1 DEF Fresh, Rows
        <3> QED BY <1>1, <2>1, <2>2, <2>3, <3>1 DEF ReadsHold, Fresh, OwnRows
    <2>5. \A r \in Requests : r # q => ReadsHold(r)'
        BY <2>1, <2>2 DEF SourceInv, ReadsHold, Fresh, OwnRows
    <2> QED BY <2>4, <2>5 DEF SourceInv
<1>2. ASSUME NEW q \in Requests, Step(q) \/ rollback(q) PROVE SourceInv'
    <2>1. /\ pc[q] # "idle" /\ \A r \in Requests : r # q => pc'[r] = pc[r] /\ op'[r] = op[r]
          /\ \A r \in Requests : r # q /\ r \notin overlapped' => r \notin overlapped
        BY <1>2, <1>t, StepEffect DEF End, Goto
    <2>2. ASSUME NEW r \in Requests, r # q PROVE ReadsHold(r)'
        <3>1. Active(r) /\ r \notin overlapped => op[r].kind = "create" /\ Fresh(op[r])
            BY <2>1, <2>2 DEF ParentInv, LoneInv, Clash, SourceInv, ReadsHold
        <3> QED BY <2>1, <2>2, <3>1 DEF ReadsHold, Fresh, OwnRows
    <2>3. ReadsHold(q)'
        <3>1. CASE End(q)
            BY <1>t, <3>1 DEF End, Goto, ReadsHold
        <3>2. CASE ~End(q)
            <4>1. UNCHANGED <<com, op, overlapped>> /\ (Fresh(op[q]) /\ OwnRows(q) => OwnRows(q)')
                BY <1>2, <3>2, StepEffect
            <4> QED BY <2>1, <4>1 DEF SourceInv, ReadsHold, Fresh
        <3> QED BY <3>1, <3>2
    <2> QED BY <2>2, <2>3 DEF SourceInv
<1>3. CASE UNCHANGED vars
    BY <1>3 DEF vars, tables, SourceInv, ReadsHold, Fresh, OwnRows
<1> QED BY <1>1, <1>2, <1>3, NextCases

\* A commit that overlaps no clashing request, and is no edit of a parent and no move
\* of a task, loses no parent: those that were in their derived state are so after it.
LoneWriteKeepsParents ==
    [][\A q \in Requests : commit(q) /\ q \notin overlapped /\ op[q].kind # "edit" /\ op[q].dest = None =>
          \A p \in Parents : RolledUp(com, p) => RolledUp(com', p)]_vars

\* The commit writes its own parent, and tasks that are that parent's before and after.
LEMMA LoneCommit ==
    ASSUME ParentInv, SourceInv, NEW q \in Requests, commit(q), q \notin overlapped,
           op[q].kind # "edit", op[q].dest = None, NEW p \in Parents, RolledUp(com, p)
    PROVE  RolledUp(com', p)
<1>1. pc[q] = "commit" /\ com' = View(q) /\ \A x \in Rows : com'[x] = IF lock[x] = q THEN cur[x] ELSE com[x]
    BY DEF commit, View
<1>2. /\ Fresh(op[q]) /\ OwnRows(q) /\ op[q].kind # "none" /\ p \in Rows /\ p \notin Tasks
      /\ \A x \in Rows : lock[x] = q => x \in {op[q].task, op[q].parent}
      /\ op[q] \in Operations /\ op[q].parent \in Parents
    BY <1>1, RowsAssumption DEF SourceInv, ReadsHold, ParentInv, OpInv, CreateInv, TypeOK, Rows
<1>3. op[q].kind \in {"create", "update", "touch", "delete", "drop"}
    BY <1>2 DEF Operations
<1>4. CASE p = op[q].parent
    <2>1. CASE op[q].kind = "drop"
        BY <1>1, <1>2, <1>4, <2>1 DEF OwnRows, RolledUp
    <2>2. CASE op[q].kind # "drop"
        <3>1. Reconciles(op[q])
            BY <1>2, <1>3, <2>2 DEF Fresh, Reconciles
        <3> QED BY <1>1, <1>4, <3>1 DEF ParentInv, LoneInv
    <2> QED BY <2>1, <2>2
<1>5. CASE p # op[q].parent
    <2>1. op[q].task \in Tasks \cup {None}
        BY <1>2 DEF Operations
    <2>2. com'[p] = com[p]
        BY <1>1, <1>2, <1>5, <2>1, RowsAssumption
    <2>3. ASSUME NEW t \in Tasks, com'[t] # com[t]
          PROVE  t \notin LiveTasks(com, p) /\ t \notin LiveTasks(com', p)
        <3>1. t \in Rows /\ t # op[q].parent /\ t # None
            BY <1>2, RowsAssumption DEF Rows
        <3>2. lock[t] = q /\ com'[t] = cur[t] /\ t = op[q].task
            BY <1>1, <1>2, <2>3, <3>1
        <3>3. CASE op[q].kind = "create"
            <4>1. com[t].row = "absent" /\ cur[t].parent = op[q].parent
                BY <1>1, <3>2, <3>3 DEF ParentInv, CreateInv
            <4> QED BY <1>5, <3>2, <4>1 DEF LiveTasks
        <3>4. CASE op[q].kind # "create"
            <4>1. com[t].parent = op[q].parent /\ cur[t].parent = op[q].parent
                BY <1>2, <1>3, <3>1, <3>2, <3>4 DEF Fresh, OwnRows
            <4> QED BY <1>5, <3>2, <4>1 DEF LiveTasks
        <3> QED BY <3>3, <3>4
    <2>4. RolledUp(com, p) = RolledUp(com', p)
        BY <2>2, <2>3, SameRollUp
    <2> QED BY <2>4
<1> QED BY <1>4, <1>5

\* The reads hold in every reachable state.
LEMMA SourceInvariant == Spec => [](ParentInv /\ SourceInv)
<1>1. Init => SourceInv
    BY DEF Init, SourceInv, ReadsHold
<1> QED BY <1>1, SourceStep, ParentInvariant, PTL DEF Spec

\* Creates, updates and deletes of tasks and deletes of parents that overlap no
\* clashing request leave every parent that was in its derived state there.
THEOREM LoneWritesKeepParents == Spec => LoneWriteKeepsParents
<1>1. ParentInv /\ SourceInv =>
          \A q \in Requests : commit(q) /\ q \notin overlapped /\ op[q].kind # "edit" /\ op[q].dest = None =>
              \A p \in Parents : RolledUp(com, p) => RolledUp(com', p)
    BY LoneCommit
<1>2. ParentInv /\ SourceInv /\ [Next]_vars =>
          [\A q \in Requests : commit(q) /\ q \notin overlapped /\ op[q].kind # "edit" /\ op[q].dest = None =>
              \A p \in Parents : RolledUp(com, p) => RolledUp(com', p)]_vars
    BY <1>1
<1> QED BY SourceInvariant, <1>2, PTL DEF Spec, LoneWriteKeepsParents

\* No two requests under way clash, none edits a parent or moves a task.
CalmInv ==
    /\ overlapped = {}
    /\ \A q \in Requests : Active(q) => op[q].kind # "edit" /\ op[q].dest = None
    /\ \A p \in Parents : RolledUp(com, p)

\* Creates of tasks, any number at a time, keep every parent in its derived state, and
\* so do creates, updates and deletes one at a time: what loses a parent is an overlap
\* of other task writes, an edit by hand, or a move of a task.
THEOREM ParentsStayDerived ==
    ASSUME "edit" \notin Ops, "reparent" \notin Ops,
           Ops \subseteq {"create"} \/ \A q, r \in Requests : q = r
    PROVE  Spec => []ParentIsDerived
<1>1. Init => CalmInv
    <2> SUFFICES ASSUME Init PROVE CalmInv
        OBVIOUS
    <2>1. \A t \in Tasks : com[t].row = "absent"
        BY RowsAssumption DEF Init, Rows
    <2>2. \A p \in Parents : LiveTasks(com, p) = {}
        BY <2>1 DEF LiveTasks
    <2>3. \A p \in Parents : RolledUp(com, p)
        BY <2>2 DEF RolledUp
    <2>4. overlapped = {} /\ \A q \in Requests : ~Active(q)
        BY DEF Init
    <2> QED BY <2>3, <2>4 DEF CalmInv
<1>2. ParentInv /\ SourceInv /\ CalmInv /\ [Next]_vars => CalmInv'
    <2> SUFFICES ASSUME ParentInv, SourceInv, CalmInv, [Next]_vars PROVE CalmInv'
        OBVIOUS
    <2>t. pc \in [Requests -> Labels] /\ op \in [Requests -> Operations]
        BY DEF ParentInv, TypeOK, Labels
    <2>1. ASSUME NEW q \in Requests, NEW o \in Operations, NEW l \in Labels \ {"idle"}, Start(q, o, l), Fresh(o)
          PROVE  CalmInv'
        <3>1. o.kind # "edit" /\ o.dest = None
            BY <2>1 DEF Fresh
        <3>2. {r \in Requests : Active(r) /\ Clash(o, op[r])} = {}
            <4>1. CASE Ops \subseteq {"create"}
                <5>1. \A r \in Requests : Active(r) => op[r].kind = "create"
                    BY <4>1 DEF SourceInv, ReadsHold, CalmInv, Fresh
                <5>2. o.kind = "create"
                    BY <2>1, <4>1 DEF Fresh
                <5> QED BY <5>1, <5>2 DEF Clash
            <4>2. CASE \A r, u \in Requests : r = u
                BY <2>1, <4>2 DEF Start
            <4> QED BY <4>1, <4>2
        <3>3. overlapped' = overlapped
            BY <2>1, <3>2 DEF Start
        <3>4. pc' = [pc EXCEPT ![q] = l] /\ op' = [op EXCEPT ![q] = o] /\ com' = com
            BY <2>1 DEF Start, tables
        <3> QED BY <2>t, <3>1, <3>3, <3>4 DEF CalmInv, RolledUp, Derived, LiveTasks
    <2>2. ASSUME NEW q \in Requests, Step(q) \/ rollback(q) PROVE CalmInv'
        <3>1. overlapped' = {}
            BY <2>2, StepEffect DEF CalmInv, End
        <3>2. \A r \in Requests : Active(r)' => Active(r) /\ op'[r] = op[r]
            BY <2>2, <2>t, StepEffect DEF End, Goto
        <3>3. \A p \in Parents : RolledUp(com', p)
            <4>1. CASE com' = com
                BY <4>1 DEF CalmInv, RolledUp, Derived, LiveTasks
            <4>2. CASE com' # com
                <5>1. commit(q) /\ pc[q] # "idle"
                    BY <2>2, <4>2, StepEffect
                <5> QED BY <5>1, LoneCommit DEF CalmInv
            <4> QED BY <4>1, <4>2
        <3> QED BY <3>1, <3>2, <3>3 DEF CalmInv
    <2>3. CASE UNCHANGED vars
        BY <2>3 DEF vars, tables, CalmInv, RolledUp, Derived, LiveTasks
    <2> QED BY <2>1, <2>2, <2>3, NextCases
<1>3. CalmInv => ParentIsDerived
    BY DEF CalmInv, ParentIsDerived
<1> QED BY <1>1, <1>2, <1>3, SourceInvariant, PTL DEF Spec

=============================================================================
