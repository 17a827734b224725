------------------------ MODULE IterationScopeProofs ------------------------
(***************************************************************************)
(* What holds of IterationScope for every set of Stories, tasks,           *)
(* iterations and requests, and every mix of operations.                   *)
(***************************************************************************)
EXTENDS IterationScope, TLAPS

----------------------------------------------------------------------------
(* Operations and the reads that start them                                 *)

\* The operation goes by the rows that are committed now.
Fresh(o) ==
    \A s \in o.items : o.kind \in Moves => o.src[s] = com[s].iter /\ (o.match => o.seen = com[s])

\* What every operation that can start is: well-typed, well-formed, and read now.
Startable(o, l) ==
    /\ o \in Operations /\ OpOK(o, l) /\ Fresh(o)
    /\ l \in {"lock", "write", "insert", "gate", "set", "remove", "pick"}
    /\ l = "write" => Moved(o) = {}
    /\ o.kind = "task" => com[o.task].row = "absent" /\ \A r \in Requests : op[r].task # o.task
    /\ FieldsOK(o) /\ ChecksOK(o)
    /\ l = "pick" => o.rest = Unfinished(com, o.iter)
    /\ l # "pick" /\ RollsOver(o) => \E r \in Requests : pc[r] = "pick"

\* The fields of the empty operation.
LEMMA NoOpFields ==
    /\ NoOp \in Operations
    /\ NoOp.kind = "none" /\ NoOp.items = {} /\ NoOp.src = [s \in Stories |-> None]
    /\ NoOp.to = Keep /\ NoOp.state = Keep /\ NoOp.match = FALSE /\ NoOp.seen = None
    /\ NoOp.checks = {} /\ NoOp.task = None /\ NoOp.iter = None /\ NoOp.rest = {}
BY DEF NoOp, Operations

\* The fields of an operation.
LEMMA OperationFields ==
    ASSUME NEW o \in Operations
    PROVE  /\ o.items \in SUBSET Stories /\ o.src \in [Stories -> Iterations \cup {None}]
           /\ o.to \in Iterations \cup {None, Keep}
           /\ o.state \in StoryStates \cup IterationStates \cup {Keep} /\ o.match \in BOOLEAN
           /\ o.checks \in SUBSET Iterations /\ o.task \in Tasks \cup {None}
           /\ o.iter \in Iterations \cup {None} /\ o.rest \in SUBSET Stories
BY DEF Operations

\* An edit of Story s, as its fields.
LEMMA EditFields ==
    ASSUME TypeOK, NEW s \in Stories, NEW i \in Iterations \cup {None, Keep},
           NEW a \in StoryStates \cup {Keep}, NEW m \in BOOLEAN
    PROVE  LET o == Edit(s, i, a, m) IN
           /\ o \in Operations /\ o.kind = "edit" /\ o.items = {s} /\ o.src[s] = com[s].iter
           /\ o.to = i /\ o.state = a /\ o.match = m /\ (m => o.seen = com[s])
           /\ o.task = None /\ o.iter = None /\ o.rest = {} /\ ChecksOK(o)
<1>1. com[s] \in Row
      BY DEF TypeOK, Rows, Items
<1>2. com[s].iter \in Iterations \cup {None}
      BY <1>1 DEF Row
<1>3. Affected({s}, i) \in SUBSET Iterations
      BY <1>2 DEF Affected
<1> HIDE DEF Affected
<1> DEFINE sn == IF m THEN com[s] ELSE None
           moves == i # Keep /\ i # com[s].iter
           accepts == a = "accepted" /\ com[s].state # "accepted"
           ck == IF moves \/ accepts THEN Affected({s}, i) ELSE {}
           sc == [NoOp.src EXCEPT ![s] = com[s].iter]
<1>4. sn \in Row \cup {None} /\ ck \in SUBSET Iterations
      BY <1>1, <1>3
<1>5. sc \in [Stories -> Iterations \cup {None}] /\ sc[s] = com[s].iter
      BY <1>2, NoOpFields
<1>6. m => sn = com[s]
      OBVIOUS
<1>9. moves \/ accepts => {com[s].iter, IF i = Keep THEN com[s].iter ELSE i} \ {None} \subseteq ck
      BY DEF Affected
<1>7. Edit(s, i, a, m) = [NoOp EXCEPT !.kind = "edit", !.items = {s}, !.src = sc, !.to = i,
                                      !.state = a, !.match = m, !.seen = sn, !.checks = ck]
      BY DEF Edit, NoOp
<1> HIDE DEF sn, ck, sc
<1>8. Edit(s, i, a, m) =
          [kind |-> "edit", items |-> {s}, src |-> sc, to |-> i, state |-> a, match |-> m, seen |-> sn,
           checks |-> ck, task |-> None, iter |-> None, rest |-> {}]
      BY <1>7 DEF NoOp
<1>10. ChecksOK(Edit(s, i, a, m))
      BY <1>8, <1>9 DEF ChecksOK
<1> QED BY <1>4, <1>5, <1>6, <1>8, <1>10 DEF Operations, StoryStates, IterationStates

\* An edit, also one of a rollover, can start at its first statement.
LEMMA EditStarts ==
    ASSUME NEW o \in Operations, NEW s \in Stories, o.kind = "edit", o.items = {s},
           o.src[s] = com[s].iter, o.match => o.seen = com[s], o.rest # {} => o.to # Keep /\ ~o.match,
           o.task = None, o.iter # None => o.to # Keep /\ (\E r \in Requests : pc[r] = "pick"), ChecksOK(o)
    PROVE  Startable(o, FirstStep(o))
<1>1. Fresh(o) /\ FieldsOK(o)
      BY DEF Fresh, FieldsOK
<1>4. RollsOver(o) => \E r \in Requests : pc[r] = "pick"
      BY DEF RollsOver
<1>2. ASSUME Moved(o) = {} PROVE Startable(o, "write")
      BY <1>1, <1>2, <1>4 DEF Startable, OpOK, Moves
<1>3. ASSUME Moved(o) # {} PROVE Startable(o, "lock")
      BY <1>1, <1>3, <1>4 DEF Startable, OpOK, Moves
<1> QED BY <1>2, <1>3 DEF FirstStep

\* Every handler's read leaves it an operation that can start.
LEMMA EditCanStart ==
    ASSUME TypeOK, NEW q \in Requests, NEW s \in Stories, NEW p \in PatchInputs, NEW m \in Matches,
           updateWorkItem(q, s, p[1], p[2], m)
    PROVE  \E o, l : Start(q, o, l) /\ Startable(o, l)
<1> DEFINE i == p[1]  a == p[2]  o == Edit(s, i, a, m)
<1>1. i \in Iterations \cup {None, Keep} /\ a \in StoryStates \cup {Keep} /\ m \in BOOLEAN
      BY ScopeOpsAssumption DEF PatchInputs
<1>2. Start(q, o, FirstStep(o))
      BY DEF updateWorkItem
<1> HIDE DEF i, a
<1>3. /\ o \in Operations /\ o.kind = "edit" /\ o.items = {s} /\ o.src[s] = com[s].iter
      /\ o.match = m /\ (m => o.seen = com[s])
      BY <1>1, EditFields
<1>4. o.rest = {} /\ o.task = None /\ o.iter = None /\ ChecksOK(o)
      BY <1>1, EditFields
<1> HIDE DEF o
<1> QED BY <1>2, <1>3, <1>4, EditStarts

\* A rollover's next edit, of one of the Stories that remain, can start at its
\* first statement.
LEMMA PickCanStart ==
    ASSUME TypeOK, OpInv, NEW q \in Requests, pickUnfinished(q)
    PROVE  \E o : /\ op' = [op EXCEPT ![q] = o] /\ Goto(q, FirstStep(o))
                  /\ Startable(o, FirstStep(o)) /\ o.kind = "edit" /\ ~o.match
                  /\ o.iter = op[q].iter /\ o.to = op[q].to
                  /\ \E s \in op[q].rest : o.items = {s} /\ o.rest = op[q].rest \ {s}
<1>0. /\ op[q].to \in Iterations \cup {None} /\ op[q].to # Keep
      /\ op[q].iter \in Iterations \cup {None} /\ op[q].rest \in SUBSET Stories /\ pc[q] = "pick"
      BY OperationFields DEF TypeOK, OpInv, OpOK, pickUnfinished
<1>1. PICK s \in op[q].rest, m \in BOOLEAN :
         LET o == [Edit(s, op[q].to, Keep, m) EXCEPT !.iter = op[q].iter, !.rest = op[q].rest \ {s}] IN
         ~m /\ op' = [op EXCEPT ![q] = o] /\ Goto(q, FirstStep(o))
      BY DEF pickUnfinished
<1> DEFINE d == op[q].to  j == op[q].iter  R == op[q].rest \ {s}
           e == Edit(s, d, Keep, m)
           o == [e EXCEPT !.iter = j, !.rest = R]
<1>2. s \in Stories /\ R \in SUBSET Stories /\ d \in Iterations \cup {None, Keep} /\ Keep \in StoryStates \cup {Keep}
      BY <1>0
<1>4. op' = [op EXCEPT ![q] = o] /\ Goto(q, FirstStep(o)) /\ d # Keep /\ ~m
      BY <1>0, <1>1
<1> HIDE DEF d
<1>3. /\ e \in Operations /\ e.kind = "edit" /\ e.items = {s} /\ e.src[s] = com[s].iter
      /\ e.match = m /\ e.to = d /\ e.task = None /\ ChecksOK(e)
      BY <1>2, EditFields
<1> HIDE DEF e
<1>5. /\ o \in Operations /\ o.kind = "edit" /\ o.items = {s} /\ o.src[s] = com[s].iter
      /\ o.match = m /\ o.to = d /\ o.task = None /\ o.iter = j /\ o.rest = R
      /\ o.state = e.state /\ o.checks = e.checks
      BY <1>0, <1>2, <1>3 DEF Operations
<1>6. ChecksOK(o)
      BY <1>3, <1>5 DEF ChecksOK
<1> HIDE DEF o
<1>7. Startable(o, FirstStep(o))
      BY <1>0, <1>2, <1>4, <1>5, <1>6, EditStarts
<1> QED BY <1>4, <1>5, <1>7 DEF d

\* A bulk assignment can start at its first statement.
LEMMA BulkCanStart ==
    ASSUME TypeOK, NEW q \in Requests, NEW S \in SUBSET Stories, S # {}, NEW i \in Iterations \cup {None},
           bulkAssignIteration(q, S, i)
    PROVE  \E o, l : Start(q, o, l) /\ Startable(o, l)
<1> DEFINE sc == [s \in Stories |-> IF s \in S THEN com[s].iter ELSE None]
           o == [NoOp EXCEPT !.kind = "bulk", !.items = S, !.to = i, !.checks = Affected(S, i), !.src = sc]
<1>1. Start(q, o, FirstStep(o))
      BY DEF bulkAssignIteration
<1>2. \A s \in S : com[s].iter \in Iterations \cup {None}
      BY DEF TypeOK, Row, Rows, Items
<1>3. Affected(S, i) \in SUBSET Iterations
      BY <1>2 DEF Affected
<1>4. sc \in [Stories -> Iterations \cup {None}] /\ \A s \in S : sc[s] = com[s].iter
      BY <1>2
<1> HIDE DEF sc, Affected
<1>5. /\ o \in Operations /\ o.kind = "bulk" /\ o.items = S /\ o.to = i /\ o.src = sc
      /\ o.match = FALSE /\ o.rest = {} /\ o.task = None /\ o.iter = None /\ o.state = Keep
      /\ o.checks = Affected(S, i)
      BY <1>3, <1>4 DEF NoOp, Operations
<1> HIDE DEF o
<1>6. Fresh(o) /\ ~RollsOver(o)
      BY <1>4, <1>5 DEF Fresh, RollsOver
<1>9. FieldsOK(o) /\ ChecksOK(o)
      BY <1>5, KeepAssumption, ScopeRowsAssumption DEF FieldsOK, ChecksOK, Affected, StoryStates
<1>7. ASSUME Moved(o) = {} PROVE Startable(o, "write")
      BY <1>5, <1>6, <1>7, <1>9 DEF Startable, OpOK, Moves
<1>8. ASSUME Moved(o) # {} PROVE Startable(o, "lock")
      BY <1>5, <1>6, <1>8, <1>9 DEF Startable, OpOK, Moves
<1> QED BY <1>1, <1>7, <1>8 DEF FirstStep

\* A carryover can start, and has a Story to move.
LEMMA CarryCanStart ==
    ASSUME TypeOK, NEW q \in Requests, NEW s \in Stories, NEW i \in Iterations,
           carryOverWorkItem(q, s, i)
    PROVE  \E o, l : Start(q, o, l) /\ Startable(o, l)
<1> DEFINE sc == [NoOp.src EXCEPT ![s] = com[s].iter]
           o == [NoOp EXCEPT !.kind = "carry", !.items = {s}, !.src = sc, !.to = i]
<1>1. Start(q, o, "lock")
      BY DEF carryOverWorkItem, NoOp
<1>2. com[s].iter \in Iterations \ {i}
      BY DEF carryOverWorkItem, TypeOK, Row, Rows, Items
<1>3. sc \in [Stories -> Iterations \cup {None}] /\ sc[s] = com[s].iter
      BY <1>2, NoOpFields
<1> HIDE DEF sc
<1>4. /\ o \in Operations /\ o.kind = "carry" /\ o.items = {s} /\ o.to = i /\ o.src = sc
      /\ o.match = FALSE /\ o.rest = {} /\ o.checks = {}
      /\ o.task = None /\ o.iter = None /\ o.state = Keep
      BY <1>3 DEF NoOp, Operations
<1> HIDE DEF o
<1>5. Moved(o) = {s}
      BY <1>2, <1>3, <1>4, ScopeRowsAssumption DEF Moved
<1>6. Fresh(o)
      BY <1>3, <1>4 DEF Fresh
<1>8. FieldsOK(o) /\ ChecksOK(o) /\ ~RollsOver(o)
      BY <1>4, ScopeRowsAssumption DEF FieldsOK, ChecksOK, RollsOver
<1>7. Startable(o, "lock")
      BY <1>2, <1>3, <1>4, <1>5, <1>6, <1>8 DEF Startable, OpOK, Moves
<1> QED BY <1>1, <1>7

\* Deletes, creates and the operations on iterations can start.
LEMMA OthersCanStart ==
    ASSUME TypeOK, NEW q \in Requests,
           \/ \E s \in Stories : deleteWorkItem(q, s)
           \/ \E s \in Stories, t \in Tasks : createTask(q, t, s)
           \/ \E i \in Iterations : \/ deleteIteration(q, i)
                                    \/ \E st \in IterationStates : changeState(q, i, st)
                                    \/ \E d \in Iterations \cup {None} : rolloverUnfinished(q, i, d)
    PROVE  \E o, l : Start(q, o, l) /\ Startable(o, l)
<1>1. ASSUME NEW s \in Stories, deleteWorkItem(q, s) PROVE \E o, l : Start(q, o, l) /\ Startable(o, l)
      <2> DEFINE o == [NoOp EXCEPT !.kind = "drop", !.items = {s}]
      <2>1. Start(q, o, "write")
            BY <1>1 DEF deleteWorkItem
      <2>2. /\ o \in Operations /\ o.kind = "drop" /\ o.items = {s} /\ o.to = Keep
            /\ o.match = FALSE /\ o.rest = {} /\ o.task = None /\ o.iter = None
            BY DEF NoOp, Operations
      <2> HIDE DEF o
      <2>3. Startable(o, "write")
            BY <2>2 DEF Startable, OpOK, Moves, Fresh, Moved, FieldsOK, ChecksOK, RollsOver
      <2> QED BY <2>1, <2>3
<1>2. ASSUME NEW s \in Stories, NEW t \in Tasks, createTask(q, t, s)
      PROVE \E o, l : Start(q, o, l) /\ Startable(o, l)
      <2> DEFINE o == [NoOp EXCEPT !.kind = "task", !.items = {s}, !.task = t]
      <2>1. Start(q, o, "insert")
            BY <1>2 DEF createTask
      <2>2. /\ o \in Operations /\ o.kind = "task" /\ o.items = {s} /\ o.to = Keep
            /\ o.match = FALSE /\ o.rest = {} /\ o.task = t /\ o.iter = None
            BY DEF NoOp, Operations
      <2> HIDE DEF o
      <2>3. Startable(o, "insert")
            BY <1>2, <2>2 DEF Startable, OpOK, Moves, Fresh, createTask, FieldsOK, ChecksOK, RollsOver
      <2> QED BY <2>1, <2>3
<1>3. ASSUME NEW i \in Iterations, deleteIteration(q, i) PROVE \E o, l : Start(q, o, l) /\ Startable(o, l)
      <2> DEFINE o == [NoOp EXCEPT !.kind = "remove", !.iter = i]
      <2>1. Start(q, o, "remove")
            BY <1>3 DEF deleteIteration
      <2>2. /\ o \in Operations /\ o.kind = "remove" /\ o.items = {} /\ o.to = Keep
            /\ o.match = FALSE /\ o.rest = {} /\ o.iter = i /\ o.task = None
            BY DEF NoOp, Operations
      <2> HIDE DEF o
      <2>3. Startable(o, "remove")
            BY <2>2 DEF Startable, OpOK, Moves, Fresh, FieldsOK, ChecksOK, RollsOver
      <2> QED BY <2>1, <2>3
<1>4. ASSUME NEW i \in Iterations, NEW st \in IterationStates, changeState(q, i, st)
      PROVE \E o, l : Start(q, o, l) /\ Startable(o, l)
      <2> DEFINE o == [NoOp EXCEPT !.kind = "state", !.iter = i, !.state = st]
      <2>1. Start(q, o, "gate") \/ Start(q, o, "set")
            BY <1>4 DEF changeState
      <2>2. /\ o \in Operations /\ o.kind = "state" /\ o.items = {} /\ o.to = Keep
            /\ o.match = FALSE /\ o.rest = {} /\ o.iter = i /\ o.state = st /\ o.task = None
            BY DEF NoOp, Operations
      <2> HIDE DEF o
      <2>3. Startable(o, "gate") /\ Startable(o, "set")
            BY <2>2 DEF Startable, OpOK, Moves, Fresh, FieldsOK, ChecksOK, RollsOver
      <2> QED BY <2>1, <2>3
<1>5. ASSUME NEW i \in Iterations, NEW d \in Iterations \cup {None}, rolloverUnfinished(q, i, d)
      PROVE \E o, l : Start(q, o, l) /\ Startable(o, l)
      <2> DEFINE R == Unfinished(com, i)
                 o == [NoOp EXCEPT !.kind = "edit", !.iter = i, !.to = d, !.rest = R]
      <2>1. Start(q, o, "pick")
            BY <1>5 DEF rolloverUnfinished
      <2>2. R \in SUBSET Stories /\ d # Keep
            BY ScopeRowsAssumption DEF Unfinished, Members
      <2> HIDE DEF R
      <2>3. /\ o \in Operations /\ o.kind = "edit" /\ o.items = {} /\ o.to = d /\ o.match = FALSE
            /\ o.iter = i /\ o.rest = R /\ o.task = None
            BY <2>2 DEF NoOp, Operations
      <2> HIDE DEF o
      <2>4. FieldsOK(o) /\ ChecksOK(o)
            BY <2>2, <2>3 DEF FieldsOK, ChecksOK
      <2>5. Startable(o, "pick")
            BY <2>2, <2>3, <2>4 DEF Startable, OpOK, Moves, Fresh, R
      <2> QED BY <2>1, <2>5
<1> QED BY <1>1, <1>2, <1>3, <1>4, <1>5

\* The steps of the system: a request starts, a request runs a statement, or
\* nothing happens.
LEMMA NextCases ==
    ASSUME TypeOK, [Next]_vars
    PROVE  \/ \E q \in Requests : \E o, l : Start(q, o, l) /\ Startable(o, l)
           \/ \E q \in Requests : Step(q) /\ UNCHANGED starts
           \/ UNCHANGED vars
<1> DEFINE Starts(q) == \E o, l : Start(q, o, l) /\ Startable(o, l)
<1>1. ASSUME NEW q \in Requests, NEW s \in Stories, NEW p \in PatchInputs, NEW m \in Matches,
             updateWorkItem(q, s, p[1], p[2], m)
      PROVE  Starts(q)
      BY <1>1, EditCanStart
<1>2. ASSUME NEW q \in Requests, NEW S \in (SUBSET Stories) \ {{}}, NEW i \in Iterations \cup {None},
             bulkAssignIteration(q, S, i)
      PROVE  Starts(q)
      <2>1. S \in SUBSET Stories /\ S # {}
            OBVIOUS
      <2> QED BY <1>2, <2>1, BulkCanStart
<1>3. ASSUME NEW q \in Requests, NEW s \in Stories, NEW i \in Iterations, carryOverWorkItem(q, s, i)
      PROVE  Starts(q)
      BY <1>3, CarryCanStart
<1>4. ASSUME NEW q \in Requests,
             \/ \E s \in Stories : deleteWorkItem(q, s) \/ \E t \in Tasks : createTask(q, t, s)
             \/ \E i \in Iterations : \/ deleteIteration(q, i)
                                      \/ \E st \in IterationStates : changeState(q, i, st)
                                      \/ \E d \in Iterations \cup {None} : rolloverUnfinished(q, i, d)
      PROVE  Starts(q)
      BY <1>4, OthersCanStart
<1> HIDE DEF Starts
<1>5. \/ \E q \in Requests : Starts(q)
      \/ \E q \in Requests : Step(q) /\ UNCHANGED starts
      \/ UNCHANGED vars
      BY <1>1, <1>2, <1>3, <1>4 DEF Next, Statement, quiet
<1> QED BY <1>5 DEF Starts

----------------------------------------------------------------------------
(* Types                                                                    *)

\* Changing one field of a row leaves the others, and leaves a row.
LEMMA RowFields ==
    ASSUME NEW r \in Row
    PROVE  /\ r.iter \in Iterations \cup {None} /\ r.state \in StoryStates \cup IterationStates
           /\ r.row \in {"absent", "live", "deleted"} /\ r.parent \in Stories \cup {None}
           /\ \A i \in Iterations \cup {None} :
                 LET n == [r EXCEPT !.iter = i] IN
                 n \in Row /\ n.iter = i /\ n.row = r.row /\ n.state = r.state /\ n.parent = r.parent
           /\ \A a \in StoryStates \cup IterationStates :
                 LET n == [r EXCEPT !.state = a] IN
                 n \in Row /\ n.state = a /\ n.iter = r.iter /\ n.row = r.row /\ n.parent = r.parent
           /\ LET n == [r EXCEPT !.row = "deleted"] IN
              n \in Row /\ n.row = "deleted" /\ n.iter = r.iter /\ n.state = r.state /\ n.parent = r.parent
BY DEF Row

\* A request that fails leaves the tables and all requests well-typed.
LEMMA AbortTypes ==
    ASSUME TypeOK, NEW q \in Requests, Abort(q), UNCHANGED starts
    PROVE  TypeOK'
BY NoOpFields DEF TypeOK, Abort, Release, Finish, Goto, Rows, Items

\* What a transaction sees is a table.
LEMMA ViewType ==
    ASSUME TypeOK, NEW q \in Requests
    PROVE  View(q) \in [Rows -> Row]
BY DEF TypeOK, View

\* The write of a move is a table.
LEMMA UpdateTypes ==
    ASSUME TypeOK, NEW q \in Requests, NEW S \in SUBSET Stories, Update(q, S), UNCHANGED starts
    PROVE  TypeOK'
<1> DEFINE o == op[q]
           T == IF o.to = Keep THEN {} ELSE Cascade(q, S, o.to)
           Patch(r) == [r EXCEPT !.iter = IF o.to = Keep THEN @ ELSE o.to,
                                 !.state = IF o.state = Keep THEN @ ELSE o.state]
           f == [x \in Rows |-> IF x \in S THEN Patch(cur[x])
                                ELSE IF x \in T THEN [cur[x] EXCEPT !.iter = o.to] ELSE cur[x]]
<1>1. /\ o \in Operations /\ o.to \in Iterations \cup {None, Keep}
      /\ o.state \in StoryStates \cup IterationStates \cup {Keep} /\ o.checks \in SUBSET Iterations
      BY OperationFields DEF TypeOK
<1>2. \A r \in Row : Patch(r) \in Row
      BY <1>1 DEF Row
<1>3. \A x \in T : \A r \in Row : [r EXCEPT !.iter = o.to] \in Row
      BY <1>1, RowFields
<1>4. f \in [Rows -> Row]
      BY <1>2, <1>3 DEF TypeOK
<1>5. Write(q, S \cup T, f)
      BY DEF Update
<1>6. /\ left' = [left EXCEPT ![q] = o.checks] /\ UNCHANGED cand
      /\ pc' = [pc EXCEPT ![q] = "commit"] \/ pc' = [pc EXCEPT ![q] = "check"]
      BY DEF Update, Goto
<1> HIDE DEF o, T, Patch, f
<1> QED BY <1>1, <1>4, <1>5, <1>6 DEF TypeOK, Write

\* Every statement keeps the types.
LEMMA StepTypes ==
    ASSUME TypeOK, OpInv, RefInv, NEW q \in Requests, Step(q), UNCHANGED starts
    PROVE  TypeOK'
<1>0. op[q] \in Operations /\ OpOK(op[q], pc[q])
      BY DEF TypeOK, OpInv
<1>1. CASE lockRows(q)
      BY <1>1 DEF TypeOK, lockRows, Write, Goto
<1>2. CASE \/ lockRefused(q) \/ targetRefused(q) \/ updateRefused(q) \/ gateRefused(q) \/ pickFails(q)
           \/ deadlockDetected(q)
      BY <1>2, AbortTypes
      DEF lockRefused, targetRefused, updateRefused, gateRefused, pickFails, deadlockDetected
<1>3. CASE lockSource(q) \/ lockTarget(q)
      BY <1>3 DEF TypeOK, lockSource, lockTarget, Shared, Goto
<1>4. CASE update(q) \/ assignIteration(q)
      <2>1. op[q].items \in SUBSET Stories
            BY <1>0, OperationFields
      <2>2. {s \in op[q].items : cur[s].row = "live"} \in SUBSET Stories
            BY <2>1
      <2> QED BY <1>4, <2>1, <2>2, UpdateTypes DEF update, assignIteration
<1>5. CASE softDelete(q)
      BY <1>5, RowFields DEF TypeOK, softDelete, Write, Goto
<1>6. CASE insertTask(q)
      <2>1. op[q].task \in Tasks /\ op[q].items \in SUBSET Stories
            BY <1>0, <1>6, OperationFields DEF insertTask, At, OpOK
      <2>2. \A s \in op[q].items : FromParent(q, s) \in Iterations \cup {None}
            <3>1. \A s \in op[q].items : View(q)[s] \in Row
                  BY <2>1, ViewType DEF Rows, Items
            <3> QED BY <3>1, RowFields DEF FromParent
      <2>3. \A s \in op[q].items :
               [row |-> "live", state |-> "open", parent |-> s, iter |-> FromParent(q, s)] \in Row
            BY <2>1, <2>2 DEF Row, StoryStates
      <2>4. op[q].task \in Rows
            BY <2>1 DEF Rows, Items
      <2> QED BY <1>6, <2>3, <2>4 DEF TypeOK, insertTask, Write, Goto
<1>7. CASE reconcileWrite(q)
      <2>1. "open" \in StoryStates
            BY DEF StoryStates
      <2> QED BY <1>7, <2>1, RowFields DEF TypeOK, reconcileWrite, Write, Goto
<1>8. CASE reconcileSkip(q) \/ gatePassed(q)
      BY <1>8 DEF TypeOK, reconcileSkip, gatePassed, tables, Goto
<1>9. CASE countItems(q)
      <2>1. PICK i \in left[q] :
               /\ left' = [left EXCEPT ![q] = @ \ {i}]
               /\ \/ Goto(q, "flip") /\ cand' = [cand EXCEPT ![q] = i]
                  \/ Goto(q, AfterCheck(left[q] \ {i})) /\ UNCHANGED cand
            BY <1>9 DEF countItems
      <2>2. i \in Iterations /\ AfterCheck(left[q] \ {i}) \in {"commit", "check"}
            BY DEF TypeOK, AfterCheck
      <2> QED BY <1>9, <2>1, <2>2 DEF TypeOK, countItems, Goto, tables
<1>10. CASE acceptComplete(q)
      <2>1. cand[q] \in Iterations /\ cand[q] \in Rows
            BY <1>10 DEF acceptComplete, At, OpInv, Rows
      <2>2. "accepted" \in StoryStates /\ AfterCheck(left[q]) \in {"commit", "check"}
            BY DEF StoryStates, AfterCheck
      <2>3. [cur EXCEPT ![cand[q]].state = "accepted"] \in [Rows -> Row]
            BY <2>1, <2>2, RowFields DEF TypeOK
      <2> QED BY <1>10, <2>2, <2>3 DEF TypeOK, acceptComplete, Write, Goto, tables
<1>11. CASE setState(q)
      <2>1. op[q].iter \in Rows /\ op[q].state \in StoryStates \cup IterationStates
            BY <1>0, <1>11 DEF setState, At, OpOK, Rows
      <2>2. \A f \in [Rows -> Row] : [f EXCEPT ![op[q].iter].state = op[q].state] \in [Rows -> Row]
            BY <2>1, RowFields
      <2>3. com' \in [Rows -> Row] /\ cur' \in [Rows -> Row]
            BY <1>11, <2>2 DEF TypeOK, setState
      <2> QED BY <1>11, <2>3, NoOpFields DEF TypeOK, setState, Finish, Goto
<1>12. CASE removeIteration(q)
      <2>1. op[q].iter \in Rows
            BY <1>0, <1>12 DEF removeIteration, At, OpOK, Rows
      <2>2. \A x \in Scheduled(op[q].iter) \ Stories :
                  com[com[x].parent].iter \in Iterations \cup {None}
            <3>1. ASSUME NEW x \in Tasks, x \in Scheduled(op[q].iter) PROVE com[x].parent \in Rows
                  BY <2>1, <3>1, ScopeRowsAssumption DEF Scheduled, RefInv, Rows, Items
            <3>2. \A x \in Scheduled(op[q].iter) \ Stories : x \in Tasks
                  BY DEF Scheduled, Items
            <3> QED BY <3>1, <3>2, RowFields DEF TypeOK
      <2>3. ASSUME NEW f \in [Rows -> Row]
            PROVE  [Unscheduled(f, op[q].iter) EXCEPT ![op[q].iter].row = "deleted"] \in [Rows -> Row]
            <3>1. \A x \in Rows : Unscheduled(f, op[q].iter)[x] \in Row
                  BY <2>2, RowFields DEF Unscheduled
            <3>2. Unscheduled(f, op[q].iter) \in [Rows -> Row]
                  BY <3>1 DEF Unscheduled
            <3> QED BY <2>1, <3>2, RowFields
      <2>4. com' \in [Rows -> Row] /\ cur' \in [Rows -> Row]
            BY <1>12, <2>3 DEF removeIteration, TypeOK
      <2> QED BY <1>12, <2>4, NoOpFields DEF TypeOK, removeIteration, Touch, Finish, Goto
<1>13. CASE commit(q)
      <2>1. com' \in [Rows -> Row] /\ stale' \subseteq Requests /\ UNCHANGED cur
            BY <1>13, ViewType DEF TypeOK, commit, Touch
      <2>2. Release(q) /\ (Finish(q) \/ (Goto(q, "pick") /\ UNCHANGED <<op, left, cand, overlapped>>))
            BY <1>13 DEF commit
      <2> QED BY <2>1, <2>2, NoOpFields DEF TypeOK, Release, Finish, Goto
<1>14. CASE pickUnfinished(q)
      <2>1. PICK o : Startable(o, FirstStep(o)) /\ op' = [op EXCEPT ![q] = o] /\ Goto(q, FirstStep(o))
            BY <1>14, PickCanStart
      <2> QED BY <1>14, <2>1 DEF TypeOK, pickUnfinished, tables, Goto, Startable
<1> QED BY <1>1, <1>2, <1>3, <1>4, <1>5, <1>6, <1>7, <1>8, <1>9, <1>10, <1>11, <1>12, <1>13, <1>14 DEF Step

----------------------------------------------------------------------------
(* One request's step, seen by the others                                   *)

CoreInv == TypeOK /\ OpInv /\ LockInv /\ TaskInv /\ MoveInv /\ RefInv

\* The operations of the others go on as they were.
LEMMA OthersGoOn ==
    ASSUME TypeOK, NEW q \in Requests, Step(q), NEW r \in Requests, r # q
    PROVE  /\ op'[r] = op[r] /\ pc'[r] = pc[r] /\ cand'[r] = cand[r] /\ left'[r] = left[r]
           /\ r \in overlapped' <=> r \in overlapped
           /\ \A i \in Iterations : r \in share'[i] <=> r \in share[i]
<1> USE DEF TypeOK
<1>1. CASE Abort(q)
      BY <1>1 DEF Abort, Release, Finish, Goto
<1>2. CASE lockRows(q)
      BY <1>2 DEF lockRows, Write, Goto
<1>3. CASE \/ lockRefused(q) \/ targetRefused(q) \/ updateRefused(q) \/ gateRefused(q) \/ pickFails(q)
           \/ deadlockDetected(q)
      BY <1>1, <1>3
      DEF lockRefused, targetRefused, updateRefused, gateRefused, pickFails, deadlockDetected
<1>4. CASE lockSource(q) \/ lockTarget(q)
      BY <1>4 DEF lockSource, lockTarget, Shared, Goto
<1>5. CASE update(q) \/ assignIteration(q)
      <2>1. /\ UNCHANGED <<op, cand, overlapped, share>>
            /\ pc' = [pc EXCEPT ![q] = "commit"] \/ pc' = [pc EXCEPT ![q] = "check"]
            /\ left' = [left EXCEPT ![q] = op[q].checks]
            BY <1>5 DEF update, assignIteration, Update, Write, Goto
      <2> QED BY <2>1
<1>6. CASE softDelete(q) \/ insertTask(q) \/ reconcileWrite(q)
      BY <1>6 DEF softDelete, insertTask, reconcileWrite, Write, Goto
<1>7. CASE reconcileSkip(q) \/ gatePassed(q)
      BY <1>7 DEF reconcileSkip, gatePassed, tables, Goto
<1>8. CASE countItems(q)
      BY <1>8 DEF countItems, tables, Goto
<1>9. CASE acceptComplete(q)
      BY <1>9 DEF acceptComplete, Write, tables, Goto
<1>10. CASE setState(q) \/ removeIteration(q)
      BY <1>10 DEF setState, removeIteration, Finish, Goto
<1>11. CASE commit(q)
      BY <1>11 DEF commit, Release, Finish, Goto
<1>12. CASE pickUnfinished(q)
      BY <1>12 DEF pickUnfinished, tables, Goto
<1> QED BY <1>2, <1>3, <1>4, <1>5, <1>6, <1>7, <1>8, <1>9, <1>10, <1>11, <1>12 DEF Step

\* The tasks a move cascades to are locked by nobody else.
LEMMA CascadeIsFree ==
    ASSUME CoreInv, NEW q \in Requests, NEW S \in SUBSET Stories, NEW i,
           \A s \in S : lock[s] \in {None, q}, NEW t \in Cascade(q, S, i)
    PROVE  t \in Tasks /\ lock[t] \in {None, q}
<1>1. PICK s \in S : t \in Tasks /\ View(q)[t].row = "live" /\ View(q)[t].parent = s
      BY DEF Cascade, LiveTasks
<1>2. t \in Rows
      BY <1>1 DEF Rows, Items
<1> SUFFICES ASSUME NEW r \in Requests, lock[t] = r, r # q PROVE FALSE
    BY <1>1, <1>2 DEF CoreInv, TypeOK
<1>3. com[t].row = "live" /\ com[t].parent = s
      BY <1>1, <1>2 DEF View
<1>4. op[r].kind = "task" /\ op[r].task = t
      BY <1>1, <1>3, ScopeRowsAssumption DEF CoreInv, LockInv
<1> QED BY <1>3, <1>4 DEF CoreInv, TaskInv

\* The Stories a write of q updates: those it was asked to, or of a bulk
\* assignment the live ones.
Targets(q, S) ==
    /\ S = op[q].items \/ S = {s \in op[q].items : cur[s].row = "live"}
    /\ op[q].kind # "bulk" => S = op[q].items

\* The rows of q's update: free, or its own.
LEMMA UpdateIsFree ==
    ASSUME CoreInv, NEW q \in Requests, update(q) \/ assignIteration(q)
    PROVE  \E S \in SUBSET op[q].items, T \in SUBSET Tasks :
              /\ Update(q, S) /\ Targets(q, S)
              /\ T = (IF op[q].to = Keep THEN {} ELSE Cascade(q, S, op[q].to))
              /\ op[q].items \subseteq Stories
              /\ \A x \in S \cup T : lock[x] \in {None, q}
<1>1. /\ pc[q] = "write" /\ Blockers(q) = {}
      /\ \E S \in SUBSET op[q].items :
            Update(q, S) /\ Targets(q, S)
      BY DEF update, assignIteration, At, Targets
<1>2. op[q].items \subseteq Stories
      BY OperationFields DEF CoreInv, TypeOK
<1>3. \A s \in op[q].items : lock[s] \in {None, q}
      BY <1>1 DEF Blockers, Holders
<1>4. PICK S \in SUBSET op[q].items :
            Update(q, S) /\ Targets(q, S)
      BY <1>1
<1> DEFINE T == IF op[q].to = Keep THEN {} ELSE Cascade(q, S, op[q].to)
<1>5. T \in SUBSET Tasks /\ \A x \in T : lock[x] \in {None, q}
      BY <1>2, <1>3, CascadeIsFree
<1> HIDE DEF T
<1>6. \A x \in S \cup T : lock[x] \in {None, q}
      BY <1>3, <1>5
<1> QED BY <1>2, <1>4, <1>5, <1>6 DEF T

\* What an update does: it writes Stories and tasks that are free or its own.
Updated(q, S, T) ==
    /\ S \subseteq Stories /\ S \subseteq op[q].items /\ T \subseteq Tasks
    /\ Targets(q, S)
    /\ \A x \in S \cup T : lock[x] \in {None, q}
    /\ T = (IF op[q].to = Keep THEN {} ELSE Cascade(q, S, op[q].to))
    /\ com' = com /\ share' = share /\ op' = op /\ stale' = stale /\ overlapped' = overlapped
    /\ lock' = [x \in Rows |-> IF x \in S \cup T THEN q ELSE lock[x]]
    /\ pc' = [pc EXCEPT ![q] = IF op[q].checks = {} THEN "commit" ELSE "check"]
    /\ \A x \in Rows \ (S \cup T) : cur'[x] = cur[x]
    /\ \A s \in S : /\ cur'[s].iter = IF op[q].to = Keep THEN cur[s].iter ELSE op[q].to
                    /\ cur'[s].row = cur[s].row
                    /\ cur'[s].state = IF op[q].state = Keep THEN cur[s].state ELSE op[q].state
    /\ left' = [left EXCEPT ![q] = op[q].checks] /\ cand' = cand
    /\ \A t \in T : /\ cur'[t].iter = op[q].to /\ op[q].to # Keep
                    /\ cur'[t].row = cur[t].row /\ cur'[t].parent = cur[t].parent

\* The effect of an update on the tables.
LEMMA UpdateEffect ==
    ASSUME TypeOK, NEW q \in Requests, NEW S \in SUBSET Stories, NEW T \in SUBSET Tasks, Update(q, S),
           S \subseteq op[q].items, Targets(q, S),
           T = (IF op[q].to = Keep THEN {} ELSE Cascade(q, S, op[q].to)),
           \A x \in S \cup T : lock[x] \in {None, q}
    PROVE  Updated(q, S, T)
<1> DEFINE o == op[q]
           Patch(r) == [r EXCEPT !.iter = IF o.to = Keep THEN @ ELSE o.to,
                                 !.state = IF o.state = Keep THEN @ ELSE o.state]
           Follow(r) == [r EXCEPT !.iter = o.to]
           f == [x \in Rows |-> IF x \in S THEN Patch(cur[x])
                                ELSE IF x \in T THEN Follow(cur[x]) ELSE cur[x]]
<1>1. /\ Write(q, S \cup T, f)
      /\ pc' = [pc EXCEPT ![q] = IF o.checks = {} THEN "commit" ELSE "check"]
      /\ left' = [left EXCEPT ![q] = o.checks] /\ cand' = cand
      BY DEF Update, Goto
<1>2. S \subseteq Rows /\ T \subseteq Rows /\ S \cap T = {}
      BY ScopeRowsAssumption DEF Rows, Items
<1>3. \A r \in Row : /\ Patch(r).iter = IF o.to = Keep THEN r.iter ELSE o.to
                     /\ Patch(r).row = r.row
                     /\ Patch(r).state = IF o.state = Keep THEN r.state ELSE o.state
                     /\ Follow(r).iter = o.to /\ Follow(r).row = r.row /\ Follow(r).parent = r.parent
      BY DEF Row
<1>4. T # {} => o.to # Keep /\ o.to \in Iterations \cup {None}
      BY OperationFields DEF TypeOK
<1>5. cur \in [Rows -> Row]
      BY DEF TypeOK
<1> HIDE DEF o, Patch, Follow
<1>6. \A x \in Rows \ (S \cup T) : f[x] = cur[x]
      OBVIOUS
<1>7. \A s \in S : f[s] = Patch(cur[s]) /\ cur[s] \in Row
      BY <1>2, <1>5
<1>8. \A t \in T : f[t] = Follow(cur[t]) /\ cur[t] \in Row
      BY <1>2, <1>5
<1>9. \A t \in T : f[t].iter = o.to /\ f[t].row = cur[t].row /\ f[t].parent = cur[t].parent
      BY <1>3, <1>8
<1> HIDE DEF f
<1>10. cur' = f /\ com' = com /\ share' = share /\ op' = op /\ stale' = stale /\ overlapped' = overlapped
       /\ lock' = [x \in Rows |-> IF x \in S \cup T THEN q ELSE lock[x]]
      BY <1>1 DEF Write
<1> QED BY <1>1, <1>3, <1>4, <1>6, <1>7, <1>9, <1>10 DEF o, Updated

\* Both statements that write a move are updates.
LEMMA UpdateCases ==
    ASSUME CoreInv, NEW q \in Requests, update(q) \/ assignIteration(q)
    PROVE  \E S, T : Updated(q, S, T)
<1>1. PICK S \in SUBSET op[q].items, T \in SUBSET Tasks :
         /\ Update(q, S) /\ Targets(q, S)
         /\ T = (IF op[q].to = Keep THEN {} ELSE Cascade(q, S, op[q].to))
         /\ op[q].items \subseteq Stories
         /\ \A x \in S \cup T : lock[x] \in {None, q}
      BY UpdateIsFree
<1>2. S \in SUBSET Stories
      BY <1>1
<1>3. TypeOK
      BY DEF CoreInv
<1> QED BY <1>1, <1>2, <1>3, UpdateEffect

\* Locks go to q or are given back by it.
LEMMA LocksOfOthers ==
    ASSUME CoreInv, NEW q \in Requests, Step(q), NEW x \in Rows
    PROVE  /\ lock'[x] \in {lock[x], q, None}
           /\ lock[x] \notin {None, q} => lock'[x] = lock[x] /\ com'[x] = com[x] /\ cur'[x] = cur[x]
<1> DEFINE Kept == /\ lock'[x] \in {lock[x], q, None}
                   /\ lock[x] \notin {None, q} => lock'[x] = lock[x] /\ com'[x] = com[x] /\ cur'[x] = cur[x]
<1> USE DEF CoreInv, TypeOK
<1>0. op[q] \in Operations /\ OpOK(op[q], pc[q])
      BY DEF OpInv
<1>1. CASE Abort(q)
      BY <1>1 DEF Abort, Release
<1>2. CASE lockRows(q)
      BY <1>2 DEF lockRows, Write, At, Blockers, Holders
<1>3. CASE \/ lockRefused(q) \/ targetRefused(q) \/ updateRefused(q) \/ gateRefused(q) \/ pickFails(q)
           \/ deadlockDetected(q)
      BY <1>1, <1>3
      DEF lockRefused, targetRefused, updateRefused, gateRefused, pickFails, deadlockDetected
<1>4. CASE lockSource(q) \/ lockTarget(q)
      BY <1>4 DEF lockSource, lockTarget
<1>5. CASE update(q) \/ assignIteration(q)
      <2>1. PICK S, T : Updated(q, S, T)
            BY <1>5, UpdateCases
      <2> QED BY <2>1 DEF Updated
<1>6. CASE softDelete(q)
      BY <1>6 DEF softDelete, Write, At, Blockers, Holders
<1>7. CASE insertTask(q)
      <2>1. pc[q] = "insert" /\ op[q].kind = "task" /\ op[q].task \in Tasks
            BY <1>0, <1>7 DEF insertTask, At, OpOK
      <2>2. ASSUME NEW r \in Requests, lock[op[q].task] = r PROVE FALSE
            <3>1. com[op[q].task].row = "absent"
                  BY <2>1 DEF TaskInv
            <3>2. op[r].kind = "task" /\ op[r].task = op[q].task /\ pc[r] \in Written \cup {"roll"}
                  BY <2>1, <2>2, <3>1 DEF LockInv
            <3>3. r = q
                  BY <2>1, <3>2 DEF TaskInv
            <3> QED BY <2>1, <3>2, <3>3 DEF Written
      <2>3. lock[op[q].task] = None
            BY <2>1, <2>2 DEF Rows, Items
      <2> QED BY <1>7, <2>3 DEF insertTask, Write
<1>8. CASE reconcileWrite(q)
      BY <1>8 DEF reconcileWrite, Write, Holders
<1>9. CASE reconcileSkip(q) \/ gatePassed(q) \/ countItems(q) \/ pickUnfinished(q)
      BY <1>9 DEF reconcileSkip, gatePassed, countItems, pickUnfinished, tables
<1>10. CASE acceptComplete(q)
      <2>1. pc[q] = "flip" /\ Blockers(q) = {} /\ cand[q] \in Iterations
            BY <1>10 DEF acceptComplete, At, OpInv
      <2>2. Open(View(q), cand[q]) => lock[cand[q]] \in {None, q}
            BY <2>1 DEF Open, View, Blockers, IterationHolders, Holders, Rows
      <2> QED BY <1>10, <2>2 DEF acceptComplete, Write, tables
<1>11. CASE setState(q)
      <2>1. lock[op[q].iter] \in {None, q}
            BY <1>11 DEF setState, At, Blockers, IterationHolders, Holders
      <2> QED BY <1>11, <2>1 DEF setState
<1>12. CASE removeIteration(q)
      <2> DEFINE i == op[q].iter
      <2>1. Blockers(q) = IterationHolders(q, i) \cup Holders(q, References(i)) /\ Blockers(q) = {}
            BY <1>12 DEF removeIteration, At, Blockers
      <2>2. lock[i] \in {None, q} /\ \A y \in Scheduled(i) : lock[y] \in {None, q}
            BY <2>1 DEF IterationHolders, Holders, References
      <2>3. lock[x] \notin {None, q} => x # i /\ Unscheduled(com, i)[x] = com[x] /\ Unscheduled(cur, i)[x] = cur[x]
            BY <2>2 DEF Unscheduled
      <2> QED BY <1>12, <2>3 DEF removeIteration, Unscheduled
<1>13. CASE commit(q)
      BY <1>13 DEF commit, Release, View
<1> QED BY <1>2, <1>3, <1>4, <1>5, <1>6, <1>7, <1>8, <1>9, <1>10, <1>11, <1>12, <1>13 DEF Step

----------------------------------------------------------------------------
(* The core invariant                                                       *)

\* A request that starts holds nothing and has read what is committed.
LEMMA StartKeepsCore ==
    ASSUME CoreInv, NEW q \in Requests, NEW o, NEW l, Start(q, o, l), Startable(o, l)
    PROVE  CoreInv'
<1>1. /\ pc[q] = "idle" /\ UNCHANGED <<com, cur, lock, share, left, cand, stale>>
      /\ op' = [op EXCEPT ![q] = o] /\ pc' = [pc EXCEPT ![q] = l] /\ starts' = starts + 1
      /\ overlapped' \subseteq overlapped \cup Requests
      BY DEF Start, Active, tables
<1>2. o \in Operations /\ OpOK(o, l)
      BY DEF Startable
<1>3. l \in {"lock", "write", "insert", "gate", "set", "remove", "pick"} /\ (l = "write" => Moved(o) = {})
      BY DEF Startable
<1>4. o.kind = "task" => com[o.task].row = "absent" /\ \A r \in Requests : op[r].task # o.task
      BY DEF Startable
<1>5. TypeOK'
      BY <1>1, <1>2, <1>3 DEF CoreInv, TypeOK
<1>6. OpInv'
      BY <1>1, <1>2, <1>3 DEF CoreInv, TypeOK, OpInv
<1>7. LockInv'
      <2>1. \A x \in Rows : lock[x] # q
            BY <1>1 DEF CoreInv, LockInv, Rows, Items, Locked, Written
      <2>2. \A i \in Iterations : q \notin share[i]
            BY <1>1 DEF CoreInv, LockInv
      <2> QED BY <1>1, <2>1, <2>2 DEF CoreInv, TypeOK, LockInv, Rows, Items
<1>8. TaskInv'
      BY <1>1, <1>4 DEF CoreInv, TypeOK, TaskInv
<1>9. MoveInv'
      BY <1>1, <1>3 DEF CoreInv, TypeOK, MoveInv, Locked, Written
<1>10. RefInv'
      BY <1>1 DEF CoreInv, RefInv, NoDanglingIteration
<1> QED BY <1>5, <1>6, <1>7, <1>8, <1>9, <1>10 DEF CoreInv

\* A request's part of OpInv.
Own(q) == OpOK(op[q], pc[q]) /\ (pc[q] = "flip" => cand[q] \in Iterations)

\* Every statement leaves the operations well-formed.
LEMMA StepOps ==
    ASSUME CoreInv, NEW q \in Requests, Step(q)
    PROVE  OpInv'
<1>0. /\ op[q] \in Operations /\ OpOK(op[q], pc[q])
      /\ op \in [Requests -> Operations] /\ cand \in [Requests -> Iterations \cup {None}]
      /\ DOMAIN pc = Requests /\ left[q] \subseteq Iterations
      /\ pc[q] = "flip" => cand[q] \in Iterations
      BY DEF CoreInv, TypeOK, OpInv
<1>1. Own(q)' => OpInv'
      BY OthersGoOn DEF CoreInv, OpInv, Own
<1> SUFFICES Own(q)'
    BY <1>1
<1>2. OpOK(NoOp, "idle")
      BY NoOpFields DEF OpOK, Moves
<1>3. ASSUME Finish(q) PROVE Own(q)'
      BY <1>0, <1>2, <1>3 DEF Finish, Goto, Own
<1>4. \A o, l : OpOK(o, l) =>
          /\ l = "lock" => OpOK(o, "write") /\ (o.kind = "carry" => OpOK(o, "source"))
          /\ l = "source" => OpOK(o, "target")
          /\ l = "target" => OpOK(o, "write")
          /\ l = "write" => OpOK(o, "commit") /\ (o.kind = "carry" => o.checks = {})
                            /\ (o.kind \notin {"carry", "drop"} => OpOK(o, "check"))
          /\ l = "insert" => OpOK(o, "roll")
          /\ l = "roll" => OpOK(o, "commit")
          /\ l \in {"check", "flip"} => OpOK(o, "check") /\ OpOK(o, "flip") /\ OpOK(o, "commit")
          /\ l = "gate" => OpOK(o, "set")
          /\ l = "commit" /\ o.rest # {} => OpOK(o, "pick")
      <2> SUFFICES ASSUME NEW o, NEW l, OpOK(o, l)
                   PROVE  /\ l = "lock" => OpOK(o, "write") /\ (o.kind = "carry" => OpOK(o, "source"))
                          /\ l = "source" => OpOK(o, "target")
                          /\ l = "target" => OpOK(o, "write")
                          /\ l = "write" => OpOK(o, "commit") /\ (o.kind = "carry" => o.checks = {})
                                            /\ (o.kind \notin {"carry", "drop"} => OpOK(o, "check"))
                          /\ l = "insert" => OpOK(o, "roll")
                          /\ l = "roll" => OpOK(o, "commit")
                          /\ l \in {"check", "flip"} => OpOK(o, "check") /\ OpOK(o, "flip") /\ OpOK(o, "commit")
                          /\ l = "gate" => OpOK(o, "set")
                          /\ l = "commit" /\ o.rest # {} => OpOK(o, "pick")
          OBVIOUS
      <2> USE DEF OpOK, Moves
      <2>1. l = "lock" => OpOK(o, "write") /\ (o.kind = "carry" => OpOK(o, "source"))
            OBVIOUS
      <2>2. l = "source" => OpOK(o, "target")
            OBVIOUS
      <2>3. l = "target" => OpOK(o, "write")
            OBVIOUS
      <2>4. l = "write" => OpOK(o, "commit") /\ (o.kind = "carry" => o.checks = {})
                           /\ (o.kind \notin {"carry", "drop"} => OpOK(o, "check"))
            OBVIOUS
      <2>5. (l = "insert" => OpOK(o, "roll")) /\ (l = "roll" => OpOK(o, "commit"))
            OBVIOUS
      <2>6. l \in {"check", "flip"} => OpOK(o, "check") /\ OpOK(o, "flip") /\ OpOK(o, "commit")
            OBVIOUS
      <2>7. l = "gate" => OpOK(o, "set")
            OBVIOUS
      <2>8. l = "commit" /\ o.rest # {} => OpOK(o, "pick")
            OBVIOUS
      <2> QED BY <2>1, <2>2, <2>3, <2>4, <2>5, <2>6, <2>7, <2>8
<1>5. CASE lockRows(q)
      BY <1>0, <1>4, <1>5 DEF lockRows, Write, At, Goto, Own
<1>6. CASE \/ lockRefused(q) \/ targetRefused(q) \/ updateRefused(q) \/ gateRefused(q) \/ pickFails(q)
           \/ deadlockDetected(q)
      BY <1>3, <1>6
      DEF lockRefused, targetRefused, updateRefused, gateRefused, pickFails, deadlockDetected, Abort
<1>7. CASE lockSource(q) \/ lockTarget(q)
      BY <1>0, <1>4, <1>7 DEF lockSource, lockTarget, At, Goto, Own
<1>8. CASE update(q) \/ assignIteration(q)
      <2>1. PICK S, T : Updated(q, S, T)
            BY <1>8, UpdateCases
      <2>2. pc[q] = "write" /\ op[q].kind \in {"edit", "carry", "bulk"}
            BY <1>8 DEF update, assignIteration, At
      <2>3. op' = op /\ pc' = [pc EXCEPT ![q] = IF op[q].checks = {} THEN "commit" ELSE "check"]
            BY <2>1 DEF Updated
      <2> QED BY <1>0, <1>4, <2>2, <2>3 DEF Own
<1>9. CASE softDelete(q) \/ insertTask(q) \/ reconcileWrite(q)
      <2>1. op' = op
            BY <1>9 DEF softDelete, insertTask, reconcileWrite, Write
      <2>2. \/ pc[q] \in {"write", "roll"} /\ pc' = [pc EXCEPT ![q] = "commit"]
            \/ pc[q] = "insert" /\ pc' = [pc EXCEPT ![q] = "roll"]
            BY <1>9 DEF softDelete, insertTask, reconcileWrite, At, Goto
      <2> QED BY <1>0, <1>4, <2>1, <2>2 DEF Own
<1>10. CASE reconcileSkip(q) \/ gatePassed(q)
      BY <1>0, <1>4, <1>10 DEF reconcileSkip, gatePassed, Goto, Own
<1>11. CASE countItems(q)
      BY <1>0, <1>4, <1>11 DEF countItems, AfterCheck, Goto, Own
<1>12. CASE acceptComplete(q)
      BY <1>0, <1>4, <1>12 DEF acceptComplete, At, AfterCheck, Write, Goto, Own
<1>13. CASE setState(q) \/ removeIteration(q)
      BY <1>3, <1>13 DEF setState, removeIteration
<1>14. CASE commit(q)
      BY <1>0, <1>3, <1>4, <1>14 DEF commit, Goto, Own
<1>15. CASE pickUnfinished(q)
      <2>1. PICK o : op' = [op EXCEPT ![q] = o] /\ Goto(q, FirstStep(o)) /\ Startable(o, FirstStep(o))
            BY <1>15, PickCanStart DEF CoreInv
      <2>2. OpOK(o, FirstStep(o)) /\ FirstStep(o) # "flip"
            BY <2>1 DEF Startable
      <2> QED BY <1>0, <1>15, <2>1, <2>2 DEF pickUnfinished, Goto, Own
<1> QED BY <1>5, <1>6, <1>7, <1>8, <1>9, <1>10, <1>11, <1>12, <1>13, <1>14, <1>15 DEF Step


\* What q itself must hold at its next statement.
OwnLocks(q) ==
    /\ \A x \in Rows : lock[x] = None => cur[x] = com[x]
    /\ \A i \in Iterations : cur[i].row = com[i].row
    /\ \A i \in Iterations : lock[i] = q => pc[q] \in Written
    /\ \A t \in Tasks : lock[t] = q =>
           /\ pc[q] \in Written \cup {"roll"}
           /\ (op[q].kind = "task" /\ op[q].task = t) \/ (com[t].row = "live" /\ lock[com[t].parent] = q)
    /\ \A s \in Stories : lock[s] = q =>
           \/ pc[q] \in Written
           \/ pc[q] \in Locked /\ s \in Moved(op[q]) /\ cur[s] = com[s]
    /\ \A i \in Iterations : q \in share[i] =>
           op[q].kind = "carry" /\ pc[q] \in {"target", "write", "commit"}

\* The others hold what they held.
LEMMA OwnLocksSuffice ==
    ASSUME CoreInv, TypeOK', NEW q \in Requests, Step(q), OwnLocks(q)'
    PROVE  LockInv'
<1> USE DEF CoreInv
<1>1. \A x \in Rows : lock'[x] \in {lock[x], q, None}
      BY LocksOfOthers
<1>2. \A x \in Rows : lock[x] \notin {None, q} => lock'[x] = lock[x] /\ com'[x] = com[x] /\ cur'[x] = cur[x]
      BY LocksOfOthers
<1>3. \A r \in Requests : r # q => op'[r] = op[r] /\ pc'[r] = pc[r] /\ \A i \in Iterations : r \in share'[i] <=> r \in share[i]
      BY OthersGoOn
<1>4. ASSUME NEW x \in Rows, NEW r \in Requests, r # q, lock'[x] = r
      PROVE  lock[x] = r /\ com'[x] = com[x] /\ cur'[x] = cur[x] /\ op'[r] = op[r] /\ pc'[r] = pc[r]
      BY <1>1, <1>2, <1>3, <1>4, ScopeRowsAssumption
<1>5. ASSUME NEW i \in Iterations, NEW r \in Requests, lock'[i] = r PROVE pc'[r] \in Written
      <2>1. CASE r = q
            BY <1>5, <2>1 DEF OwnLocks
      <2>2. CASE r # q
            BY <1>4, <1>5, <2>2 DEF LockInv, Rows
      <2> QED BY <2>1, <2>2
<1>6. ASSUME NEW t \in Tasks, NEW r \in Requests, lock'[t] = r
      PROVE  /\ pc'[r] \in Written \cup {"roll"}
             /\ \/ op'[r].kind = "task" /\ op'[r].task = t
                \/ com'[t].row = "live" /\ lock'[com'[t].parent] = r
      <2>1. CASE r = q
            BY <1>6, <2>1 DEF OwnLocks
      <2>2. CASE r # q
            <3>1. lock[t] = r /\ com'[t] = com[t] /\ op'[r] = op[r] /\ pc'[r] = pc[r]
                  BY <1>4, <1>6, <2>2 DEF Rows, Items
            <3>2. CASE com[t].row = "live" /\ lock[com[t].parent] = r
                  <4>1. com[t].parent \in Rows
                        BY <3>2 DEF RefInv, Rows, Items
                  <4>2. lock'[com[t].parent] = r
                        BY <1>2, <2>2, <3>2, <4>1, ScopeRowsAssumption
                  <4> QED BY <3>1, <3>2, <4>2 DEF LockInv
            <3> QED BY <3>1, <3>2 DEF LockInv
      <2> QED BY <2>1, <2>2
<1>7. ASSUME NEW s \in Stories, NEW r \in Requests, lock'[s] = r
      PROVE  \/ pc'[r] \in Written
             \/ pc'[r] \in Locked /\ s \in Moved(op'[r]) /\ cur'[s] = com'[s]
      <2>1. CASE r = q
            BY <1>7, <2>1 DEF OwnLocks
      <2>2. CASE r # q
            <3>1. lock[s] = r /\ com'[s] = com[s] /\ cur'[s] = cur[s] /\ op'[r] = op[r] /\ pc'[r] = pc[r]
                  BY <1>4, <1>7, <2>2 DEF Rows, Items
            <3> QED BY <3>1 DEF LockInv
      <2> QED BY <2>1, <2>2
<1>8. ASSUME NEW i \in Iterations, NEW r \in Requests, r \in share'[i]
      PROVE  op'[r].kind = "carry" /\ pc'[r] \in {"target", "write", "commit"}
      <2>1. CASE r = q
            BY <1>8, <2>1 DEF OwnLocks
      <2>2. CASE r # q
            BY <1>3, <1>8, <2>2 DEF LockInv
      <2> QED BY <2>1, <2>2
<1> QED BY <1>5, <1>6, <1>7, <1>8 DEF LockInv, OwnLocks

\* Every statement of q leaves q's locks as they should be.
LEMMA StepLocks ==
    ASSUME CoreInv, TypeOK', NEW q \in Requests, Step(q)
    PROVE  LockInv'
<1> SUFFICES OwnLocks(q)'
    BY OwnLocksSuffice
<1>0. /\ op[q] \in Operations /\ OpOK(op[q], pc[q]) /\ OwnLocks(q) /\ q # None
      /\ op \in [Requests -> Operations] /\ lock \in [Rows -> Requests \cup {None}]
      /\ com \in [Rows -> Row] /\ cur \in [Rows -> Row] /\ share \in [Iterations -> SUBSET Requests]
      /\ DOMAIN pc = Requests
      /\ pc[q] = "flip" => cand[q] \in Iterations
      <2>1. OwnLocks(q)
            BY DEF CoreInv, LockInv, OwnLocks
      <2> QED BY <2>1, ScopeRowsAssumption DEF CoreInv, TypeOK, OpInv
<1>a. /\ \A i \in Iterations : i \in Rows /\ i \notin Items
      /\ \A s \in Stories : s \in Rows /\ s \notin Tasks \cup Iterations
      /\ \A t \in Tasks : t \in Rows /\ t \notin Stories \cup Iterations
      BY ScopeRowsAssumption DEF Rows, Items
<1>1. ASSUME Abort(q) PROVE OwnLocks(q)'
      BY <1>0, <1>1, <1>a DEF Abort, Release, Finish, Goto, OwnLocks
<1>b. /\ op[q].items \subseteq Stories /\ Moved(op[q]) \subseteq Stories
      /\ pc[q] \notin Written \cup Locked \cup {"roll"} => \A x \in Rows : lock[x] # q
      <2>1. op[q].items \subseteq Stories
            BY <1>0, OperationFields
      <2>2. Moved(op[q]) \subseteq Stories
            BY <2>1 DEF Moved
      <2> QED BY <1>0, <2>1, <2>2 DEF OwnLocks, Rows, Items
<1>c. \A t \in Tasks : com[t].row = "live" => com[t].parent \in Stories
      BY DEF CoreInv, RefInv
<1>2. CASE lockRows(q)
      <2>1. /\ pc[q] = "lock" /\ \A s \in Moved(op[q]) : lock[s] \in {None, q}
            /\ UNCHANGED <<com, cur, share, op>>
            /\ lock' = [x \in Rows |-> IF x \in Moved(op[q]) THEN q ELSE lock[x]]
            /\ pc'[q] \in {"source", "write"}
            BY <1>0, <1>2 DEF lockRows, Write, At, Blockers, Holders, Goto
      <2>2. \A x \in Rows : lock[x] # q
            BY <1>b, <2>1 DEF Written, Locked
      <2>3. \A i \in Iterations : q \notin share[i]
            BY <1>0, <2>1 DEF OwnLocks
      <2> QED BY <1>0, <1>a, <1>b, <2>1, <2>2, <2>3 DEF OwnLocks, Locked
<1>3. CASE \/ lockRefused(q) \/ targetRefused(q) \/ updateRefused(q) \/ gateRefused(q) \/ pickFails(q)
           \/ deadlockDetected(q)
      BY <1>1, <1>3
      DEF lockRefused, targetRefused, updateRefused, gateRefused, pickFails, deadlockDetected
<1>4. CASE lockSource(q) \/ lockTarget(q)
      BY <1>0, <1>4, <1>a DEF lockSource, lockTarget, Shared, At, Goto, OwnLocks, Locked, Written, OpOK
<1>5. CASE update(q) \/ assignIteration(q)
      <2>1. PICK S, T : Updated(q, S, T)
            BY <1>5, UpdateCases
      <2>2. pc[q] = "write"
            BY <1>5 DEF update, assignIteration, At
      <2>3. /\ com' = com /\ share' = share /\ op' = op /\ S \subseteq Stories /\ T \subseteq Tasks
            /\ lock' = [x \in Rows |-> IF x \in S \cup T THEN q ELSE lock[x]]
            /\ pc'[q] \in Written
            /\ pc'[q] = IF op[q].checks = {} THEN "commit" ELSE "check"
            /\ \A x \in Rows \ (S \cup T) : cur'[x] = cur[x]
            BY <1>0, <2>1 DEF Updated, Written
      <2>4. ASSUME NEW t \in T PROVE com[t].row = "live" /\ com[t].parent \in S
            <3>1. t \in Cascade(q, S, op[q].to) /\ lock[t] \in {None, q} /\ t \in Tasks
                  BY <2>1 DEF Updated
            <3>2. lock[t] # q
                  BY <1>0, <2>2, <3>1 DEF OwnLocks, Written
            <3>3. View(q)[t] = com[t]
                  BY <1>a, <3>1, <3>2 DEF View
            <3> QED BY <3>1, <3>3 DEF Cascade, LiveTasks
      <2>5. \A t \in Tasks : lock'[t] = q => com'[t].row = "live" /\ lock'[com'[t].parent] = q
            BY <1>0, <1>a, <2>2, <2>3, <2>4 DEF OwnLocks, Written
      <2>6. \A i \in Iterations : q \in share[i] => op[q].kind = "carry" /\ op[q].checks = {}
            BY <1>0 DEF OwnLocks, OpOK
      <2> QED BY <1>0, <1>a, <2>3, <2>5, <2>6 DEF OwnLocks
<1>6. CASE softDelete(q) \/ reconcileWrite(q)
      <2>1. /\ pc[q] \in {"write", "roll"} /\ pc'[q] = "commit" /\ UNCHANGED <<com, share, op>>
            /\ lock' = [x \in Rows |-> IF x \in op[q].items THEN q ELSE lock[x]]
            /\ \A x \in Rows \ op[q].items : cur'[x] = cur[x]
            BY <1>0, <1>6 DEF softDelete, reconcileWrite, Write, At, Goto
      <2> QED BY <1>0, <1>a, <1>b, <1>c, <2>1 DEF OwnLocks, Written
<1>7. CASE insertTask(q)
      <2>1. /\ pc[q] = "insert" /\ pc'[q] = "roll" /\ UNCHANGED <<com, share, op>>
            /\ lock' = [x \in Rows |-> IF x = op[q].task THEN q ELSE lock[x]]
            /\ \A x \in Rows : x # op[q].task => cur'[x] = cur[x]
            BY <1>0, <1>7 DEF insertTask, Write, At, Goto
      <2>2. op[q].kind = "task" /\ op[q].task \in Tasks
            BY <1>0, <2>1 DEF OpOK
      <2>3. \A x \in Rows : lock[x] # q
            BY <1>b, <2>1 DEF Written, Locked
      <2>4. \A i \in Iterations : q \notin share[i]
            BY <1>0, <2>1 DEF OwnLocks
      <2> QED BY <1>0, <1>a, <2>1, <2>2, <2>3, <2>4 DEF OwnLocks
<1>9. CASE reconcileSkip(q) \/ gatePassed(q) \/ countItems(q)
      BY <1>0, <1>9 DEF reconcileSkip, gatePassed, countItems, AfterCheck, tables, Goto, OwnLocks, Written, Locked, OpOK
<1>10. CASE acceptComplete(q)
      <2> DEFINE i == cand[q]
      <2>1. /\ pc[q] = "flip" /\ i \in Iterations /\ UNCHANGED <<com, share, op>> /\ pc'[q] \in {"commit", "check"}
            /\ \/ /\ cur' = [cur EXCEPT ![i].state = "accepted"]
                  /\ lock' = [x \in Rows |-> IF x \in {i} THEN q ELSE lock[x]]
               \/ UNCHANGED <<cur, lock>>
            BY <1>0, <1>10 DEF acceptComplete, Write, At, AfterCheck, Goto, tables
      <2>2. \A x \in Rows : x # i => cur'[x] = cur[x] /\ lock'[x] = lock[x]
            BY <1>0, <2>1
      <2>3. cur'[i].row = cur[i].row /\ (lock'[i] = None => lock[i] = None /\ cur'[i] = cur[i])
            <3>1. [cur EXCEPT ![i].state = "accepted"][i] = [cur[i] EXCEPT !.state = "accepted"] /\ cur[i] \in Row
                  BY <1>0, <1>a, <2>1
            <3>2. [cur[i] EXCEPT !.state = "accepted"].row = cur[i].row
                  BY <3>1 DEF Row
            <3> QED BY <1>0, <1>a, <2>1, <3>1, <3>2
      <2> HIDE DEF i
      <2> QED BY <1>0, <1>a, <1>c, <2>1, <2>2, <2>3 DEF OwnLocks, Written
<1>11. CASE setState(q)
      <2> DEFINE i == op[q].iter
      <2>1. /\ pc[q] = "set" /\ lock[i] \in {None, q} /\ UNCHANGED <<lock, share>>
            /\ \/ com' = [com EXCEPT ![i].state = op[q].state] /\ cur' = [cur EXCEPT ![i].state = op[q].state]
               \/ UNCHANGED <<com, cur>>
            BY <1>11 DEF setState, At, Blockers, IterationHolders, Holders
      <2>2. i \in Iterations
            BY <1>0, <2>1 DEF OpOK
      <2>3. (\A x \in Rows : lock[x] # q) /\ \A j \in Iterations : q \notin share[j]
            BY <1>0, <1>b, <2>1 DEF Written, Locked, OwnLocks
      <2>4. \A x \in Rows : x # i => cur'[x] = cur[x] /\ com'[x] = com[x]
            BY <1>0, <2>1
      <2>5. cur'[i] = com'[i] /\ cur'[i].row = com'[i].row
            BY <1>0, <1>a, <2>1, <2>2, <2>3 DEF OwnLocks
      <2> HIDE DEF i
      <2> QED BY <1>0, <1>a, <2>1, <2>3, <2>4, <2>5 DEF OwnLocks
<1>12. CASE removeIteration(q)
      <2> DEFINE i == op[q].iter
      <2>1. /\ pc[q] = "remove" /\ lock[i] \in {None, q} /\ UNCHANGED <<lock, share>>
            /\ com' = [Unscheduled(com, i) EXCEPT ![i].row = "deleted"]
            /\ cur' = [Unscheduled(cur, i) EXCEPT ![i].row = "deleted"]
            BY <1>12 DEF removeIteration, At, Blockers, IterationHolders, Holders
      <2>2. i \in Iterations
            BY <1>0, <2>1 DEF OpOK
      <2>3. (\A x \in Rows : lock[x] # q) /\ \A j \in Iterations : q \notin share[j]
            BY <1>0, <1>b, <2>1 DEF Written, Locked, OwnLocks
      <2>4. \A x \in Rows : cur[x] = com[x] => Unscheduled(cur, i)[x] = Unscheduled(com, i)[x]
            BY DEF Unscheduled
      <2>5. \A x \in Rows : cur[x] = com[x] => cur'[x] = com'[x]
            BY <2>1, <2>4 DEF Unscheduled
      <2>6. \A j \in Iterations : Unscheduled(com, i)[j] = com[j] /\ Unscheduled(cur, i)[j] = cur[j]
            BY <1>a DEF Unscheduled, Scheduled, Items
      <2>7. \A j \in Iterations : j # i => com'[j] = com[j] /\ cur'[j] = cur[j]
            BY <1>a, <2>1, <2>6 DEF Unscheduled
      <2>8. cur[i] = com[i]
            BY <1>0, <1>a, <2>1, <2>2, <2>3 DEF OwnLocks
      <2>9. cur'[i] = com'[i]
            BY <1>a, <2>2, <2>5, <2>8
      <2> HIDE DEF i
      <2> QED BY <1>0, <1>a, <2>1, <2>3, <2>5, <2>7, <2>9 DEF OwnLocks
<1>13. CASE commit(q)
      <2>1. /\ com' = View(q) /\ cur' = cur
            /\ lock' = [x \in Rows |-> IF lock[x] = q THEN None ELSE lock[x]]
            /\ share' = [i \in Iterations |-> share[i] \ {q}]
            BY <1>13 DEF commit, Release
      <2>2. \A x \in Rows : com'[x] = IF lock[x] = q THEN cur[x] ELSE com[x]
            BY <2>1 DEF View
      <2> QED BY <1>0, <1>a, <2>1, <2>2 DEF OwnLocks
<1>14. CASE pickUnfinished(q)
      <2>1. pc[q] = "pick" /\ UNCHANGED <<com, cur, lock, share>>
            BY <1>14 DEF pickUnfinished, tables
      <2>2. (\A x \in Rows : lock[x] # q) /\ \A j \in Iterations : q \notin share[j]
            BY <1>0, <1>b, <2>1 DEF Written, Locked, OwnLocks
      <2> QED BY <1>0, <1>a, <2>1, <2>2 DEF OwnLocks
<1> QED BY <1>2, <1>3, <1>4, <1>5, <1>6, <1>7, <1>9, <1>10, <1>11, <1>12, <1>13, <1>14 DEF Step


\* A statement keeps its operation, ends it, or is a rollover's next edit.
LEMMA StepKeepsOp ==
    ASSUME CoreInv, NEW q \in Requests, Step(q)
    PROVE  \/ op'[q] = op[q]
           \/ op'[q] = NoOp /\ pc'[q] = "idle"
           \/ op'[q].kind = "edit" /\ ~op'[q].match /\ Startable(op'[q], pc'[q]) /\ pickUnfinished(q)
<1>0. DOMAIN op = Requests /\ DOMAIN pc = Requests
      BY DEF CoreInv, TypeOK
<1>1. ASSUME Finish(q) PROVE op'[q] = NoOp /\ pc'[q] = "idle"
      BY <1>0, <1>1 DEF Finish, Goto
<1>2. CASE \/ lockRows(q) \/ lockSource(q) \/ lockTarget(q) \/ softDelete(q) \/ insertTask(q) \/ reconcileWrite(q)
           \/ reconcileSkip(q) \/ gatePassed(q) \/ countItems(q) \/ acceptComplete(q)
      BY <1>2 DEF lockRows, lockSource, lockTarget, softDelete, insertTask, reconcileWrite, reconcileSkip,
                  gatePassed, countItems, acceptComplete, Write
<1>3. CASE \/ lockRefused(q) \/ targetRefused(q) \/ updateRefused(q) \/ gateRefused(q) \/ pickFails(q)
           \/ deadlockDetected(q)
      BY <1>1, <1>3
      DEF lockRefused, targetRefused, updateRefused, gateRefused, pickFails, deadlockDetected, Abort
<1>4. CASE update(q) \/ assignIteration(q)
      BY <1>4, UpdateCases DEF Updated
<1>5. CASE setState(q) \/ removeIteration(q) \/ commit(q)
      BY <1>1, <1>5 DEF setState, removeIteration, commit
<1>6. CASE pickUnfinished(q)
      BY <1>0, <1>6, PickCanStart DEF CoreInv, Goto
<1> QED BY <1>2, <1>3, <1>4, <1>5, <1>6 DEF Step

\* Only three statements change the committed tables.
LEMMA StepCommits ==
    ASSUME CoreInv, NEW q \in Requests, Step(q)
    PROVE  com' = com \/ commit(q) \/ setState(q) \/ removeIteration(q)
<1>1. CASE \/ lockRows(q) \/ lockSource(q) \/ lockTarget(q) \/ softDelete(q) \/ insertTask(q) \/ reconcileWrite(q)
           \/ reconcileSkip(q) \/ gatePassed(q) \/ countItems(q) \/ acceptComplete(q) \/ pickUnfinished(q)
      BY <1>1 DEF lockRows, lockSource, lockTarget, softDelete, insertTask, reconcileWrite, reconcileSkip,
                  gatePassed, countItems, acceptComplete, pickUnfinished, Write, tables
<1>2. CASE \/ lockRefused(q) \/ targetRefused(q) \/ updateRefused(q) \/ gateRefused(q) \/ pickFails(q)
           \/ deadlockDetected(q)
      BY <1>2
      DEF lockRefused, targetRefused, updateRefused, gateRefused, pickFails, deadlockDetected, Abort
<1>3. CASE update(q) \/ assignIteration(q)
      BY <1>3, UpdateCases DEF Updated
<1> QED BY <1>1, <1>2, <1>3 DEF Step

\* The statements that run outside a transaction leave rows and parents alone.
LEMMA SingleStatements ==
    ASSUME CoreInv, NEW q \in Requests, setState(q) \/ removeIteration(q), NEW x \in Items
    PROVE  /\ com'[x].row = com[x].row /\ com'[x].parent = com[x].parent /\ com'[x].state = com[x].state
           /\ cur'[x].row = cur[x].row /\ cur'[x].parent = cur[x].parent
           /\ com'[x].iter # com[x].iter => removeIteration(q) /\ x \in Scheduled(op[q].iter)
           /\ op[q].iter \in Iterations
<1>0. /\ op[q].iter \in Iterations
      /\ com \in [Rows -> Row] /\ cur \in [Rows -> Row]
      /\ x \in Rows /\ x \notin Iterations
      BY ScopeRowsAssumption DEF CoreInv, TypeOK, OpInv, OpOK, setState, removeIteration, At, Rows, Items
<1>1. CASE setState(q)
      BY <1>0, <1>1 DEF setState
<1>2. CASE removeIteration(q)
      <2> DEFINE i == op[q].iter
      <2>1. \A v \in Iterations \cup {None} : \A r \in Row :
               LET n == [r EXCEPT !.iter = v] IN n.row = r.row /\ n.parent = r.parent /\ n.state = r.state
            BY DEF Row
      <2>2. ASSUME NEW f \in [Rows -> Row]
            PROVE  /\ Unscheduled(f, i)[x].row = f[x].row /\ Unscheduled(f, i)[x].parent = f[x].parent
                   /\ Unscheduled(f, i)[x].state = f[x].state
                   /\ x \notin Scheduled(i) => Unscheduled(f, i)[x] = f[x]
            BY <1>0 DEF Unscheduled, Row
      <2>3. com'[x] = Unscheduled(com, i)[x] /\ cur'[x] = Unscheduled(cur, i)[x]
            BY <1>0, <1>2 DEF removeIteration, Unscheduled
      <2> QED BY <1>0, <1>2, <2>2, <2>3
<1> QED BY <1>1, <1>2

\* A task that is being created stays one request's until it commits.
LEMMA StepTasks ==
    ASSUME CoreInv, NEW q \in Requests, Step(q)
    PROVE  TaskInv'
<1>1. ASSUME NEW p \in Requests, op'[p].kind = "task"
      PROVE  op'[p] = op[p] /\ op[p].task \in Tasks /\ (p = q => ~commit(q))
      <2>1. op'[p] = op[p]
            <3>1. NoOp.kind # "task"
                  BY NoOpFields
            <3> QED BY <1>1, <3>1, OthersGoOn, StepKeepsOp DEF CoreInv
      <2>2. op[p].task \in Tasks /\ op[p].rest = {}
            BY <1>1, <2>1 DEF CoreInv, OpInv, OpOK
      <2>3. ASSUME commit(q), p = q PROVE FALSE
            BY <1>1, <2>1, <2>2, <2>3, NoOpFields DEF commit, Finish, CoreInv, TypeOK
      <2> QED BY <2>1, <2>2, <2>3
<1>2. ASSUME NEW p \in Requests, op'[p].kind = "task" PROVE com'[op[p].task].row = "absent"
      <2> DEFINE t == op[p].task
      <2>1. com[t].row = "absent" /\ t \in Tasks /\ t \in Items /\ t \in Rows
            BY <1>1, <1>2 DEF CoreInv, TaskInv, Items, Rows
      <2>2. CASE commit(q)
            <3>1. lock[t] # q
                  BY <1>1, <1>2, <2>1, <2>2 DEF CoreInv, LockInv, TaskInv
            <3> QED BY <2>1, <2>2, <3>1 DEF commit, View
      <2>3. CASE setState(q) \/ removeIteration(q)
            BY <2>1, <2>3, SingleStatements
      <2> QED BY <2>1, <2>2, <2>3, StepCommits
<1>3. \A p, r \in Requests : op'[p].kind = "task" /\ op'[r].kind = "task" /\ op'[r].task = op'[p].task => r = p
      BY <1>1 DEF CoreInv, TaskInv
<1> QED BY <1>1, <1>2, <1>3 DEF TaskInv


\* What q has compared, it holds.
OwnMoves(q) ==
    op[q].kind \in Moves /\ pc[q] \in Locked \cup Written =>
        \A s \in Moved(op[q]) :
            /\ lock[s] = q /\ com[s].row = "live" /\ com[s].iter = op[q].src[s]
            /\ pc[q] \in Written => cur[s].iter = op[q].to

\* A transaction keeps the Stories it has compared until it ends.
LEMMA StepMoves ==
    ASSUME CoreInv, TypeOK', NEW q \in Requests, Step(q)
    PROVE  MoveInv'
<1>0. /\ op[q] \in Operations /\ OpOK(op[q], pc[q]) /\ OwnMoves(q)
      /\ op \in [Requests -> Operations] /\ lock \in [Rows -> Requests \cup {None}]
      /\ DOMAIN pc = Requests /\ Moved(op[q]) \subseteq Stories
      <2>1. op[q] \in Operations /\ op[q].items \subseteq Stories
            BY OperationFields DEF CoreInv, TypeOK
      <2>2. OwnMoves(q)
            BY DEF CoreInv, MoveInv, OwnMoves
      <2> QED BY <2>1, <2>2 DEF CoreInv, TypeOK, OpInv, Moved
<1>a. /\ \A s \in Stories : s \in Rows /\ s \notin Tasks \cup Iterations
      /\ \A i \in Iterations : i \in Rows /\ i \notin Items
      BY ScopeRowsAssumption DEF Rows, Items
<1>1. ASSUME NEW r \in Requests, r # q, op'[r].kind \in Moves, pc'[r] \in Locked \cup Written,
             NEW s \in Moved(op'[r])
      PROVE  /\ lock'[s] = r /\ com'[s].row = "live" /\ com'[s].iter = op'[r].src[s]
             /\ pc'[r] \in Written => cur'[s].iter = op'[r].to
      <2>1. op'[r] = op[r] /\ pc'[r] = pc[r]
            BY <1>1, OthersGoOn DEF CoreInv
      <2>2. /\ lock[s] = r /\ com[s].row = "live" /\ com[s].iter = op[r].src[s]
            /\ pc[r] \in Written => cur[s].iter = op[r].to
            BY <1>1, <2>1 DEF CoreInv, MoveInv
      <2>3. s \in Rows
            <3>1. op[r].items \subseteq Stories
                  BY OperationFields DEF CoreInv, TypeOK
            <3> QED BY <1>1, <1>a, <2>1, <3>1 DEF Moved
      <2>4. lock'[s] = lock[s] /\ com'[s] = com[s] /\ cur'[s] = cur[s]
            BY <1>1, <2>2, <2>3, LocksOfOthers, ScopeRowsAssumption
      <2> QED BY <2>1, <2>2, <2>4
<1> SUFFICES OwnMoves(q)'
    BY <1>1 DEF MoveInv, OwnMoves
<1>2. ASSUME pc'[q] = "idle" PROVE OwnMoves(q)'
      BY <1>2 DEF OwnMoves, Locked, Written
<1>3. ASSUME Finish(q) PROVE OwnMoves(q)'
      BY <1>0, <1>2, <1>3 DEF Finish, Goto
<1>4. CASE lockRows(q)
      <2>1. /\ pc[q] = "lock" /\ \A s \in Moved(op[q]) : lock[s] \in {None, q}
            /\ UNCHANGED <<com, cur, op>>
            /\ lock' = [x \in Rows |-> IF x \in Moved(op[q]) THEN q ELSE lock[x]]
            /\ pc'[q] \in {"source", "write"}
            /\ \A s \in Moved(op[q]) : cur[s].row = "live" /\ cur[s].iter = op[q].src[s]
            BY <1>0, <1>4 DEF lockRows, AsRead, Write, At, Blockers, Holders, Goto
      <2>2. \A s \in Moved(op[q]) : cur[s] = com[s]
            BY <1>0, <1>a, <2>1 DEF CoreInv, LockInv, Locked, Written
      <2> QED BY <1>0, <1>a, <2>1, <2>2 DEF OwnMoves, Written
<1>5. CASE \/ lockRefused(q) \/ targetRefused(q) \/ updateRefused(q) \/ gateRefused(q) \/ pickFails(q)
           \/ deadlockDetected(q)
      BY <1>3, <1>5
      DEF lockRefused, targetRefused, updateRefused, gateRefused, pickFails, deadlockDetected, Abort
<1>6. CASE lockSource(q)
      <2>1. pc[q] = "source" /\ pc'[q] = "target" /\ UNCHANGED <<com, cur, op, lock>>
            BY <1>0, <1>6 DEF lockSource, At, Goto
      <2> QED BY <1>0, <2>1 DEF OwnMoves, Locked, Written
<1>7. CASE lockTarget(q)
      <2>1. pc[q] = "target" /\ pc'[q] = "write" /\ UNCHANGED <<com, cur, op, lock>>
            BY <1>0, <1>7 DEF lockTarget, At, Goto
      <2> QED BY <1>0, <2>1 DEF OwnMoves, Locked, Written
<1>8. CASE update(q) \/ assignIteration(q)
      <2>1. PICK S, T : Updated(q, S, T)
            BY <1>8, UpdateCases
      <2>2. pc[q] = "write" /\ op[q].kind \in Moves
            BY <1>8 DEF update, assignIteration, At, Moves
      <2>3. ASSUME NEW s \in Moved(op[q])
            PROVE  s \in S /\ lock[s] = q /\ com[s].row = "live" /\ com[s].iter = op[q].src[s] /\ op[q].to # Keep
            <3>1. lock[s] = q /\ com[s].row = "live" /\ com[s].iter = op[q].src[s]
                  BY <1>0, <2>2 DEF OwnMoves, Locked
            <3>2. cur[s] = com[s]
                  BY <1>0, <2>2, <3>1 DEF CoreInv, LockInv, Written
            <3> QED BY <2>1, <3>1, <3>2 DEF Updated, Targets, Moved
      <2>4. /\ com' = com /\ op' = op /\ lock' = [x \in Rows |-> IF x \in S \cup T THEN q ELSE lock[x]]
            /\ \A s \in S : cur'[s].iter = IF op[q].to = Keep THEN cur[s].iter ELSE op[q].to
            BY <2>1 DEF Updated
      <2> QED BY <1>0, <1>a, <2>3, <2>4 DEF OwnMoves
<1>9. CASE softDelete(q) \/ insertTask(q) \/ reconcileWrite(q) \/ reconcileSkip(q) \/ gatePassed(q)
      <2>1. op'[q] = op[q] /\ op[q].kind \notin Moves
            BY <1>0, <1>9 DEF softDelete, insertTask, reconcileWrite, reconcileSkip, gatePassed, At, Write,
                              OpOK, Moves
      <2> QED BY <2>1 DEF OwnMoves
<1>10. CASE countItems(q)
      <2>1. pc[q] = "check" /\ UNCHANGED <<com, cur, op, lock>>
            BY <1>10 DEF countItems, tables
      <2> QED BY <1>0, <2>1 DEF OwnMoves, Written
<1>11. CASE acceptComplete(q)
      <2>1. /\ pc[q] = "flip" /\ UNCHANGED <<com, op>> /\ cand[q] \in Iterations
            /\ \/ /\ cur' = [cur EXCEPT ![cand[q]].state = "accepted"]
                  /\ lock' = [x \in Rows |-> IF x \in {cand[q]} THEN q ELSE lock[x]]
               \/ UNCHANGED <<cur, lock>>
            BY <1>11 DEF acceptComplete, Write, At, tables, CoreInv, OpInv
      <2>2. cur \in [Rows -> Row]
            BY DEF CoreInv, TypeOK
      <2>3. \A s \in Stories : cur'[s] = cur[s] /\ lock'[s] = lock[s]
            BY <1>0, <1>a, <2>1, <2>2
      <2> QED BY <1>0, <2>1, <2>3 DEF OwnMoves, Written
<1>12. CASE setState(q) \/ removeIteration(q)
      BY <1>3, <1>12 DEF setState, removeIteration
<1>13. CASE commit(q)
      <2>1. Finish(q) \/ pc'[q] = "pick"
            BY <1>0, <1>13 DEF commit, Goto
      <2> QED BY <1>3, <2>1 DEF OwnMoves, Locked, Written
<1>14. CASE pickUnfinished(q)
      <2>1. PICK o : op' = [op EXCEPT ![q] = o] /\ Goto(q, FirstStep(o)) /\ Startable(o, FirstStep(o))
            BY <1>14, PickCanStart DEF CoreInv
      <2>2. op'[q] = o /\ pc'[q] = FirstStep(o) /\ (FirstStep(o) = "write" => Moved(o) = {})
            BY <1>0, <2>1 DEF Goto, Startable
      <2> QED BY <2>2 DEF OwnMoves, FirstStep, Locked, Written
<1> QED BY <1>4, <1>5, <1>6, <1>7, <1>8, <1>9, <1>10, <1>11, <1>12, <1>13, <1>14 DEF Step


\* A row x of table v points at an iteration that is live in w, and a task has
\* its Story.
Refers(v, w, x) ==
    /\ v[x].iter # None => w[v[x].iter].row = "live"
    /\ x \in Tasks => (v[x].row = "live" \/ v[x].iter # None => v[x].parent \in Stories)

\* RefInv, row by row.
LEMMA RefersEverywhere ==
    /\ RefInv <=> \A x \in Items : Refers(com, com, x) /\ Refers(cur, com, x)
    /\ RefInv' <=> \A x \in Items : Refers(com', com', x) /\ Refers(cur', com', x)
BY DEF RefInv, Refers, NoDanglingIteration, Items

\* A statement that leaves the committed tables alone writes references to
\* iterations that exist.
LEMMA WritesRefer ==
    ASSUME CoreInv, TypeOK', NEW q \in Requests, Step(q), com' = com, ~removeIteration(q)
    PROVE  RefInv'
<1> SUFFICES ASSUME NEW x \in Items PROVE Refers(cur', com, x)
    BY RefersEverywhere DEF CoreInv
<1>0. /\ op[q] \in Operations /\ OpOK(op[q], pc[q]) /\ Refers(cur, com, x) /\ Refers(com, com, x)
      /\ com \in [Rows -> Row] /\ cur \in [Rows -> Row] /\ op[q].items \subseteq Stories
      BY RefersEverywhere, OperationFields DEF CoreInv, TypeOK, OpInv
<1>a. /\ \A i \in Iterations : i \in Rows /\ i # x
      /\ x \in Rows /\ \A s \in Stories : s \in Rows /\ s \notin Tasks
      BY ScopeRowsAssumption DEF Rows, Items
<1>1. ASSUME Abort(q) PROVE Refers(cur', com, x)
      BY <1>0, <1>a, <1>1 DEF Abort, Refers
<1>2. CASE lockRows(q)
      BY <1>0, <1>2 DEF lockRows, Write
<1>3. CASE \/ lockRefused(q) \/ targetRefused(q) \/ updateRefused(q) \/ gateRefused(q) \/ pickFails(q)
           \/ deadlockDetected(q)
      BY <1>1, <1>3
      DEF lockRefused, targetRefused, updateRefused, gateRefused, pickFails, deadlockDetected
<1>4. CASE \/ lockSource(q) \/ lockTarget(q) \/ reconcileSkip(q) \/ gatePassed(q) \/ countItems(q)
           \/ pickUnfinished(q)
      BY <1>0, <1>4 DEF lockSource, lockTarget, reconcileSkip, gatePassed, countItems, pickUnfinished, tables
<1>5. CASE update(q) \/ assignIteration(q)
      <2>1. PICK S, T : Updated(q, S, T)
            BY <1>5, UpdateCases
      <2>2. op[q].to \in Iterations => com[op[q].to].row = "live"
            BY <1>5 DEF update, assignIteration, Referable
      <2>3. op[q].to \in Iterations \cup {None, Keep}
            BY <1>0, OperationFields
      <2>4. CASE x \notin S \cup T
            BY <1>0, <1>a, <2>1, <2>4 DEF Updated, Refers
      <2>5. CASE x \in S
            BY <1>0, <1>a, <2>1, <2>2, <2>3, <2>5 DEF Updated, Refers
      <2>6. CASE x \in T
            <3>1. /\ x \in Tasks /\ View(q)[x].row = "live" /\ View(q)[x].parent \in Stories
                  BY <2>1, <2>6 DEF Updated, Cascade, LiveTasks
            <3>2. cur'[x].iter = op[q].to /\ op[q].to # Keep /\ cur'[x].parent = cur[x].parent
                  BY <2>1, <2>6 DEF Updated
            <3>3. lock[x] \in {None, q}
                  BY <2>1, <2>6 DEF Updated
            <3>4. View(q)[x] = cur[x]
                  BY <1>a, <3>3 DEF View, CoreInv, LockInv
            <3> QED BY <2>2, <2>3, <3>1, <3>2, <3>4 DEF Refers
      <2> QED BY <2>4, <2>5, <2>6
<1>6. CASE softDelete(q)
      <2>1. cur'[x] = cur[x] \/ (x \in Stories /\ cur'[x] = [cur[x] EXCEPT !.row = "deleted"])
            BY <1>0, <1>a, <1>6 DEF softDelete, Write
      <2>2. \A r \in Row : LET n == [r EXCEPT !.row = "deleted"] IN n.iter = r.iter
            BY DEF Row
      <2>3. cur'[x].iter = cur[x].iter /\ (x \in Tasks => cur'[x] = cur[x])
            BY <1>0, <1>a, <2>1, <2>2
      <2> QED BY <1>0, <2>3 DEF Refers
<1>7. CASE insertTask(q)
      <2>1. PICK s \in op[q].items :
               cur' = [cur EXCEPT ![op[q].task] =
                          [row |-> "live", state |-> "open", parent |-> s, iter |-> FromParent(q, s)]]
            BY <1>7 DEF insertTask, Write
      <2>2. s \in Stories /\ s \in Items
            BY <1>0, <2>1 DEF Items
      <2>3. View(q)[s].iter # None => com[View(q)[s].iter].row = "live"
            <3>1. Refers(cur, com, s) /\ Refers(com, com, s)
                  BY <2>2, RefersEverywhere DEF CoreInv
            <3> QED BY <1>a, <2>2, <3>1 DEF View, Refers
      <2> QED BY <1>0, <1>a, <2>1, <2>2, <2>3 DEF Refers, FromParent
<1>8. CASE reconcileWrite(q)
      <2>1. cur'[x] = cur[x] \/ (x \in Stories /\ cur'[x] = [cur[x] EXCEPT !.state = "open"])
            BY <1>0, <1>a, <1>8 DEF reconcileWrite, Write
      <2>2. \A r \in Row : LET n == [r EXCEPT !.state = "open"] IN n.iter = r.iter
            BY DEF Row
      <2>3. cur'[x].iter = cur[x].iter /\ (x \in Tasks => cur'[x] = cur[x])
            BY <1>0, <1>a, <2>1, <2>2
      <2> QED BY <1>0, <2>3 DEF Refers
<1>9. CASE acceptComplete(q)
      <2>1. cur' = cur \/ (cur' = [cur EXCEPT ![cand[q]].state = "accepted"] /\ cand[q] \in Iterations)
            BY <1>9 DEF acceptComplete, Write, At, tables, CoreInv, OpInv
      <2>2. cur'[x] = cur[x]
            BY <1>0, <1>a, <2>1
      <2> QED BY <1>0, <2>2 DEF Refers
<1>10. CASE setState(q)
      <2>1. cur'[x] = cur[x]
            <3>1. op[q].iter \in Iterations
                  BY <1>10, SingleStatements
            <3> QED BY <1>0, <1>10, <1>a, <3>1 DEF setState
      <2> QED BY <1>0, <2>1 DEF Refers
<1>11. CASE commit(q)
      BY <1>0, <1>11 DEF commit
<1> QED BY <1>2, <1>3, <1>4, <1>5, <1>6, <1>7, <1>8, <1>9, <1>10, <1>11 DEF Step


\* A commit makes a request's rows the tables: their iterations still exist.
LEMMA CommitRefers ==
    ASSUME CoreInv, NEW q \in Requests, commit(q)
    PROVE  RefInv'
<1> SUFFICES ASSUME NEW x \in Items PROVE Refers(com', com', x) /\ Refers(cur', com', x)
    BY RefersEverywhere
<1>0. /\ Refers(cur, com, x) /\ Refers(com, com, x) /\ com \in [Rows -> Row] /\ cur \in [Rows -> Row]
      BY RefersEverywhere DEF CoreInv, TypeOK
<1>1. x \in Rows /\ \A i \in Iterations : i \in Rows
      BY DEF Rows
<1>2. com' = View(q) /\ cur' = cur
      BY DEF commit
<1>3. \A i \in Iterations : com'[i].row = com[i].row
      BY <1>1, <1>2 DEF View, CoreInv, LockInv
<1>4. com'[x] \in {com[x], cur[x]}
      BY <1>1, <1>2 DEF View
<1>5. com[x].iter \in Iterations \cup {None} /\ cur[x].iter \in Iterations \cup {None}
      BY <1>0, <1>1 DEF Row
<1> QED BY <1>0, <1>2, <1>3, <1>4, <1>5 DEF Refers

\* Changing or deleting an iteration leaves no row pointing at it.
LEMMA SingleStatementRefers ==
    ASSUME CoreInv, NEW q \in Requests, setState(q) \/ removeIteration(q)
    PROVE  RefInv'
<1> SUFFICES ASSUME NEW x \in Items PROVE Refers(com', com', x) /\ Refers(cur', com', x)
    BY RefersEverywhere
<1> DEFINE i == op[q].iter
<1>0. /\ Refers(cur, com, x) /\ Refers(com, com, x) /\ com \in [Rows -> Row] /\ cur \in [Rows -> Row]
      /\ i \in Iterations /\ lock \in [Rows -> Requests \cup {None}]
      BY RefersEverywhere, SingleStatements DEF CoreInv, TypeOK
<1>a. /\ \A j \in Iterations : j \in Rows /\ j # x /\ j \notin Items
      /\ x \in Rows /\ \A s \in Stories : s \in Rows /\ s \in Items
      BY ScopeRowsAssumption DEF Rows, Items
<1>b. com[x].iter \in Iterations \cup {None} /\ cur[x].iter \in Iterations \cup {None}
      BY <1>0, <1>a DEF Row
<1>1. CASE setState(q)
      <2>1. com'[x] = com[x] /\ cur'[x] = cur[x]
            BY <1>0, <1>1, <1>a DEF setState
      <2>2. \A j \in Iterations : com'[j].row = com[j].row
            <3>1. \A r \in Row : [r EXCEPT !.state = op[q].state].row = r.row
                  BY DEF Row
            <3> QED BY <1>0, <1>1, <1>a, <3>1 DEF setState
      <2> QED BY <1>0, <1>b, <2>1, <2>2 DEF Refers
<1>2. CASE removeIteration(q)
      <2>1. /\ pc[q] = "remove" /\ \A y \in References(i) : lock[y] \in {None, q}
            /\ com' = [Unscheduled(com, i) EXCEPT ![i].row = "deleted"]
            /\ cur' = [Unscheduled(cur, i) EXCEPT ![i].row = "deleted"]
            BY <1>2 DEF removeIteration, At, Blockers, IterationHolders, Holders
      <2>2. \A j \in Iterations : j # i => com'[j] = com[j]
            <3>1. \A j \in Iterations : j \notin Scheduled(i)
                  BY <1>a DEF Scheduled, Items
            <3>2. \A j \in Iterations : Unscheduled(com, i)[j] = com[j]
                  BY <1>a, <3>1 DEF Unscheduled
            <3> QED BY <1>a, <2>1, <3>2 DEF Unscheduled
      <2>3. com'[x] = Unscheduled(com, i)[x] /\ cur'[x] = Unscheduled(cur, i)[x]
            BY <1>0, <1>a, <2>1 DEF Unscheduled
      <2>4. x \in References(i) => cur[x] = com[x]
            <3>1. lock[x] # q
                  BY <2>1 DEF CoreInv, LockInv, Items, Locked, Written
            <3> QED BY <1>a, <2>1, <3>1 DEF CoreInv, LockInv
      <2>5. CASE x \notin Scheduled(i)
            <3>1. com'[x] = com[x] /\ cur'[x] = cur[x]
                  BY <1>a, <2>3, <2>5 DEF Unscheduled
            <3>2. com[x].iter # i /\ cur[x].iter # i
                  BY <2>4, <2>5 DEF Scheduled, References
            <3> QED BY <1>0, <1>b, <2>2, <3>1, <3>2 DEF Refers
      <2>6. CASE x \in Scheduled(i)
            <3> DEFINE u == IF x \in Stories \/ com[com[x].parent].iter = i THEN None ELSE com[com[x].parent].iter
            <3>1. cur[x] = com[x] /\ com[x] \in Row
                  BY <1>0, <1>a, <2>4, <2>6 DEF References
            <3>2. x \in Tasks => com[x].parent \in Stories
                  BY <1>0, <2>6, ScopeRowsAssumption DEF Scheduled, Refers
            <3>3. u \in Iterations \cup {None} /\ u # i /\ (u # None => com[u].row = "live")
                  <4>1. ASSUME x \notin Stories
                        PROVE  /\ com[com[x].parent].iter \in Iterations \cup {None}
                               /\ com[com[x].parent].iter # None => com[com[com[x].parent].iter].row = "live"
                        <5>1. x \in Tasks /\ com[x].parent \in Stories
                              BY <3>2, <4>1 DEF Items
                        <5>2. Refers(com, com, com[x].parent) /\ com[com[x].parent] \in Row
                              BY <1>0, <1>a, <5>1, RefersEverywhere DEF CoreInv
                        <5> QED BY <5>2 DEF Refers, Row
                  <4> QED BY <1>0, <4>1, ScopeRowsAssumption
            <3>4. com'[x] = [com[x] EXCEPT !.iter = u] /\ cur'[x] = [com[x] EXCEPT !.iter = u]
                  BY <1>a, <2>3, <2>6, <3>1 DEF Unscheduled
            <3> HIDE DEF u
            <3>5. com'[x].iter = u /\ cur'[x].iter = u /\ com'[x].parent = com[x].parent /\ cur'[x].parent = com[x].parent
                  BY <3>1, <3>4 DEF Row
            <3> QED BY <2>2, <3>2, <3>3, <3>5 DEF Refers
      <2> QED BY <2>5, <2>6
<1> QED BY <1>1, <1>2

\* The core invariant is kept by every step.
LEMMA CoreStep == CoreInv /\ [Next]_vars => CoreInv'
<1> SUFFICES ASSUME CoreInv, [Next]_vars PROVE CoreInv'
    OBVIOUS
<1>1. CASE \E q \in Requests : \E o, l : Start(q, o, l) /\ Startable(o, l)
      BY <1>1, StartKeepsCore
<1>2. ASSUME NEW q \in Requests, Step(q), UNCHANGED starts PROVE CoreInv'
      <2>1. TypeOK'
            BY <1>2, StepTypes DEF CoreInv
      <2>2. OpInv' /\ LockInv' /\ TaskInv' /\ MoveInv'
            BY <1>2, <2>1, StepOps, StepLocks, StepTasks, StepMoves
      <2>3. RefInv'
            BY <1>2, <2>1, StepCommits, WritesRefer, CommitRefers, SingleStatementRefers
      <2> QED BY <2>1, <2>2, <2>3 DEF CoreInv
<1>3. CASE UNCHANGED vars
      <2> USE <1>3 DEF vars, tables, running
      <2>1. TypeOK' /\ OpInv'
            BY DEF CoreInv, TypeOK, OpInv
      <2>2. LockInv' /\ TaskInv' /\ MoveInv'
            BY DEF CoreInv, LockInv, TaskInv, MoveInv
      <2>3. RefInv'
            BY DEF CoreInv, RefInv, NoDanglingIteration
      <2> QED BY <2>1, <2>2, <2>3 DEF CoreInv
<1> QED BY <1>1, <1>2, <1>3, NextCases DEF CoreInv

\* Nothing is scheduled, and nobody works.
LEMMA CoreInit == Init => CoreInv
<1> SUFFICES ASSUME Init PROVE CoreInv
    OBVIOUS
<1>1. TypeOK
      BY NoOpFields DEF Init, TypeOK, Row, Rows, Items, StoryStates, IterationStates
<1>2. OpOK(NoOp, "idle")
      BY NoOpFields DEF OpOK, Moves
<1>3. OpInv
      BY <1>2 DEF Init, OpInv
<1>4. LockInv
      BY ScopeRowsAssumption DEF Init, LockInv, Rows, Items
<1>5. TaskInv /\ MoveInv
      BY NoOpFields DEF Init, TaskInv, MoveInv, Moves
<1>6. RefInv
      BY ScopeRowsAssumption DEF Init, RefInv, NoDanglingIteration, Rows, Items
<1> QED BY <1>1, <1>3, <1>4, <1>5, <1>6 DEF CoreInv

\* The core invariant holds in every reachable state.
THEOREM ScopeInvariant == Spec => []CoreInv
BY CoreInit, CoreStep, PTL DEF Spec

\* IterationScope's type invariant holds for every set of rows and requests.
THEOREM ScopeTypeCorrect == Spec => []TypeOK
<1>1. CoreInv => TypeOK
      BY DEF CoreInv
<1> QED BY ScopeInvariant, <1>1, PTL

\* However moves, creates and deletes of iterations interleave, no committed item
\* points at an iteration that is gone.
THEOREM IterationsNeverDangle == Spec => []NoDanglingIteration
<1>1. CoreInv => NoDanglingIteration
      BY DEF CoreInv, RefInv
<1> QED BY ScopeInvariant, <1>1, PTL

----------------------------------------------------------------------------
(* Deadlocks                                                                *)

\* Stories are locked before iterations, and who has its Stories waits for no
\* Story: every circle of waiting requests has one that is accepting an
\* iteration, or a bulk assignment in front of Stories it has not locked.
THEOREM DeadlocksAreOfAcceptance == Spec => []DeadlocksNeedAcceptance
<1>1. CoreInv => DeadlocksNeedAcceptance
      <2> SUFFICES ASSUME CoreInv, NEW C \in SUBSET Requests, Circle(C),
                          \A q \in C : pc[q] # "flip" /\ ~(pc[q] = "write" /\ op[q].kind = "bulk")
                   PROVE  FALSE
          BY DEF DeadlocksNeedAcceptance
      <2>0. /\ \A q \in Requests : OpOK(op[q], pc[q]) /\ op[q] \in Operations
            /\ \A q \in C : \E r \in C : r \in Blockers(q)
            /\ \A q \in C : Blockers(q) # {} /\ q # None
            BY ScopeRowsAssumption DEF CoreInv, TypeOK, OpInv, Circle
      <2>1. \A q \in C : pc[q] \notin Written
            BY <2>0 DEF Blockers, Written
      <2>2. \A q \in C, i \in Iterations : lock[i] # q
            BY <2>1 DEF CoreInv, LockInv
      <2>3. \A q \in C : pc[q] \notin {"source", "target"}
            <3> SUFFICES ASSUME NEW q \in C, pc[q] \in {"source", "target"} PROVE FALSE
                OBVIOUS
            <3>1. op[q].kind = "carry"
                  BY <2>0 DEF OpOK
            <3>2. op[q].to \in Iterations /\ \A s \in op[q].items : op[q].src[s] \in Iterations
                  BY <2>0, <3>1 DEF OpOK
            <3>3. PICK r \in C : r \in Blockers(q)
                  BY <2>0
            <3>4. \E i \in Iterations : lock[i] = r
                  BY <3>2, <3>3 DEF Blockers, Holders
            <3> QED BY <2>2, <3>4
      <2>4. \A q \in C, s \in Stories : lock[s] # q
            <3> SUFFICES ASSUME NEW q \in C, NEW s \in Stories, lock[s] = q PROVE FALSE
                OBVIOUS
            <3>1. pc[q] = "write" /\ s \in Moved(op[q])
                  BY <2>1, <2>3 DEF CoreInv, LockInv, Locked
            <3>2. op[q].kind \in {"edit", "carry"}
                  BY <2>0, <3>1 DEF OpOK, Moves, Moved
            <3>3. op[q].items = {s}
                  BY <2>0, <3>1, <3>2 DEF OpOK, Moved
            <3>4. Blockers(q) = Holders(q, {s})
                  BY <3>1, <3>3 DEF Blockers
            <3> QED BY <2>0, <3>4 DEF Holders
      <2>5. \A q \in C, i \in Iterations : q \notin share[i]
            <3> SUFFICES ASSUME NEW q \in C, NEW i \in Iterations, q \in share[i] PROVE FALSE
                OBVIOUS
            <3>1. op[q].kind = "carry" /\ pc[q] = "write"
                  BY <2>1, <2>3 DEF CoreInv, LockInv, Written
            <3>2. PICK s \in Stories : op[q].items = {s} /\ op[q].src[s] \in Iterations \ {op[q].to} /\ op[q].to \in Iterations
                  BY <2>0, <3>1 DEF OpOK
            <3>3. s \in Moved(op[q])
                  BY <3>2, ScopeRowsAssumption DEF Moved
            <3>4. lock[s] = q
                  BY <3>1, <3>3 DEF CoreInv, MoveInv, Moves, Locked
            <3> QED BY <2>4, <3>4
      <2>6. \A q \in C : \E r \in C : \E t \in Tasks : lock[t] = r /\ t \in References(op[q].iter) /\ pc[q] = "remove"
            <3> SUFFICES ASSUME NEW q \in C
                         PROVE  \E r \in C : \E t \in Tasks : lock[t] = r /\ t \in References(op[q].iter) /\ pc[q] = "remove"
                OBVIOUS
            <3>1. PICK r \in C : r \in Blockers(q)
                  BY <2>0
            <3>2. op[q].items \subseteq Stories /\ Moved(op[q]) \subseteq Stories
                  <4>1. op[q].items \subseteq Stories
                        BY <2>0, OperationFields
                  <4> QED BY <4>1 DEF Moved
            <3>3. pc[q] \in {"lock", "write", "roll"} => \E s \in Stories : lock[s] = r
                  BY <3>1, <3>2 DEF Blockers, Holders
            <3>4. pc[q] = "set" => op[q].iter \in Iterations /\ (lock[op[q].iter] = r \/ r \in share[op[q].iter])
                  BY <2>0, <3>1 DEF Blockers, Holders, IterationHolders, OpOK
            <3>5. pc[q] \in {"lock", "write", "roll", "set", "remove"}
                  BY <2>1, <2>3, <3>1 DEF Blockers, Written
            <3>6. pc[q] = "remove"
                  BY <2>2, <2>4, <2>5, <3>3, <3>4, <3>5
            <3>7. /\ op[q].iter \in Iterations
                  /\ \/ lock[op[q].iter] = r \/ r \in share[op[q].iter]
                     \/ \E x \in References(op[q].iter) : lock[x] = r
                  BY <2>0, <3>1, <3>6 DEF Blockers, Holders, IterationHolders, OpOK
            <3>8. PICK x \in References(op[q].iter) : lock[x] = r
                  BY <2>2, <2>5, <3>7
            <3>9. x \in Stories \cup Tasks
                  BY DEF References, Scheduled, Items
            <3> QED BY <2>4, <3>6, <3>8, <3>9
      <2>7. PICK q \in C : TRUE
            BY DEF Circle
      <2>8. PICK r \in C : \E t \in Tasks : lock[t] = r
            BY <2>6, <2>7
      <2>9. pc[r] # "remove"
            BY <2>8 DEF CoreInv, LockInv, Written
      <2> QED BY <2>6, <2>9
<1> QED BY ScopeInvariant, <1>1, PTL

----------------------------------------------------------------------------
(* Carryovers                                                               *)

\* Only acceptComplete locks an iteration.
LEMMA IterationLocks ==
    ASSUME CoreInv, NEW q \in Requests, Step(q), NEW i \in Iterations, lock'[i] = q
    PROVE  lock[i] = q \/ (acceptComplete(q) /\ cand[q] = i)
<1>0. /\ lock \in [Rows -> Requests \cup {None}] /\ OpOK(op[q], pc[q]) /\ op[q].items \subseteq Stories
      /\ i \in Rows /\ i \notin Stories \cup Tasks /\ q # None
      BY ScopeRowsAssumption, OperationFields DEF CoreInv, TypeOK, OpInv, Rows
<1>1. CASE Abort(q)
      BY <1>0, <1>1 DEF Abort, Release
<1>2. CASE lockRows(q)
      BY <1>0, <1>2 DEF lockRows, Write, Moved
<1>3. CASE \/ lockRefused(q) \/ targetRefused(q) \/ updateRefused(q) \/ gateRefused(q) \/ pickFails(q)
           \/ deadlockDetected(q)
      BY <1>1, <1>3
      DEF lockRefused, targetRefused, updateRefused, gateRefused, pickFails, deadlockDetected
<1>4. CASE \/ lockSource(q) \/ lockTarget(q) \/ reconcileSkip(q) \/ gatePassed(q) \/ countItems(q)
           \/ pickUnfinished(q) \/ setState(q) \/ removeIteration(q)
      BY <1>4 DEF lockSource, lockTarget, reconcileSkip, gatePassed, countItems, pickUnfinished,
                  setState, removeIteration, tables
<1>5. CASE update(q) \/ assignIteration(q)
      BY <1>0, <1>5, UpdateCases DEF Updated
<1>6. CASE softDelete(q) \/ reconcileWrite(q)
      BY <1>0, <1>6 DEF softDelete, reconcileWrite, Write
<1>7. CASE insertTask(q)
      BY <1>0, <1>7 DEF insertTask, Write, At, OpOK
<1>8. CASE acceptComplete(q)
      BY <1>0, <1>8 DEF acceptComplete, Write, tables
<1>9. CASE commit(q)
      BY <1>0, <1>9 DEF commit, Release
<1> QED BY <1>2, <1>3, <1>4, <1>5, <1>6, <1>7, <1>8, <1>9 DEF Step

\* An open iteration that is held FOR SHARE is neither accepted nor deleted.
LEMMA SharedStaysOpen ==
    ASSUME CoreInv, NEW q \in Requests, Step(q), NEW r \in Requests, NEW i \in Iterations,
           r # q, r \in share[i], lock[i] = None, Open(com, i)
    PROVE  lock'[i] = None /\ Open(com', i)
<1>0. com \in [Rows -> Row] /\ i \in Rows /\ i \notin Items /\ q # None
      BY ScopeRowsAssumption DEF CoreInv, TypeOK, Rows, Items
<1>1. i \in Iterations => IterationHolders(q, i) # {}
      BY DEF IterationHolders
<1>2. lock'[i] = None
      <2>1. lock'[i] \in {None, q}
            BY <1>0, LocksOfOthers
      <2>2. ASSUME acceptComplete(q), cand[q] = i PROVE FALSE
            <3>1. pc[q] = "flip" /\ Blockers(q) = {}
                  BY <2>2 DEF acceptComplete, At
            <3>2. Blockers(q) = IterationHolders(q, i)
                  BY <2>2, <3>1 DEF Blockers
            <3> QED BY <1>1, <3>1, <3>2
      <2> QED BY <1>0, <2>1, <2>2, IterationLocks
<1>3. CASE commit(q)
      BY <1>0, <1>2, <1>3 DEF commit, View, Open
<1>4. CASE setState(q) \/ removeIteration(q)
      <2>1. op[q].iter # i
            <3>1. setState(q) => Blockers(q) = {} /\ Blockers(q) = IterationHolders(q, op[q].iter)
                  BY DEF setState, At, Blockers
            <3>2. removeIteration(q) =>
                     Blockers(q) = {} /\ Blockers(q) = IterationHolders(q, op[q].iter) \cup Holders(q, References(op[q].iter))
                  BY DEF removeIteration, At, Blockers
            <3> QED BY <1>1, <1>4, <3>1, <3>2
      <2>2. i \notin Scheduled(op[q].iter)
            BY <1>0 DEF Scheduled, Items
      <2>3. Unscheduled(com, op[q].iter)[i] = com[i]
            BY <1>0, <2>2 DEF Unscheduled
      <2>4. com'[i] = com[i]
            BY <1>0, <1>4, <2>1, <2>3 DEF setState, removeIteration, Unscheduled
      <2> QED BY <1>2, <2>4 DEF Open
<1> QED BY <1>2, <1>3, <1>4, StepCommits DEF Open

\* A carryover's part of CarryInv.
OwnCarry(q) ==
    op[q].kind = "carry" /\ pc[q] \in {"write", "commit"} =>
        q \in share[op[q].to] /\ lock[op[q].to] = None /\ Open(com, op[q].to)

\* While a carryover goes on, nobody accepts or deletes its target.
LEMMA CarryStep ==
    ASSUME CoreInv, CarryInv, [Next]_vars
    PROVE  CarryInv'
<1>0. CoreInv'
      BY CoreStep
<1>a. DOMAIN op = Requests /\ DOMAIN pc = Requests /\ \A q \in Requests : OpOK(op[q], pc[q])
      BY DEF CoreInv, TypeOK, OpInv
<1>1. ASSUME NEW q \in Requests, NEW o, NEW l, Start(q, o, l), Startable(o, l) PROVE CarryInv'
      <2>1. ASSUME o.kind = "carry" PROVE l \notin {"write", "commit"}
            <3>1. l # "commit" /\ (l = "write" => Moved(o) = {}) /\ OpOK(o, l)
                  BY <1>1 DEF Startable
            <3>2. Moved(o) # {}
                  BY <2>1, <3>1, ScopeRowsAssumption DEF OpOK, Moved
            <3> QED BY <3>1, <3>2
      <2>2. /\ op' = [op EXCEPT ![q] = o] /\ pc' = [pc EXCEPT ![q] = l] /\ UNCHANGED <<com, lock, share>>
            BY <1>1 DEF Start, tables
      <2> QED BY <1>a, <2>1, <2>2 DEF CarryInv, Open
<1>2. ASSUME NEW q \in Requests, Step(q) PROVE CarryInv'
      <2>1. ASSUME NEW r \in Requests, r # q PROVE OwnCarry(r)'
            <3> SUFFICES ASSUME op'[r].kind = "carry", pc'[r] \in {"write", "commit"}
                         PROVE  r \in share'[op'[r].to] /\ lock'[op'[r].to] = None /\ Open(com', op'[r].to)
                BY DEF OwnCarry
            <3>1. /\ op'[r] = op[r] /\ pc'[r] = pc[r]
                  /\ \A i \in Iterations : r \in share'[i] <=> r \in share[i]
                  BY <1>2, <2>1, OthersGoOn DEF CoreInv
            <3>2. op[r].to \in Iterations
                  BY <1>a, <3>1 DEF OpOK
            <3>3. r \in share[op[r].to] /\ lock[op[r].to] = None /\ Open(com, op[r].to)
                  BY <3>1 DEF CarryInv
            <3> DEFINE i == op[r].to
            <3>4. i \in Iterations /\ r \in share[i] /\ lock[i] = None /\ Open(com, i)
                  BY <3>2, <3>3
            <3> HIDE DEF i
            <3>5. lock'[i] = None /\ Open(com', i)
                  BY <1>2, <2>1, <3>4, SharedStaysOpen
            <3> QED BY <3>1, <3>4, <3>5 DEF i
      <2>2. OwnCarry(q)'
            <3> SUFFICES ASSUME op'[q].kind = "carry", pc'[q] \in {"write", "commit"}
                         PROVE  q \in share'[op'[q].to] /\ lock'[op'[q].to] = None /\ Open(com', op'[q].to)
                BY DEF OwnCarry
            <3>1. op'[q] = op[q]
                  BY <1>2, StepKeepsOp, NoOpFields
            <3>2. op[q].to \in Iterations
                  BY <1>a, <3>1 DEF OpOK
            <3>3. CASE lockTarget(q)
                  <4>1. /\ pc[q] = "target" /\ lock[op[q].to] \in {None, q} /\ Open(com, op[q].to)
                        /\ lock' = lock /\ com' = com /\ share' = [share EXCEPT ![op[q].to] = @ \cup {q}]
                        BY <3>3 DEF lockTarget, At, Blockers, Holders, Shared
                  <4>2. lock[op[q].to] # q
                        BY <3>2, <4>1 DEF CoreInv, LockInv, Written
                  <4> QED BY <3>1, <3>2, <4>1, <4>2 DEF CoreInv, TypeOK, Open
            <3>4. CASE update(q) \/ assignIteration(q)
                  <4>1. PICK S, T : Updated(q, S, T)
                        BY <3>4, UpdateCases
                  <4>2. OwnCarry(q) /\ pc[q] = "write"
                        BY <3>4 DEF CarryInv, OwnCarry, update, assignIteration, At
                  <4>3. op[q].to \in Rows /\ op[q].to \notin S \cup T
                        BY <3>2, <4>1, ScopeRowsAssumption DEF Updated, Rows
                  <4> QED BY <3>1, <4>1, <4>2, <4>3 DEF OwnCarry, Updated, Open
            <3>5. CASE ~lockTarget(q) /\ ~update(q) /\ ~assignIteration(q)
                  <4>1. op[q].kind = "carry" /\ OpOK(op[q], pc[q])
                        BY <1>a, <3>1
                  <4>2. pc[q] \in {"idle", "lock", "source", "target", "write", "commit"}
                        BY <4>1 DEF OpOK, CoreInv, TypeOK
                  <4>3. ASSUME Finish(q) PROVE FALSE
                        BY <1>a, <4>3 DEF Finish, Goto
                  <4>4. ASSUME lockRows(q) PROVE FALSE
                        BY <1>a, <4>1, <4>4 DEF lockRows, Goto
                  <4>5. ASSUME lockSource(q) PROVE FALSE
                        BY <1>a, <4>5 DEF lockSource, Goto
                  <4>6. ASSUME \/ lockRefused(q) \/ targetRefused(q) \/ updateRefused(q) \/ gateRefused(q)
                               \/ pickFails(q) \/ deadlockDetected(q)
                        PROVE  FALSE
                        BY <4>3, <4>6 DEF lockRefused, targetRefused, updateRefused, gateRefused, pickFails,
                                          deadlockDetected, Abort
                  <4>7. ASSUME \/ softDelete(q) \/ insertTask(q) \/ reconcileWrite(q) \/ reconcileSkip(q)
                               \/ countItems(q) \/ acceptComplete(q) \/ gatePassed(q) \/ pickUnfinished(q)
                        PROVE  FALSE
                        BY <4>1, <4>2, <4>7 DEF softDelete, insertTask, reconcileWrite, reconcileSkip, countItems,
                              acceptComplete, gatePassed, pickUnfinished, At
                  <4>8. ASSUME setState(q) \/ removeIteration(q) PROVE FALSE
                        BY <4>3, <4>8 DEF setState, removeIteration
                  <4>9. ASSUME commit(q) PROVE FALSE
                        BY <1>a, <4>3, <4>9 DEF commit, Goto
                  <4> QED BY <1>2, <3>5, <4>4, <4>5, <4>6, <4>7, <4>8, <4>9 DEF Step
            <3> QED BY <3>3, <3>4, <3>5
      <2> QED BY <2>1, <2>2 DEF CarryInv, OwnCarry
<1>3. CASE UNCHANGED vars
      BY <1>3 DEF vars, tables, running, CarryInv, Open
<1> QED BY <1>1, <1>2, <1>3, NextCases DEF CoreInv

\* When a carryover commits, its target is still open.
THEOREM CarryoversReachAnOpenTarget == Spec => CarryoverTargetIsOpen
<1>1. Init => CarryInv
      BY NoOpFields DEF Init, CarryInv
<1>2. CoreInv /\ CarryInv /\ [Next]_vars => CarryInv'
      BY CarryStep
<1>3. CoreInv /\ CarryInv /\ [Next]_vars =>
          [\A q \in Requests : commit(q) /\ op[q].kind = "carry" => Open(com, op[q].to)]_vars
      BY DEF CarryInv, commit
<1> QED BY CoreInit, CoreStep, <1>1, <1>2, <1>3, PTL DEF Spec, CarryoverTargetIsOpen

----------------------------------------------------------------------------
(* If-Match                                                                 *)

\* A request's part of TokenInv.
OwnToken(q) ==
    op[q].match /\ Active(q) =>
        /\ \A s \in op[q].items : op[q].src[s] = op[q].seen.iter
        /\ q \notin stale => \A s \in op[q].items : com[s] = op[q].seen
        /\ pc[q] \in Written => q \notin stale /\ \A s \in op[q].items : lock[s] = q

\* Only what writes committed rows makes tokens stale.
LEMMA StepStale ==
    ASSUME CoreInv, NEW q \in Requests, Step(q), ~commit(q), ~removeIteration(q)
    PROVE  stale' = stale \/ (stale' = stale \ {q} /\ Finish(q))
<1>1. CASE \/ lockRows(q) \/ lockSource(q) \/ lockTarget(q) \/ softDelete(q) \/ insertTask(q) \/ reconcileWrite(q)
           \/ reconcileSkip(q) \/ gatePassed(q) \/ countItems(q) \/ acceptComplete(q) \/ pickUnfinished(q)
           \/ setState(q)
      BY <1>1 DEF lockRows, lockSource, lockTarget, softDelete, insertTask, reconcileWrite, reconcileSkip,
                  gatePassed, countItems, acceptComplete, pickUnfinished, setState, Write
<1>2. CASE \/ lockRefused(q) \/ targetRefused(q) \/ updateRefused(q) \/ gateRefused(q) \/ pickFails(q)
           \/ deadlockDetected(q)
      BY <1>2
      DEF lockRefused, targetRefused, updateRefused, gateRefused, pickFails, deadlockDetected, Abort
<1>3. CASE update(q) \/ assignIteration(q)
      BY <1>3, UpdateCases DEF Updated
<1> QED BY <1>1, <1>2, <1>3 DEF Step

\* The tokens of the others are stale as soon as their row is written.
LEMMA OthersTokens ==
    ASSUME CoreInv, TokenInv, NEW q \in Requests, Step(q), NEW r \in Requests, r # q
    PROVE  OwnToken(r)' /\ (r \in stale' => Active(r)' /\ op'[r].match)
<1>0. /\ op'[r] = op[r] /\ pc'[r] = pc[r] /\ op[r].items \subseteq Stories /\ op[r].items \subseteq Items
      BY OthersGoOn, OperationFields DEF CoreInv, TypeOK, Items
<1>1. OwnToken(r) /\ (r \in stale => Active(r) /\ op[r].match)
      BY DEF TokenInv, OwnToken
<1>2. \A s \in op[r].items : s \in Rows /\ (lock[s] = r => lock'[s] = r)
      BY <1>0, LocksOfOthers, ScopeRowsAssumption DEF Rows
<1>3. CASE commit(q)
      <2>1. stale' = (stale \cup {p \in Requests : Active(p) /\ op[p].match /\ op[p].items \cap Bumped(q) # {}}) \ {q}
            BY <1>3 DEF commit, Touch
      <2>2. op[q].kind # "remove"
            BY <1>3 DEF commit, CoreInv, OpInv, OpOK, Moves
      <2>3. Bumped(q) = {x \in Items : lock[x] = q}
            BY <2>2 DEF Bumped
      <2>4. \A s \in op[r].items : s \notin Bumped(q) => com'[s] = com[s]
            BY <1>0, <1>2, <1>3, <2>3 DEF commit, View
      <2>5. (\A s \in op[r].items : lock[s] = r) => op[r].items \cap Bumped(q) = {}
            BY <2>3
      <2> QED BY <1>0, <1>1, <1>2, <2>1, <2>4, <2>5 DEF OwnToken, Active
<1>4. CASE removeIteration(q)
      <2>1. stale' = (stale \cup {p \in Requests : Active(p) /\ op[p].match /\ op[p].items \cap Bumped(q) # {}}) \ {q}
            BY <1>4 DEF removeIteration, Touch
      <2>2. pc[q] = "remove" /\ Blockers(q) = {}
            BY <1>4 DEF removeIteration, At
      <2>3. op[q].kind = "remove"
            BY <2>2 DEF CoreInv, OpInv, OpOK
      <2>4. Bumped(q) = Scheduled(op[q].iter)
            BY <2>3 DEF Bumped
      <2>5. \A s \in op[r].items : s \notin Bumped(q) => com'[s] = com[s]
            <3>1. op[q].iter \in Iterations
                  BY <1>4, SingleStatements, <2>3 DEF CoreInv, OpInv, OpOK
            <3>2. \A s \in op[r].items : s # op[q].iter
                  BY <1>0, <3>1, ScopeRowsAssumption
            <3> QED BY <1>2, <1>4, <2>4, <3>2 DEF removeIteration, Unscheduled
      <2>6. \A x \in Bumped(q) : lock[x] \in {None, q}
            BY <2>2, <2>4 DEF Blockers, Holders, References
      <2>7. (\A s \in op[r].items : lock[s] = r) => op[r].items \cap Bumped(q) = {}
            BY <2>6, ScopeRowsAssumption
      <2> QED BY <1>0, <1>1, <1>2, <2>1, <2>5, <2>7 DEF OwnToken, Active
<1>5. CASE setState(q)
      <2>1. stale' = stale /\ \A s \in op[r].items : com'[s] = com[s]
            <3>1. op[q].iter \in Iterations
                  BY <1>5 DEF setState, At, CoreInv, OpInv, OpOK
            <3>2. \A s \in op[r].items : s # op[q].iter
                  BY <1>0, <3>1, ScopeRowsAssumption
            <3> QED BY <1>2, <1>5, <3>2 DEF setState, CoreInv, TypeOK
      <2> QED BY <1>0, <1>1, <1>2, <2>1 DEF OwnToken, Active
<1>6. CASE ~commit(q) /\ ~removeIteration(q) /\ ~setState(q)
      <2>1. com' = com
            BY <1>6, StepCommits
      <2>2. r \in stale' <=> r \in stale
            BY <1>6, StepStale
      <2> QED BY <1>0, <1>1, <1>2, <2>1, <2>2 DEF OwnToken, Active
<1> QED BY <1>3, <1>4, <1>5, <1>6

\* The token of the request that takes the step.
LEMMA OwnTokenStep ==
    ASSUME CoreInv, TokenInv, NEW q \in Requests, Step(q)
    PROVE  OwnToken(q)' /\ (q \in stale' => Active(q)' /\ op'[q].match)
<1>0. /\ OpOK(op[q], pc[q]) /\ op[q].items \subseteq Rows /\ q # None
      /\ DOMAIN op = Requests /\ DOMAIN pc = Requests /\ lock \in [Rows -> Requests \cup {None}]
      BY OperationFields, ScopeRowsAssumption DEF CoreInv, TypeOK, OpInv, Rows, Items
<1>1. OwnToken(q) /\ (q \in stale => Active(q) /\ op[q].match)
      BY DEF TokenInv, OwnToken
<1>2. ASSUME Finish(q), q \notin stale' PROVE OwnToken(q)' /\ q \notin stale'
      BY <1>0, <1>2, NoOpFields DEF Finish, Goto, OwnToken
<1>3. ASSUME ~op'[q].match, q \notin stale' PROVE OwnToken(q)' /\ q \notin stale'
      BY <1>3 DEF OwnToken
<1>4. CASE \/ lockRefused(q) \/ targetRefused(q) \/ updateRefused(q) \/ gateRefused(q) \/ pickFails(q)
           \/ deadlockDetected(q)
      BY <1>2, <1>4
      DEF lockRefused, targetRefused, updateRefused, gateRefused, pickFails, deadlockDetected, Abort
<1>5. CASE lockRows(q) \/ lockSource(q) \/ lockTarget(q)
      <2>1. /\ UNCHANGED <<com, op, stale>> /\ Active(q)
            /\ pc'[q] \in {"source", "target", "write"}
            BY <1>0, <1>5 DEF lockRows, lockSource, lockTarget, Write, At, Goto, Active
      <2> QED BY <1>1, <2>1 DEF OwnToken, Active, Written
<1>6. CASE assignIteration(q)
      <2>1. PICK S, T : Updated(q, S, T)
            BY <1>6, UpdateCases
      <2>2. ~op[q].match
            BY <1>0, <1>6 DEF assignIteration, At, OpOK
      <2> QED BY <1>1, <1>3, <2>1, <2>2 DEF Updated
<1>7. CASE update(q)
      <2>1. PICK S, T : Updated(q, S, T)
            BY <1>7, UpdateCases
      <2>2. \A s \in op[q].items : lock'[s] = q
            BY <1>0, <1>7 DEF update, Update, Write
      <2>3. op[q].match => q \notin stale
            BY <1>7 DEF update, TokenMatches
      <2>4. /\ com' = com /\ op' = op /\ stale' = stale /\ Active(q) /\ Active(q)'
            BY <1>0, <1>7, <2>1 DEF Updated, update, At, Active
      <2> QED BY <1>1, <2>2, <2>3, <2>4 DEF OwnToken
<1>8. CASE softDelete(q) \/ insertTask(q) \/ reconcileWrite(q) \/ reconcileSkip(q) \/ gatePassed(q)
      <2>1. op' = op /\ stale' = stale /\ ~op[q].match
            BY <1>0, <1>8 DEF softDelete, insertTask, reconcileWrite, reconcileSkip, gatePassed, At, Write, OpOK
      <2> QED BY <1>1, <1>3, <2>1
<1>9. CASE countItems(q)
      <2>1. UNCHANGED <<com, lock, op, stale>> /\ pc[q] = "check" /\ pc'[q] \in Written
            BY <1>0, <1>9 DEF countItems, AfterCheck, Goto, tables, Written
      <2> QED BY <1>1, <2>1 DEF OwnToken, Active, Written
<1>10. CASE acceptComplete(q)
      <2>1. /\ UNCHANGED <<com, op, stale>> /\ pc[q] = "flip" /\ pc'[q] \in Written
            /\ \A x \in Rows : lock[x] = q => lock'[x] = q
            BY <1>0, <1>10 DEF acceptComplete, At, AfterCheck, Goto, Write, tables, Written
      <2> QED BY <1>0, <1>1, <2>1 DEF OwnToken, Active, Written
<1>11. CASE setState(q)
      <2>1. ~op[q].match /\ stale' = stale /\ Finish(q)
            BY <1>0, <1>11 DEF setState, At, OpOK
      <2> QED BY <1>1, <1>2, <2>1
<1>12. CASE removeIteration(q)
      BY <1>2, <1>12 DEF removeIteration, Touch
<1>13. CASE commit(q)
      <2>1. q \notin stale'
            BY <1>13 DEF commit, Touch
      <2>2. CASE op[q].rest = {}
            BY <1>2, <1>13, <2>1, <2>2 DEF commit
      <2>3. CASE op[q].rest # {}
            <3>1. op' = op /\ ~op[q].match
                  BY <1>0, <1>13, <2>3 DEF commit, OpOK
            <3> QED BY <1>3, <2>1, <3>1
      <2> QED BY <2>2, <2>3
<1>14. CASE pickUnfinished(q)
      <2>1. ~op[q].match /\ stale' = stale
            BY <1>0, <1>14 DEF pickUnfinished, OpOK
      <2>2. ~op'[q].match
            BY <1>0, <1>14, PickCanStart DEF CoreInv
      <2> QED BY <1>1, <1>3, <2>1, <2>2
<1> QED BY <1>4, <1>5, <1>6, <1>7, <1>8, <1>9, <1>10, <1>11, <1>12, <1>13, <1>14 DEF Step

\* Tokens are kept by every step.
LEMMA TokenStep == CoreInv /\ TokenInv /\ [Next]_vars => TokenInv'
<1> SUFFICES ASSUME CoreInv, TokenInv, [Next]_vars PROVE TokenInv'
    OBVIOUS
<1>1. ASSUME NEW q \in Requests, NEW o, NEW l, Start(q, o, l), Startable(o, l) PROVE TokenInv'
      <2>1. /\ pc[q] = "idle" /\ UNCHANGED <<com, cur, lock, share, left, cand, stale>>
            /\ op' = [op EXCEPT ![q] = o] /\ pc' = [pc EXCEPT ![q] = l]
            BY <1>1 DEF Start, Active, tables
      <2>2. q \notin stale /\ stale \subseteq Requests
            BY <2>1 DEF TokenInv, Active, CoreInv, TypeOK
      <2>3. op'[q] = o /\ pc'[q] = l /\ \A r \in Requests : r # q => op'[r] = op[r] /\ pc'[r] = pc[r]
            BY <2>1 DEF CoreInv, TypeOK
      <2>4. l \notin Written /\ OpOK(o, l) /\ Fresh(o)
            BY <1>1 DEF Startable, Written
      <2>5. o.match => \A s \in o.items : o.src[s] = o.seen.iter /\ com[s] = o.seen
            BY <2>4 DEF OpOK, Fresh, Moves
      <2> QED BY <2>1, <2>2, <2>3, <2>4, <2>5 DEF TokenInv, Active
<1>2. ASSUME NEW q \in Requests, Step(q), UNCHANGED starts PROVE TokenInv'
      <2>1. \A r \in Requests : OwnToken(r)' /\ (r \in stale' => Active(r)' /\ op'[r].match)
            BY <1>2, OthersTokens, OwnTokenStep
      <2>2. stale' \subseteq Requests
            BY <1>2, CoreStep, StepTypes DEF CoreInv, TypeOK
      <2> QED BY <2>1, <2>2 DEF TokenInv, OwnToken
<1>3. CASE UNCHANGED vars
      BY <1>3 DEF vars, tables, running, TokenInv, Active
<1> QED BY <1>1, <1>2, <1>3, NextCases DEF CoreInv

\* No request has begun.
LEMMA TokenInit == Init => TokenInv
BY NoOpFields DEF Init, TokenInv, Active

\* A patch with If-Match commits only onto the row its client read.
THEOREM TokensAreCurrent == Spec => TokenIsCurrent
<1>1. CoreInv /\ TokenInv /\ [Next]_vars =>
          [\A q \in Requests : commit(q) /\ op[q].match => \A s \in op[q].items : com[s] = op[q].seen]_vars
      BY DEF TokenInv, commit, Active, Written
<1> QED BY CoreInit, CoreStep, TokenInit, TokenStep, <1>1, PTL DEF Spec, TokenIsCurrent

----------------------------------------------------------------------------
(* The log of moves                                                         *)

\* A request's part of ScopeInv: what its transaction moves.
OwnScope(q) ==
    \A s \in Stories : lock[s] = q /\ cur[s].iter # com[s].iter =>
        op[q].kind \in Moves /\ s \in op[q].items /\ cur[s].iter = op[q].to

\* A transaction moves the Stories it was asked to, to where it was asked to.
LEMMA OwnScopeStep ==
    ASSUME CoreInv, ScopeInv, NEW q \in Requests, Step(q)
    PROVE  OwnScope(q)'
<1>0. /\ OpOK(op[q], pc[q]) /\ op[q].items \subseteq Stories /\ Moved(op[q]) \subseteq Stories /\ q # None
      /\ DOMAIN op = Requests /\ DOMAIN pc = Requests /\ lock \in [Rows -> Requests \cup {None}]
      /\ com \in [Rows -> Row] /\ cur \in [Rows -> Row]
      BY OperationFields, ScopeRowsAssumption DEF CoreInv, TypeOK, OpInv, Moved
<1>1. /\ OwnScope(q)
      /\ \A s \in Stories : lock[s] = None => cur[s] = com[s]
      /\ \A s \in Stories : lock[s] = q /\ pc[q] \notin Written => cur[s] = com[s] /\ pc[q] \in Locked
      BY DEF ScopeInv, OwnScope, CoreInv, LockInv, Rows, Items
<1>2. \A s \in Stories : s \in Rows /\ s \notin Tasks \cup Iterations
      BY ScopeRowsAssumption DEF Rows, Items
<1>3. ASSUME \A s \in Stories : lock'[s] # q PROVE OwnScope(q)'
      BY <1>3 DEF OwnScope
<1>4. ASSUME \A s \in Stories : lock'[s] = lock[s] /\ cur'[s] = cur[s] /\ com'[s] = com[s], op' = op
      PROVE  OwnScope(q)'
      BY <1>1, <1>4 DEF OwnScope
<1>5. ASSUME pc[q] \notin Written \cup Locked PROVE \A s \in Stories : lock[s] # q
      BY <1>1, <1>5
<1>6. ASSUME Abort(q) PROVE OwnScope(q)'
      BY <1>0, <1>2, <1>3, <1>6 DEF Abort, Release
<1>7. CASE \/ lockRefused(q) \/ targetRefused(q) \/ updateRefused(q) \/ gateRefused(q) \/ pickFails(q)
           \/ deadlockDetected(q)
      BY <1>6, <1>7
      DEF lockRefused, targetRefused, updateRefused, gateRefused, pickFails, deadlockDetected
<1>8. CASE lockRows(q)
      <2>1. /\ pc[q] = "lock" /\ \A s \in Moved(op[q]) : lock[s] \in {None, q}
            /\ UNCHANGED <<com, cur, op>>
            /\ lock' = [x \in Rows |-> IF x \in Moved(op[q]) THEN q ELSE lock[x]]
            BY <1>8 DEF lockRows, Write, At, Blockers, Holders
      <2> QED BY <1>1, <1>2, <2>1 DEF OwnScope, Written, Locked
<1>9. CASE lockSource(q) \/ lockTarget(q) \/ reconcileSkip(q) \/ gatePassed(q) \/ countItems(q)
      BY <1>4, <1>9 DEF lockSource, lockTarget, reconcileSkip, gatePassed, countItems, tables
<1>10. CASE update(q) \/ assignIteration(q)
      <2>1. PICK S, T : Updated(q, S, T)
            BY <1>10, UpdateCases
      <2>2. pc[q] = "write" /\ op[q].kind \in Moves
            BY <1>10 DEF update, assignIteration, At, Moves
      <2>3. \A s \in Stories : lock[s] \in {None, q} => cur[s] = com[s]
            BY <1>1, <2>2 DEF Written
      <2>4. /\ com' = com /\ op' = op /\ S \subseteq op[q].items /\ T \subseteq Tasks
            /\ \A x \in S \cup T : lock[x] \in {None, q}
            /\ lock' = [x \in Rows |-> IF x \in S \cup T THEN q ELSE lock[x]]
            /\ \A x \in Rows \ (S \cup T) : cur'[x] = cur[x]
            /\ \A s \in S : cur'[s].iter = IF op[q].to = Keep THEN cur[s].iter ELSE op[q].to
            BY <2>1 DEF Updated
      <2> SUFFICES ASSUME NEW s \in Stories, lock'[s] = q, cur'[s].iter # com'[s].iter
                   PROVE  op'[q].kind \in Moves /\ s \in op'[q].items /\ cur'[s].iter = op'[q].to
          BY DEF OwnScope
      <2>5. s \in S
            BY <1>2, <2>3, <2>4
      <2> QED BY <1>0, <2>2, <2>3, <2>4, <2>5
<1>11. CASE softDelete(q)
      <2>1. /\ pc[q] = "write" /\ com' = com /\ \A s \in op[q].items : lock[s] \in {None, q}
            /\ lock' = [x \in Rows |-> IF x \in op[q].items THEN q ELSE lock[x]]
            /\ cur' = [x \in Rows |-> IF x \in op[q].items THEN [cur[x] EXCEPT !.row = "deleted"] ELSE cur[x]]
            BY <1>11 DEF softDelete, Write, At, Blockers, Holders
      <2>2. \A s \in Stories : cur'[s].iter = cur[s].iter
            BY <1>0, <1>2, <2>1, RowFields
      <2>3. \A s \in Stories : lock'[s] = q => cur[s] = com[s]
            BY <1>1, <1>2, <2>1 DEF Written
      <2> QED BY <2>1, <2>2, <2>3 DEF OwnScope
<1>12. CASE insertTask(q)
      <2>1. /\ pc[q] = "insert" /\ lock' = [x \in Rows |-> IF x \in {op[q].task} THEN q ELSE lock[x]]
            BY <1>12 DEF insertTask, Write, At
      <2>2. op[q].task \in Tasks
            BY <1>0, <2>1 DEF OpOK
      <2> QED BY <1>2, <1>3, <1>5, <2>1, <2>2 DEF Written, Locked
<1>13. CASE reconcileWrite(q)
      <2>1. /\ pc[q] = "roll" /\ com' = com /\ \A s \in op[q].items : lock[s] \in {None, q}
            /\ lock' = [x \in Rows |-> IF x \in op[q].items THEN q ELSE lock[x]]
            /\ cur' = [x \in Rows |-> IF x \in op[q].items THEN [cur[x] EXCEPT !.state = "open"] ELSE cur[x]]
            BY <1>13 DEF reconcileWrite, Write, Holders
      <2>2. \A s \in Stories : cur'[s].iter = cur[s].iter
            BY <1>0, <1>2, <2>1, RowFields DEF StoryStates
      <2>3. \A s \in Stories : lock'[s] = q => cur[s] = com[s]
            BY <1>1, <1>2, <2>1 DEF Written, Locked
      <2> QED BY <2>1, <2>2, <2>3 DEF OwnScope
<1>14. CASE acceptComplete(q)
      <2>1. /\ UNCHANGED <<com, op>> /\ cand[q] \in Iterations
            /\ \/ /\ cur' = [cur EXCEPT ![cand[q]].state = "accepted"]
                  /\ lock' = [x \in Rows |-> IF x \in {cand[q]} THEN q ELSE lock[x]]
               \/ UNCHANGED <<cur, lock>>
            BY <1>14 DEF acceptComplete, Write, At, tables, CoreInv, OpInv
      <2>2. \A s \in Stories : cur'[s] = cur[s] /\ lock'[s] = lock[s]
            BY <1>0, <1>2, <2>1
      <2> QED BY <1>4, <2>1, <2>2
<1>15. CASE setState(q) \/ removeIteration(q)
      <2>1. pc[q] \in {"set", "remove"} /\ lock' = lock
            BY <1>15 DEF setState, removeIteration, At
      <2> QED BY <1>3, <1>5, <2>1 DEF Written, Locked
<1>16. CASE commit(q)
      BY <1>0, <1>2, <1>3, <1>16 DEF commit, Release
<1>17. CASE pickUnfinished(q)
      <2>1. pc[q] = "pick" /\ lock' = lock
            BY <1>17 DEF pickUnfinished, tables
      <2> QED BY <1>3, <1>5, <2>1 DEF Written, Locked
<1> QED BY <1>7, <1>8, <1>9, <1>10, <1>11, <1>12, <1>13, <1>14, <1>15, <1>16, <1>17 DEF Step

\* Requests that step are under way, and a rollover between two Stories goes on
\* with one of them or ends.
LEMMA StepIsActive ==
    ASSUME CoreInv, NEW q \in Requests, Step(q)
    PROVE  /\ Active(q)
           /\ overlapped' = overlapped \/ (overlapped' = overlapped \ {q} /\ pc'[q] = "idle")
           /\ pc[q] = "pick" => pickUnfinished(q) \/ pc'[q] = "idle"
<1>0. DOMAIN pc = Requests
      BY DEF CoreInv, TypeOK
<1>1. CASE \/ lockRows(q) \/ lockSource(q) \/ lockTarget(q) \/ softDelete(q) \/ insertTask(q) \/ reconcileWrite(q)
           \/ reconcileSkip(q) \/ gatePassed(q) \/ countItems(q) \/ acceptComplete(q)
      BY <1>1 DEF lockRows, lockSource, lockTarget, softDelete, insertTask, reconcileWrite, reconcileSkip,
                  gatePassed, countItems, acceptComplete, Write, At, Active
<1>2. CASE \/ lockRefused(q) \/ targetRefused(q) \/ updateRefused(q) \/ gateRefused(q) \/ pickFails(q)
      BY <1>0, <1>2
      DEF lockRefused, targetRefused, updateRefused, gateRefused, pickFails, Abort, Finish, Goto, At, Active
<1>3. CASE update(q) \/ assignIteration(q)
      BY <1>3, UpdateCases DEF Updated, update, assignIteration, At, Active
<1>4. CASE setState(q) \/ removeIteration(q) \/ commit(q)
      BY <1>0, <1>4 DEF setState, removeIteration, commit, Finish, Goto, At, Active
<1>5. CASE pickUnfinished(q)
      BY <1>5 DEF pickUnfinished, Active
<1>6. CASE deadlockDetected(q)
      <2>1. Blockers(q) # {}
            BY <1>6 DEF deadlockDetected
      <2> QED BY <1>0, <1>6, <2>1 DEF deadlockDetected, Blockers, Abort, Finish, Goto, Active
<1> QED BY <1>1, <1>2, <1>3, <1>4, <1>5, <1>6 DEF Step

\* A request that overlaps no other finds what it has read.
Lone(q) ==
    Active(q) /\ q \notin overlapped =>
        /\ \A r \in Requests : Active(r) => r = q
        /\ op[q].kind \in Moves /\ pc[q] # "pick" => \A s \in op[q].items : com[s].iter = op[q].src[s]

\* A request that runs alone stays alone until another starts.
LEMMA LoneStep ==
    ASSUME CoreInv, ScopeInv, NEW q \in Requests, Step(q), NEW r \in Requests
    PROVE  Lone(r)'
<1>0. /\ Active(q)
      /\ overlapped' = overlapped \/ (overlapped' = overlapped \ {q} /\ pc'[q] = "idle")
      /\ pc[q] = "pick" => pickUnfinished(q) \/ pc'[q] = "idle"
      BY StepIsActive
<1>1. \A p \in Requests : p # q => op'[p] = op[p] /\ pc'[p] = pc[p]
      BY OthersGoOn DEF CoreInv
<1>2. Lone(q) /\ Lone(r)
      BY DEF ScopeInv, Lone
<1>3. CASE r # q
      BY <1>0, <1>1, <1>2, <1>3 DEF Lone, Active
<1>4. CASE r = q
      <2> SUFFICES ASSUME Active(q)', q \notin overlapped'
                   PROVE  /\ \A p \in Requests : Active(p)' => p = q
                          /\ op'[q].kind \in Moves /\ pc'[q] # "pick" =>
                                 \A s \in op'[q].items : com'[s].iter = op'[q].src[s]
          BY <1>4 DEF Lone
      <2>1. pc'[q] # "idle" /\ q \notin overlapped
            BY <1>0 DEF Active
      <2>2. \A p \in Requests : Active(p)' => p = q
            BY <1>0, <1>1, <1>2, <2>1 DEF Lone, Active
      <2>3. ASSUME op'[q].kind \in Moves, pc'[q] # "pick", NEW s \in op'[q].items
            PROVE  com'[s].iter = op'[q].src[s]
            <3>1. com' = com
                  <4>1. DOMAIN pc = Requests
                        BY DEF CoreInv, TypeOK
                  <4>2. ASSUME Finish(q) \/ Goto(q, "pick") PROVE FALSE
                        BY <2>1, <2>3, <4>1, <4>2 DEF Finish, Goto
                  <4> QED BY <4>2, StepCommits DEF commit, setState, removeIteration
            <3>2. CASE pickUnfinished(q)
                  <4>1. PICK o : op' = [op EXCEPT ![q] = o] /\ Startable(o, FirstStep(o))
                        BY <3>2, PickCanStart DEF CoreInv
                  <4>2. op'[q] = o
                        BY <4>1 DEF CoreInv, TypeOK
                  <4> QED BY <2>3, <3>1, <4>1, <4>2 DEF Startable, Fresh
            <3>3. CASE ~pickUnfinished(q)
                  <4>1. op'[q] = op[q] /\ pc[q] # "pick"
                        BY <1>0, <2>1, <3>3, StepKeepsOp
                  <4> QED BY <1>0, <1>2, <2>1, <2>3, <3>1, <4>1 DEF Lone
            <3> QED BY <3>2, <3>3
      <2> QED BY <2>2, <2>3
<1> QED BY <1>3, <1>4

\* The scope is kept by every step.
LEMMA ScopeStep == CoreInv /\ ScopeInv /\ [Next]_vars => ScopeInv'
<1> SUFFICES ASSUME CoreInv, ScopeInv, [Next]_vars PROVE ScopeInv'
    OBVIOUS
<1>1. ASSUME NEW q \in Requests, NEW o, NEW l, Start(q, o, l), Startable(o, l) PROVE ScopeInv'
      <2>1. /\ pc[q] = "idle" /\ UNCHANGED <<com, cur, lock>>
            /\ op' = [op EXCEPT ![q] = o] /\ pc' = [pc EXCEPT ![q] = l]
            BY <1>1 DEF Start, Active, tables
      <2>2. op'[q] = o /\ pc'[q] = l /\ \A r \in Requests : r # q => op'[r] = op[r] /\ pc'[r] = pc[r]
            BY <2>1 DEF CoreInv, TypeOK
      <2>3. \A s \in Stories : lock[s] # q
            BY <2>1 DEF CoreInv, LockInv, Written, Locked
      <2>4. \A r \in Requests : OwnScope(r)'
            BY <2>1, <2>2, <2>3 DEF OwnScope, ScopeInv
      <2>5. ASSUME NEW r \in Requests PROVE Lone(r)'
            <3> DEFINE others == {p \in Requests : Active(p)}
            <3>1. CASE others = {}
                  <4>1. \A p \in Requests : Active(p)' => p = q
                        BY <2>2, <3>1 DEF Active
                  <4>2. o.kind \in Moves => \A s \in o.items : com[s].iter = o.src[s]
                        BY <1>1 DEF Startable, Fresh
                  <4> QED BY <2>1, <2>2, <4>1, <4>2 DEF Lone
            <3>2. CASE others # {}
                  <4>1. overlapped' = overlapped \cup {q} \cup others
                        BY <1>1, <3>2 DEF Start
                  <4>2. Active(r)' => r \in overlapped'
                        BY <2>2, <4>1 DEF Active
                  <4> QED BY <4>2 DEF Lone
            <3> QED BY <3>1, <3>2
      <2> QED BY <2>4, <2>5 DEF ScopeInv, OwnScope, Lone
<1>2. ASSUME NEW q \in Requests, Step(q) PROVE ScopeInv'
      <2>1. ASSUME NEW r \in Requests, r # q PROVE OwnScope(r)'
            <3> SUFFICES ASSUME NEW s \in Stories, lock'[s] = r, cur'[s].iter # com'[s].iter
                         PROVE  op'[r].kind \in Moves /\ s \in op'[r].items /\ cur'[s].iter = op'[r].to
                BY DEF OwnScope
            <3>1. op'[r] = op[r]
                  BY <1>2, <2>1, OthersGoOn DEF CoreInv
            <3>2. s \in Rows
                  BY DEF Rows, Items
            <3>3. lock[s] = r /\ com'[s] = com[s] /\ cur'[s] = cur[s]
                  BY <1>2, <2>1, <3>2, LocksOfOthers, ScopeRowsAssumption
            <3> QED BY <3>1, <3>3 DEF ScopeInv
      <2>2. OwnScope(q)'
            BY <1>2, OwnScopeStep
      <2>3. \A r \in Requests : Lone(r)'
            BY <1>2, LoneStep
      <2> QED BY <2>1, <2>2, <2>3 DEF ScopeInv, OwnScope, Lone
<1>3. CASE UNCHANGED vars
      BY <1>3 DEF vars, tables, running, ScopeInv, Active
<1> QED BY <1>1, <1>2, <1>3, NextCases DEF CoreInv

\* Nothing is locked and nobody works.
LEMMA ScopeInit == Init => ScopeInv
BY ScopeRowsAssumption DEF Init, ScopeInv, Active, Rows, Items

\* Every recorded move has the Story's real source and target, and every move is
\* recorded but for the one that sends again, unguarded, an iteration it read.
THEOREM MovesAreRecorded == Spec => MovesAreLogged
<1>1. ASSUME CoreInv, TokenInv, ScopeInv, NEW q \in Requests, commit(q)
      PROVE  /\ \A e \in Recorded(op[q]) : com[e.story].iter = e.from /\ com'[e.story].iter = e.to
             /\ \A s \in Stories : com'[s].iter # com[s].iter =>
                   \/ \E e \in Recorded(op[q]) : e.story = s
                   \/ s \in op[q].items /\ op[q].src[s] = op[q].to /\ ~op[q].match /\ q \in overlapped
      <2>0. /\ OpOK(op[q], pc[q]) /\ op[q].items \subseteq Stories /\ pc[q] = "commit"
            /\ cur \in [Rows -> Row]
            BY <1>1, OperationFields DEF CoreInv, TypeOK, OpInv, commit
      <2>1. \A s \in Stories : com'[s] = IF lock[s] = q THEN cur[s] ELSE com[s]
            BY <1>1 DEF commit, View, Rows, Items
      <2>2. ASSUME NEW s \in Moved(op[q])
            PROVE  com[s].iter = op[q].src[s] /\ com'[s].iter = op[q].to
            <3>1. op[q].kind \in Moves /\ s \in Stories
                  BY <2>0, <2>2 DEF Moved, OpOK
            <3> QED BY <1>1, <2>0, <2>1, <2>2, <3>1 DEF CoreInv, MoveInv, Written
      <2>3. ASSUME NEW s \in Stories, com'[s].iter # com[s].iter, s \notin Moved(op[q])
            PROVE  s \in op[q].items /\ op[q].src[s] = op[q].to /\ ~op[q].match /\ q \in overlapped
            <3>1. lock[s] = q /\ cur[s].iter # com[s].iter
                  BY <2>1, <2>3
            <3>2. op[q].kind \in Moves /\ s \in op[q].items /\ cur[s].iter = op[q].to
                  BY <1>1, <3>1 DEF ScopeInv
            <3>3. op[q].to # Keep
                  <4>1. cur[s] \in Row
                        BY <2>0 DEF Rows, Items
                  <4>2. cur[s].iter \in Iterations \cup {None}
                        BY <4>1 DEF Row
                  <4> QED BY <3>2, <4>2, ScopeRowsAssumption
            <3>4. op[q].src[s] = op[q].to
                  BY <2>3, <3>2, <3>3 DEF Moved
            <3>5. ~op[q].match
                  BY <1>1, <2>0, <3>1, <3>2, <3>4 DEF TokenInv, Active, Written
            <3>6. q \in overlapped
                  BY <1>1, <2>0, <3>1, <3>2, <3>4 DEF ScopeInv, Active
            <3> QED BY <3>2, <3>4, <3>5, <3>6
      <2>4. \A e \in Recorded(op[q]) :
               e.story \in Moved(op[q]) /\ e.from = op[q].src[e.story] /\ e.to = op[q].to
            BY DEF Recorded
      <2>5. ASSUME NEW s \in Moved(op[q]) PROVE \E e \in Recorded(op[q]) : e.story = s
            <3> DEFINE e == [story |-> s, from |-> op[q].src[s], to |-> op[q].to]
            <3>1. e \in Recorded(op[q]) /\ e.story = s
                  BY DEF Recorded
            <3> QED BY <3>1
      <2> QED BY <2>2, <2>3, <2>4, <2>5
<1>2. CoreInv /\ TokenInv /\ ScopeInv /\ [Next]_vars =>
          [\A q \in Requests : commit(q) =>
              /\ \A e \in Recorded(op[q]) : com[e.story].iter = e.from /\ com'[e.story].iter = e.to
              /\ \A s \in Stories : com'[s].iter # com[s].iter =>
                    \/ \E e \in Recorded(op[q]) : e.story = s
                    \/ s \in op[q].items /\ op[q].src[s] = op[q].to /\ ~op[q].match /\ q \in overlapped]_vars
      BY <1>1
<1> QED BY CoreInit, CoreStep, TokenInit, TokenStep, ScopeInit, ScopeStep, <1>2, PTL DEF Spec, MovesAreLogged

----------------------------------------------------------------------------
(* Requests that overlap no other                                           *)

\* A request that overlaps no other holds every lock that is held, sees its own
\* writes and is the only one that can step.
LEMMA LoneView ==
    ASSUME CoreInv, ScopeInv, NEW q \in Requests, Active(q), q \notin overlapped
    PROVE  /\ \A x \in Rows : lock[x] \in {None, q}
           /\ \A x \in Rows : View(q)[x] = cur[x]
           /\ \A r \in Requests : Active(r) => r = q
           /\ pc[q] \notin Written \cup {"roll"} => \A x \in Rows : cur[x] = com[x]
           /\ \A i \in Iterations : pc[q] \notin Written => cur[i] = com[i]
<1>1. \A r \in Requests : Active(r) => r = q
      BY DEF ScopeInv
<1>2. ASSUME NEW x \in Rows PROVE lock[x] \in {None, q}
      <2>1. \A r \in Requests : lock[x] = r => pc[r] \in Written \cup Locked \cup {"roll"}
            BY DEF CoreInv, LockInv, Rows, Items
      <2>2. lock[x] \in Requests \cup {None}
            BY DEF CoreInv, TypeOK
      <2> QED BY <1>1, <2>1, <2>2 DEF Active, Written, Locked
<1>3. \A x \in Rows : lock[x] = None => cur[x] = com[x]
      BY DEF CoreInv, LockInv
<1>4. \A x \in Rows : View(q)[x] = cur[x]
      BY <1>2, <1>3 DEF View
<1>5. ASSUME pc[q] \notin Written \cup {"roll"}, NEW x \in Rows, lock[x] = q PROVE cur[x] = com[x]
      BY <1>5, ScopeRowsAssumption DEF CoreInv, LockInv, Rows, Items
<1>6. ASSUME NEW i \in Iterations, pc[q] \notin Written PROVE cur[i] = com[i]
      <2>1. i \in Rows /\ lock[i] # q
            BY <1>6 DEF CoreInv, LockInv, Rows, Items
      <2> QED BY <1>2, <1>3, <2>1
<1> QED BY <1>1, <1>2, <1>3, <1>4, <1>5, <1>6

\* A statement that leaves the Stories and tasks as they are leaves what is known
\* of them.
LEMMA SameItems ==
    ASSUME com' = com, \A x \in Items : cur'[x] = cur[x]
    PROVE  /\ \A i \in Iterations : TouchedBy(com, cur, i)' <=> TouchedBy(com, cur, i)
           /\ \A i : Complete(cur, i)' <=> Complete(cur, i)
           /\ \A s \in Stories : LiveTasks(cur, s)' = LiveTasks(cur, s)
<1>1. \A s \in Stories : cur'[s] = cur[s]
      BY DEF Items
<1>2. \A t \in Tasks : cur'[t] = cur[t]
      BY DEF Items
<1>3. \A i : Members(cur, i)' = Members(cur, i)
      BY <1>1 DEF Members
<1>4. \A i : Members(cur, i) \subseteq Stories
      BY DEF Members
<1>5. \A i : Complete(cur, i)' <=> Complete(cur, i)
      BY <1>1, <1>3, <1>4 DEF Complete
<1> QED BY <1>1, <1>2, <1>5 DEF TouchedBy, LiveTasks

\* A complete iteration exists: its Stories refer to it.
LEMMA CompleteIsLive ==
    ASSUME CoreInv, NEW i \in Iterations, Complete(cur, i)
    PROVE  com[i].row = "live" /\ cur[i].row = "live"
<1>1. PICK s \in Stories : cur[s].iter = i
      BY DEF Complete, Members
<1>2. i # None
      BY ScopeRowsAssumption
<1> QED BY <1>1, <1>2 DEF CoreInv, RefInv, LockInv, Items

\* What q knows of the tables while it overlaps no other.
Known(q) ==
    Active(q) /\ q \notin overlapped =>
        /\ pc[q] # "pick" => ChecksOK(op[q]) /\ (RollsOver(op[q]) => op[q].items \cap op[q].rest = {})
        /\ RollsOver(op[q]) => Remaining(q) = Unfinished(com, op[q].iter)
        /\ pc[q] \in Written \cup {"roll"} => WritesOK(q)

\* A statement that goes on with the operation and commits nothing keeps what was
\* read.
LEMMA ReadsAreKept ==
    ASSUME NEW q \in Requests, Known(q), Active(q), q \notin overlapped,
           com' = com, op'[q] = op[q], pc[q] # "pick", pc'[q] # "pick",
           pc'[q] \in Written \cup {"roll"} => WritesOK(q)'
    PROVE  Known(q)'
<1>1. ChecksOK(op[q])' <=> ChecksOK(op[q])
      BY DEF ChecksOK
<1>2. Remaining(q)' = Remaining(q)
      BY DEF Remaining
<1>3. Unfinished(com, op[q].iter)' = Unfinished(com, op[q].iter)
      BY DEF Unfinished, Members
<1> QED BY <1>1, <1>2, <1>3 DEF Known, RollsOver

\* An update checks every iteration it touches, and tasks follow their Story.
LEMMA UpdateWritesOK ==
    ASSUME CoreInv, ScopeInv, LoneInv, NEW q \in Requests, q \notin overlapped, update(q) \/ assignIteration(q)
    PROVE  WritesOK(q)'
<1>1. PICK S, T : Updated(q, S, T)
      BY UpdateCases
<1>2. pc[q] = "write" /\ op[q].kind \in Moves
      BY DEF update, assignIteration, At, Moves
<1>3. /\ \A x \in Rows : cur[x] = com[x] /\ View(q)[x] = cur[x]
      /\ ChecksOK(op[q]) /\ FieldsOK(op[q])
      BY <1>2, LoneView DEF Active, Written, LoneInv
<1>4. /\ S \subseteq op[q].items /\ op[q].items \subseteq Stories /\ T \subseteq Tasks
      /\ com' = com /\ op' = op /\ left'[q] = op[q].checks /\ pc'[q] # "flip"
      /\ \A s \in Stories \ S : cur'[s] = com[s]
      /\ \A i \in Iterations : cur'[i] = com[i]
      /\ \A s \in S : /\ cur'[s].iter = IF op[q].to = Keep THEN com[s].iter ELSE op[q].to
                      /\ cur'[s].state = IF op[q].state = Keep THEN com[s].state ELSE op[q].state
      <2>1. op[q].items \subseteq Stories
            BY OperationFields DEF CoreInv, TypeOK
      <2>2. \A x \in Stories \cup Iterations : x \in Rows /\ x \notin T
            BY <1>1, ScopeRowsAssumption DEF Updated, Rows, Items
      <2>3. \A i \in Iterations : i \notin S
            BY <1>1, ScopeRowsAssumption DEF Updated
      <2>4. left'[q] = op[q].checks /\ pc'[q] # "flip"
            BY <1>1 DEF Updated, CoreInv, TypeOK
      <2>5. \A s \in S : /\ cur'[s].iter = IF op[q].to = Keep THEN com[s].iter ELSE op[q].to
                         /\ cur'[s].state = IF op[q].state = Keep THEN com[s].state ELSE op[q].state
            BY <1>1, <1>3, <2>1, <2>2 DEF Updated
      <2>6. \A x \in (Stories \ S) \cup Iterations : cur'[x] = com[x]
            BY <1>1, <1>3, <2>2, <2>3 DEF Updated
      <2> QED BY <1>1, <2>1, <2>4, <2>5, <2>6 DEF Updated
<1>5. ASSUME NEW i \in Iterations, TouchedBy(com, cur', i), op[q].kind \in {"edit", "bulk"} PROVE i \in left'[q]
      <2>1. PICK s \in Stories : \/ com[s].iter # cur'[s].iter /\ i \in {com[s].iter, cur'[s].iter}
                                 \/ cur'[s].iter = i /\ cur'[s].state = "accepted" /\ com[s].state # "accepted"
            BY <1>5 DEF TouchedBy
      <2>2. s \in S /\ s \in op[q].items
            BY <1>4, <2>1
      <2>3. i \in {com[s].iter, IF op[q].to = Keep THEN com[s].iter ELSE op[q].to} \ {None}
            BY <1>4, <2>1, <2>2, ScopeRowsAssumption
      <2>4. \/ op[q].to # Keep /\ op[q].to # com[s].iter
            \/ op[q].state = "accepted" /\ com[s].state # "accepted"
            BY <1>4, <2>1, <2>2
      <2>5. {com[s].iter, IF op[q].to = Keep THEN com[s].iter ELSE op[q].to} \ {None} \subseteq op[q].checks
            BY <1>3, <1>5, <2>2, <2>4 DEF ChecksOK
      <2> QED BY <1>4, <2>3, <2>5
<1>6. ASSUME NEW s \in Stories, NEW t \in LiveTasks(cur', s), t = op'[q].task \/ cur'[s].iter # com'[s].iter
      PROVE  cur'[t].iter = cur'[s].iter
      <2>1. t \in Tasks /\ cur'[t].row = "live" /\ cur'[t].parent = s /\ t \in Rows /\ t # None
            BY <1>6, ScopeRowsAssumption DEF LiveTasks, Rows, Items
      <2>2. op[q].task = None
            BY <1>2, <1>3 DEF FieldsOK, Moves
      <2>3. s \in S /\ op[q].to # Keep /\ cur'[s].iter = op[q].to /\ com[s].iter # op[q].to
            BY <1>4, <1>6, <2>1, <2>2
      <2>4. CASE t \in T
            BY <1>1, <2>3, <2>4 DEF Updated
      <2>5. CASE t \notin T
            <3>1. t \notin S
                  BY <1>4, <2>1, ScopeRowsAssumption
            <3>2. cur'[t] = cur[t] /\ View(q)[t] = cur[t]
                  BY <1>1, <1>3, <2>1, <2>5, <3>1 DEF Updated
            <3>3. t \notin Cascade(q, S, op[q].to)
                  BY <1>1, <2>3, <2>5 DEF Updated
            <3>4. t \in LiveTasks(View(q), s) /\ cur[s].iter # op[q].to
                  BY <1>3, <1>4, <2>1, <2>3, <3>2 DEF LiveTasks, Rows, Items
            <3>5. View(q)[t].iter = op[q].to
                  BY <2>1, <2>3, <3>3, <3>4 DEF Cascade
            <3> QED BY <2>3, <3>2, <3>5
      <2> QED BY <2>4, <2>5
<1>7. ASSUME op[q].kind = "edit" PROVE S = op[q].items
      BY <1>1, <1>7 DEF Updated, Targets
<1> QED BY <1>4, <1>5, <1>6, <1>7 DEF WritesOK

\* Deletes and creates touch no iteration, and a new task is in its Story's.
LEMMA OtherWritesOK ==
    ASSUME CoreInv, ScopeInv, LoneInv, NEW q \in Requests, q \notin overlapped,
           softDelete(q) \/ insertTask(q) \/ reconcileWrite(q) \/ reconcileSkip(q)
    PROVE  WritesOK(q)'
<1>1. /\ pc[q] \in {"write", "insert", "roll"} /\ op[q].kind \in {"drop", "task"} /\ com' = com /\ op' = op
      /\ op[q].items \subseteq Stories /\ FieldsOK(op[q]) /\ DOMAIN pc = Requests
      /\ op[q].kind = "task" => op[q].task \in Tasks /\ \E s \in Stories : op[q].items = {s}
      /\ cur \in [Rows -> Row] /\ OpOK(op[q], pc[q])
      BY OperationFields
      DEF softDelete, insertTask, reconcileWrite, reconcileSkip, Write, tables, At, CoreInv, OpInv, OpOK, TypeOK, LoneInv
<1>2. /\ \A x \in Rows : View(q)[x] = cur[x]
      /\ pc[q] # "roll" => \A x \in Rows : cur[x] = com[x]
      /\ \A i \in Iterations : cur[i] = com[i]
      BY <1>1, LoneView DEF Active, Written
<1>3. \A x \in Stories : x \in Rows /\ x \notin Tasks \cup Iterations
      BY ScopeRowsAssumption DEF Rows, Items
<1>4. \A i \in Iterations : i \in Rows /\ i \notin Items
      BY ScopeRowsAssumption DEF Rows, Items
<1>5. pc'[q] # "flip"
      BY <1>1 DEF softDelete, insertTask, reconcileWrite, reconcileSkip, Goto
<1>6. ASSUME \A i \in Iterations : cur'[i] = cur[i],
             \A s \in Stories : \A t \in LiveTasks(cur', s) : t = op[q].task \/ cur'[s].iter # com[s].iter =>
                 cur'[t].iter = cur'[s].iter
      PROVE  WritesOK(q)'
      BY <1>1, <1>2, <1>5, <1>6 DEF WritesOK
<1>7. CASE softDelete(q)
      <2>1. /\ cur' = [x \in Rows |-> IF x \in op[q].items THEN [cur[x] EXCEPT !.row = "deleted"] ELSE cur[x]]
            /\ pc[q] = "write" /\ op[q].kind = "drop"
            BY <1>7 DEF softDelete, Write, At
      <2>2. \A s \in Stories : cur'[s].iter = com[s].iter
            BY <1>1, <1>2, <1>3, <2>1, RowFields
      <2>3. \A t \in Tasks : t # op[q].task
            BY <1>1, <2>1, ScopeRowsAssumption DEF FieldsOK
      <2>4. \A i \in Iterations : cur'[i] = cur[i]
            BY <1>1, <1>4, <2>1 DEF Items
      <2> QED BY <1>6, <2>2, <2>3, <2>4 DEF LiveTasks
<1>8. CASE insertTask(q)
      <2> DEFINE t == op[q].task
      <2>1. pc[q] = "insert" /\ op[q].kind = "task" /\ t \in Tasks
            BY <1>1, <1>8 DEF insertTask, At, OpOK
      <2>2. PICK s \in op[q].items :
               cur' = [cur EXCEPT ![t] = [row |-> "live", state |-> "open", parent |-> s, iter |-> View(q)[s].iter]]
            BY <1>8 DEF insertTask, Write, FromParent
      <2>3. t \in Rows /\ t \notin Stories /\ t \notin Iterations /\ s \in Stories
            BY <1>1, <2>1, ScopeRowsAssumption DEF Rows, Items
      <2>4. \A x \in Rows \ {t} : cur'[x] = cur[x]
            BY <1>1, <2>2
      <2>5. cur'[t].parent = s /\ cur'[t].iter = cur[s].iter
            BY <1>1, <1>2, <1>3, <2>2, <2>3
      <2>6. \A r \in Stories : cur'[r] = cur[r] /\ cur[r] = com[r]
            BY <1>2, <1>3, <2>1, <2>3, <2>4
      <2>7. \A i \in Iterations : cur'[i] = cur[i]
            BY <1>4, <2>3, <2>4
      <2> QED BY <1>6, <2>5, <2>6, <2>7 DEF LiveTasks
<1>9. CASE reconcileWrite(q) \/ reconcileSkip(q)
      <2>1. /\ pc[q] = "roll" /\ op[q].kind = "task"
            /\ \/ cur' = [x \in Rows |-> IF x \in op[q].items THEN [cur[x] EXCEPT !.state = "open"] ELSE cur[x]]
               \/ cur' = cur
            BY <1>1, <1>9 DEF reconcileWrite, reconcileSkip, Write, tables, OpOK
      <2>2. WritesOK(q)
            BY <2>1 DEF LoneInv, Active
      <2>3. \A s \in Stories : cur'[s].iter = cur[s].iter
            <3>1. CASE cur' = cur
                  BY <3>1
            <3>2. CASE cur' = [x \in Rows |-> IF x \in op[q].items THEN [cur[x] EXCEPT !.state = "open"] ELSE cur[x]]
                  BY <1>1, <1>3, <3>2, RowFields DEF StoryStates
            <3> QED BY <2>1, <3>1, <3>2
      <2>4. \A x \in Tasks \cup Iterations : cur'[x] = cur[x]
            BY <1>1, <1>3, <2>1 DEF Rows, Items
      <2>5. \A s \in Stories : LiveTasks(cur', s) = LiveTasks(cur, s)
            BY <2>4 DEF LiveTasks
      <2>6. \A s \in Stories : LiveTasks(cur, s) \subseteq Tasks
            BY DEF LiveTasks
      <2> QED BY <1>6, <2>2, <2>3, <2>4, <2>5, <2>6 DEF WritesOK
<1> QED BY <1>7, <1>8, <1>9

\* The checks go through the iterations that were touched and accept the ones that
\* are complete.
LEMMA ChecksGoOn ==
    ASSUME CoreInv, ScopeInv, LoneInv, NEW q \in Requests, q \notin overlapped, countItems(q) \/ acceptComplete(q)
    PROVE  WritesOK(q)'
<1>1. /\ pc[q] \in {"check", "flip"} /\ op[q].kind \in {"edit", "bulk"} /\ com' = com /\ op' = op
      /\ DOMAIN pc = Requests /\ DOMAIN left = Requests /\ DOMAIN cand = Requests
      /\ cur \in [Rows -> Row] /\ left[q] \subseteq Iterations
      BY DEF countItems, acceptComplete, Write, tables, At, CoreInv, OpInv, OpOK, TypeOK
<1>2. WritesOK(q)
      BY <1>1 DEF LoneInv, Active, Written
<1>3. \A x \in Rows : View(q)[x] = cur[x]
      BY <1>1, LoneView DEF Active
<1>4. \A i \in Iterations : Complete(View(q), i) <=> Complete(cur, i)
      <2>1. \A s \in Stories : View(q)[s] = cur[s]
            BY <1>3 DEF Rows, Items
      <2>2. \A i \in Iterations : Members(View(q), i) = Members(cur, i) /\ Members(cur, i) \subseteq Stories
            BY <2>1 DEF Members
      <2> QED BY <2>1, <2>2 DEF Complete
<1>5. CASE countItems(q)
      <2>1. cur' = cur
            BY <1>5 DEF countItems, tables
      <2>2. PICK i \in left[q] :
               /\ left' = [left EXCEPT ![q] = @ \ {i}]
               /\ IF Complete(cur, i) THEN Goto(q, "flip") /\ cand' = [cand EXCEPT ![q] = i]
                                      ELSE Goto(q, AfterCheck(left[q] \ {i})) /\ UNCHANGED cand
            BY <1>1, <1>4, <1>5 DEF countItems
      <2>3. /\ left'[q] = left[q] \ {i} /\ pc[q] = "check"
            /\ Complete(cur, i) => pc'[q] = "flip" /\ cand'[q] = i
            /\ ~Complete(cur, i) => pc'[q] # "flip"
            BY <1>1, <1>5, <2>2 DEF Goto, AfterCheck, countItems
      <2> QED BY <1>1, <1>2, <2>1, <2>3, SameItems DEF WritesOK
<1>6. CASE acceptComplete(q)
      <2> DEFINE i == cand[q]
      <2>1. i \in Iterations /\ pc[q] = "flip" /\ Complete(cur, i) /\ i \in Rows /\ i \notin Items
            BY <1>2, <1>6, ScopeRowsAssumption DEF CoreInv, OpInv, acceptComplete, At, WritesOK, Rows, Items
      <2>2. \A x \in Rows \ {i} : cur'[x] = cur[x]
            BY <1>1, <1>6, <2>1 DEF acceptComplete, Write, tables
      <2>3. cur'[i].state = "accepted"
            <3>1. CASE Open(View(q), i)
                  <4>1. cur' = [cur EXCEPT ![i].state = "accepted"]
                        BY <1>6, <3>1 DEF acceptComplete, Write
                  <4> QED BY <1>1, <2>1, <4>1, RowFields DEF IterationStates
            <3>2. CASE ~Open(View(q), i)
                  <4>1. cur[i].state = "accepted"
                        BY <1>3, <2>1, <3>2, CompleteIsLive DEF Open
                  <4> QED BY <1>6, <3>2, <4>1 DEF acceptComplete, tables
            <3> QED BY <3>1, <3>2
      <2>4. \A x \in Items : cur'[x] = cur[x]
            BY <2>1, <2>2 DEF Rows
      <2>5. left' = left /\ pc'[q] # "flip"
            BY <1>1, <1>6 DEF acceptComplete, Goto, AfterCheck
      <2>6. \A j \in Iterations : j # i => cur'[j] = cur[j]
            BY <2>2 DEF Rows
      <2>7. \A s \in Stories : LiveTasks(cur, s) \subseteq Tasks
            BY DEF LiveTasks
      <2>8. \A x \in Stories \cup Tasks : cur'[x] = cur[x]
            BY <2>4 DEF Items
      <2> HIDE DEF i
      <2>9. \A j \in Iterations : TouchedBy(com, cur, j)' /\ Complete(cur, j)' =>
                cur'[j].state = "accepted" \/ j \in left'[q]
            BY <1>1, <1>2, <2>3, <2>4, <2>5, <2>6, SameItems DEF WritesOK, i
      <2>10. \A j \in Iterations : cur'[j].state # com'[j].state => Complete(cur, j)'
            BY <1>1, <1>2, <2>1, <2>4, <2>6, SameItems DEF WritesOK
      <2>11. \A s \in Stories : \A t \in LiveTasks(cur, s)' :
                t = op'[q].task \/ cur'[s].iter # com'[s].iter => cur'[t].iter = cur'[s].iter
            BY <1>1, <1>2, <2>4, <2>7, <2>8, SameItems DEF WritesOK
      <2>12. \A s \in Stories \ op'[q].items : cur'[s] = com'[s]
            BY <1>1, <1>2, <2>8 DEF WritesOK
      <2>13. op'[q].kind = "edit" /\ op'[q].to # Keep => \A s \in op'[q].items : cur'[s].iter = op'[q].to
            <3>1. op[q].items \subseteq Stories
                  BY OperationFields DEF CoreInv, TypeOK
            <3> QED BY <1>1, <1>2, <2>8, <3>1 DEF WritesOK
      <2> QED BY <2>5, <2>9, <2>10, <2>11, <2>12, <2>13 DEF WritesOK
<1> QED BY <1>5, <1>6

\* A commit of a request that overlaps no other commits what it wrote.
LEMMA LoneCommit ==
    ASSUME CoreInv, ScopeInv, LoneInv, NEW q \in Requests, q \notin overlapped, commit(q)
    PROVE  /\ com' = cur /\ WritesOK(q) /\ Active(q) /\ pc[q] = "commit"
           /\ op[q].kind \in {"edit", "bulk"} => left[q] = {}
<1>1. pc[q] = "commit" /\ Active(q)
      BY DEF commit, Active
<1>2. com' = [x \in Rows |-> View(q)[x]] /\ cur \in [Rows -> Row]
      BY DEF commit, View, CoreInv, TypeOK
<1>3. com' = cur
      BY <1>1, <1>2, LoneView
<1> QED BY <1>1, <1>3 DEF LoneInv, Written

\* A rollover that commits an edit has that Story behind it.
LEMMA RolloverGoesOn ==
    ASSUME CoreInv, ScopeInv, LoneInv, NEW q \in Requests, q \notin overlapped, commit(q),
           RollsOver(op[q]), op[q].to # Keep
    PROVE  op[q].rest = {s \in Members(cur, op[q].iter) : cur[s].state # "accepted"}
<1> DEFINE o == op[q]
<1>1. /\ o.rest \cup o.items = Unfinished(com, o.iter) /\ o.items \cap o.rest = {}
      /\ \A s \in Stories \ o.items : cur[s] = com[s]
      /\ \A s \in o.items : cur[s].iter = o.to
      BY LoneCommit DEF LoneInv, Remaining, WritesOK, RollsOver
<1>2. o.items \subseteq Stories /\ o.rest \subseteq Stories /\ o.iter # o.to
      BY OperationFields DEF CoreInv, TypeOK, RollsOver
<1> HIDE DEF o
<1>3. ASSUME NEW s \in o.rest PROVE s \in Members(cur, o.iter) /\ cur[s].state # "accepted"
      BY <1>1, <1>2, <1>3 DEF Unfinished, Members
<1>4. ASSUME NEW s \in Members(cur, o.iter), cur[s].state # "accepted" PROVE s \in o.rest
      <2>1. s \in Stories /\ s \notin o.items
            BY <1>1, <1>2, <1>4 DEF Members
      <2> QED BY <1>1, <1>4, <2>1 DEF Unfinished, Members
<1>5. Members(cur, o.iter) \subseteq Stories
      BY DEF Members
<1>6. o.rest = {s \in Members(cur, o.iter) : cur[s].state # "accepted"}
      BY <1>3, <1>4
<1> QED BY <1>6 DEF o

\* A statement of q leaves q knowing what it knew.
LEMMA OwnKnown ==
    ASSUME CoreInv, ScopeInv, LoneInv, NEW q \in Requests, Step(q)
    PROVE  Known(q)'
<1> SUFFICES ASSUME pc'[q] # "idle", q \notin overlapped'
             PROVE  Known(q)'
    BY DEF Known, Active
<1>1. /\ Active(q) /\ q \notin overlapped /\ DOMAIN pc = Requests /\ DOMAIN op = Requests
      /\ Known(q) /\ OpOK(op[q], pc[q]) /\ FieldsOK(op[q])
      BY StepIsActive DEF CoreInv, TypeOK, OpInv, LoneInv, Known
<1>2. ~Finish(q) /\ ~Abort(q)
      BY <1>1 DEF Abort, Finish, Goto
<1>3. CASE lockRows(q) \/ lockSource(q) \/ lockTarget(q) \/ gatePassed(q)
      <2>1. /\ com' = com /\ op' = op /\ pc[q] # "pick"
            /\ pc'[q] \in {"source", "target", "write", "set"}
            BY <1>1, <1>3 DEF lockRows, lockSource, lockTarget, gatePassed, Write, tables, At, Goto
      <2> QED BY <1>1, <2>1, ReadsAreKept DEF Written
<1>4. CASE update(q) \/ assignIteration(q)
      <2>1. PICK S, T : Updated(q, S, T)
            BY <1>4, UpdateCases
      <2>2. com' = com /\ op' = op /\ pc[q] = "write" /\ pc'[q] \in {"commit", "check"}
            BY <1>1, <1>4, <2>1 DEF Updated, update, assignIteration, At
      <2> QED BY <1>1, <1>4, <2>2, ReadsAreKept, UpdateWritesOK
<1>5. CASE softDelete(q) \/ insertTask(q) \/ reconcileWrite(q) \/ reconcileSkip(q)
      <2>1. com' = com /\ op' = op /\ pc[q] # "pick" /\ pc'[q] \in {"commit", "roll"}
            BY <1>1, <1>5 DEF softDelete, insertTask, reconcileWrite, reconcileSkip, Write, tables, At, Goto
      <2> QED BY <1>1, <1>5, <2>1, ReadsAreKept, OtherWritesOK
<1>6. CASE countItems(q) \/ acceptComplete(q)
      <2>1. com' = com /\ op' = op /\ pc[q] # "pick" /\ pc'[q] # "pick"
            BY <1>1, <1>6 DEF countItems, acceptComplete, Write, tables, At, Goto, AfterCheck
      <2> QED BY <1>1, <1>6, <2>1, ReadsAreKept, ChecksGoOn
<1>7. CASE commit(q)
      <2>1. com' = cur /\ op' = op /\ pc'[q] = "pick" /\ op[q].rest # {}
            BY <1>1, <1>2, <1>7, LoneCommit DEF commit, Goto
      <2>2. RollsOver(op[q]) => op[q].rest = {s \in Members(cur, op[q].iter) : cur[s].state # "accepted"}
            BY <1>1, <1>7, <2>1, RolloverGoesOn DEF OpOK
      <2>3. Unfinished(com, op[q].iter)' = {s \in Members(cur, op[q].iter) : cur[s].state # "accepted"}
            BY <2>1 DEF Unfinished
      <2>4. Remaining(q)' = op[q].rest
            BY <2>1 DEF Remaining
      <2> QED BY <2>1, <2>2, <2>3, <2>4 DEF Known, Written, RollsOver
<1>8. CASE pickUnfinished(q)
      <2>1. PICK o : /\ op' = [op EXCEPT ![q] = o] /\ Goto(q, FirstStep(o))
                     /\ Startable(o, FirstStep(o)) /\ o.kind = "edit" /\ ~o.match
                     /\ o.iter = op[q].iter /\ o.to = op[q].to
                     /\ \E s \in op[q].rest : o.items = {s} /\ o.rest = op[q].rest \ {s}
            BY <1>8, PickCanStart DEF CoreInv
      <2>2. com' = com /\ op'[q] = o /\ pc'[q] \in {"lock", "write"} /\ pc[q] = "pick" /\ op[q].kind = "edit"
            BY <1>1, <1>8, <2>1 DEF pickUnfinished, tables, Goto, FirstStep, OpOK
      <2>3. ChecksOK(o)' /\ o.items \cap o.rest = {}
            BY <2>1, <2>2 DEF Startable, ChecksOK
      <2>4. Remaining(q)' = o.rest \cup o.items /\ Remaining(q) = op[q].rest
            BY <2>2 DEF Remaining
      <2>5. o.rest \cup o.items = op[q].rest
            BY <2>1
      <2>6. Unfinished(com, o.iter)' = Unfinished(com, o.iter)
            BY <2>2 DEF Unfinished, Members
      <2>7. RollsOver(o) => Remaining(q)' = Unfinished(com, o.iter)'
            BY <1>1, <2>1, <2>2, <2>4, <2>5, <2>6 DEF Known, RollsOver
      <2>8. ChecksOK(op[q])' /\ (RollsOver(op[q])' => op'[q].items \cap op'[q].rest = {})
            BY <2>2, <2>3 DEF ChecksOK
      <2>9. RollsOver(op[q])' => Remaining(q)' = Unfinished(com, op[q].iter)'
            BY <2>2, <2>7 DEF RollsOver, Unfinished
      <2> QED BY <2>2, <2>8, <2>9 DEF Known, Written
<1>9. CASE \/ lockRefused(q) \/ targetRefused(q) \/ updateRefused(q) \/ gateRefused(q) \/ pickFails(q)
           \/ deadlockDetected(q) \/ setState(q) \/ removeIteration(q)
      BY <1>2, <1>9
      DEF lockRefused, targetRefused, updateRefused, gateRefused, pickFails, deadlockDetected, setState, removeIteration
<1> QED BY <1>3, <1>4, <1>5, <1>6, <1>7, <1>8, <1>9 DEF Step

\* The fields of an operation go with its kind, and a write commits once its checks
\* are done.
LEMMA StepFields ==
    ASSUME CoreInv, LoneInv, NEW q \in Requests, Step(q)
    PROVE  /\ FieldsOK(op'[q])
           /\ pc'[q] = "commit" /\ op'[q].kind \in {"edit", "bulk"} => left'[q] = {}
<1>0. /\ DOMAIN pc = Requests /\ DOMAIN op = Requests /\ DOMAIN left = Requests /\ OpOK(op[q], pc[q])
      /\ FieldsOK(op[q]) /\ FieldsOK(NoOp)
      BY NoOpFields DEF CoreInv, TypeOK, OpInv, LoneInv, FieldsOK
<1>1. FieldsOK(op'[q])
      BY <1>0, StepKeepsOp DEF Startable
<1>2. ASSUME Finish(q) \/ Abort(q) PROVE pc'[q] # "commit"
      BY <1>0, <1>2 DEF Abort, Finish, Goto
<1>3. CASE lockRows(q) \/ lockSource(q) \/ lockTarget(q) \/ gatePassed(q) \/ insertTask(q)
      BY <1>0, <1>1, <1>3 DEF lockRows, lockSource, lockTarget, gatePassed, insertTask, Goto
<1>4. CASE update(q) \/ assignIteration(q)
      <2>1. PICK S, T : Updated(q, S, T)
            BY <1>4, UpdateCases
      <2> QED BY <1>0, <1>1, <2>1 DEF Updated
<1>5. CASE softDelete(q) \/ reconcileWrite(q) \/ reconcileSkip(q)
      <2>1. op'[q].kind \in {"drop", "task"}
            BY <1>0, <1>5 DEF softDelete, reconcileWrite, reconcileSkip, Write, OpOK
      <2> QED BY <1>1, <2>1
<1>6. CASE countItems(q)
      BY <1>0, <1>1, <1>6 DEF countItems, Goto, AfterCheck
<1>7. CASE acceptComplete(q)
      BY <1>0, <1>1, <1>7 DEF acceptComplete, Goto, AfterCheck
<1>8. CASE commit(q)
      BY <1>0, <1>1, <1>2, <1>8 DEF commit, Goto
<1>9. CASE pickUnfinished(q)
      BY <1>0, <1>1, <1>9, PickCanStart DEF CoreInv, Goto, FirstStep
<1>10. CASE \/ lockRefused(q) \/ targetRefused(q) \/ updateRefused(q) \/ gateRefused(q) \/ pickFails(q)
            \/ deadlockDetected(q) \/ setState(q) \/ removeIteration(q)
      BY <1>1, <1>2, <1>10
      DEF lockRefused, targetRefused, updateRefused, gateRefused, pickFails, deadlockDetected, setState, removeIteration
<1> QED BY <1>3, <1>4, <1>5, <1>6, <1>7, <1>8, <1>9, <1>10 DEF Step

\* What a request that overlaps no other knows stays true until another starts.
LEMMA LoneInvStep == CoreInv /\ ScopeInv /\ LoneInv /\ [Next]_vars => LoneInv'
<1> SUFFICES ASSUME CoreInv, ScopeInv, LoneInv, [Next]_vars PROVE LoneInv'
    OBVIOUS
<1> DEFINE Fields(q) == FieldsOK(op[q]) /\ (pc[q] = "commit" /\ op[q].kind \in {"edit", "bulk"} => left[q] = {})
<1>0. \A q \in Requests : Fields(q) /\ Known(q)
      BY DEF LoneInv, Known
<1>1. ASSUME NEW q \in Requests, NEW o, NEW l, Start(q, o, l), Startable(o, l) PROVE LoneInv'
      <2> DEFINE others == {p \in Requests : Active(p)}
      <2>1. /\ pc[q] = "idle" /\ UNCHANGED <<com, cur, lock, left>>
            /\ op' = [op EXCEPT ![q] = o] /\ pc' = [pc EXCEPT ![q] = l]
            /\ overlapped' = IF others = {} THEN overlapped ELSE overlapped \cup {q} \cup others
            BY <1>1 DEF Start, Active, tables
      <2>2. op'[q] = o /\ pc'[q] = l /\ \A r \in Requests : r # q => op'[r] = op[r] /\ pc'[r] = pc[r]
            BY <2>1 DEF CoreInv, TypeOK
      <2>3. l \in {"lock", "write", "insert", "gate", "set", "remove", "pick"} /\ FieldsOK(o) /\ ChecksOK(o)
            BY <1>1 DEF Startable
      <2>4. \A r \in Requests : Fields(r)'
            BY <1>0, <2>1, <2>2, <2>3
      <2>5. ASSUME NEW r \in Requests PROVE Known(r)'
            <3>1. CASE others # {}
                  <4>1. Active(r)' => r \in overlapped'
                        BY <2>1, <2>2, <3>1 DEF Active
                  <4> QED BY <4>1 DEF Known
            <3>2. CASE others = {} /\ r # q
                  BY <2>2, <3>2 DEF Known, Active
            <3>3. CASE others = {} /\ r = q
                  <4>1. ChecksOK(op[q])' /\ pc'[q] \notin Written \cup {"roll"}
                        BY <2>1, <2>2, <2>3 DEF ChecksOK, Written
                  <4>2. l # "pick" => ~RollsOver(o)
                        BY <1>1, <3>3 DEF Startable, Active
                  <4>3. l = "pick" => Remaining(q)' = Unfinished(com, op[q].iter)'
                        <5>1. l = "pick" => Remaining(q)' = o.rest
                              BY <2>2 DEF Remaining
                        <5>2. Unfinished(com, op[q].iter)' = Unfinished(com, o.iter)
                              BY <2>1, <2>2 DEF Unfinished, Members
                        <5> QED BY <1>1, <5>1, <5>2 DEF Startable
                  <4> QED BY <2>2, <3>3, <4>1, <4>2, <4>3 DEF Known, RollsOver
            <3> QED BY <3>1, <3>2, <3>3
      <2> QED BY <2>4, <2>5 DEF LoneInv, Known
<1>2. ASSUME NEW q \in Requests, Step(q) PROVE LoneInv'
      <2>1. Fields(q)' /\ Known(q)'
            BY <1>2, StepFields, OwnKnown
      <2>2. ASSUME NEW r \in Requests, r # q PROVE Fields(r)' /\ Known(r)'
            <3>1. op'[r] = op[r] /\ pc'[r] = pc[r] /\ left'[r] = left[r] /\ (r \in overlapped' <=> r \in overlapped)
                  BY <1>2, <2>2, OthersGoOn DEF CoreInv
            <3>2. Active(r) => r \in overlapped
                  BY <1>2, <2>2, StepIsActive DEF ScopeInv
            <3> QED BY <1>0, <3>1, <3>2 DEF Known, Active
      <2>3. \A r \in Requests : Fields(r)' /\ Known(r)'
            BY <2>1, <2>2
      <2> QED BY <2>3 DEF LoneInv, Known
<1>3. CASE UNCHANGED vars
      <2>1. UNCHANGED <<com, cur, pc, op, left, cand, overlapped>>
            BY <1>3 DEF vars, tables, running
      <2> QED BY <2>1 DEF LoneInv, FieldsOK, ChecksOK, RollsOver, Remaining, Unfinished, Members, WritesOK,
                          TouchedBy, Complete, LiveTasks, Active
<1> QED BY <1>1, <1>2, <1>3, NextCases DEF CoreInv

\* Nobody works.
LEMMA LoneInvInit == Init => LoneInv
BY NoOpFields DEF Init, LoneInv, FieldsOK, Active

\* The inductive invariant of the requests that overlap no other.
LEMMA LoneInvariant == Spec => [](CoreInv /\ ScopeInv /\ LoneInv)
BY CoreInit, CoreStep, ScopeInit, ScopeStep, LoneInvInit, LoneInvStep, PTL DEF Spec

\* An edit or bulk assignment that overlaps no other request leaves no iteration it
\* touches complete and open; no request that does accepts one that is not complete.
THEOREM LoneWritesAccept == Spec => LoneWriteAccepts
<1>1. ASSUME CoreInv, ScopeInv, LoneInv, NEW q \in Requests, commit(q), q \notin overlapped
      PROVE  /\ op[q].kind \in {"edit", "bulk"} =>
                    \A i \in Iterations : TouchedBy(com, com', i) /\ Complete(com', i) => com'[i].state = "accepted"
             /\ \A i \in Iterations : com'[i].state # com[i].state => Complete(com', i)
      BY <1>1, LoneCommit DEF WritesOK
<1>2. CoreInv /\ ScopeInv /\ LoneInv /\ [Next]_vars =>
          [\A q \in Requests : commit(q) /\ q \notin overlapped =>
              /\ op[q].kind \in {"edit", "bulk"} =>
                    \A i \in Iterations : TouchedBy(com, com', i) /\ Complete(com', i) => com'[i].state = "accepted"
              /\ \A i \in Iterations : com'[i].state # com[i].state => Complete(com', i)]_vars
      BY <1>1
<1> QED BY LoneInvariant, <1>2, PTL DEF Spec, LoneWriteAccepts

\* A move or a create that overlaps no other request leaves the tasks it concerns in
\* their Story's iteration.
THEOREM LoneWritesMirror == Spec => LoneWriteMirrors
<1>1. ASSUME CoreInv, ScopeInv, LoneInv, NEW q \in Requests, commit(q), q \notin overlapped
      PROVE  \A s \in Stories : \A t \in LiveTasks(com', s) :
                 t = op[q].task \/ com'[s].iter # com[s].iter => com'[t].iter = com'[s].iter
      BY <1>1, LoneCommit DEF WritesOK
<1>2. CoreInv /\ ScopeInv /\ LoneInv /\ [Next]_vars =>
          [\A q \in Requests : commit(q) /\ q \notin overlapped =>
              \A s \in Stories : \A t \in LiveTasks(com', s) :
                  t = op[q].task \/ com'[s].iter # com[s].iter => com'[t].iter = com'[s].iter]_vars
      BY <1>1
<1> QED BY LoneInvariant, <1>2, PTL DEF Spec, LoneWriteMirrors

\* The last Story of a rollover that overlaps no other request leaves its iteration
\* with accepted Stories only, and accepted, unless it is empty.
LEMMA RolloverEnds ==
    ASSUME CoreInv, ScopeInv, LoneInv, NEW q \in Requests, commit(q), q \notin overlapped,
           op[q].iter \notin {None, op[q].to}, op[q].rest = {}
    PROVE  /\ \A s \in Members(com', op[q].iter) : com'[s].state = "accepted"
           /\ Members(com', op[q].iter) # {} => com'[op[q].iter].state = "accepted"
<1> DEFINE i == op[q].iter
<1>1. /\ com' = cur /\ WritesOK(q) /\ Active(q) /\ pc[q] = "commit" /\ OpOK(op[q], pc[q]) /\ FieldsOK(op[q])
      /\ op[q].kind \in {"edit", "bulk"} => left[q] = {}
      BY LoneCommit DEF CoreInv, OpInv, LoneInv
<1>2. op[q].kind = "edit" /\ op[q].to # Keep /\ RollsOver(op[q])
      BY <1>1 DEF OpOK, FieldsOK, RollsOver, Moves
<1>3. i \in Iterations
      BY OperationFields DEF CoreInv, TypeOK
<1>4. \A s \in Members(cur, i) : cur[s].state = "accepted"
      BY <1>2, RolloverGoesOn
<1>5. TouchedBy(com, cur, i)
      <2>1. PICK s \in Stories : op[q].items = {s}
            BY <1>1, <1>2 DEF OpOK
      <2>2. s \in Unfinished(com, i)
            BY <1>1, <1>2, <2>1 DEF LoneInv, Remaining
      <2>3. com[s].iter = i /\ cur[s].iter = op[q].to
            BY <1>1, <1>2, <2>1, <2>2 DEF Unfinished, Members, WritesOK
      <2> QED BY <2>3 DEF TouchedBy
<1>6. Members(cur, i) # {} => cur[i].state = "accepted"
      BY <1>1, <1>2, <1>3, <1>4, <1>5 DEF WritesOK, Complete
<1> QED BY <1>1, <1>4, <1>6

\* A rollover that overlaps no other request leaves its iteration accepted.
THEOREM LoneRolloversAccept == Spec => LoneRolloverAccepts
<1>1. CoreInv /\ ScopeInv /\ LoneInv /\ [Next]_vars =>
          [\A q \in Requests :
              commit(q) /\ q \notin overlapped /\ op[q].iter \notin {None, op[q].to} /\ op[q].rest = {} =>
                  /\ \A s \in Members(com', op[q].iter) : com'[s].state = "accepted"
                  /\ Members(com', op[q].iter) # {} => com'[op[q].iter].state = "accepted"]_vars
      BY RolloverEnds
<1> QED BY LoneInvariant, <1>1, PTL DEF Spec, LoneRolloverAccepts

=============================================================================
