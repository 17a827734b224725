-------------------------- MODULE RelayPassProofs --------------------------
(***************************************************************************)
(* One process never runs two passes at a time, calls made during one pass *)
(* share the next, and a call told of success had a pass after it: for any *)
(* number of calls and any failures.                                       *)
(***************************************************************************)
EXTENDS RelayPass, FiniteSetTheorems, TLAPS

\* PassInv is inductive.
LEMMA StepInv == PassInv /\ [Next]_vars => PassInv'
<1> SUFFICES ASSUME PassInv, [Next]_vars PROVE PassInv'
  OBVIOUS
<1> USE CallsAssumption DEF PassInv, TypeOK, Running
<1>1. ASSUME NEW c \in Calls, relayBusy(c) PROVE PassInv'
  <2>1. RunningPass \in Calls \cup {None}
    BY DEF RunningPass
  <2>2. CASE QueuesNew(c)
    BY <1>1, <2>1, <2>2 DEF relayBusy, QueuesNew
  <2>3. CASE ~QueuesNew(c)
    BY <1>1, <2>1, <2>3 DEF relayBusy, QueuesNew
  <2> QED
    BY <2>2, <2>3
<1>2. ASSUME NEW c \in Calls, relayIdle(c) PROVE PassInv'
  BY <1>2 DEF relayIdle, Called
<1>3. ASSUME NEW p \in Calls, runQueued(p) PROVE PassInv'
  BY <1>3 DEF runQueued, Called
<1>4. ASSUME NEW p \in Calls, skipQueued(p) PROVE PassInv'
  BY <1>4 DEF skipQueued
<1>5. ASSUME NEW p \in Calls, NEW o \in {"ok", "rejected"}, passFinally(p, o) PROVE PassInv'
  BY <1>5 DEF passFinally, NextInFlight
<1>6. ASSUME NEW p \in Calls, settle(p) PROVE PassInv'
  BY <1>6 DEF settle
<1>7. CASE UNCHANGED vars
  BY <1>7 DEF vars
<1> QED
  BY <1>1, <1>2, <1>3, <1>4, <1>5, <1>6, <1>7 DEF Next, Step, done

\* A process never runs two passes at a time, whichever passes fail.
THEOREM PassesAreSerial == Spec => []OnePassAtATime
<1>1. Init => PassInv
  BY CallsAssumption DEF Init, PassInv, TypeOK, Running
<1>2. PassInv => OnePassAtATime
  <2> SUFFICES ASSUME PassInv PROVE OnePassAtATime
    OBVIOUS
  <2>1. Running \subseteq {inFlight}
    BY DEF PassInv, Running
  <2>2. IsFiniteSet({inFlight}) /\ Cardinality({inFlight}) = 1
    BY FS_Singleton
  <2>3. Cardinality(Running) <= 1
    BY <2>1, <2>2, FS_Subset
  <2> QED
    BY <2>3 DEF OnePassAtATime
<1> QED
  BY <1>1, <1>2, StepInv, PTL DEF Spec

\* PassInv holds of the fields of a relay at every step.
THEOREM PassInvariant == Spec => []PassInv
<1>1. Init => PassInv
  BY CallsAssumption DEF Init, PassInv, TypeOK, Running
<1> QED
  BY <1>1, StepInv, PTL DEF Spec

----------------------------------------------------------------------------
(* Bursts                                                                   *)

\* The calls made during a pass that still runs were given the queued one, and
\* a pass during which a call was made has started.
BurstInv ==
    /\ \A c \in Calls : awaited[c] = None => during[c] = None
    /\ \A c \in Calls : during[c] # None =>
          promise[during[c]] \in {"running", "finally", "ok", "rejected"}
    /\ \A c \in Calls : during[c] # None /\ promise[during[c]] = "running" =>
          queued # None /\ awaited[c] = queued
    /\ BurstSharesOnePass

\* Every step keeps the calls of a burst behind one pass.
LEMMA BurstStep == PassInv /\ BurstInv /\ [Next]_vars => BurstInv'
<1> SUFFICES ASSUME PassInv, BurstInv, [Next]_vars PROVE BurstInv'
  OBVIOUS
<1> USE CallsAssumption DEF PassInv, TypeOK, Running, BurstInv, BurstSharesOnePass, Called
<1>1. ASSUME NEW c \in Calls, relayBusy(c) PROVE BurstInv'
  <2>1. RunningPass \in Calls \cup {None} /\ (RunningPass # None => promise[RunningPass] = "running")
    BY DEF RunningPass
  <2>2. RunningPass # None => inFlight = RunningPass
    BY <2>1
  <2>3. during' = [during EXCEPT ![c] = RunningPass] /\ during[c] = None
    BY <1>1 DEF relayBusy
  <2>4. CASE QueuesNew(c)
    <3>1. promise' = [promise EXCEPT ![c] = "waiting"] /\ awaited' = [awaited EXCEPT ![c] = c] /\ queued' = c
      BY <1>1, <2>4 DEF relayBusy
    <3>2. \A d \in Calls : during[d] # None => promise[during[d]] # "running"
      BY <2>4 DEF QueuesNew
    <3>3. promise[c] = "none"
      BY <1>1 DEF relayBusy
    <3>4. \A d \in Calls \ {c} : during'[d] # None => during'[d] # RunningPass /\ promise'[during'[d]] = promise[during[d]]
      BY <2>1, <2>3, <3>1, <3>2, <3>3
    <3>5. during'[c] = RunningPass /\ awaited'[c] = c /\ (RunningPass # None => promise'[RunningPass] = "running")
      BY <2>1, <2>3, <3>1, <3>3
    <3> QED
      BY <2>3, <3>1, <3>2, <3>4, <3>5
  <2>5. CASE ~QueuesNew(c)
    <3>1. promise' = promise /\ queued' = queued /\ awaited' = [awaited EXCEPT ![c] = queued] /\ queued # None
      BY <1>1, <2>5 DEF relayBusy, QueuesNew
    <3> QED
      BY <2>1, <2>3, <3>1
  <2> QED
    BY <2>4, <2>5
<1>2. ASSUME NEW c \in Calls, relayIdle(c) PROVE BurstInv'
  <2>1. Running = {}
    BY <1>2 DEF relayIdle
  <2>2. promise[c] = "none" /\ during[c] = None
    BY <1>2 DEF relayIdle
  <2> QED
    BY <1>2, <2>1, <2>2 DEF relayIdle
<1>3. ASSUME NEW p \in Calls, runQueued(p) PROVE BurstInv'
  BY <1>3 DEF runQueued
<1>4. ASSUME NEW p \in Calls, skipQueued(p) PROVE BurstInv'
  BY <1>4 DEF skipQueued
<1>5. ASSUME NEW p \in Calls, NEW o \in {"ok", "rejected"}, passFinally(p, o) PROVE BurstInv'
  BY <1>5 DEF passFinally, NextInFlight
<1>6. ASSUME NEW p \in Calls, settle(p) PROVE BurstInv'
  BY <1>6 DEF settle
<1>7. CASE UNCHANGED vars
  BY <1>7 DEF vars
<1> QED
  BY <1>1, <1>2, <1>3, <1>4, <1>5, <1>6, <1>7 DEF Next, Step, done

\* However many wake signals arrive during a pass, they share one extra pass.
THEOREM BurstsShareOnePass == Spec => []BurstSharesOnePass
<1>1. Init => BurstInv
  BY CallsAssumption DEF Init, BurstInv, BurstSharesOnePass, Called
<1>2. BurstInv => BurstSharesOnePass
  BY DEF BurstInv
<1> QED
  BY <1>1, <1>2, BurstStep, PassInvariant, PTL DEF Spec

----------------------------------------------------------------------------
(* Callers                                                                  *)

\* A call that no pass has served awaits a pass that has not started, or one
\* that never will.
ServedInv == \A c \in Called : served[c] \/ promise[awaited[c]] \in {"waiting", "rejected"}

\* Every step keeps each call behind a pass that starts after it.
LEMMA ServedStep == PassInv /\ ServedInv /\ [Next]_vars => ServedInv'
<1> SUFFICES ASSUME PassInv, ServedInv, [Next]_vars PROVE ServedInv'
  OBVIOUS
<1> USE CallsAssumption DEF PassInv, TypeOK, Running, ServedInv, Called
<1>1. ASSUME NEW c \in Calls, relayBusy(c) PROVE ServedInv'
  <2>1. CASE QueuesNew(c)
    BY <1>1, <2>1 DEF relayBusy
  <2>2. CASE ~QueuesNew(c)
    BY <1>1, <2>2 DEF relayBusy, QueuesNew
  <2> QED
    BY <2>1, <2>2
<1>2. ASSUME NEW c \in Calls, relayIdle(c) PROVE ServedInv'
  BY <1>2 DEF relayIdle
<1>3. ASSUME NEW p \in Calls, runQueued(p) PROVE ServedInv'
  BY <1>3 DEF runQueued
<1>4. ASSUME NEW p \in Calls, skipQueued(p) PROVE ServedInv'
  BY <1>4 DEF skipQueued
<1>5. ASSUME NEW p \in Calls, NEW o \in {"ok", "rejected"}, passFinally(p, o) PROVE ServedInv'
  BY <1>5 DEF passFinally
<1>6. ASSUME NEW p \in Calls, settle(p) PROVE ServedInv'
  BY <1>6 DEF settle
<1>7. CASE UNCHANGED vars
  BY <1>7 DEF vars
<1> QED
  BY <1>1, <1>2, <1>3, <1>4, <1>5, <1>6, <1>7 DEF Next, Step, done

\* A call that is told of success was served by a pass that started no earlier,
\* whichever passes fail.
THEOREM CallersAreServed == Spec => []CallersAwaitALaterPass
<1>1. Init => ServedInv
  BY CallsAssumption DEF Init, ServedInv, Called
<1>2. ServedInv => CallersAwaitALaterPass
  BY DEF ServedInv, CallersAwaitALaterPass
<1> QED
  BY <1>1, <1>2, ServedStep, PassInvariant, PTL DEF Spec

----------------------------------------------------------------------------
(* What keeps the passes going                                              *)

\* A queued pass is chained to the pass in front of it, which has started.  While
\* no pass throws, none is rejected, and the fields are cleared with the last one.
ChainInv ==
    /\ \A p \in Calls : promise[p] = "waiting" => parent[p] \in Calls \ {p} /\ promise[parent[p]] # "none"
    /\ \A p \in Calls : promise[p] = "waiting" /\ p = inFlight =>
          promise[parent[p]] \in {"finally", "ok", "rejected"}
    /\ ~CanFail => /\ \A p \in Calls : outcome[p] = "ok" /\ promise[p] # "rejected"
                   /\ \A p \in {inFlight, queued} \ {None} : promise[p] \in {"waiting", "running"}

\* Every step keeps the chain.
LEMMA ChainStep == PassInv /\ ChainInv /\ [Next]_vars => ChainInv'
<1> SUFFICES ASSUME PassInv, ChainInv, [Next]_vars PROVE ChainInv'
  OBVIOUS
<1> USE CallsAssumption DEF PassInv, TypeOK, Running, ChainInv
<1>1. ASSUME NEW c \in Calls, relayBusy(c) PROVE ChainInv'
  <2>1. promise[c] = "none" /\ inFlight \in Calls \ {c} /\ promise[inFlight] # "none"
    BY <1>1 DEF relayBusy
  <2>2. CASE QueuesNew(c)
    BY <1>1, <2>1, <2>2 DEF relayBusy
  <2>3. CASE ~QueuesNew(c)
    BY <1>1, <2>3 DEF relayBusy
  <2> QED
    BY <2>2, <2>3
<1>2. ASSUME NEW c \in Calls, relayIdle(c) PROVE ChainInv'
  BY <1>2 DEF relayIdle
<1>3. ASSUME NEW p \in Calls, runQueued(p) PROVE ChainInv'
  BY <1>3 DEF runQueued
<1>4. ASSUME NEW p \in Calls, skipQueued(p) PROVE ChainInv'
  BY <1>4 DEF skipQueued
<1>5. ASSUME NEW p \in Calls, NEW o \in {"ok", "rejected"}, passFinally(p, o) PROVE ChainInv'
  BY <1>5 DEF passFinally, NextInFlight
<1>6. ASSUME NEW p \in Calls, settle(p) PROVE ChainInv'
  BY <1>6 DEF settle
<1>7. CASE UNCHANGED vars
  BY <1>7 DEF vars
<1> QED
  BY <1>1, <1>2, <1>3, <1>4, <1>5, <1>6, <1>7 DEF Next, Step, done

\* The chain holds at every step.
LEMMA ChainInvariant == Spec => [](PassInv /\ ChainInv)
<1>1. Init => ChainInv
  BY CallsAssumption DEF Init, ChainInv
<1> QED
  BY <1>1, ChainStep, PassInvariant, PTL DEF Spec

\* A relay is wedged only after a pass has thrown: while none does, inFlight is null
\* once every promise has settled, and the next call starts a pass.
THEOREM RelaysAreIdleUnlessPassesFail == ASSUME ~CanFail PROVE Spec => []InFlightNullWhenIdle
<1>1. PassInv /\ ChainInv => InFlightNullWhenIdle
  BY DEF PassInv, TypeOK, ChainInv, InFlightNullWhenIdle
<1> QED
  BY <1>1, ChainInvariant, PTL

\* A pass that can take its next step: it runs, or the pass in front of it has settled.
Movable(p) ==
    \/ promise[p] \in {"running", "finally"}
    \/ promise[p] = "waiting" /\ promise[parent[p]] \in {"ok", "rejected"}

\* A call that is neither served nor told of a failure never waits for nothing: the
\* pass it awaits can move, or waits for one that can, or for one that waits for one
\* that can.  With fair promise callbacks this is why every call is served.
THEOREM WaitingCallsCanMove ==
    Spec => [](\A c \in Called : ~served[c] /\ promise[awaited[c]] # "rejected" =>
                  LET p == awaited[c] IN
                  promise[p] = "waiting" /\ (Movable(p) \/ Movable(parent[p]) \/ Movable(parent[parent[p]])))
<1> DEFINE Moves == \A c \in Called : ~served[c] /\ promise[awaited[c]] # "rejected" =>
                        LET p == awaited[c] IN
                        promise[p] = "waiting" /\ (Movable(p) \/ Movable(parent[p]) \/ Movable(parent[parent[p]]))
<1>1. ASSUME PassInv, ChainInv, ServedInv PROVE Moves
  <2> SUFFICES ASSUME NEW c \in Called, ~served[c], promise[awaited[c]] # "rejected"
               PROVE  /\ promise[awaited[c]] = "waiting"
                      /\ \/ Movable(awaited[c]) \/ Movable(parent[awaited[c]])
                         \/ Movable(parent[parent[awaited[c]]])
    OBVIOUS
  <2>1. awaited[c] \in Calls /\ promise[awaited[c]] = "waiting"
    BY <1>1 DEF PassInv, TypeOK, ServedInv, Called
  <2>2. ASSUME NEW p \in Calls, promise[p] = "waiting", p = inFlight PROVE Movable(p) \/ Movable(parent[p])
    BY <1>1, <2>2 DEF ChainInv, Movable
  <2>3. ASSUME NEW p \in Calls, promise[p] = "waiting", p # inFlight
        PROVE  Movable(p) \/ Movable(parent[p]) \/ Movable(parent[parent[p]])
    <3>1. parent[p] = inFlight /\ inFlight \in Calls
      BY <1>1, <2>3 DEF PassInv, TypeOK
    <3>2. promise[inFlight] \in {"waiting", "running", "rejected"}
      BY <1>1, <3>1, CallsAssumption DEF PassInv
    <3> QED BY <2>2, <2>3, <3>1, <3>2 DEF Movable
  <2> QED BY <2>1, <2>2, <2>3
<1>2. Init => ServedInv
  BY CallsAssumption DEF Init, ServedInv, Called
<1> HIDE DEF Moves
<1>3. Spec => []Moves
  BY <1>1, <1>2, ServedStep, ChainInvariant, PTL DEF Spec
<1> QED
  BY <1>3 DEF Moves

=============================================================================
