----------------------------- MODULE RelayPass -----------------------------
(***************************************************************************)
(* How the relay() calls of one worker process share passes                *)
(* (AbstractOutboxRelay.relay, runOnce and runOncePass).  A cron tick and  *)
(* every wake signal call relay(); a call that finds a pass in flight      *)
(* queues one behind it with inFlight.then(() => runOnce()), and the pass  *)
(* hands off to it in its finally block.                                   *)
(*                                                                         *)
(* JavaScript runs one step at a time; an action is what runs between two  *)
(* awaits.  A promise is named by the call that created it.                *)
(***************************************************************************)
EXTENDS Integers, FiniteSets

CONSTANTS
    Calls,      \* the calls of relay() made over the run: each cron tick or wake signal
    None,       \* null
    CanFail     \* a pass may throw: its claim fails (a SQL error, a lost connection)

ASSUME CallsAssumption == None \notin Calls /\ CanFail \in BOOLEAN

VARIABLES
    inFlight, queued,   \* the fields of the relay: promises or null
    promise,    \* per call: what became of the promise it created
    parent,     \* the promise a queued pass was chained to
    awaited,    \* the promise relay() returned to the call
    outcome,    \* how a pass that is leaving its finally block will settle
    served,     \* history: a pass has started at or after the call
    during      \* history: the pass that was running when the call came

vars == <<inFlight, queued, promise, parent, awaited, outcome, served, during>>

Running == {p \in Calls : promise[p] = "running"}
Called == {c \in Calls : awaited[c] # None}

Init ==
    /\ inFlight = None /\ queued = None
    /\ promise = [c \in Calls |-> "none"]
    /\ parent = [c \in Calls |-> None]
    /\ awaited = [c \in Calls |-> None]
    /\ outcome = [c \in Calls |-> "ok"]
    /\ served = [c \in Calls |-> FALSE]
    /\ during = [c \in Calls |-> None]

RunningPass == IF Running = {} THEN None ELSE CHOOSE p \in Running : TRUE

\* Mutant: every call queues a pass of its own (= instead of ??=).
AlwaysQueue(c) == TRUE

QueuesNew(c) == queued = None

\* Mutant: a call joins the pass that is already in flight.
relayJoin(c) ==
    /\ awaited[c] = None
    /\ inFlight # None
    /\ during' = [during EXCEPT ![c] = RunningPass]
    /\ awaited' = [awaited EXCEPT ![c] = inFlight]
    /\ UNCHANGED <<inFlight, queued, promise, parent, outcome, served>>

\* Mutant: a call that finds a pass in flight returns at once.
relayDrop(c) ==
    /\ awaited[c] = None
    /\ inFlight # None
    /\ during' = [during EXCEPT ![c] = RunningPass]
    /\ promise' = [promise EXCEPT ![c] = "ok"]
    /\ awaited' = [awaited EXCEPT ![c] = c]
    /\ UNCHANGED <<inFlight, queued, parent, outcome, served>>

\* A call that finds a pass in flight coalesces onto the queued one.
relayBusy(c) ==
    /\ awaited[c] = None
    /\ inFlight # None
    /\ during' = [during EXCEPT ![c] = RunningPass]
    /\ IF QueuesNew(c)
       THEN /\ promise' = [promise EXCEPT ![c] = "waiting"]
            /\ parent' = [parent EXCEPT ![c] = inFlight]
            /\ queued' = c
            /\ awaited' = [awaited EXCEPT ![c] = c]
       ELSE /\ awaited' = [awaited EXCEPT ![c] = queued]
            /\ UNCHANGED <<promise, parent, queued>>
    /\ UNCHANGED <<inFlight, outcome, served>>

\* A call that finds none starts a pass: runOnce() runs up to its first await.
relayIdle(c) ==
    /\ awaited[c] = None
    /\ inFlight = None
    /\ promise' = [promise EXCEPT ![c] = "running"]
    /\ inFlight' = c
    /\ awaited' = [awaited EXCEPT ![c] = c]
    /\ served' = [d \in Calls |-> served[d] \/ d \in Called \/ d = c]
    /\ UNCHANGED <<queued, parent, outcome, during>>

\* inFlight.then(() => this.runOnce()): the pass it was chained to succeeded.
runQueued(p) ==
    /\ promise[p] = "waiting"
    /\ promise[parent[p]] = "ok"
    /\ promise' = [promise EXCEPT ![p] = "running"]
    /\ served' = [d \in Calls |-> served[d] \/ d \in Called]
    /\ UNCHANGED <<inFlight, queued, parent, awaited, outcome, during>>

\* .then() was given no rejection handler: the queued promise rejects with the
\* pass it was chained to, and runOnce() is not called.
skipQueued(p) ==
    /\ promise[p] = "waiting"
    /\ promise[parent[p]] = "rejected"
    /\ promise' = [promise EXCEPT ![p] = "rejected"]
    /\ UNCHANGED <<inFlight, queued, parent, awaited, outcome, served, during>>

\* Mutant: the finally block clears inFlight and leaves the queued pass to itself.
ClearInFlight == None

NextInFlight == queued

\* The pass drained its batches, or its claim threw; its finally block hands off.
passFinally(p, o) ==
    /\ promise[p] = "running"
    /\ o \in {"ok"} \cup (IF CanFail THEN {"rejected"} ELSE {})
    /\ promise' = [promise EXCEPT ![p] = "finally"]
    /\ outcome' = [outcome EXCEPT ![p] = o]
    /\ inFlight' = NextInFlight
    /\ queued' = None
    /\ UNCHANGED <<parent, awaited, served, during>>

\* runOnce() counts a failure and rethrows; the promise settles.
settle(p) ==
    /\ promise[p] = "finally"
    /\ promise' = [promise EXCEPT ![p] = outcome[p]]
    /\ UNCHANGED <<inFlight, queued, parent, awaited, outcome, served, during>>

Step(p) == \/ runQueued(p) \/ skipQueued(p) \/ settle(p)
           \/ \E o \in {"ok", "rejected"} : passFinally(p, o)

\* The process makes no more calls: the horizon of the model, not of the worker.
done ==
    /\ Called = Calls /\ \A p \in Calls : promise[p] \in {"none", "ok", "rejected"}
    /\ UNCHANGED vars

Next == (\E c \in Calls : relayBusy(c) \/ relayIdle(c) \/ Step(c)) \/ done

Spec == Init /\ [][Next]_vars

\* Promise callbacks always run, and every statement of a pass has a deadline.
FairSpec == Spec /\ \A p \in Calls : WF_vars(Step(p))

----------------------------------------------------------------------------
(* Properties                                                               *)

\* Types: the two fields, the promises and what the calls were given.
TypeOK ==
    /\ {inFlight, queued} \subseteq Calls \cup {None}
    /\ promise \in [Calls -> {"none", "waiting", "running", "finally", "ok", "rejected"}]
    /\ parent \in [Calls -> Calls \cup {None}]
    /\ awaited \in [Calls -> Calls \cup {None}]
    /\ outcome \in [Calls -> {"ok", "rejected"}]
    /\ served \in [Calls -> BOOLEAN]
    /\ during \in [Calls -> Calls \cup {None}]

\* One process never runs two passes at a time, whatever fails: the batch of a
\* claim is gone before the next claim (OutboxRelay's tokens rest on this).
OnePassAtATime == Cardinality(Running) <= 1

\* Why: a running pass is the one in flight, and a waiting one is the queued
\* one or the next in flight, which has not settled well.
PassInv ==
    /\ TypeOK
    /\ \A p \in Running : inFlight = p
    /\ \A p \in Calls : promise[p] = "waiting" =>
          inFlight # None /\ (p = inFlight \/ (p = queued /\ parent[p] = inFlight))
    /\ inFlight # None => promise[inFlight] \in {"waiting", "running", "rejected"}
    /\ queued # None => promise[queued] \in {"waiting", "rejected"} /\ queued # inFlight
    /\ \A c \in Calls : awaited[c] = None => promise[c] = "none"

\* A burst of calls during one pass shares exactly one extra pass.
BurstSharesOnePass ==
    \A c, d \in Called : during[c] # None /\ during[c] = during[d] => awaited[c] = awaited[d]

\* "The currently in-flight pass, or null when idle": with every promise
\* settled, the next relay() call starts a pass.
InFlightNullWhenIdle ==
    (\A p \in Calls : promise[p] \in {"none", "ok", "rejected"}) => inFlight = None

\* "every caller still awaits a pass that STARTS AFTER their own call": a call
\* that is told its pass succeeded was served by one that started no earlier.
CallersAwaitALaterPass ==
    \A c \in Called : promise[awaited[c]] = "ok" => served[c]

\* No wake signal is silently lost: every call is followed by a pass that starts
\* after it, or is told of a failure.
EveryCallIsServed ==
    \A c \in Calls : c \in Called ~> served[c] \/ (c \in Called /\ promise[awaited[c]] = "rejected")

=============================================================================
