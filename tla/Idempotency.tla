---------------------------- MODULE Idempotency ----------------------------
(***************************************************************************)
(* IdempotencyInterceptor: requests that carry one Idempotency-Key, from   *)
(* one user to one route, racing in any number of API processes.  The      *)
(* processes share a cache with two keys: the stored response (redisKey)   *)
(* and the in-progress marker (inFlightKey, SET NX with a 60 s expiry).    *)
(* Each cache command is one step.                                         *)
(*                                                                         *)
(* A model run stays within the 24 hours a stored response lives.  A       *)
(* client that gives up and retries is a new request: the handler of the   *)
(* first one keeps running (the inner subscription has no teardown).       *)
(***************************************************************************)
EXTENDS Integers, FiniteSets

CONSTANTS
    Requests,       \* the requests sent with the key
    Bodies,         \* hashes of request bodies
    None,           \* no entry, no marker, no answer
    Faults,         \* which of "cache" (a command fails), "crash" (a process dies in
                    \* a request) and "slow" (a handler outlives its marker) happen
    MaxFaults       \* how many faults a run has (a bound of the model)

ASSUME RequestsAssumption == IsFiniteSet(Requests) /\ None \notin Requests
ASSUME NoneAssumption == None \notin [hash : Bodies, of : Requests]
ASSUME FaultsAssumption == MaxFaults \in Nat

VARIABLES
    entry,      \* the stored response: its request's body and the request that made it
    marker,     \* the request whose marker is set (the code stores its body hash and never reads it)
    pc,         \* the cache command or handler a request is waiting for
    body,       \* hashBody(req.body)
    answer,     \* what the client was told
    releasing,  \* requests whose DEL of the marker is under way and not awaited
    commits,    \* history: requests whose handler committed
    faults      \* history: faults so far

cache == <<entry, marker>>
vars == <<cache, pc, body, answer, releasing, commits, faults>>

Init ==
    /\ entry = None /\ marker = None
    /\ pc = [r \in Requests |-> "new"]
    /\ body = [r \in Requests |-> None]
    /\ answer = [r \in Requests |-> None]
    /\ releasing = {} /\ commits = {} /\ faults = 0

Goto(r, l) == pc' = [pc EXCEPT ![r] = l]
Answer(r, a) == answer' = [answer EXCEPT ![r] = a] /\ Goto(r, "done")

\* One more fault of the kind.
Fault(k) == k \in Faults /\ faults < MaxFaults /\ faults' = faults + 1

----------------------------------------------------------------------------

\* intercept: a POST or PUT with a key starts with a read of redisKey.
intercept(r, b) ==
    /\ pc[r] = "new"
    /\ body' = [body EXCEPT ![r] = b]
    /\ Goto(r, "first")
    /\ UNCHANGED <<cache, answer, releasing, commits, faults>>

\* Mutant: a stored response is replayed whatever the body.
replayAny(r) == [kind |-> "replay", of |-> entry.of]

\* The stored response, or IDEMPOTENCY_KEY_REUSED when the body differs.
replay(r) == IF entry.hash = body[r] THEN [kind |-> "replay", of |-> entry.of]
             ELSE [kind |-> "reused", of |-> r]

firstHit(r) ==
    /\ pc[r] = "first" /\ entry # None
    /\ Answer(r, replay(r))
    /\ UNCHANGED <<cache, body, releasing, commits, faults>>

firstMiss(r) ==
    /\ pc[r] = "first" /\ entry = None
    /\ Goto(r, "lock")
    /\ UNCHANGED <<cache, body, answer, releasing, commits, faults>>

\* A failed read passes the request through: no marker, nothing stored.
firstError(r) ==
    /\ pc[r] = "first" /\ Fault("cache")
    /\ Goto(r, "bare")
    /\ UNCHANGED <<cache, body, answer, releasing, commits>>

\* SET inFlightKey NX
lockTaken(r) ==
    /\ pc[r] = "lock" /\ marker = None
    /\ marker' = r
    /\ Goto(r, "locked")
    /\ UNCHANGED <<entry, body, answer, releasing, commits, faults>>

lockHeld(r) ==
    /\ pc[r] = "lock" /\ marker # None
    /\ Goto(r, "held")
    /\ UNCHANGED <<cache, body, answer, releasing, commits, faults>>

\* "cache unavailable: let the request run", as if the marker were its own
lockError(r) ==
    /\ pc[r] = "lock" /\ Fault("cache")
    /\ Goto(r, "locked")
    /\ UNCHANGED <<cache, body, answer, releasing, commits>>

\* The marker was held: read again, the holder may have finished.
heldHit(r) ==
    /\ pc[r] = "held" /\ entry # None
    /\ Answer(r, replay(r))
    /\ UNCHANGED <<cache, body, releasing, commits, faults>>

\* IDEMPOTENCY_IN_FLIGHT, also when the read fails
heldMiss(r) ==
    /\ pc[r] = "held"
    /\ (entry = None /\ UNCHANGED faults) \/ Fault("cache")
    /\ Answer(r, [kind |-> "conflict", of |-> r])
    /\ UNCHANGED <<cache, body, releasing, commits>>

\* Mutant: no second read once the marker is taken.
NotReread == FALSE

\* The marker is taken: read again, another holder may have come and gone
\* between this request's first read and its SET NX.
Raced == entry # None

lockedHit(r) ==
    /\ pc[r] = "locked" /\ Raced
    /\ releasing' = releasing \cup {r}
    /\ Answer(r, replay(r))
    /\ UNCHANGED <<cache, body, commits, faults>>

lockedMiss(r) ==
    /\ pc[r] = "locked"
    /\ (~Raced /\ UNCHANGED faults) \/ Fault("cache")
    /\ Goto(r, "run")
    /\ UNCHANGED <<cache, body, answer, releasing, commits>>

----------------------------------------------------------------------------
(* The handler, and what follows it                                         *)

\* The route handler (one database transaction) commits and returns a body.
commit(r) ==
    /\ pc[r] \in {"run", "bare"}
    /\ commits' = commits \cup {r}
    /\ IF pc[r] = "run" THEN Goto(r, "complete") /\ UNCHANGED answer
       ELSE Answer(r, [kind |-> "own", of |-> r])
    /\ UNCHANGED <<cache, body, releasing, faults>>

\* The handler throws: the marker is released without waiting for it.
throw(r) ==
    /\ pc[r] \in {"run", "bare"}
    /\ releasing' = IF pc[r] = "run" THEN releasing \cup {r} ELSE releasing
    /\ Answer(r, [kind |-> "error", of |-> r])
    /\ UNCHANGED <<cache, body, commits, faults>>

\* Mutant: the client is answered, and the marker released, without the store.
storeNothing(r) ==
    /\ pc[r] = "complete"
    /\ Goto(r, "release")
    /\ UNCHANGED <<cache, body, answer, releasing, commits, faults>>

\* SET redisKey
store(r) ==
    /\ pc[r] = "complete"
    /\ entry' = [hash |-> body[r], of |-> r]
    /\ Goto(r, "release")
    /\ UNCHANGED <<marker, body, answer, releasing, commits, faults>>

\* "Cache failure must NOT fail the request"
storeError(r) ==
    /\ pc[r] = "complete" /\ Fault("cache")
    /\ Goto(r, "release")
    /\ UNCHANGED <<cache, body, answer, releasing, commits>>

\* DEL inFlightKey, whoever set it, or nothing when the command fails
release ==
    \/ marker' = None /\ UNCHANGED faults
    \/ Fault("cache") /\ UNCHANGED marker

\* The observable completes, and the client is answered, after the release.
releaseAwaited(r) ==
    /\ pc[r] = "release"
    /\ release
    /\ Answer(r, [kind |-> "own", of |-> r])
    /\ UNCHANGED <<entry, body, releasing, commits>>

releaseVoid(r) ==
    /\ r \in releasing
    /\ release
    /\ releasing' = releasing \ {r}
    /\ UNCHANGED <<entry, pc, body, answer, commits>>

\* The process dies in the request.
crash(r) ==
    /\ Fault("crash")
    /\ pc[r] \notin {"new", "done", "dead"} \/ r \in releasing
    /\ pc' = [pc EXCEPT ![r] = IF @ = "done" THEN @ ELSE "dead"]
    /\ releasing' = releasing \ {r}
    /\ UNCHANGED <<cache, body, answer, commits>>

\* A request that may still delete its marker.
Holding(r) == pc[r] \in {"locked", "run", "complete", "release"} \/ r \in releasing

\* 60 s after it was set, the marker expires: its holder died or could not
\* delete it, or is slow.
expire ==
    /\ marker # None
    /\ IF Holding(marker) THEN Fault("slow") ELSE UNCHANGED faults
    /\ marker' = None
    /\ UNCHANGED <<entry, pc, body, answer, releasing, commits>>

Step(r) ==
    \/ firstHit(r) \/ firstMiss(r) \/ firstError(r) \/ lockTaken(r) \/ lockHeld(r) \/ lockError(r)
    \/ heldHit(r) \/ heldMiss(r) \/ lockedHit(r) \/ lockedMiss(r) \/ commit(r) \/ throw(r)
    \/ store(r) \/ storeError(r) \/ releaseAwaited(r) \/ releaseVoid(r)

Next ==
    \/ \E r \in Requests : (\E b \in Bodies : intercept(r, b)) \/ Step(r) \/ crash(r)
    \/ expire

Spec == Init /\ [][Next]_vars

----------------------------------------------------------------------------
(* Properties                                                               *)

Answers == [kind : {"replay", "reused", "conflict", "own", "error"}, of : Requests]

\* Types: the two cache keys, the requests and their answers.
TypeOK ==
    /\ entry \in [hash : Bodies, of : Requests] \cup {None}
    /\ marker \in Requests \cup {None}
    /\ pc \in [Requests -> {"new", "first", "lock", "held", "locked", "bare", "run", "complete",
                            "release", "done", "dead"}]
    /\ body \in [Requests -> Bodies \cup {None}]
    /\ answer \in [Requests -> Answers \cup {None}]
    /\ releasing \subseteq Requests /\ commits \subseteq Requests
    /\ faults \in 0..MaxFaults

\* "so two concurrent duplicates do not both run": the handler commits once for
\* a key, and every commit beyond that is paid for by a fault of its own.
DuplicatesArePaid == Cardinality(commits) <= 1 + faults

\* A replayed response answers the body it was made for, and was made by a
\* handler that committed ("the same key with a DIFFERENT body is a client
\* error, not a replay").
ReplayIsOfSameBody ==
    \A r \in Requests : answer[r] # None /\ answer[r].kind = "replay" =>
        answer[r].of \in commits /\ body[answer[r].of] = body[r]

\* "making the operation safe to retry": a client that has its response finds it
\* in the cache when it retries, unless something failed on the way.
AnsweredIsStored ==
    \A r \in Requests : faults = 0 /\ answer[r] # None /\ answer[r].kind = "own" => entry # None

----------------------------------------------------------------------------
(* Inductive invariant                                                      *)

\* Where a request that committed, or whose DEL is not awaited, can be.
PhaseInv ==
    /\ \A r \in Requests : pc[r] # "new" => body[r] \in Bodies
    /\ \A r \in Requests : answer[r] # None => pc[r] = "done"
    /\ \A r \in releasing : pc[r] = "done"
    /\ \A r \in Requests : pc[r] \in {"complete", "release"} => r \in commits
    /\ \A r \in commits : pc[r] \in {"complete", "release", "done", "dead"}

\* Requests that ran or will run unless they find an entry; that ran; that will
\* delete the marker; and whether a request stands behind the marker.
Started == commits \cup {r \in Requests : pc[r] \in {"locked", "run", "bare"}}
Ran == commits \cup {r \in Requests : pc[r] \in {"run", "bare"}}
Undeleted == releasing \cup {r \in Requests : pc[r] = "release"}
Guarded == IF marker # None /\ Holding(marker) THEN 1 ELSE 0

\* While nothing is stored, every run and every pending DEL was admitted by the
\* marker or by a fault; once something is stored, only a fault admits a run.
CountInv ==
    /\ entry = None => Cardinality(Started) + Cardinality(Undeleted) <= faults + Guarded
    /\ Cardinality(Ran) <= 1 + faults

\* The entry is the response of a committed request to its own body.
EntryInv == entry # None => entry.of \in commits /\ body[entry.of] = entry.hash

IdemInv == TypeOK /\ PhaseInv /\ CountInv /\ EntryInv

=============================================================================
