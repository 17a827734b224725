------------------------- MODULE IdempotencyProofs -------------------------
(***************************************************************************)
(* What Idempotency guarantees for every number of requests, bodies and    *)
(* faults.                                                                 *)
(***************************************************************************)
EXTENDS Idempotency, FiniteSetTheorems, TLAPS

PhaseTypeInv == TypeOK /\ PhaseInv

\* Every step keeps the types and the phases of the requests.
LEMMA PhaseStep == PhaseTypeInv /\ [Next]_vars => PhaseTypeInv'
<1> SUFFICES ASSUME PhaseTypeInv, [Next]_vars PROVE PhaseTypeInv'
    OBVIOUS
<1> USE RequestsAssumption, FaultsAssumption DEF PhaseTypeInv, TypeOK, PhaseInv, Answers, cache
<1>1. ASSUME NEW r \in Requests, NEW b \in Bodies, intercept(r, b) PROVE PhaseTypeInv'
      BY <1>1 DEF intercept, Goto
<1>2. ASSUME NEW r \in Requests, firstHit(r) \/ heldHit(r) PROVE PhaseTypeInv'
      <2>1. entry \in [hash : Bodies, of : Requests]
            BY <1>2 DEF firstHit, heldHit
      <2>2. replay(r) \in Answers
            BY <2>1 DEF replay
      <2> QED BY <1>2, <2>2 DEF firstHit, heldHit, Answer, Goto
<1>3. ASSUME NEW r \in Requests, lockedHit(r) PROVE PhaseTypeInv'
      <2>1. entry \in [hash : Bodies, of : Requests]
            BY <1>3 DEF lockedHit, Raced
      <2>2. replay(r) \in Answers
            BY <2>1 DEF replay
      <2> QED BY <1>3, <2>2 DEF lockedHit, Answer, Goto
<1>4. ASSUME NEW r \in Requests, firstMiss(r) \/ lockHeld(r) PROVE PhaseTypeInv'
      BY <1>4 DEF firstMiss, lockHeld, Goto
<1>5. ASSUME NEW r \in Requests, firstError(r) \/ lockError(r) PROVE PhaseTypeInv'
      BY <1>5 DEF firstError, lockError, Goto, Fault
<1>6. ASSUME NEW r \in Requests, lockTaken(r) PROVE PhaseTypeInv'
      BY <1>6 DEF lockTaken, Goto
<1>7. ASSUME NEW r \in Requests, heldMiss(r) PROVE PhaseTypeInv'
      BY <1>7 DEF heldMiss, Answer, Goto, Fault
<1>8. ASSUME NEW r \in Requests, lockedMiss(r) PROVE PhaseTypeInv'
      BY <1>8 DEF lockedMiss, Goto, Fault
<1>9. ASSUME NEW r \in Requests, commit(r) PROVE PhaseTypeInv'
      BY <1>9 DEF commit, Answer, Goto
<1>10. ASSUME NEW r \in Requests, throw(r) PROVE PhaseTypeInv'
      BY <1>10 DEF throw, Answer, Goto
<1>11. ASSUME NEW r \in Requests, store(r) PROVE PhaseTypeInv'
      <2>1. [hash |-> body[r], of |-> r] \in [hash : Bodies, of : Requests]
            BY <1>11 DEF store
      <2> QED BY <1>11, <2>1 DEF store, Goto
<1>12. ASSUME NEW r \in Requests, storeError(r) PROVE PhaseTypeInv'
      BY <1>12 DEF storeError, Goto, Fault
<1>13. ASSUME NEW r \in Requests, releaseAwaited(r) PROVE PhaseTypeInv'
      BY <1>13 DEF releaseAwaited, release, Answer, Goto, Fault
<1>14. ASSUME NEW r \in Requests, releaseVoid(r) PROVE PhaseTypeInv'
      BY <1>14 DEF releaseVoid, release, Fault
<1>15. ASSUME NEW r \in Requests, crash(r) PROVE PhaseTypeInv'
      BY <1>15 DEF crash, Fault
<1>16. ASSUME expire PROVE PhaseTypeInv'
      BY <1>16 DEF expire, Fault
<1>17. ASSUME UNCHANGED vars PROVE PhaseTypeInv'
      BY <1>17 DEF vars
<1> QED
    BY <1>1, <1>2, <1>3, <1>4, <1>5, <1>6, <1>7, <1>8, <1>9, <1>10, <1>11, <1>12, <1>13, <1>14,
       <1>15, <1>16, <1>17 DEF Next, Step

\* They hold before the first request.
LEMMA PhaseInit == Init => PhaseTypeInv
BY RequestsAssumption, FaultsAssumption DEF Init, PhaseTypeInv, TypeOK, PhaseInv

\* Idempotency's type invariant holds for every number of requests and faults.
THEOREM IdemTypeCorrect == Spec => []TypeOK
<1>1. PhaseTypeInv => TypeOK
      BY DEF PhaseTypeInv
<1> QED BY PhaseInit, PhaseStep, <1>1, PTL DEF Spec

----------------------------------------------------------------------------
(* Replays                                                                  *)

ReplayInv == EntryInv /\ ReplayIsOfSameBody

\* Every step keeps the entry and the replays true to their bodies.
LEMMA ReplayStep == PhaseTypeInv /\ ReplayInv /\ [Next]_vars => ReplayInv'
<1> SUFFICES ASSUME PhaseTypeInv, ReplayInv, [Next]_vars PROVE ReplayInv'
    OBVIOUS
<1> USE RequestsAssumption DEF PhaseTypeInv, TypeOK, PhaseInv, ReplayInv, EntryInv,
        ReplayIsOfSameBody, cache
<1>1. ASSUME NEW r \in Requests, NEW b \in Bodies, intercept(r, b) PROVE ReplayInv'
      <2>1. /\ UNCHANGED <<entry, answer, commits>> /\ r \notin commits /\ answer[r] = None
            /\ body' = [body EXCEPT ![r] = b]
            BY <1>1 DEF intercept
      <2>2. entry # None => entry.of # r
            BY <2>1
      <2>3. \A s \in Requests : answer[s] # None /\ answer[s].kind = "replay" =>
                s # r /\ answer[s].of # r /\ answer[s].of \in Requests
            BY <2>1
      <2> QED BY <2>1, <2>2, <2>3
<1>2. ASSUME NEW r \in Requests, answer' = [answer EXCEPT ![r] = replay(r)], entry # None,
             UNCHANGED <<entry, body, commits>>
      PROVE  ReplayInv'
      <2>1. replay(r).kind = "replay" => replay(r).of \in commits /\ body[replay(r).of] = body[r]
            BY <1>2 DEF replay
      <2> QED BY <1>2, <2>1
<1>3. ASSUME NEW r \in Requests, firstHit(r) \/ heldHit(r) \/ lockedHit(r) PROVE ReplayInv'
      BY <1>2, <1>3 DEF firstHit, heldHit, lockedHit, Raced, Answer
<1>4. ASSUME UNCHANGED <<entry, body, answer>>, commits \subseteq commits' PROVE ReplayInv'
      BY <1>4
<1>5. ASSUME NEW r \in Requests, \/ firstMiss(r) \/ lockHeld(r) \/ firstError(r) \/ lockError(r)
                                 \/ lockTaken(r) \/ lockedMiss(r) \/ storeError(r)
                                 \/ releaseVoid(r) \/ crash(r)
      PROVE  ReplayInv'
      BY <1>4, <1>5 DEF firstMiss, lockHeld, firstError, lockError, lockTaken, lockedMiss,
            storeError, releaseVoid, crash
<1>6. ASSUME expire \/ UNCHANGED vars PROVE ReplayInv'
      BY <1>4, <1>6 DEF expire, vars
<1>7. ASSUME NEW r \in Requests, NEW k \in {"conflict", "own", "error"},
             answer' = [answer EXCEPT ![r] = [kind |-> k, of |-> r]],
             UNCHANGED <<entry, body>>, commits \subseteq commits'
      PROVE  ReplayInv'
      BY <1>7
<1>8. ASSUME NEW r \in Requests, heldMiss(r) \/ throw(r) \/ releaseAwaited(r) PROVE ReplayInv'
      BY <1>7, <1>8 DEF heldMiss, throw, releaseAwaited, Answer
<1>9. ASSUME NEW r \in Requests, commit(r) PROVE ReplayInv'
      BY <1>4, <1>7, <1>9 DEF commit, Answer
<1>10. ASSUME NEW r \in Requests, store(r) PROVE ReplayInv'
      BY <1>10 DEF store
<1> QED
    BY <1>1, <1>3, <1>5, <1>6, <1>8, <1>9, <1>10 DEF Next, Step

\* Whatever races, fails or crashes, a client never gets the stored response of
\* a request with another body, nor a response whose handler did not commit.
THEOREM ReplaysAreSound == Spec => []ReplayIsOfSameBody
<1>1. Init => PhaseTypeInv /\ ReplayInv
      BY PhaseInit DEF Init, ReplayInv, EntryInv, ReplayIsOfSameBody
<1>2. (PhaseTypeInv /\ ReplayInv) /\ [Next]_vars => (PhaseTypeInv /\ ReplayInv)'
      BY PhaseStep, ReplayStep
<1>3. ReplayInv => ReplayIsOfSameBody
      BY DEF ReplayInv
<1> QED BY <1>1, <1>2, <1>3, PTL DEF Spec

----------------------------------------------------------------------------
(* Counting runs                                                            *)

\* The counted sets are finite, so that their sizes are numbers.
LEMMA Sizes ==
    ASSUME PhaseTypeInv
    PROVE  /\ IsFiniteSet(Started) /\ Cardinality(Started) \in Nat
           /\ IsFiniteSet(Undeleted) /\ Cardinality(Undeleted) \in Nat
           /\ IsFiniteSet(Ran) /\ Cardinality(Ran) \in Nat
           /\ faults \in Nat /\ Guarded \in {0, 1}
<1> DEFINE S == Started  U == Undeleted  R == Ran
<1>1. S \subseteq Requests /\ U \subseteq Requests /\ R \subseteq Requests
      BY DEF Started, Undeleted, Ran, PhaseTypeInv, TypeOK
<1>2. faults \in Nat /\ Guarded \in {0, 1}
      BY FaultsAssumption DEF PhaseTypeInv, TypeOK, Guarded
<1> HIDE DEF S, U, R
<1>3. /\ IsFiniteSet(S) /\ Cardinality(S) \in Nat
      /\ IsFiniteSet(U) /\ Cardinality(U) \in Nat
      /\ IsFiniteSet(R) /\ Cardinality(R) \in Nat
      BY <1>1, RequestsAssumption, FS_Subset, FS_CardinalityType
<1> QED BY <1>2, <1>3 DEF S, U, R

\* The same after a step.
LEMMA SizesNext ==
    ASSUME PhaseTypeInv'
    PROVE  /\ IsFiniteSet(Started') /\ Cardinality(Started') \in Nat
           /\ IsFiniteSet(Undeleted') /\ Cardinality(Undeleted') \in Nat
           /\ IsFiniteSet(Ran') /\ Cardinality(Ran') \in Nat
           /\ faults' \in Nat /\ Guarded' \in {0, 1}
<1> DEFINE S == Started'  U == Undeleted'  R == Ran'
<1>1. S \subseteq Requests /\ U \subseteq Requests /\ R \subseteq Requests
      BY DEF Started, Undeleted, Ran, PhaseTypeInv, TypeOK
<1>2. faults' \in Nat /\ Guarded' \in {0, 1}
      BY FaultsAssumption DEF PhaseTypeInv, TypeOK, Guarded
<1> HIDE DEF S, U, R
<1>3. /\ IsFiniteSet(S) /\ Cardinality(S) \in Nat
      /\ IsFiniteSet(U) /\ Cardinality(U) \in Nat
      /\ IsFiniteSet(R) /\ Cardinality(R) \in Nat
      BY <1>1, RequestsAssumption, FS_Subset, FS_CardinalityType
<1> QED BY <1>2, <1>3 DEF S, U, R

\* One element more or less changes a size by at most one.
LEMMA OneMore ==
    ASSUME NEW S, NEW T, NEW x, IsFiniteSet(S), T \subseteq S \cup {x}
    PROVE  Cardinality(T) <= Cardinality(S) + 1
<1>0. /\ IsFiniteSet(S \cup {x}) /\ Cardinality(S) \in Nat
      /\ Cardinality(S \cup {x}) = IF x \in S THEN Cardinality(S) ELSE Cardinality(S) + 1
      BY FS_AddElement, FS_CardinalityType
<1>1. /\ IsFiniteSet(S \cup {x}) /\ Cardinality(S) \in Nat
      /\ Cardinality(S \cup {x}) <= Cardinality(S) + 1
      BY <1>0
<1>2. IsFiniteSet(T) /\ Cardinality(T) <= Cardinality(S \cup {x})
      BY <1>1, FS_Subset
<1>3. Cardinality(T) \in Nat /\ Cardinality(S \cup {x}) \in Nat
      BY <1>1, <1>2, FS_CardinalityType
<1> QED BY <1>1, <1>2, <1>3

\* A subset without x has at least one element less.
LEMMA OneLess ==
    ASSUME NEW S, NEW T, NEW x \in S, IsFiniteSet(S), T \subseteq S \ {x}
    PROVE  Cardinality(T) <= Cardinality(S) - 1
<1>1. /\ IsFiniteSet(S \ {x}) /\ Cardinality(S) \in Nat
      /\ Cardinality(S \ {x}) = Cardinality(S) - 1
      BY FS_RemoveElement, FS_CardinalityType
<1> QED BY <1>1, FS_Subset

\* A step after which something is stored, and that runs nothing.
LEMMA StoredCount ==
    ASSUME PhaseTypeInv, PhaseTypeInv', CountInv,
           entry' # None, Ran' \subseteq Ran, faults' >= faults
    PROVE  CountInv'
<1> DEFINE R == Ran  R2 == Ran'
<1>1. CountInv' <=> Cardinality(R2) <= 1 + faults'
      BY DEF CountInv
<1>2. Cardinality(R) <= 1 + faults /\ R2 \subseteq R
      BY DEF CountInv
<1>3. IsFiniteSet(R) /\ Cardinality(R) \in Nat /\ faults \in Nat
      BY Sizes
<1>4. faults' \in Nat
      BY FaultsAssumption DEF PhaseTypeInv, TypeOK
<1> HIDE DEF R, R2
<1>5. Cardinality(R2) <= Cardinality(R) /\ Cardinality(R2) \in Nat
      BY <1>2, <1>3, FS_Subset, FS_CardinalityType
<1> QED BY <1>1, <1>2, <1>3, <1>4, <1>5

\* A step that starts nothing and costs no guard that a fault does not repay.
LEMMA SameCount ==
    ASSUME PhaseTypeInv, PhaseTypeInv', CountInv, entry' = entry,
           Started' \subseteq Started, Undeleted' \subseteq Undeleted, Ran' \subseteq Ran,
           faults' >= faults, faults' + Guarded' >= faults + Guarded
    PROVE  CountInv'
<1> DEFINE s == Cardinality(Started)  s2 == Cardinality(Started')
           u == Cardinality(Undeleted)  u2 == Cardinality(Undeleted')
           n == Cardinality(Ran)  n2 == Cardinality(Ran')
           f == faults  f2 == faults'  g == Guarded  g2 == Guarded'
<1>1. CountInv' <=> (entry = None => s2 + u2 <= f2 + g2) /\ n2 <= 1 + f2
      BY DEF CountInv
<1>2. (entry = None => s + u <= f + g) /\ n <= 1 + f
      BY DEF CountInv
<1>3. {s, u, n, f, g} \subseteq Nat /\ {s2, u2, n2, f2, g2} \subseteq Nat
      BY Sizes, SizesNext
<1>4. s2 <= s /\ u2 <= u /\ n2 <= n
      BY Sizes, FS_Subset
<1>5. f2 >= f /\ f2 + g2 >= f + g
      OBVIOUS
<1> HIDE DEF s, s2, u, u2, n, n2, f, f2, g, g2
<1> QED BY <1>1, <1>2, <1>3, <1>4, <1>5

\* A DEL, or a DEL that failed: one pending DEL less, at most one guard lost.
LEMMA DeleteCount ==
    ASSUME PhaseTypeInv, PhaseTypeInv', CountInv, entry' = entry,
           NEW r \in Undeleted, Undeleted' \subseteq Undeleted \ {r},
           Started' \subseteq Started, Ran' \subseteq Ran,
           faults' >= faults, faults' + Guarded' + 1 >= faults + Guarded
    PROVE  CountInv'
<1> DEFINE s == Cardinality(Started)  s2 == Cardinality(Started')
           u == Cardinality(Undeleted)  u2 == Cardinality(Undeleted')
           n == Cardinality(Ran)  n2 == Cardinality(Ran')
           f == faults  f2 == faults'  g == Guarded  g2 == Guarded'
<1>1. CountInv' <=> (entry = None => s2 + u2 <= f2 + g2) /\ n2 <= 1 + f2
      BY DEF CountInv
<1>2. (entry = None => s + u <= f + g) /\ n <= 1 + f
      BY DEF CountInv
<1>3. {s, u, n, f, g} \subseteq Nat /\ {s2, u2, n2, f2, g2} \subseteq Nat
      BY Sizes, SizesNext
<1>4. s2 <= s /\ u2 <= u - 1 /\ n2 <= n
      BY Sizes, FS_Subset, OneLess
<1>5. f2 >= f /\ f2 + g2 + 1 >= f + g
      OBVIOUS
<1> HIDE DEF s, s2, u, u2, n, n2, f, f2, g, g2
<1> QED BY <1>1, <1>2, <1>3, <1>4, <1>5

\* The marker admits a request.
LEMMA AdmitCount ==
    ASSUME PhaseTypeInv, PhaseTypeInv', CountInv, entry' = entry,
           NEW r, Started' \subseteq Started \cup {r}, Undeleted' \subseteq Undeleted,
           Ran' \subseteq Ran, faults' = faults, Guarded = 0, Guarded' = 1
    PROVE  CountInv'
<1> DEFINE s == Cardinality(Started)  s2 == Cardinality(Started')
           u == Cardinality(Undeleted)  u2 == Cardinality(Undeleted')
           n == Cardinality(Ran)  n2 == Cardinality(Ran')
           f == faults  f2 == faults'  g == Guarded  g2 == Guarded'
<1>1. CountInv' <=> (entry = None => s2 + u2 <= f2 + g2) /\ n2 <= 1 + f2
      BY DEF CountInv
<1>2. (entry = None => s + u <= f + g) /\ n <= 1 + f
      BY DEF CountInv
<1>3. {s, u, n, f, g} \subseteq Nat /\ {s2, u2, n2, f2, g2} \subseteq Nat
      BY Sizes, SizesNext
<1>4. s2 <= s + 1 /\ u2 <= u /\ n2 <= n
      BY Sizes, FS_Subset, OneMore
<1>5. f2 = f /\ g = 0 /\ g2 = 1
      OBVIOUS
<1> HIDE DEF s, s2, u, u2, n, n2, f, f2, g, g2
<1> QED BY <1>1, <1>2, <1>3, <1>4, <1>5

\* A fault admits a request, or lets it run although something is stored.
LEMMA FaultCount ==
    ASSUME PhaseTypeInv, PhaseTypeInv', CountInv, entry' = entry,
           NEW r, Started' \subseteq Started \cup {r}, Undeleted' \subseteq Undeleted,
           Ran' \subseteq Ran \cup {r}, faults' = faults + 1, Guarded' >= Guarded
    PROVE  CountInv'
<1> DEFINE s == Cardinality(Started)  s2 == Cardinality(Started')
           u == Cardinality(Undeleted)  u2 == Cardinality(Undeleted')
           n == Cardinality(Ran)  n2 == Cardinality(Ran')
           f == faults  f2 == faults'  g == Guarded  g2 == Guarded'
<1>1. CountInv' <=> (entry = None => s2 + u2 <= f2 + g2) /\ n2 <= 1 + f2
      BY DEF CountInv
<1>2. (entry = None => s + u <= f + g) /\ n <= 1 + f
      BY DEF CountInv
<1>3. {s, u, n, f, g} \subseteq Nat /\ {s2, u2, n2, f2, g2} \subseteq Nat
      BY Sizes, SizesNext
<1>4. s2 <= s + 1 /\ u2 <= u /\ n2 <= n + 1
      BY Sizes, FS_Subset, OneMore
<1>5. f2 = f + 1 /\ g2 >= g
      OBVIOUS
<1> HIDE DEF s, s2, u, u2, n, n2, f, f2, g, g2
<1> QED BY <1>1, <1>2, <1>3, <1>4, <1>5

\* A response that could not be stored: its DEL is paid for by the fault.
LEMMA StoreErrorCount ==
    ASSUME PhaseTypeInv, PhaseTypeInv', CountInv, entry' = entry,
           NEW r, Started' \subseteq Started, Undeleted' \subseteq Undeleted \cup {r},
           Ran' \subseteq Ran, faults' = faults + 1, Guarded' = Guarded
    PROVE  CountInv'
<1> DEFINE s == Cardinality(Started)  s2 == Cardinality(Started')
           u == Cardinality(Undeleted)  u2 == Cardinality(Undeleted')
           n == Cardinality(Ran)  n2 == Cardinality(Ran')
           f == faults  f2 == faults'  g == Guarded  g2 == Guarded'
<1>1. CountInv' <=> (entry = None => s2 + u2 <= f2 + g2) /\ n2 <= 1 + f2
      BY DEF CountInv
<1>2. (entry = None => s + u <= f + g) /\ n <= 1 + f
      BY DEF CountInv
<1>3. {s, u, n, f, g} \subseteq Nat /\ {s2, u2, n2, f2, g2} \subseteq Nat
      BY Sizes, SizesNext
<1>4. s2 <= s /\ u2 <= u + 1 /\ n2 <= n
      BY Sizes, FS_Subset, OneMore
<1>5. f2 = f + 1 /\ g2 = g
      OBVIOUS
<1> HIDE DEF s, s2, u, u2, n, n2, f, f2, g, g2
<1> QED BY <1>1, <1>2, <1>3, <1>4, <1>5

\* A handler that throws trades its run for a DEL.
LEMMA ThrowCount ==
    ASSUME PhaseTypeInv, PhaseTypeInv', CountInv, entry' = entry,
           NEW r \in Started, Started' \subseteq Started \ {r}, Undeleted' \subseteq Undeleted \cup {r},
           Ran' \subseteq Ran, faults' = faults, Guarded' = Guarded
    PROVE  CountInv'
<1> DEFINE s == Cardinality(Started)  s2 == Cardinality(Started')
           u == Cardinality(Undeleted)  u2 == Cardinality(Undeleted')
           n == Cardinality(Ran)  n2 == Cardinality(Ran')
           f == faults  f2 == faults'  g == Guarded  g2 == Guarded'
<1>1. CountInv' <=> (entry = None => s2 + u2 <= f2 + g2) /\ n2 <= 1 + f2
      BY DEF CountInv
<1>2. (entry = None => s + u <= f + g) /\ n <= 1 + f
      BY DEF CountInv
<1>3. {s, u, n, f, g} \subseteq Nat /\ {s2, u2, n2, f2, g2} \subseteq Nat
      BY Sizes, SizesNext
<1>4. s2 <= s - 1 /\ u2 <= u + 1 /\ n2 <= n
      BY Sizes, FS_Subset, OneMore, OneLess
<1>5. f2 = f /\ g2 = g
      OBVIOUS
<1> HIDE DEF s, s2, u, u2, n, n2, f, f2, g, g2
<1> QED BY <1>1, <1>2, <1>3, <1>4, <1>5

\* An admitted request runs: it was counted when it was admitted.
LEMMA RunCount ==
    ASSUME PhaseTypeInv, PhaseTypeInv', CountInv, entry' = entry,
           entry = None, Started' \subseteq Started, Undeleted' \subseteq Undeleted,
           Ran' \subseteq Started, faults' = faults, Guarded' = Guarded
    PROVE  CountInv'
<1> DEFINE s == Cardinality(Started)  s2 == Cardinality(Started')
           u == Cardinality(Undeleted)  u2 == Cardinality(Undeleted')
           n == Cardinality(Ran)  n2 == Cardinality(Ran')
           f == faults  f2 == faults'  g == Guarded  g2 == Guarded'
<1>1. CountInv' <=> (entry = None => s2 + u2 <= f2 + g2) /\ n2 <= 1 + f2
      BY DEF CountInv
<1>2. (entry = None => s + u <= f + g) /\ n <= 1 + f
      BY DEF CountInv
<1>3. {s, u, n, f, g} \subseteq Nat /\ {s2, u2, n2, f2, g2} \subseteq Nat
      BY Sizes, SizesNext
<1>4. s2 <= s /\ u2 <= u /\ n2 <= s
      BY Sizes, FS_Subset
<1>5. f2 = f /\ g2 = g /\ g <= 1
      BY Sizes
<1> HIDE DEF s, s2, u, u2, n, n2, f, f2, g, g2
<1> QED BY <1>1, <1>2, <1>3, <1>4, <1>5

\* A fault pays for a lost guard; a DEL loses one at most.
LEMMA FaultPays ==
    ASSUME NEW f \in Nat, NEW g \in {0, 1}, NEW f2 \in Nat, NEW g2 \in {0, 1}
    PROVE  /\ f2 = f + 1 \/ (f2 = f /\ (g = 0 \/ g2 = g)) => f2 >= f /\ f2 + g2 >= f + g
           /\ f2 = f + 1 \/ f2 = f => f2 >= f /\ f2 + g2 + 1 >= f + g
OBVIOUS

\* Every step keeps the count.
LEMMA CountStep == PhaseTypeInv /\ CountInv /\ [Next]_vars => CountInv'
<1> SUFFICES ASSUME PhaseTypeInv, CountInv, [Next]_vars PROVE CountInv'
    OBVIOUS
<1>0. PhaseTypeInv'
      BY PhaseStep
<1>f. faults \in Nat /\ Guarded \in {0, 1} /\ faults' \in Nat /\ Guarded' \in {0, 1}
      BY Sizes, SizesNext, <1>0
<1> USE RequestsAssumption DEF cache
<1>1. ASSUME NEW r \in Requests, NEW b \in Bodies, intercept(r, b) PROVE CountInv'
      <2>1. /\ Started' \subseteq Started /\ Undeleted' \subseteq Undeleted /\ Ran' \subseteq Ran
            /\ entry' = entry /\ faults' = faults /\ Guarded' = Guarded
            BY <1>1 DEF intercept, Goto, Started, Undeleted, Ran, Guarded, Holding,
               PhaseTypeInv, TypeOK, PhaseInv
      <2> QED BY <2>1, <1>0, <1>f, SameCount
<1>2. ASSUME NEW r \in Requests, firstHit(r) \/ heldHit(r) PROVE CountInv'
      <2>1. Ran' \subseteq Ran /\ entry' # None /\ faults' = faults
            BY <1>2 DEF firstHit, heldHit, Answer, Goto, Ran, PhaseTypeInv, TypeOK, PhaseInv
      <2> QED BY <2>1, <1>0, <1>f, StoredCount
<1>3. ASSUME NEW r \in Requests, lockedHit(r) PROVE CountInv'
      <2>1. Ran' \subseteq Ran /\ entry' # None /\ faults' = faults
            BY <1>3 DEF lockedHit, Raced, Answer, Goto, Ran, PhaseTypeInv, TypeOK, PhaseInv
      <2> QED BY <2>1, <1>0, <1>f, StoredCount
<1>4. ASSUME NEW r \in Requests, firstMiss(r) \/ lockHeld(r) PROVE CountInv'
      <2>1. /\ Started' \subseteq Started /\ Undeleted' \subseteq Undeleted /\ Ran' \subseteq Ran
            /\ entry' = entry /\ faults' = faults /\ Guarded' = Guarded
            BY <1>4 DEF firstMiss, lockHeld, Goto, Started, Undeleted, Ran, Guarded, Holding,
               PhaseTypeInv, TypeOK, PhaseInv
      <2> QED BY <2>1, <1>0, <1>f, SameCount
<1>5. ASSUME NEW r \in Requests, heldMiss(r) PROVE CountInv'
      <2>1. /\ Started' \subseteq Started /\ Undeleted' \subseteq Undeleted /\ Ran' \subseteq Ran
            /\ entry' = entry /\ Guarded' = Guarded
            BY <1>5 DEF heldMiss, Answer, Goto, Started, Undeleted, Ran, Guarded, Holding,
               PhaseTypeInv, TypeOK, PhaseInv
      <2>2. faults' = faults \/ faults' = faults + 1
            BY <1>5 DEF heldMiss, Fault
      <2>3. faults' >= faults /\ faults' + Guarded' >= faults + Guarded
            BY <2>1, <2>2, <1>f, FaultPays
      <2> QED BY <2>1, <2>3, <1>0, SameCount
<1>6. ASSUME NEW r \in Requests, firstError(r) PROVE CountInv'
      <2>1. /\ Started' \subseteq Started \cup {r} /\ Undeleted' \subseteq Undeleted
            /\ Ran' \subseteq Ran \cup {r}
            /\ entry' = entry /\ faults' = faults + 1 /\ Guarded' = Guarded
            BY <1>6 DEF firstError, Goto, Fault, Started, Undeleted, Ran, Guarded, Holding,
               PhaseTypeInv, TypeOK, PhaseInv
      <2> QED BY <2>1, <1>0, <1>f, FaultCount
<1>7. ASSUME NEW r \in Requests, lockTaken(r) PROVE CountInv'
      <2>1. /\ Started' \subseteq Started \cup {r} /\ Undeleted' \subseteq Undeleted
            /\ Ran' \subseteq Ran
            /\ entry' = entry /\ faults' = faults /\ Guarded = 0 /\ Guarded' = 1
            BY <1>7 DEF lockTaken, Goto, Started, Undeleted, Ran, Guarded, Holding,
               PhaseTypeInv, TypeOK, PhaseInv
      <2> QED BY <2>1, <1>0, <1>f, AdmitCount
<1>8. ASSUME NEW r \in Requests, lockError(r) PROVE CountInv'
      <2>1. /\ Started' \subseteq Started \cup {r} /\ Undeleted' \subseteq Undeleted
            /\ Ran' \subseteq Ran \cup {r}
            /\ entry' = entry /\ faults' = faults + 1
            BY <1>8 DEF lockError, Goto, Fault, Started, Undeleted, Ran,
               PhaseTypeInv, TypeOK, PhaseInv
      <2>2. Guarded' >= Guarded
            BY <1>8, <1>f DEF lockError, Goto, Guarded, Holding, PhaseTypeInv, TypeOK
      <2> QED BY <2>1, <2>2, <1>0, <1>f, FaultCount
<1>9. ASSUME NEW r \in Requests, lockedMiss(r) PROVE CountInv'
      <2>1. /\ Started' \subseteq Started /\ Undeleted' \subseteq Undeleted
            /\ Ran' \subseteq Ran \cup {r} /\ r \in Started /\ Ran \subseteq Started
            /\ entry' = entry /\ Guarded' = Guarded
            BY <1>9 DEF lockedMiss, Goto, Started, Undeleted, Ran, Guarded, Holding,
               PhaseTypeInv, TypeOK, PhaseInv
      <2>2. (entry = None /\ faults' = faults) \/ faults' = faults + 1
            BY <1>9 DEF lockedMiss, Raced, Fault
      <2>3. ASSUME entry = None, faults' = faults PROVE CountInv'
            BY <2>1, <2>3, <1>0, RunCount
      <2>4. ASSUME faults' = faults + 1 PROVE CountInv'
            BY <2>1, <2>4, <1>0, <1>f, FaultCount
      <2> QED BY <2>2, <2>3, <2>4
<1>10. ASSUME NEW r \in Requests, commit(r) PROVE CountInv'
      <2>1. /\ Started' \subseteq Started /\ Undeleted' \subseteq Undeleted /\ Ran' \subseteq Ran
            /\ entry' = entry /\ faults' = faults /\ Guarded' = Guarded
            BY <1>10 DEF commit, Answer, Goto, Started, Undeleted, Ran, Guarded, Holding,
               PhaseTypeInv, TypeOK, PhaseInv
      <2> QED BY <2>1, <1>0, <1>f, SameCount
<1>11. ASSUME NEW r \in Requests, throw(r) PROVE CountInv'
      <2>1. /\ r \in Started /\ Started' \subseteq Started \ {r}
            /\ Undeleted' \subseteq Undeleted \cup {r} /\ Ran' \subseteq Ran
            /\ entry' = entry /\ faults' = faults
            BY <1>11 DEF throw, Answer, Goto, Started, Undeleted, Ran, PhaseTypeInv, TypeOK, PhaseInv
      <2>2. Guarded' = Guarded
            BY <1>11 DEF throw, Answer, Goto, Guarded, Holding, PhaseTypeInv, TypeOK, PhaseInv
      <2> QED BY <2>1, <2>2, <1>0, <1>f, ThrowCount
<1>12. ASSUME NEW r \in Requests, store(r) PROVE CountInv'
      <2>1. Ran' \subseteq Ran /\ faults' = faults
            BY <1>12 DEF store, Goto, Ran, PhaseTypeInv, TypeOK
      <2>2. entry' # None
            <3>1. entry' \in [hash : Bodies, of : Requests]
                  BY <1>12 DEF store, PhaseTypeInv, TypeOK, PhaseInv
            <3> QED BY <3>1, NoneAssumption
      <2> QED BY <2>1, <2>2, <1>0, <1>f, StoredCount
<1>13. ASSUME NEW r \in Requests, storeError(r) PROVE CountInv'
      <2>1. /\ Started' \subseteq Started /\ Undeleted' \subseteq Undeleted \cup {r} /\ Ran' \subseteq Ran
            /\ entry' = entry /\ faults' = faults + 1 /\ Guarded' = Guarded
            BY <1>13 DEF storeError, Goto, Fault, Started, Undeleted, Ran, Guarded, Holding,
               PhaseTypeInv, TypeOK, PhaseInv
      <2> QED BY <2>1, <1>0, <1>f, StoreErrorCount
<1>14. ASSUME NEW r \in Requests, releaseAwaited(r) PROVE CountInv'
      <2>1. /\ r \in Undeleted /\ Undeleted' \subseteq Undeleted \ {r}
            /\ Started' \subseteq Started /\ Ran' \subseteq Ran /\ entry' = entry
            BY <1>14 DEF releaseAwaited, Answer, Goto, Started, Undeleted, Ran,
               PhaseTypeInv, TypeOK, PhaseInv
      <2>2. faults' = faults \/ faults' = faults + 1
            BY <1>14 DEF releaseAwaited, release, Fault
      <2>3. faults' >= faults /\ faults' + Guarded' + 1 >= faults + Guarded
            BY <2>2, <1>f, FaultPays
      <2> QED BY <2>1, <2>3, <1>0, DeleteCount
<1>15. ASSUME NEW r \in Requests, releaseVoid(r) PROVE CountInv'
      <2>1. /\ r \in Undeleted /\ Undeleted' \subseteq Undeleted \ {r}
            /\ Started' \subseteq Started /\ Ran' \subseteq Ran /\ entry' = entry
            BY <1>15 DEF releaseVoid, Started, Undeleted, Ran, PhaseTypeInv, TypeOK, PhaseInv
      <2>2. faults' = faults \/ faults' = faults + 1
            BY <1>15 DEF releaseVoid, release, Fault
      <2>3. faults' >= faults /\ faults' + Guarded' + 1 >= faults + Guarded
            BY <2>2, <1>f, FaultPays
      <2> QED BY <2>1, <2>3, <1>0, DeleteCount
<1>16. ASSUME NEW r \in Requests, crash(r) PROVE CountInv'
      <2>1. /\ Undeleted' \subseteq Undeleted /\ Started' \subseteq Started /\ Ran' \subseteq Ran
            /\ entry' = entry /\ faults' = faults + 1
            BY <1>16 DEF crash, Fault, Started, Undeleted, Ran, PhaseTypeInv, TypeOK, PhaseInv
      <2>2. faults' >= faults /\ faults' + Guarded' >= faults + Guarded
            BY <2>1, <1>f, FaultPays
      <2> QED BY <2>1, <2>2, <1>0, SameCount
<1>17. ASSUME expire PROVE CountInv'
      <2>1. /\ Undeleted' \subseteq Undeleted /\ Started' \subseteq Started /\ Ran' \subseteq Ran
            /\ entry' = entry
            BY <1>17 DEF expire, Started, Undeleted, Ran
      <2>2. faults' = faults + 1 \/ (faults' = faults /\ Guarded = 0)
            BY <1>17 DEF expire, Fault, Guarded
      <2>3. faults' >= faults /\ faults' + Guarded' >= faults + Guarded
            BY <2>2, <1>f, FaultPays
      <2> QED BY <2>1, <2>3, <1>0, SameCount
<1>18. ASSUME UNCHANGED vars PROVE CountInv'
      BY <1>18 DEF vars, CountInv, Started, Undeleted, Ran, Guarded, Holding
<1> QED
    BY <1>1, <1>2, <1>3, <1>4, <1>5, <1>6, <1>7, <1>8, <1>9, <1>10, <1>11, <1>12, <1>13, <1>14,
       <1>15, <1>16, <1>17, <1>18 DEF Next, Step

\* However many duplicates race, and however the cache, the processes and the
\* clock fail them, the handler commits at most once more than there were faults;
\* with none, exactly-once admission: "two concurrent duplicates do not both run".
THEOREM DuplicatesAreBounded == Spec => []DuplicatesArePaid
<1>1. Init => PhaseTypeInv /\ CountInv
      <2> SUFFICES ASSUME Init PROVE PhaseTypeInv /\ CountInv
          OBVIOUS
      <2>1. PhaseTypeInv
            BY PhaseInit
      <2>2. Started = {} /\ Undeleted = {} /\ Ran = {} /\ faults = 0 /\ Guarded = 0
            BY DEF Init, Started, Undeleted, Ran, Guarded
      <2>3. CountInv
            BY <2>2, FS_EmptySet DEF CountInv
      <2> QED BY <2>1, <2>3
<1>2. (PhaseTypeInv /\ CountInv) /\ [Next]_vars => (PhaseTypeInv /\ CountInv)'
      BY PhaseStep, CountStep
<1>3. PhaseTypeInv /\ CountInv => DuplicatesArePaid
      <2> SUFFICES ASSUME PhaseTypeInv, CountInv PROVE DuplicatesArePaid
          OBVIOUS
      <2> DEFINE R == Ran  C == commits
      <2>1. C \subseteq R /\ Cardinality(R) <= 1 + faults
            BY DEF Ran, CountInv
      <2>2. IsFiniteSet(R) /\ Cardinality(R) \in Nat /\ faults \in Nat
            BY Sizes
      <2>3. DuplicatesArePaid <=> Cardinality(C) <= 1 + faults
            BY DEF DuplicatesArePaid
      <2> HIDE DEF R, C
      <2>4. Cardinality(C) <= Cardinality(R) /\ Cardinality(C) \in Nat
            BY <2>1, <2>2, FS_Subset, FS_CardinalityType
      <2> QED BY <2>1, <2>2, <2>3, <2>4
<1> QED BY <1>1, <1>2, <1>3, PTL DEF Spec

----------------------------------------------------------------------------
(* Answers                                                                  *)

\* Without a fault no request runs outside the protocol, and one that goes on to
\* its answer has stored its response.
StoredInv ==
    /\ faults = 0 => \A r \in Requests : pc[r] # "bare" /\ (pc[r] = "release" => entry # None)
    /\ AnsweredIsStored

\* Every step keeps it: an entry is never taken back.
LEMMA StoredStep == PhaseTypeInv /\ StoredInv /\ [Next]_vars => StoredInv'
<1> SUFFICES ASSUME PhaseTypeInv, StoredInv, [Next]_vars PROVE StoredInv'
    OBVIOUS
<1> USE DEF StoredInv, AnsweredIsStored, PhaseTypeInv, TypeOK
<1>1. faults \in Nat /\ \A k : Fault(k) => faults' # 0
      BY FaultsAssumption DEF Fault
<1>2. ASSUME NEW r \in Requests, NEW b \in Bodies, intercept(r, b) PROVE StoredInv'
      BY <1>2 DEF intercept, Goto, cache
<1>3. ASSUME NEW r \in Requests, firstHit(r) \/ heldHit(r) \/ lockedHit(r) PROVE StoredInv'
      <2>1. entry' = entry /\ entry # None /\ UNCHANGED faults /\ pc' = [pc EXCEPT ![r] = "done"]
            BY <1>3 DEF firstHit, heldHit, lockedHit, Raced, Answer, Goto, cache
      <2> QED BY <2>1
<1>4. ASSUME NEW r \in Requests, firstMiss(r) \/ lockHeld(r) \/ lockTaken(r) PROVE StoredInv'
      BY <1>4 DEF firstMiss, lockHeld, lockTaken, Goto, cache
<1>5. ASSUME faults' # 0 PROVE StoredInv'
      BY <1>5
<1>6. ASSUME NEW r \in Requests, firstError(r) \/ lockError(r) \/ storeError(r) \/ crash(r) PROVE StoredInv'
      BY <1>1, <1>5, <1>6 DEF firstError, lockError, storeError, crash
<1>7. ASSUME NEW r \in Requests, heldMiss(r) PROVE StoredInv'
      <2>1. CASE UNCHANGED faults
            <3>1. /\ entry' = entry /\ pc' = [pc EXCEPT ![r] = "done"]
                  /\ answer' = [answer EXCEPT ![r] = [kind |-> "conflict", of |-> r]]
                  BY <1>7 DEF heldMiss, Answer, Goto, cache
            <3> QED BY <2>1, <3>1
      <2> QED BY <1>1, <1>5, <1>7, <2>1 DEF heldMiss
<1>8. ASSUME NEW r \in Requests, lockedMiss(r) PROVE StoredInv'
      <2>1. CASE UNCHANGED faults
            BY <1>8, <2>1 DEF lockedMiss, Goto, cache
      <2> QED BY <1>1, <1>5, <1>8, <2>1 DEF lockedMiss
<1>9. ASSUME NEW r \in Requests, commit(r) PROVE StoredInv'
      <2>1. CASE faults = 0
            <3>1. pc[r] = "run"
                  BY <1>9, <2>1 DEF commit
            <3>2. UNCHANGED <<entry, answer, faults>> /\ pc' = [pc EXCEPT ![r] = "complete"]
                  BY <1>9, <3>1 DEF commit, Goto, cache
            <3> QED BY <3>2
      <2>2. CASE faults # 0
            BY <1>5, <1>9, <2>2 DEF commit
      <2> QED BY <2>1, <2>2
<1>10. ASSUME NEW r \in Requests, throw(r) PROVE StoredInv'
      <2>1. /\ UNCHANGED <<entry, faults>> /\ pc' = [pc EXCEPT ![r] = "done"]
            /\ answer' = [answer EXCEPT ![r] = [kind |-> "error", of |-> r]]
            BY <1>10 DEF throw, Answer, Goto, cache
      <2> QED BY <2>1
<1>11. ASSUME NEW r \in Requests, store(r) PROVE StoredInv'
      <2>1. body[r] \in Bodies /\ entry' = [hash |-> body[r], of |-> r]
            BY <1>11 DEF store, PhaseInv
      <2>2. entry' # None
            <3>1. entry' \in [hash : Bodies, of : Requests]
                  BY <2>1
            <3> QED BY <3>1, NoneAssumption
      <2> QED BY <1>11, <2>2 DEF store, Goto
<1>12. ASSUME NEW r \in Requests, releaseAwaited(r) PROVE StoredInv'
      <2>1. CASE UNCHANGED faults
            <3>1. entry' = entry /\ (faults = 0 => entry # None) /\ pc' = [pc EXCEPT ![r] = "done"]
                  BY <1>12 DEF releaseAwaited, Answer, Goto
            <3> QED BY <2>1, <3>1
      <2> QED BY <1>1, <1>5, <1>12, <2>1 DEF releaseAwaited, release
<1>13. ASSUME NEW r \in Requests, releaseVoid(r) PROVE StoredInv'
      <2>1. CASE UNCHANGED faults
            BY <1>13, <2>1 DEF releaseVoid
      <2> QED BY <1>1, <1>5, <1>13, <2>1 DEF releaseVoid, release
<1>14. ASSUME expire PROVE StoredInv'
      <2>1. CASE UNCHANGED faults
            BY <1>14, <2>1 DEF expire
      <2> QED BY <1>1, <1>5, <1>14, <2>1 DEF expire
<1>15. ASSUME UNCHANGED vars PROVE StoredInv'
      BY <1>15 DEF vars, cache
<1> QED
    BY <1>2, <1>3, <1>4, <1>6, <1>7, <1>8, <1>9, <1>10, <1>11, <1>12, <1>13, <1>14, <1>15 DEF Next, Step

\* A client that has its response finds it in the cache when it retries, unless
\* something failed on the way, for any number of requests.
THEOREM AnswersAreStored == Spec => []AnsweredIsStored
<1>1. Init => PhaseTypeInv /\ StoredInv
      BY PhaseInit DEF Init, StoredInv, AnsweredIsStored
<1>2. (PhaseTypeInv /\ StoredInv) /\ [Next]_vars => (PhaseTypeInv /\ StoredInv)'
      BY PhaseStep, StoredStep
<1>3. StoredInv => AnsweredIsStored
      BY DEF StoredInv
<1> QED BY <1>1, <1>2, <1>3, PTL DEF Spec

=============================================================================
