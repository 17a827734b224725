------------------------- MODULE StorageFilesProofs -------------------------
(***************************************************************************)
(* What holds of StorageFiles for every set of files and requests, every   *)
(* limit and every behaviour of the clients.                               *)
(***************************************************************************)
EXTENDS StorageFiles, FiniteSetTheorems, TLAPS

\* The initial state: no file was ever presigned.
LEMMA FileInit == Init => FileInv
BY FilesAssumption DEF Init, FileInv, TypeOK, RequestsKnowTheirFile, LinkedIsCompleted, Files, Active

\* Every step of clients, requests, sweep and clocks keeps the types, ties a
\* request to a row it completed, and keeps unfinished rows unlinked.
LEMMA FileStep == FileInv /\ [Next]_vars => FileInv'
<1> SUFFICES ASSUME FileInv, [Next]_vars PROVE FileInv'
    OBVIOUS
<1> USE FilesAssumption DEF FileInv, TypeOK, RequestsKnowTheirFile, LinkedIsCompleted,
        Active, Files
<1>1. ASSUME NEW f \in Files, presign(f) PROVE FileInv'
      BY <1>1 DEF presign, bucket, refs, request, sweep
<1>2. ASSUME NEW f \in Files, NEW o \in {"good", "bad"}, upload(f, o) PROVE FileInv'
      BY <1>2 DEF upload, filesTable, refs, request, sweep
<1>3. ASSUME NEW f \in Files, discardObject(f) PROVE FileInv'
      BY <1>3 DEF discardObject, deleteObject, filesTable, refs, request, sweep
<1>4. ASSUME NEW f \in Files, delete(f) PROVE FileInv'
      BY <1>4 DEF delete, softDelete, bucket, request, sweep
<1>5. ASSUME NEW f \in Files, dayPasses(f) PROVE FileInv'
      BY <1>5 DEF dayPasses, bucket, refs, request, sweep
<1>6. ASSUME NEW f \in Files, hourPasses(f) PROVE FileInv'
      BY <1>6 DEF hourPasses, bucket, refs, request, sweep
<1>7. ASSUME NEW q \in Requests, NEW f \in Files, confirm(q, f) PROVE FileInv'
      BY <1>7 DEF confirm, filesTable, bucket, refs, sweep
<1>8. ASSUME NEW q \in Requests, headNull(q) \/ abort(q) PROVE FileInv'
      BY <1>8 DEF headNull, abort, Return, filesTable, bucket, refs, sweep
<1>9. ASSUME NEW q \in Requests, headGood(q) PROVE FileInv'
      BY <1>9 DEF headGood, Goto, filesTable, bucket, refs, sweep
<1>10. ASSUME NEW q \in Requests, headBad(q) PROVE FileInv'
      BY <1>10 DEF headBad, Return, softDelete, refs, sweep
<1>11. ASSUME NEW q \in Requests, markCompleted(q) PROVE FileInv'
      BY <1>11 DEF markCompleted, ConfirmedNow, AfterConfirm, Goto, bucket, refs, sweep
<1>12. ASSUME NEW q \in Requests, recount(q) PROVE FileInv'
      BY <1>12 DEF recount, Goto, Return, softDelete, bucket, refs, sweep
<1>13. ASSUME NEW q \in Requests, linkFile(q) PROVE FileInv'
      BY <1>13 DEF linkFile, Return, filesTable, bucket, sweep
<1>14. ASSUME NEW q \in Requests, setProfile(q) PROVE FileInv'
      BY <1>14 DEF setProfile, Return, filesTable, bucket, sweep
<1>15. ASSUME NEW S \in SUBSET Files, sweepSelect(S) PROVE FileInv'
      BY <1>15 DEF sweepSelect, filesTable, bucket, refs, request
<1>16. ASSUME NEW f \in Files, sweepObject(f) PROVE FileInv'
      BY <1>16 DEF sweepObject, deleteObject, filesTable, refs, request
<1>17. ASSUME sweepRows PROVE FileInv'
      BY <1>17 DEF sweepRows, bucket, request
<1>18. ASSUME sweepAbort PROVE FileInv'
      BY <1>18 DEF sweepAbort, filesTable, bucket, refs, request
<1>19. ASSUME UNCHANGED vars PROVE FileInv'
      BY <1>19 DEF vars, filesTable, bucket, refs, request, sweep
<1> QED
    BY <1>1, <1>2, <1>3, <1>4, <1>5, <1>6, <1>7, <1>8, <1>9, <1>10, <1>11, <1>12, <1>13,
       <1>14, <1>15, <1>16, <1>17, <1>18, <1>19 DEF Next, confirmStep, sweepStep

\* The types and the request-row-link relation hold in every reachable state.
THEOREM FilesInvariant == Spec => []FileInv
BY FileInit, FileStep, PTL DEF Spec

\* StorageFiles' type invariant holds for every set of files and requests.
THEOREM FilesTypeCorrect == Spec => []TypeOK
<1>1. FileInv => TypeOK
      BY DEF FileInv
<1> QED BY FilesInvariant, <1>1, PTL

----------------------------------------------------------------------------
(* The quota                                                                *)

\* Fewer visible attachments and fewer requests about to link keep the bound.
LEMMA FewerKeepQuota ==
    ASSUME FileInv, QuotaInv, FileInv', Visible' \subseteq Visible, Linking' \subseteq Linking
    PROVE  QuotaInv'
<1> DEFINE V == Visible  W == Visible'  L == Linking  M == Linking'
<1>1. IsFiniteSet(V) /\ IsFiniteSet(L)
      <2>1. V \subseteq Attachments \cup Avatars /\ L \subseteq Requests
            BY DEF Visible, Linking, FileInv, TypeOK
      <2> HIDE DEF V, L
      <2> QED BY <2>1, RequestsAssumption, FS_Subset
<1>2. W \subseteq V /\ M \subseteq L
      OBVIOUS
<1>3. Cardinality(V) + Cardinality(L) < MaxPerOwner + Cardinality(Requests)
      BY DEF QuotaInv
<1>4. QuotaInv' <=> Cardinality(W) + Cardinality(M) < MaxPerOwner + Cardinality(Requests)
      BY DEF QuotaInv
<1> HIDE DEF V, W, L, M
<1>5. /\ IsFiniteSet(W) /\ IsFiniteSet(M)
      /\ Cardinality(W) <= Cardinality(V) /\ Cardinality(M) <= Cardinality(L)
      BY <1>1, <1>2, FS_Subset
<1>6. /\ Cardinality(V) \in Nat /\ Cardinality(L) \in Nat /\ Cardinality(Requests) \in Nat
      /\ Cardinality(W) \in Nat /\ Cardinality(M) \in Nat
      BY <1>1, <1>5, RequestsAssumption, FS_CardinalityType
<1> QED BY <1>3, <1>4, <1>5, <1>6, LimitsAssumption

\* A recount that lets its request go on has seen fewer than MaxPerOwner.
LEMMA RecountKeepsQuota ==
    ASSUME FileInv, FileInv', NEW q \in Requests, recount(q), ~QuotaReached
    PROVE  QuotaInv'
<1> DEFINE V == Visible  M == Linking'
<1>1. Visible' = V /\ M \subseteq Requests /\ V \subseteq Attachments \cup Avatars
      BY DEF recount, Goto, refs, Visible, Linking, FileInv, TypeOK
<1>2. ~(Cardinality(V) >= MaxPerOwner)
      BY DEF QuotaReached
<1>3. QuotaInv' <=> Cardinality(Visible') + Cardinality(M) < MaxPerOwner + Cardinality(Requests)
      BY DEF QuotaInv
<1> HIDE DEF V, M
<1>4. IsFiniteSet(V) /\ IsFiniteSet(M) /\ Cardinality(M) <= Cardinality(Requests)
      BY <1>1, RequestsAssumption, FS_Subset
<1>5. Cardinality(V) \in Nat /\ Cardinality(M) \in Nat /\ Cardinality(Requests) \in Nat
      BY <1>4, RequestsAssumption, FS_CardinalityType
<1> QED BY <1>1, <1>2, <1>3, <1>4, <1>5, LimitsAssumption

\* A link row turns one request about to link into at most one visible file.
LEMMA LinkKeepsQuota ==
    ASSUME FileInv, QuotaInv, FileInv', NEW q \in Requests, linkFile(q)
    PROVE  QuotaInv'
<1> DEFINE V == Visible  W == Visible'  L == Linking  x == file[q]
<1>1. W \subseteq V \cup {x} /\ Linking' = L \ {q} /\ q \in L
      BY DEF linkFile, Return, filesTable, Visible, Linking, FileInv, TypeOK
<1>2. V \subseteq Attachments \cup Avatars /\ L \subseteq Requests
      BY DEF Visible, Linking, FileInv, TypeOK
<1>3. Cardinality(V) + Cardinality(L) < MaxPerOwner + Cardinality(Requests)
      BY DEF QuotaInv
<1>4. QuotaInv' <=> Cardinality(W) + Cardinality(Linking') < MaxPerOwner + Cardinality(Requests)
      BY DEF QuotaInv
<1> HIDE DEF V, W, L, x
<1>5. IsFiniteSet(V) /\ IsFiniteSet(L)
      BY <1>2, RequestsAssumption, FS_Subset
<1>6. Cardinality(L \ {q}) = Cardinality(L) - 1
      BY <1>1, <1>5, FS_RemoveElement
<1>7. /\ IsFiniteSet(V \cup {x})
      /\ Cardinality(V \cup {x}) = IF x \in V THEN Cardinality(V) ELSE Cardinality(V) + 1
      BY <1>5, FS_AddElement
<1>8. IsFiniteSet(W) /\ Cardinality(W) <= Cardinality(V \cup {x})
      BY <1>1, <1>7, FS_Subset
<1>9. /\ Cardinality(V) \in Nat /\ Cardinality(L) \in Nat /\ Cardinality(Requests) \in Nat
      /\ Cardinality(W) \in Nat /\ Cardinality(V \cup {x}) \in Nat
      BY <1>5, <1>7, <1>8, RequestsAssumption, FS_CardinalityType
<1> QED BY <1>1, <1>3, <1>4, <1>6, <1>7, <1>8, <1>9, LimitsAssumption

\* No other step shows a file or brings a request to its link row.
LEMMA QuotaStep == FileInv /\ QuotaInv /\ [Next]_vars => QuotaInv'
<1> SUFFICES ASSUME FileInv, QuotaInv, [Next]_vars PROVE QuotaInv'
    OBVIOUS
<1>0. FileInv'
      BY FileStep
<1> DEFINE Shrinks == Visible' \subseteq Visible /\ Linking' \subseteq Linking
<1> USE DEF FileInv, TypeOK, RequestsKnowTheirFile, LinkedIsCompleted, Active, Files, Visible, Linking
<1>1. ASSUME NEW f \in Files, presign(f) PROVE Shrinks
      BY <1>1 DEF presign, refs, request
<1>2. ASSUME NEW f \in Files, NEW o \in {"good", "bad"}, upload(f, o) PROVE Shrinks
      BY <1>2 DEF upload, filesTable, refs, request
<1>3. ASSUME NEW f \in Files, discardObject(f) PROVE Shrinks
      BY <1>3 DEF discardObject, filesTable, refs, request
<1>4. ASSUME NEW f \in Files, delete(f) PROVE Shrinks
      BY <1>4 DEF delete, softDelete, request
<1>5. ASSUME NEW f \in Files, dayPasses(f) PROVE Shrinks
      BY <1>5 DEF dayPasses, refs, request
<1>6. ASSUME NEW f \in Files, hourPasses(f) PROVE Shrinks
      BY <1>6 DEF hourPasses, refs, request
<1>7. ASSUME NEW q \in Requests, NEW f \in Files, confirm(q, f) PROVE Shrinks
      BY <1>7 DEF confirm, filesTable, refs
<1>8. ASSUME NEW q \in Requests, headNull(q) \/ abort(q) PROVE Shrinks
      BY <1>8 DEF headNull, abort, Return, filesTable, refs
<1>9. ASSUME NEW q \in Requests, headGood(q) PROVE Shrinks
      BY <1>9 DEF headGood, Goto, filesTable, refs
<1>10. ASSUME NEW q \in Requests, headBad(q) PROVE Shrinks
      BY <1>10 DEF headBad, Return, softDelete, refs
<1>11. ASSUME NEW q \in Requests, markCompleted(q) PROVE Shrinks
      BY <1>11 DEF markCompleted, AfterConfirm, Goto, refs
<1>12. ASSUME NEW q \in Requests, recount(q), QuotaReached PROVE Shrinks
      BY <1>12 DEF recount, Return, softDelete, refs
<1>13. ASSUME NEW q \in Requests, setProfile(q) PROVE Shrinks
      BY <1>13 DEF setProfile, Return, filesTable
<1>14. ASSUME NEW S \in SUBSET Files, sweepSelect(S) PROVE Shrinks
      BY <1>14 DEF sweepSelect, filesTable, refs, request
<1>15. ASSUME NEW f \in Files, sweepObject(f) PROVE Shrinks
      BY <1>15 DEF sweepObject, filesTable, refs, request
<1>16. ASSUME sweepRows PROVE Shrinks
      BY <1>16 DEF sweepRows, request
<1>17. ASSUME sweepAbort \/ UNCHANGED vars PROVE Shrinks
      BY <1>17 DEF sweepAbort, vars, filesTable, refs, request
<1>18. ASSUME NEW q \in Requests, linkFile(q) PROVE QuotaInv'
      BY <1>18, <1>0, LinkKeepsQuota
<1>19. ASSUME NEW q \in Requests, recount(q), ~QuotaReached PROVE QuotaInv'
      BY <1>19, <1>0, RecountKeepsQuota
<1>20. Shrinks => QuotaInv'
      BY <1>0, FewerKeepQuota
<1> HIDE DEF Shrinks
<1> QED
    BY <1>1, <1>2, <1>3, <1>4, <1>5, <1>6, <1>7, <1>8, <1>9, <1>10, <1>11, <1>12, <1>13,
       <1>14, <1>15, <1>16, <1>17, <1>18, <1>19, <1>20 DEF Next, confirmStep, sweepStep

\* With at least one request handler, an empty table is under the bound.
LEMMA QuotaInit == Init => QuotaInv
<1> SUFFICES ASSUME Init PROVE QuotaInv
    OBVIOUS
<1>1. Visible = {} /\ Linking = {}
      BY DEF Init, Visible, Linking
<1>2. Cardinality(Requests) \in Nat /\ Cardinality(Requests) # 0
      BY RequestsAssumption, FS_CardinalityType, FS_EmptySet
<1> QED BY <1>1, <1>2, FS_EmptySet, LimitsAssumption DEF QuotaInv

\* However many files were presigned and whatever the clients send, confirms
\* that race past the recount exceed the quota by at most the number of request
\* handlers less one: the bound EntityAttachmentsService.confirm does keep.
THEOREM OvershootIsBounded == Spec => []QuotaOvershootBounded
<1>1. Init => FileInv /\ QuotaInv
      BY FileInit, QuotaInit
<1>2. (FileInv /\ QuotaInv) /\ [Next]_vars => (FileInv /\ QuotaInv)'
      BY FileStep, QuotaStep
<1>3. FileInv /\ QuotaInv => QuotaOvershootBounded
      <2> SUFFICES ASSUME FileInv, QuotaInv PROVE QuotaOvershootBounded
          OBVIOUS
      <2> DEFINE V == Visible  L == Linking
      <2>1. V \subseteq Attachments \cup Avatars /\ L \subseteq Requests
            BY DEF Visible, Linking, FileInv, TypeOK
      <2>2. Cardinality(V) + Cardinality(L) < MaxPerOwner + Cardinality(Requests)
            BY DEF QuotaInv
      <2>3. QuotaOvershootBounded <=> Cardinality(V) < MaxPerOwner + Cardinality(Requests)
            BY DEF QuotaOvershootBounded
      <2> HIDE DEF V, L
      <2>4. Cardinality(V) \in Nat /\ Cardinality(L) \in Nat /\ Cardinality(Requests) \in Nat
            BY <2>1, RequestsAssumption, FS_Subset, FS_CardinalityType
      <2> QED BY <2>2, <2>3, <2>4, LimitsAssumption
<1> QED BY <1>1, <1>2, <1>3, PTL DEF Spec

----------------------------------------------------------------------------
(* Leaked objects                                                           *)

\* A bucket that deletes what it is asked to: no step uploads to a file the
\* sweep has tried, or drops a row whose object is still there.
LEMMA LeakStep ==
    ASSUME DeleteFails = FALSE
    PROVE  FileInv /\ LeakInv /\ [Next]_vars => LeakInv'
<1> SUFFICES ASSUME FileInv, LeakInv, [Next]_vars PROVE LeakInv'
    OBVIOUS
<1> USE FilesAssumption DEF FileInv, TypeOK, RequestsKnowTheirFile, LinkedIsCompleted, Active,
        Files, LeakInv, NoLeakedObject
<1>1. ASSUME NEW f \in Files, presign(f) PROVE LeakInv'
      BY <1>1 DEF presign, bucket, sweep
<1>2. ASSUME NEW f \in Files, NEW o \in {"good", "bad"}, upload(f, o) PROVE LeakInv'
      BY <1>2 DEF upload, filesTable, sweep
<1>3. ASSUME NEW f \in Files, discardObject(f) PROVE LeakInv'
      BY <1>3 DEF discardObject, deleteObject, filesTable, sweep
<1>4. ASSUME NEW f \in Files, delete(f) PROVE LeakInv'
      BY <1>4 DEF delete, softDelete, bucket, sweep
<1>5. ASSUME NEW f \in Files, dayPasses(f) PROVE LeakInv'
      BY <1>5 DEF dayPasses, bucket, sweep
<1>6. ASSUME NEW f \in Files, hourPasses(f) PROVE LeakInv'
      BY <1>6 DEF hourPasses, bucket, sweep
<1>7. ASSUME NEW q \in Requests, NEW f \in Files, confirm(q, f) PROVE LeakInv'
      BY <1>7 DEF confirm, filesTable, bucket, sweep
<1>8. ASSUME NEW q \in Requests, headNull(q) \/ abort(q) \/ headGood(q) \/ setProfile(q) PROVE LeakInv'
      BY <1>8 DEF headNull, abort, headGood, setProfile, filesTable, bucket, sweep
<1>9. ASSUME NEW q \in Requests, headBad(q) PROVE LeakInv'
      BY <1>9 DEF headBad, softDelete, sweep
<1>10. ASSUME NEW q \in Requests, markCompleted(q) PROVE LeakInv'
      BY <1>10 DEF markCompleted, bucket, sweep
<1>11. ASSUME NEW q \in Requests, recount(q) PROVE LeakInv'
      <2>1. file[q] \in Files /\ status[file[q]] \in {"completed", "gone"}
            BY <1>11 DEF recount
      <2>2. /\ UNCHANGED <<status, old, object, swept, tried>>
            /\ deleted \subseteq deleted' /\ deleted' \subseteq deleted \cup {file[q]}
            BY <1>11 DEF recount, softDelete, bucket, sweep
      <2> QED BY <2>1, <2>2
<1>12. ASSUME NEW q \in Requests, linkFile(q) PROVE LeakInv'
      BY <1>12 DEF linkFile, filesTable, bucket, sweep
<1>13. ASSUME NEW S \in SUBSET Files, sweepSelect(S) PROVE LeakInv'
      BY <1>13 DEF sweepSelect, Unreachable, filesTable, bucket
<1>14. ASSUME NEW f \in Files, sweepObject(f) PROVE LeakInv'
      BY <1>14 DEF sweepObject, deleteObject, filesTable
<1>15. ASSUME sweepRows PROVE LeakInv'
      BY <1>15 DEF sweepRows, ObjectsFirst, bucket
<1>16. ASSUME sweepAbort PROVE LeakInv'
      BY <1>16 DEF sweepAbort, filesTable, bucket
<1>17. ASSUME UNCHANGED vars PROVE LeakInv'
      BY <1>17 DEF vars, filesTable, bucket, sweep
<1> QED
    BY <1>1, <1>2, <1>3, <1>4, <1>5, <1>6, <1>7, <1>8, <1>9, <1>10, <1>11, <1>12, <1>13,
       <1>14, <1>15, <1>16, <1>17 DEF Next, confirmStep, sweepStep

\* As long as the bucket carries out its deletes, the row outlives the object:
\* no order of uploads, confirms, deletes and interrupted sweeps leaks one.
THEOREM NoLeakWhenDeletesSucceed ==
    ASSUME DeleteFails = FALSE
    PROVE  Spec => []NoLeakedObject
<1>1. Init => FileInv /\ LeakInv
      BY FileInit DEF Init, LeakInv, NoLeakedObject, Files
<1>2. (FileInv /\ LeakInv) /\ [Next]_vars => (FileInv /\ LeakInv)'
      BY FileStep, LeakStep
<1>3. LeakInv => NoLeakedObject
      BY DEF LeakInv
<1> QED BY <1>1, <1>2, <1>3, PTL DEF Spec

----------------------------------------------------------------------------
(* Visible attachments                                                      *)

\* With confirms sent within a day of their presign, no step lets the sweep or a
\* discard reach an object a request has checked or a reader sees.
LEMMA ReachStep ==
    ASSUME "late" \notin Clients
    PROVE  FileInv /\ ReachInv /\ [Next]_vars => ReachInv'
<1> SUFFICES ASSUME FileInv, ReachInv, [Next]_vars PROVE ReachInv'
    OBVIOUS
<1> USE FilesAssumption DEF FileInv, TypeOK, RequestsKnowTheirFile, LinkedIsCompleted, Active,
        Files, ReachInv, VisibleIsDownloadable, Visible
<1>1. ASSUME NEW f \in Files, presign(f) PROVE ReachInv'
      BY <1>1 DEF presign, bucket, refs, request, sweep
<1>2. ASSUME NEW f \in Files, NEW o \in {"good", "bad"}, upload(f, o) PROVE ReachInv'
      BY <1>2 DEF upload, filesTable, refs, request, sweep
<1>3. ASSUME NEW f \in Files, discardObject(f) PROVE ReachInv'
      BY <1>3 DEF discardObject, deleteObject, filesTable, refs, request, sweep
<1>4. ASSUME NEW f \in Files, delete(f) PROVE ReachInv'
      BY <1>4 DEF delete, softDelete, bucket, request, sweep
<1>5. ASSUME NEW f \in Files, dayPasses(f) PROVE ReachInv'
      BY <1>5 DEF dayPasses, bucket, refs, request, sweep
<1>6. ASSUME NEW f \in Files, hourPasses(f) PROVE ReachInv'
      BY <1>6 DEF hourPasses, bucket, refs, request, sweep
<1>7. ASSUME NEW q \in Requests, NEW f \in Files, confirm(q, f) PROVE ReachInv'
      BY <1>7 DEF confirm, filesTable, bucket, refs, sweep
<1>8. ASSUME NEW q \in Requests, headNull(q) \/ abort(q) PROVE ReachInv'
      BY <1>8 DEF headNull, abort, Return, filesTable, bucket, refs, sweep
<1>9. ASSUME NEW q \in Requests, headGood(q) PROVE ReachInv'
      BY <1>9 DEF headGood, Goto, filesTable, bucket, refs, sweep
<1>10. ASSUME NEW q \in Requests, headBad(q) PROVE ReachInv'
      BY <1>10 DEF headBad, Return, softDelete, refs, sweep
<1>11. ASSUME NEW q \in Requests, markCompleted(q) PROVE ReachInv'
      BY <1>11 DEF markCompleted, ConfirmedNow, AfterConfirm, Goto, bucket, refs, sweep
<1>12. ASSUME NEW q \in Requests, recount(q) PROVE ReachInv'
      BY <1>12 DEF recount, Goto, Return, softDelete, bucket, refs, sweep
<1>13. ASSUME NEW q \in Requests, linkFile(q) PROVE ReachInv'
      BY <1>13 DEF linkFile, Return, filesTable, bucket, sweep
<1>14. ASSUME NEW q \in Requests, setProfile(q) PROVE ReachInv'
      BY <1>14 DEF setProfile, Return, filesTable, bucket, sweep
<1>15. ASSUME NEW S \in SUBSET Files, sweepSelect(S) PROVE ReachInv'
      BY <1>15 DEF sweepSelect, Unreachable, filesTable, bucket, refs, request
<1>16. ASSUME NEW f \in Files, sweepObject(f) PROVE ReachInv'
      BY <1>16 DEF sweepObject, deleteObject, filesTable, refs, request
<1>17. ASSUME sweepRows PROVE ReachInv'
      BY <1>17 DEF sweepRows, bucket, request
<1>18. ASSUME sweepAbort PROVE ReachInv'
      BY <1>18 DEF sweepAbort, filesTable, bucket, refs, request
<1>19. ASSUME UNCHANGED vars PROVE ReachInv'
      BY <1>19 DEF vars, filesTable, bucket, refs, request, sweep
<1> QED
    BY <1>1, <1>2, <1>3, <1>4, <1>5, <1>6, <1>7, <1>8, <1>9, <1>10, <1>11, <1>12, <1>13,
       <1>14, <1>15, <1>16, <1>17, <1>18, <1>19 DEF Next, confirmStep, sweepStep

\* What a reader of the entity sees can be downloaded: whatever confirms,
\* discards, deletes and sweeps overlap, and even if a confirm is sent twice.
THEOREM VisibleFilesAreDownloadable ==
    ASSUME "late" \notin Clients
    PROVE  Spec => []VisibleIsDownloadable
<1>1. Init => FileInv /\ ReachInv
      BY FileInit, FilesAssumption DEF Init, ReachInv, VisibleIsDownloadable, Visible, Active, Files
<1>2. (FileInv /\ ReachInv) /\ [Next]_vars => (FileInv /\ ReachInv)'
      BY FileStep, ReachStep
<1>3. ReachInv => VisibleIsDownloadable
      BY DEF ReachInv
<1> QED BY <1>1, <1>2, <1>3, PTL DEF Spec

\* With one confirm of a file at a time, a request's file is its own.
LEMMA OwnFileStep ==
    ASSUME "double" \notin Clients
    PROVE  FileInv /\ OwnFileInv /\ [Next]_vars => OwnFileInv'
<1> SUFFICES ASSUME FileInv, OwnFileInv, [Next]_vars PROVE OwnFileInv'
    OBVIOUS
<1> USE FilesAssumption DEF FileInv, TypeOK, RequestsKnowTheirFile, LinkedIsCompleted, Active,
        Files, OwnFileInv
<1>1. ASSUME NEW f \in Files, presign(f) PROVE OwnFileInv'
      BY <1>1 DEF presign, bucket, refs, request, sweep
<1>2. ASSUME NEW f \in Files, NEW o \in {"good", "bad"}, upload(f, o) PROVE OwnFileInv'
      BY <1>2 DEF upload, filesTable, refs, request, sweep
<1>3. ASSUME NEW f \in Files, discardObject(f) PROVE OwnFileInv'
      BY <1>3 DEF discardObject, deleteObject, filesTable, refs, request, sweep
<1>4. ASSUME NEW f \in Files, delete(f) PROVE OwnFileInv'
      BY <1>4 DEF delete, softDelete, bucket, request, sweep
<1>5. ASSUME NEW f \in Files, dayPasses(f) PROVE OwnFileInv'
      BY <1>5 DEF dayPasses, bucket, refs, request, sweep
<1>6. ASSUME NEW f \in Files, hourPasses(f) PROVE OwnFileInv'
      BY <1>6 DEF hourPasses, bucket, refs, request, sweep
<1>7. ASSUME NEW q \in Requests, NEW f \in Files, confirm(q, f) PROVE OwnFileInv'
      BY <1>7 DEF confirm, filesTable, bucket, refs, sweep
<1>8. ASSUME NEW q \in Requests, headNull(q) \/ abort(q) PROVE OwnFileInv'
      BY <1>8 DEF headNull, abort, Return, filesTable, bucket, refs, sweep
<1>9. ASSUME NEW q \in Requests, headGood(q) PROVE OwnFileInv'
      BY <1>9 DEF headGood, Goto, filesTable, bucket, refs, sweep
<1>10. ASSUME NEW q \in Requests, headBad(q) PROVE OwnFileInv'
      BY <1>10 DEF headBad, Return, softDelete, refs, sweep
<1>11. ASSUME NEW q \in Requests, markCompleted(q) PROVE OwnFileInv'
      BY <1>11 DEF markCompleted, ConfirmedNow, AfterConfirm, Goto, bucket, refs, sweep
<1>12. ASSUME NEW q \in Requests, recount(q) PROVE OwnFileInv'
      BY <1>12 DEF recount, Goto, Return, softDelete, bucket, refs, sweep
<1>13. ASSUME NEW q \in Requests, linkFile(q) PROVE OwnFileInv'
      BY <1>13 DEF linkFile, Return, filesTable, bucket, sweep
<1>14. ASSUME NEW q \in Requests, setProfile(q) PROVE OwnFileInv'
      BY <1>14 DEF setProfile, Return, filesTable, bucket, sweep
<1>15. ASSUME NEW S \in SUBSET Files, sweepSelect(S) PROVE OwnFileInv'
      BY <1>15 DEF sweepSelect, Unreachable, filesTable, bucket, refs, request
<1>16. ASSUME NEW f \in Files, sweepObject(f) PROVE OwnFileInv'
      BY <1>16 DEF sweepObject, deleteObject, filesTable, refs, request
<1>17. ASSUME sweepRows PROVE OwnFileInv'
      BY <1>17 DEF sweepRows, bucket, request
<1>18. ASSUME sweepAbort PROVE OwnFileInv'
      BY <1>18 DEF sweepAbort, filesTable, bucket, refs, request
<1>19. ASSUME UNCHANGED vars PROVE OwnFileInv'
      BY <1>19 DEF vars, filesTable, bucket, refs, request, sweep
<1> QED
    BY <1>1, <1>2, <1>3, <1>4, <1>5, <1>6, <1>7, <1>8, <1>9, <1>10, <1>11, <1>12, <1>13,
       <1>14, <1>15, <1>16, <1>17, <1>18, <1>19 DEF Next, confirmStep, sweepStep

\* A visible file stays visible in every step but its own delete.
LEMMA VisibleStep ==
    FileInv /\ ReachInv /\ OwnFileInv /\ [Next]_vars
        => [\A f \in Visible : f \in Visible' \/ delete(f)]_vars
<1> SUFFICES ASSUME FileInv, ReachInv, OwnFileInv, [Next]_vars, NEW x \in Visible
             PROVE  x \in Visible' \/ delete(x)
    OBVIOUS
<1> USE FilesAssumption DEF FileInv, TypeOK, RequestsKnowTheirFile, LinkedIsCompleted, Active,
        Files, ReachInv, OwnFileInv, VisibleIsDownloadable, Visible
<1>1. ASSUME NEW f \in Files, presign(f) PROVE x \in Visible' \/ delete(x)
      BY <1>1 DEF presign, bucket, refs, request, sweep
<1>2. ASSUME NEW f \in Files, NEW o \in {"good", "bad"}, upload(f, o) PROVE x \in Visible' \/ delete(x)
      BY <1>2 DEF upload, filesTable, refs, request, sweep
<1>3. ASSUME NEW f \in Files, discardObject(f) PROVE x \in Visible' \/ delete(x)
      BY <1>3 DEF discardObject, deleteObject, filesTable, refs, request, sweep
<1>4. ASSUME NEW f \in Files, delete(f) PROVE x \in Visible' \/ delete(x)
      BY <1>4 DEF delete, softDelete, bucket, request, sweep
<1>5. ASSUME NEW f \in Files, dayPasses(f) PROVE x \in Visible' \/ delete(x)
      BY <1>5 DEF dayPasses, bucket, refs, request, sweep
<1>6. ASSUME NEW f \in Files, hourPasses(f) PROVE x \in Visible' \/ delete(x)
      BY <1>6 DEF hourPasses, bucket, refs, request, sweep
<1>7. ASSUME NEW q \in Requests, NEW f \in Files, confirm(q, f) PROVE x \in Visible' \/ delete(x)
      BY <1>7 DEF confirm, filesTable, bucket, refs, sweep
<1>8. ASSUME NEW q \in Requests, headNull(q) \/ abort(q) PROVE x \in Visible' \/ delete(x)
      BY <1>8 DEF headNull, abort, Return, filesTable, bucket, refs, sweep
<1>9. ASSUME NEW q \in Requests, headGood(q) PROVE x \in Visible' \/ delete(x)
      BY <1>9 DEF headGood, Goto, filesTable, bucket, refs, sweep
<1>10. ASSUME NEW q \in Requests, headBad(q) PROVE x \in Visible' \/ delete(x)
      BY <1>10 DEF headBad, Return, softDelete, refs, sweep
<1>11. ASSUME NEW q \in Requests, markCompleted(q) PROVE x \in Visible' \/ delete(x)
      BY <1>11 DEF markCompleted, ConfirmedNow, AfterConfirm, Goto, bucket, refs, sweep
<1>12. ASSUME NEW q \in Requests, recount(q) PROVE x \in Visible' \/ delete(x)
      BY <1>12 DEF recount, Goto, Return, softDelete, bucket, refs, sweep
<1>13. ASSUME NEW q \in Requests, linkFile(q) PROVE x \in Visible' \/ delete(x)
      BY <1>13 DEF linkFile, Return, filesTable, bucket, sweep
<1>14. ASSUME NEW q \in Requests, setProfile(q) PROVE x \in Visible' \/ delete(x)
      BY <1>14 DEF setProfile, Return, filesTable, bucket, sweep
<1>15. ASSUME NEW S \in SUBSET Files, sweepSelect(S) PROVE x \in Visible' \/ delete(x)
      BY <1>15 DEF sweepSelect, Unreachable, filesTable, bucket, refs, request
<1>16. ASSUME NEW f \in Files, sweepObject(f) PROVE x \in Visible' \/ delete(x)
      BY <1>16 DEF sweepObject, deleteObject, filesTable, refs, request
<1>17. ASSUME sweepRows PROVE x \in Visible' \/ delete(x)
      BY <1>17 DEF sweepRows, bucket, request
<1>18. ASSUME sweepAbort PROVE x \in Visible' \/ delete(x)
      BY <1>18 DEF sweepAbort, filesTable, bucket, refs, request
<1>19. ASSUME UNCHANGED vars PROVE x \in Visible' \/ delete(x)
      BY <1>19 DEF vars, filesTable, bucket, refs, request, sweep
<1> QED
    BY <1>1, <1>2, <1>3, <1>4, <1>5, <1>6, <1>7, <1>8, <1>9, <1>10, <1>11, <1>12, <1>13,
       <1>14, <1>15, <1>16, <1>17, <1>18, <1>19 DEF Next, confirmStep, sweepStep

\* An attachment a reader sees goes away only when somebody deletes it: never
\* by the sweep, by the quota or by a discard.
THEOREM VisibleFilesStay ==
    ASSUME "late" \notin Clients, "double" \notin Clients
    PROVE  Spec => VisibleUntilDeleted
<1> DEFINE Inv == FileInv /\ ReachInv /\ OwnFileInv
<1>1. Init => Inv
      BY FileInit, FilesAssumption
      DEF Init, ReachInv, OwnFileInv, VisibleIsDownloadable, Visible, Active, Files
<1>2. Inv /\ [Next]_vars => Inv'
      BY FileStep, ReachStep, OwnFileStep
<1>3. Inv /\ [Next]_vars => [\A f \in Visible : f \in Visible' \/ delete(f)]_vars
      BY VisibleStep
<1> QED BY <1>1, <1>2, <1>3, PTL DEF Spec, VisibleUntilDeleted

=============================================================================
