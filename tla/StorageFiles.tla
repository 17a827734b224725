---------------------------- MODULE StorageFiles ----------------------------
(***************************************************************************)
(* The life of an uploaded file: the storage.files row, the object in the  *)
(* bucket and the row or profile that points at it.                        *)
(*                                                                         *)
(*   - presign and confirm of an attachment (AttachmentsService,           *)
(*     EntityAttachmentsService) and of a user's avatar (AuthController);  *)
(*   - the client's PUT straight to the bucket;                            *)
(*   - the daily sweep of the worker (CleanupCronService, step 3), the     *)
(*     single place objects are deleted.                                   *)
(*                                                                         *)
(* A confirm holds no transaction across its steps, and the sweep selects, *)
(* deletes objects and deletes rows in three steps: everything else may    *)
(* happen in between.  All attachments belong to one entity, whose quota   *)
(* they share.  Ages are the two limits the sweep compares with.           *)
(***************************************************************************)
EXTENDS Integers, FiniteSets

CONSTANTS
    Attachments,    \* files presigned for the entity
    Avatars,        \* files presigned as a user's avatar
    NoFile,         \* no avatar set; no file
    Requests,       \* the API's request handlers that may run a confirm
    MaxPerOwner,    \* maxPerOwner of the upload policy
    Clients,        \* what clients may do besides one confirm at a time:
                    \*   "parallel"  confirm two files of an entity at once
                    \*   "double"    send the same confirm twice at once
                    \*   "late"      confirm more than 24 hours after the presign
    SweepLimit,     \* LIMIT of the sweep's SELECT
    DeleteFails     \* the bucket may refuse to delete an object

ASSUME FilesAssumption == Attachments \cap Avatars = {} /\ NoFile \notin Attachments \cup Avatars
ASSUME RequestsAssumption == IsFiniteSet(Attachments \cup Avatars) /\ IsFiniteSet(Requests) /\ Requests # {}
ASSUME LimitsAssumption == MaxPerOwner \in Nat /\ SweepLimit \in Nat \ {0} /\ DeleteFails \in BOOLEAN

Files == Attachments \cup Avatars

VARIABLES
    \* storage.files
    status,     \* "none", "pending", "completed", or "gone" once the row is deleted
    deleted,    \* the rows whose deleted_at is set
    old,        \* the rows created more than 24 hours ago
    settled,    \* the rows confirmed more than 1 hour ago
    \* the bucket
    object,     \* "none", "good" as declared, "bad" (size or checksum differs), or "gone"
    doomed,     \* objects a discard is deleting in the background
    \* what points at a file
    link,       \* work.attachments rows of the entity
    avatar,     \* the file behind the user's avatarUrl
    \* confirm requests
    pc, file,
    \* the sweep
    swept,      \* the rows its SELECT returned
    tried       \* the objects it has asked the bucket to delete

filesTable == <<status, deleted, old, settled>>
bucket == <<object, doomed>>
refs == <<link, avatar>>
request == <<pc, file>>
sweep == <<swept, tried>>
vars == <<filesTable, bucket, refs, request, sweep>>

\* The attachments a reader of the entity sees (listByEntity, countByEntity).
Visible == {f \in link : status[f] = "completed" /\ f \notin deleted}

Active(q) == pc[q] # "idle"

Init ==
    /\ status = [f \in Files |-> "none"]
    /\ deleted = {} /\ old = {} /\ settled = {}
    /\ object = [f \in Files |-> "none"]
    /\ doomed = {}
    /\ link = {} /\ avatar = NoFile
    /\ pc = [q \in Requests |-> "idle"]
    /\ file = [q \in Requests |-> NoFile]
    /\ swept = {} /\ tried = {}

----------------------------------------------------------------------------
(* Upload                                                                   *)

\* presign: a pending row is written and a PUT URL (5 minutes) is signed.  An
\* avatar's current count is passed as 0.
presign(f) ==
    /\ status[f] = "none"
    /\ f \in Attachments => Cardinality(Visible) < MaxPerOwner
    /\ status' = [status EXCEPT ![f] = "pending"]
    /\ UNCHANGED <<deleted, old, settled, bucket, refs, request, sweep>>

\* The client PUTs its file once, while the URL lives.  A PUT of another size is
\* refused at the edge; "bad" is a body whose stored checksum differs.
upload(f, o) ==
    /\ status[f] = "pending" /\ object[f] = "none" /\ f \notin old
    /\ object' = [object EXCEPT ![f] = o]
    /\ UNCHANGED <<filesTable, doomed, refs, request, sweep>>

----------------------------------------------------------------------------
(* confirm                                                                  *)

Goto(q, l) == pc' = [pc EXCEPT ![q] = l] /\ UNCHANGED file
Return(q) == pc' = [pc EXCEPT ![q] = "idle"] /\ file' = [file EXCEPT ![q] = NoFile]

\* UPDATE storage.files SET deleted_at ... WHERE id: nothing if the row is gone
softDelete(f) == deleted' = IF status[f] = "gone" THEN deleted ELSE deleted \cup {f}

\* requirePending finds the row; any other answer ends the request.
confirm(q, f) ==
    /\ ~Active(q)
    /\ \A p \in Requests : Active(p) => \/ file[p] = f /\ "double" \in Clients
                                        \/ file[p] # f /\ "parallel" \in Clients
    /\ status[f] = "pending" /\ f \notin deleted
    /\ f \in old => "late" \in Clients
    /\ pc' = [pc EXCEPT ![q] = "head"]
    /\ file' = [file EXCEPT ![q] = f]
    /\ UNCHANGED <<filesTable, bucket, refs, sweep>>

\* headObject answers null, for a missing object or for any error: 412.
headNull(q) ==
    /\ pc[q] = "head"
    /\ Return(q)
    /\ UNCHANGED <<filesTable, bucket, refs, sweep>>

headGood(q) ==
    /\ pc[q] = "head" /\ object[file[q]] = "good"
    /\ Goto(q, "mark")
    /\ UNCHANGED <<filesTable, bucket, refs, sweep>>

\* The object is not what was declared: discard, its object delete not awaited.
headBad(q) ==
    /\ pc[q] = "head" /\ object[file[q]] = "bad"
    /\ softDelete(file[q])
    /\ doomed' = doomed \cup {file[q]}
    /\ Return(q)
    /\ UNCHANGED <<status, old, settled, object, refs, sweep>>

\* Mutant: confirmed_at is not set, and reads as long ago.
ConfirmedLongAgo(f) == settled \cup {f}

ConfirmedNow(f) == settled \ {f}

\* The caller of AttachmentsService.confirm: confirmAvatar or the entity's confirm
AfterConfirm(f) == IF f \in Avatars THEN "profile" ELSE "count"

\* fileRepo.confirm: UPDATE ... WHERE id, whatever the row's state is by now.
markCompleted(q) ==
    LET f == file[q] IN
    /\ pc[q] = "mark"
    /\ IF status[f] = "gone" THEN UNCHANGED <<status, settled>>
       ELSE /\ status' = [status EXCEPT ![f] = "completed"]
            /\ settled' = ConfirmedNow(f)
    /\ Goto(q, AfterConfirm(f))
    /\ UNCHANGED <<deleted, old, bucket, refs, sweep>>

\* Mutant: the quota is not checked again at confirm.
NoQuota == FALSE

QuotaReached == Cardinality(Visible) >= MaxPerOwner

\* The quota is checked again; a file over it is retired.
recount(q) ==
    /\ pc[q] = "count"
    /\ IF QuotaReached
       THEN softDelete(file[q]) /\ Return(q)
       ELSE Goto(q, "link") /\ UNCHANGED deleted
    /\ UNCHANGED <<status, old, settled, bucket, refs, sweep>>

\* The link row and its activity entry, in one transaction.  The foreign key
\* refuses a link to a row that is gone.
linkFile(q) ==
    /\ pc[q] = "link"
    /\ link' = IF status[file[q]] = "gone" THEN link ELSE link \cup {file[q]}
    /\ Return(q)
    /\ UNCHANGED <<filesTable, bucket, avatar, sweep>>

\* An avatar gets no link row: its public URL is stored on the profile.
setProfile(q) ==
    /\ pc[q] = "profile"
    /\ avatar' = IF status[file[q]] = "completed" /\ file[q] \notin deleted THEN file[q] ELSE avatar
    /\ Return(q)
    /\ UNCHANGED <<filesTable, bucket, link, sweep>>

\* The API process dies, or the client's connection does, between two steps.
abort(q) ==
    /\ Active(q)
    /\ Return(q)
    /\ UNCHANGED <<filesTable, bucket, refs, sweep>>

----------------------------------------------------------------------------
(* delete, and the background delete of a discard                           *)

\* Unlink and retire the file in one transaction; the object is left to the sweep.
delete(f) ==
    /\ f \in link /\ f \notin deleted
    /\ link' = link \ {f}
    /\ softDelete(f)
    /\ UNCHANGED <<status, old, settled, bucket, avatar, request, sweep>>

\* deleteObject swallows its errors.
deleteObject(f) ==
    \/ object' = [object EXCEPT ![f] = IF @ = "none" THEN @ ELSE "gone"]
    \/ DeleteFails /\ UNCHANGED object

\* The process may die before the bucket answers: the row is left for the sweep.
discardObject(f) ==
    /\ f \in doomed
    /\ deleteObject(f) \/ UNCHANGED object
    /\ doomed' = doomed \ {f}
    /\ UNCHANGED <<filesTable, refs, request, sweep>>

----------------------------------------------------------------------------
(* The daily sweep                                                          *)

\* Mutant: confirmed files that no link row points at are not selected.
UnreachableConfirmed ==
    {f \in Files : \/ status[f] = "pending" /\ f \in old
                   \/ status[f] \in {"pending", "completed"} /\ f \in deleted}

\* Mutant: the grace period after confirm is forgotten.
UnreachableNoGrace ==
    {f \in Files : \/ status[f] = "pending" /\ f \in old
                   \/ status[f] \in {"pending", "completed"} /\ f \in deleted
                   \/ status[f] = "completed" /\ f \notin link}

Unreachable ==
    {f \in Files : \/ status[f] = "pending" /\ f \in old
                   \/ status[f] \in {"pending", "completed"} /\ f \in deleted
                   \/ status[f] = "completed" /\ f \in settled /\ f \notin link}

\* SELECT ... LIMIT, in no order
sweepSelect(S) ==
    /\ swept = {}
    /\ S # {} /\ S \subseteq Unreachable
    /\ Cardinality(S) <= SweepLimit
    /\ Cardinality(S) = SweepLimit \/ S = Unreachable
    /\ swept' = S /\ tried' = {}
    /\ UNCHANGED <<filesTable, bucket, refs, request>>

\* Promise.allSettled over the objects: in any order, at any pace
sweepObject(f) ==
    /\ f \in swept \ tried
    /\ deleteObject(f)
    /\ tried' = tried \cup {f}
    /\ UNCHANGED <<filesTable, doomed, refs, request, swept>>

\* Mutant: the rows are deleted before the objects.
RowsFirst == swept # {}

ObjectsFirst == swept # {} /\ tried = swept

\* DELETE FROM storage.files; the foreign key cascades to the link rows.
sweepRows ==
    /\ ObjectsFirst
    /\ status' = [f \in Files |-> IF f \in swept THEN "gone" ELSE status[f]]
    /\ link' = link \ swept
    /\ swept' = {} /\ tried' = {}
    /\ UNCHANGED <<deleted, old, settled, bucket, avatar, request>>

\* The worker dies: the rows stay for the next run.
sweepAbort ==
    /\ swept # {}
    /\ swept' = {} /\ tried' = {}
    /\ UNCHANGED <<filesTable, bucket, refs, request>>

----------------------------------------------------------------------------
(* Time                                                                     *)

\* Unless clients confirm late, no confirm is under way 24 hours after its presign.
dayPasses(f) ==
    /\ status[f] = "pending" /\ f \notin old
    /\ \A q \in Requests : file[q] = f => "late" \in Clients
    /\ old' = old \cup {f}
    /\ UNCHANGED <<status, deleted, settled, bucket, refs, request, sweep>>

\* "a file is legitimately unreferenced between /confirm and the caller writing
\* its link row": a request takes less than an hour.
hourPasses(f) ==
    /\ status[f] = "completed" /\ f \notin settled
    /\ \A q \in Requests : file[q] # f
    /\ settled' = settled \cup {f}
    /\ UNCHANGED <<status, deleted, old, bucket, refs, request, sweep>>

confirmStep(q) ==
    \/ headNull(q) \/ headGood(q) \/ headBad(q) \/ markCompleted(q)
    \/ recount(q) \/ linkFile(q) \/ setProfile(q)

sweepStep ==
    \/ \E S \in SUBSET Files : sweepSelect(S)
    \/ \E f \in Files : sweepObject(f)
    \/ sweepRows

Next ==
    \/ \E f \in Files : \/ presign(f) \/ upload(f, "good") \/ upload(f, "bad")
                        \/ discardObject(f) \/ delete(f) \/ dayPasses(f) \/ hourPasses(f)
    \/ \E q \in Requests : (\E f \in Files : confirm(q, f)) \/ confirmStep(q) \/ abort(q)
    \/ sweepStep \/ sweepAbort

Spec == Init /\ [][Next]_vars

\* Requests and storage calls have deadlines, the cron runs every day, time
\* passes whatever a client retries, and the worker does not die in every sweep.
FairSpec ==
    /\ Spec
    /\ \A q \in Requests : WF_vars(confirmStep(q))
    /\ WF_vars(sweepStep) /\ <>[][~sweepAbort]_vars
    /\ \A f \in Files : SF_vars(dayPasses(f)) /\ WF_vars(hourPasses(f))

----------------------------------------------------------------------------
(* Properties                                                               *)

\* Types: rows, objects, references, requests and the sweep's selection.
TypeOK ==
    /\ status \in [Files -> {"none", "pending", "completed", "gone"}]
    /\ deleted \subseteq Files /\ old \subseteq Files /\ settled \subseteq Files
    /\ object \in [Files -> {"none", "good", "bad", "gone"}]
    /\ doomed \subseteq Files /\ link \subseteq Attachments
    /\ avatar \in Avatars \cup {NoFile}
    /\ pc \in [Requests -> {"idle", "head", "mark", "count", "link", "profile"}]
    /\ file \in [Requests -> Files \cup {NoFile}]
    /\ tried \subseteq swept /\ swept \subseteq Files

\* "This is the point where the file becomes visible, so it is the point that
\* has to hold the limit".  Confirms that overlap can still pass it, by no more
\* than the number of requests beside the one that reaches it, however many
\* files were presigned.
QuotaOvershootBounded == Cardinality(Visible) < MaxPerOwner + Cardinality(Requests)

\* An attachment a reader sees has its object in the bucket, as declared.
VisibleIsDownloadable == \A f \in Visible : object[f] = "good"

\* A visible attachment disappears only through delete().
VisibleUntilDeleted ==
    [][\A f \in Visible : f \in Visible' \/ delete(f)]_vars

\* "a failed object delete leaves the row for the next run to retry": the row,
\* the only record of the object's key, outlives the object.
NoLeakedObject == \A f \in Files : status[f] = "gone" => object[f] \in {"none", "gone"}

\* The object behind a user's avatarUrl is in the bucket.
AvatarIsServed == avatar # NoFile => object[avatar] = "good"

\* Whatever became of it (never uploaded, never confirmed, discarded, over the
\* quota, deleted, confirmed by a request that died before its link row), a
\* presigned attachment ends up visible or removed.
EveryFileIsResolved ==
    \A f \in Attachments : status[f] # "none" ~> (f \in Visible \/ status[f] = "gone")

----------------------------------------------------------------------------
(* Inductive invariants                                                     *)

\* A request past markCompleted works on a row that is completed, or that the
\* sweep has deleted under it.
RequestsKnowTheirFile ==
    \A q \in Requests :
        /\ Active(q) => file[q] \in Files /\ status[file[q]] # "none"
        /\ pc[q] \in {"count", "link"} => file[q] \in Attachments
        /\ pc[q] = "profile" => file[q] \in Avatars
        /\ pc[q] \in {"count", "link", "profile"} => status[file[q]] \in {"completed", "gone"}

\* Only completed files are linked: the foreign key and its cascade.
LinkedIsCompleted == \A f \in link : status[f] = "completed"

FileInv == TypeOK /\ RequestsKnowTheirFile /\ LinkedIsCompleted

\* Every request about to link has seen a free place, and may share it with
\* every other request.
Linking == {q \in Requests : pc[q] = "link"}
QuotaInv == Cardinality(Visible) + Cardinality(Linking) < MaxPerOwner + Cardinality(Requests)

\* No PUT arrives for a file once the sweep has tried to delete its object.
LeakInv ==
    /\ \A f \in deleted : status[f] # "none" /\ (status[f] = "pending" => object[f] # "none")
    /\ \A f \in swept : status[f] # "none" /\ (status[f] = "pending" => f \in old \cup deleted)
    /\ \A f \in tried : object[f] \in {"none", "gone"}
    /\ NoLeakedObject

\* Unless clients confirm late, what the sweep selected stays out of reach: it
\* was never confirmed in time, or is deleted, or was left without a link by a
\* request that is over.  A file a request works on is none of these.
ReachInv ==
    /\ \A q \in Requests : Active(q) => file[q] \notin old \cup settled
    /\ \A q \in Requests :
           pc[q] \in {"mark", "count", "link", "profile"} /\ file[q] \notin deleted
               => object[file[q]] = "good"
    /\ \A f \in Files : status[f] = "completed" => f \notin old
    /\ \A f \in Files : status[f] = "gone" => f \in old \cup settled \cup deleted
    /\ \A f \in settled : status[f] \in {"completed", "gone"}
    /\ \A f \in swept : \/ f \in old \cup deleted
                        \/ f \in settled \ link /\ status[f] = "completed"
    /\ doomed \subseteq deleted
    /\ VisibleIsDownloadable

\* Unless a client repeats a confirm at once, every request has its own file,
\* which nothing links to yet.
OwnFileInv ==
    /\ \A q \in Requests : Active(q) => file[q] \notin link
    /\ \A p, q \in Requests : Active(p) /\ Active(q) /\ p # q => file[p] # file[q]

=============================================================================
