----------------------------- MODULE Membership -----------------------------
(***************************************************************************)
(* Joining and leaving a workspace: the invitations of one address, the    *)
(* guest_invite_outbox row that provisions the invitee in the directory    *)
(* and then owes the first email, the emails and copied links that carry   *)
(* tokens, and the members the invitations enrol.                          *)
(*                                                                         *)
(* A request reads and checks first (its start), then commits a READ       *)
(* COMMITTED transaction whose writes are not guarded by what it read.     *)
(* Those transactions lock what they write, in one order, so each is one   *)
(* step at its commit; what it read before is kept in op.  Time is left    *)
(* out: a window may close and a resend cooldown be over at any moment.    *)
(* The guest relay appears as what it promises (OutboxQueue): a queued row *)
(* is finished after its Graph call took effect, or dead-lettered.         *)
(***************************************************************************)
EXTENDS Integers, FiniteSets

CONSTANTS
    Invitations,
    Users,
    Founders,       \* users who are workspace admins from the start
    Addressees,     \* users whose address the invitations name
    Guests,         \* users whose object id the directory returns for it
    Requests,       \* API request handlers
    None,           \* null
    Ops,            \* the operations clients use
    Carries,        \* what invitations may grant: sets of "role" (workspace_admin) and "projects"
    Flags,          \* values of ENTRA_GUEST_INVITE_ENABLED that processes may see
    MaxRotations,   \* bound: rotations of one invitation's token
    MaxStarts       \* bound: the number of requests in a behaviour

ASSUME MembershipUsersAssumption == Founders \cup Addressees \cup Guests \subseteq Users
ASSUME MembershipOpsAssumption ==
    /\ Ops \subseteq {"invite", "resend", "link", "cancel", "accept", "add", "update"}
    /\ Carries \subseteq SUBSET {"role", "projects"}
    /\ Flags \subseteq BOOLEAN
ASSUME MembershipBoundsAssumption == MaxRotations \in Nat /\ MaxStarts \in Nat
ASSUME MembershipNoneAssumption == None \notin Invitations \cup Users

MemberStatuses == {"active", "removed"}     \* removed stands for {suspended, removed}
InvitationStatuses == {"pending", "accepted", "cancelled", "expired"}

VARIABLES
    inv,        \* workspace_invitations
    state,      \* guest_invite_outbox.status, "absent" without a row
    owes,       \* per guest row: it holds the raw token of the first email
    finishing,  \* per guest row: what an open finish transaction has decided
    mails,      \* tokens in email_outbox
    links,      \* tokens handed out as copied links
    member,     \* per user, workspace_members.status
    admin,      \* users assigned the workspace_admin role
    granted,    \* users with the project access of an invitation
    pc, op,     \* per request: its next step, and what it read and was asked
    overlapped, \* history: requests that ran while another did
    starts      \* bound: requests so far

guest == <<state, owes, finishing>>
people == <<member, admin, granted>>
requests == <<pc, op, overlapped, starts>>
vars == <<inv, guest, mails, links, people, requests>>

\* A token is named by its invitation and the rotation that minted it.
Tokens == Invitations \X (0..MaxRotations)

\* A row of workspace_invitations, as create inserts it with status s.
NewRow(s, c) == [status |-> s, gen |-> 0, past |-> FALSE, oid |-> FALSE, carries |-> c, by |-> None]

\* The founders are active; other users have not joined, or have left.
Init ==
    /\ inv = [i \in Invitations |-> NewRow("absent", {})]
    /\ state = [i \in Invitations |-> "absent"]
    /\ owes = [i \in Invitations |-> FALSE]
    /\ finishing = [i \in Invitations |-> "no"]
    /\ mails = {} /\ links = {}
    /\ member \in [Users -> MemberStatuses \cup {"none"}]
    /\ \A u \in Users : IF u \in Founders THEN member[u] = "active" ELSE member[u] # "active"
    /\ admin = Founders /\ granted = {}
    /\ pc = [q \in Requests |-> "idle"]
    /\ op = [q \in Requests |-> None]
    /\ overlapped = {} /\ starts = 0

Active(q) == pc[q] # "idle"
Pending(i) == inv[i].status = "pending"

(***************************************************************************)
(* Requests: what they read and check                                      *)
(***************************************************************************)

\* A request of kind k begins with what it has read.
Start(q, k, asked) ==
    LET others == {r \in Requests : Active(r)} IN
    /\ k \in Ops /\ ~Active(q) /\ starts < MaxStarts
    /\ starts' = starts + 1
    /\ pc' = [pc EXCEPT ![q] = k]
    /\ op' = [op EXCEPT ![q] = asked]
    /\ overlapped' = IF others = {} THEN overlapped \ {q} ELSE overlapped \cup others \cup {q}
    /\ UNCHANGED <<inv, guest, mails, links, people>>

\* The UPDATE that cancels earlier invitations sees those pending now.
startInvite(q) ==
    \E c \in Carries : Start(q, "invite", [carries |-> c, seen |-> {i \in Invitations : Pending(i)}])

\* Mutant: a rotation of any invitation, accepted and cancelled ones too.
AnyInvitation(i) == inv[i].status # "absent"
loadRotatableInvitation(i) == inv[i].status \in {"pending", "expired"}

startRotation(q) ==
    \E i \in Invitations, k \in {"resend", "link"} :
        loadRotatableInvitation(i) /\ Start(q, k, [inv |-> i])

startCancel(q) == \E i \in Invitations : Pending(i) /\ Start(q, "cancel", [inv |-> i])

\* The invitation is bound to its recipient: by object id, else by address.
BoundTo(i, u) == IF inv[i].oid THEN u \in Guests ELSE u \in Addressees

Redeemable(t, u) ==
    LET i == t[1] IN
    inv[i].gen = t[2] /\ Pending(i) /\ ~inv[i].past /\ BoundTo(i, u)

startAccept(q) ==
    \E t \in mails \cup links, u \in Users :
        /\ Redeemable(t, u)
        /\ Start(q, "accept", [inv |-> t[1], user |-> u, carries |-> inv[t[1]].carries,
                              had |-> member[u] # "none", grants |-> FALSE])

startAdd(q) == \E u \in Users : member[u] = "none" /\ Start(q, "add", [user |-> u])

\* isActiveAdmin and countActiveAdmins, for the users with status st.
ActiveAdmins(st) == {u \in admin : st[u] = "active"}

\* Mutant: an off-by-one in the sole-admin check.
MayDemoteLast(u) == u \in ActiveAdmins(member) => Cardinality(ActiveAdmins(member)) > 0
MayDemote(u) == u \in ActiveAdmins(member) => Cardinality(ActiveAdmins(member)) > 1

startUpdate(q) ==
    \E u \in Users, to \in MemberStatuses :
        /\ member[u] # "none"
        /\ to # "active" => MayDemote(u)
        /\ Start(q, "update", [user |-> u, to |-> to])

(***************************************************************************)
(* Requests: what their transactions write                                 *)
(***************************************************************************)

End(q) ==
    /\ pc' = [pc EXCEPT ![q] = "idle"]
    /\ op' = [op EXCEPT ![q] = None]
    /\ UNCHANGED <<overlapped, starts>>

\* Mutant: the token is not passed on to the guest row.
scheduleNoToken(i, on, owed) ==
    /\ state' = IF on /\ state[i] = "absent" THEN [state EXCEPT ![i] = "pending"] ELSE state
    /\ UNCHANGED <<owes, finishing>>

\* The insert into guest_invite_outbox, once per invitation; nothing while
\* the flag is off or the address is internal.
schedule(i, on, owed) ==
    /\ IF on /\ state[i] = "absent"
       THEN state' = [state EXCEPT ![i] = "pending"] /\ owes' = [owes EXCEPT ![i] = owed]
       ELSE UNCHANGED <<state, owes>>
    /\ UNCHANGED finishing

\* Mutant: earlier invitations are not cancelled.
SupersedeNone(k, seen) == FALSE
\* cancelExistingForEmail re-checks the rows its snapshot held.
Superseded(k, seen) == k \in seen /\ Pending(k)

inviteMember(q) ==
    /\ pc[q] = "invite"
    /\ \E i \in Invitations, on \in Flags :
        /\ inv[i].status = "absent"
        /\ inv' = [k \in Invitations |->
                    IF k = i THEN NewRow("pending", op[q].carries)
                    ELSE IF Superseded(k, op[q].seen) THEN [inv[k] EXCEPT !.status = "cancelled"]
                    ELSE inv[k]]
        /\ schedule(i, on, TRUE)
        /\ mails' = IF on THEN mails ELSE mails \cup {<<i, 0>>}
    /\ End(q)
    /\ UNCHANGED <<links, people>>

Rotated(i) == [inv[i] EXCEPT !.status = "pending", !.gen = @ + 1, !.past = FALSE]

\* The email's key, and the token it carries, are those of the new rotation.
resendInvitation(q) ==
    LET i == op[q].inv IN
    /\ pc[q] = "resend" /\ inv[i].gen < MaxRotations
    /\ inv' = [inv EXCEPT ![i] = Rotated(i)]
    /\ mails' = mails \cup {<<i, inv[i].gen + 1>>}
    /\ \E on \in Flags : schedule(i, on, FALSE)
    /\ End(q)
    /\ UNCHANGED <<links, people>>

buildInvitationLink(q) ==
    LET i == op[q].inv IN
    /\ pc[q] = "link" /\ inv[i].gen < MaxRotations
    /\ inv' = [inv EXCEPT ![i] = Rotated(i)]
    /\ links' = links \cup {<<i, inv[i].gen + 1>>}
    /\ End(q)
    /\ UNCHANGED <<guest, mails, people>>

cancelInvitation(q) ==
    /\ pc[q] = "cancel"
    /\ inv' = [inv EXCEPT ![op[q].inv].status = "cancelled"]
    /\ End(q)
    /\ UNCHANGED <<guest, mails, links, people>>

\* Mutant: membership is not checked before a grant.
AnyGrantable(q) == TRUE
\* grantProjectAccess looks for an active member, the one just enrolled
\* included, and skips a workspace admin, before the transaction commits.
Grantable(q) == "projects" \in op[q].carries => ~op[q].had \/ member[op[q].user] = "active"

grantProjectAccess(q) ==
    /\ pc[q] = "accept" /\ Grantable(q)
    /\ pc' = [pc EXCEPT ![q] = "redeem"]
    /\ op' = [op EXCEPT ![q].grants = op[q].carries = {"projects"} /\ op[q].user \notin admin]
    /\ UNCHANGED <<inv, guest, mails, links, people, overlapped, starts>>

\* Mutant: the member row is not written.
EnrolNobody(q) == member
\* addMember: workspace_members is unique per user.
Enrolled(q) == IF op[q].had THEN member ELSE [member EXCEPT ![op[q].user] = "active"]

acceptInvitation(q) ==
    LET u == op[q].user IN
    /\ pc[q] = "redeem" /\ (op[q].had \/ member[u] = "none")
    /\ member' = Enrolled(q)
    /\ admin' = IF "role" \in op[q].carries THEN admin \cup {u} ELSE admin
    /\ granted' = IF op[q].grants THEN granted \cup {u} ELSE granted
    /\ inv' = [inv EXCEPT ![op[q].inv].status = "accepted", ![op[q].inv].by = u]
    /\ End(q)
    /\ UNCHANGED <<guest, mails, links>>

addMember(q) ==
    /\ pc[q] = "add" /\ member[op[q].user] = "none"
    /\ member' = [member EXCEPT ![op[q].user] = "active"]
    /\ End(q)
    /\ UNCHANGED <<inv, guest, mails, links, admin, granted>>

\* removeMember too, with "removed".
updateMember(q) ==
    /\ pc[q] = "update"
    /\ member' = [member EXCEPT ![op[q].user] = op[q].to]
    /\ End(q)
    /\ UNCHANGED <<inv, guest, mails, links, admin, granted>>

\* A check inside the transaction fails, or the process dies: it rolls back.
rollBack(q) ==
    /\ Active(q) /\ End(q)
    /\ UNCHANGED <<inv, guest, mails, links, people>>

(***************************************************************************)
(* The guest-invite relay                                                  *)
(***************************************************************************)

\* Mutant: the relay mails whatever token its row holds.
OwesToken(i) == owes[i]
\* scheduleInviteEmail refuses a token that is no longer the live one.
OwesLiveToken(i) == owes[i] /\ Pending(i) /\ inv[i].gen = 0

\* Mutant: settled rows keep their token.
KeepTokens(R) == owes
Scrubbed(R) == [i \in Invitations |-> IF i \in R THEN FALSE ELSE owes[i]]

\* markSent, with the email in the same transaction.
markSent(i, mailed) ==
    /\ state[i] = "pending"
    /\ state' = [state EXCEPT ![i] = "sent"]
    /\ mails' = IF mailed THEN mails \cup {<<i, 0>>} ELSE mails
    /\ owes' = Scrubbed({i})

\* Outcome "invited": the object id's UPDATE locks the invitation first.
settleInvited(i) ==
    /\ finishing[i] = "no"
    /\ inv' = [inv EXCEPT ![i].oid = TRUE]
    /\ markSent(i, OwesLiveToken(i))
    /\ UNCHANGED <<finishing, links, people, requests>>

\* Without an object id the invitation is only read, then the email written.
settleRead(i) ==
    /\ finishing[i] = "no" /\ state[i] = "pending"
    /\ finishing' = [finishing EXCEPT ![i] = IF OwesLiveToken(i) THEN "mail" ELSE "skip"]
    /\ UNCHANGED <<inv, state, owes, mails, links, people, requests>>

settle(i) ==
    /\ finishing[i] # "no"
    /\ finishing' = [finishing EXCEPT ![i] = "no"]
    /\ markSent(i, finishing[i] = "mail")
    /\ UNCHANGED <<inv, links, people, requests>>

finishFails(i) ==
    /\ finishing[i] # "no"
    /\ finishing' = [finishing EXCEPT ![i] = "no"]
    /\ UNCHANGED <<inv, state, owes, mails, links, people, requests>>

\* markFailed and the reaper both drop the token of a dead-lettered row.
deadLetter(R) ==
    /\ R # {} /\ \A i \in R : state[i] = "pending" /\ finishing[i] = "no"
    /\ state' = [i \in Invitations |-> IF i \in R THEN "failed" ELSE state[i]]
    /\ owes' = Scrubbed(R)
    /\ UNCHANGED <<inv, finishing, mails, links, people, requests>>

(***************************************************************************)
(* Time                                                                    *)
(***************************************************************************)

\* expires_at passes.
lapse(i) ==
    /\ Pending(i) /\ ~inv[i].past
    /\ inv' = [inv EXCEPT ![i].past = TRUE]
    /\ UNCHANGED <<guest, mails, links, people, requests>>

Lapsed(i) == Pending(i) /\ inv[i].past

\* The daily cleanup.
expireInvitations ==
    /\ \E i \in Invitations : Lapsed(i)
    /\ inv' = [i \in Invitations |-> IF Lapsed(i) THEN [inv[i] EXCEPT !.status = "expired"] ELSE inv[i]]
    /\ UNCHANGED <<guest, mails, links, people, requests>>

Request(q) ==
    \/ startInvite(q) \/ startRotation(q) \/ startCancel(q) \/ startAccept(q) \/ startAdd(q) \/ startUpdate(q)
    \/ inviteMember(q) \/ resendInvitation(q) \/ buildInvitationLink(q) \/ cancelInvitation(q)
    \/ grantProjectAccess(q) \/ acceptInvitation(q) \/ addMember(q) \/ updateMember(q) \/ rollBack(q)

Relay ==
    \/ \E i \in Invitations : settleInvited(i) \/ settleRead(i) \/ settle(i) \/ finishFails(i)
    \/ \E R \in SUBSET Invitations : deadLetter(R)

Next ==
    \/ \E q \in Requests : Request(q)
    \/ Relay
    \/ \E i \in Invitations : lapse(i)
    \/ expireInvitations

Spec == Init /\ [][Next]_vars

(***************************************************************************)
(* Properties                                                              *)
(***************************************************************************)

InvitationRow ==
    [status : InvitationStatuses \cup {"absent"}, gen : 0..MaxRotations, past : BOOLEAN, oid : BOOLEAN,
     carries : {{}} \cup Carries, by : Users \cup {None}]

\* What a request keeps while its next step is p.
Asked(p, o) ==
    /\ p = "idle" => o = None
    /\ p = "invite" => o \in [carries : Carries, seen : SUBSET Invitations]
    /\ p \in {"resend", "link", "cancel"} => o \in [inv : Invitations]
    /\ p \in {"accept", "redeem"} => o \in [inv : Invitations, user : Users, carries : {{}} \cup Carries,
                                           had : BOOLEAN, grants : BOOLEAN]
    /\ p = "add" => o \in [user : Users]
    /\ p = "update" => o \in [user : Users, to : MemberStatuses]

\* Types: the five tables and the requests.
TypeOK ==
    /\ inv \in [Invitations -> InvitationRow]
    /\ state \in [Invitations -> {"absent", "pending", "sent", "failed"}]
    /\ owes \in [Invitations -> BOOLEAN]
    /\ finishing \in [Invitations -> {"no", "mail", "skip"}]
    /\ mails \subseteq Tokens /\ links \subseteq Tokens
    /\ member \in [Users -> MemberStatuses \cup {"none"}]
    /\ admin \subseteq Users /\ granted \subseteq Users
    /\ pc \in [Requests -> {"idle", "redeem"} \cup Ops]
    /\ DOMAIN op = Requests /\ \A q \in Requests : Asked(pc[q], op[q])
    /\ overlapped \subseteq Requests /\ starts \in 0..MaxStarts

\* No pending invitation is silently stranded (inviteMember, the guest relay
\* and its flag): the live token has been mailed or handed out as a link, or
\* a queued guest row still owes the email, or provisioning was
\* dead-lettered, which raises an alarm.
PendingIsReachable ==
    \A i \in Invitations : Pending(i) =>
        \/ <<i, inv[i].gen>> \in mails \cup links
        \/ inv[i].gen = 0 /\ state[i] = "pending" /\ owes[i]
        \/ inv[i].gen = 0 /\ state[i] = "failed"

\* Migration 0124: a guest row holds the raw token only while it is queued;
\* sent, failed and reaped rows have lost it.
TokensAreScrubbed == \A i \in Invitations : owes[i] => state[i] = "pending"

\* acceptInvitation's transaction is all or nothing: who is recorded as
\* having accepted has a member row, and what the invitation carried.
AcceptedIsEnrolled ==
    \A i \in Invitations : LET u == inv[i].by IN u # None =>
        /\ member[u] # "none"
        /\ "role" \in inv[i].carries => u \in admin
        /\ "projects" \in inv[i].carries => u \in granted \cup admin

\* q commits now, having overlapped no other request.
Commits(q, p) == pc[q] = p /\ pc'[q] = "idle" /\ <<inv, people>>' # <<inv, people>>
CommitsAlone(q, p) == Commits(q, p) /\ q \notin overlapped

\* An email is scheduled only for the live token of a pending invitation,
\* but for a guest row finished without an object id, whose check a rotation
\* may overtake (scheduleInviteEmail reads without a lock).
MailsAreLive ==
    [][\A t \in mails' \ mails :
        \/ inv'[t[1]].status = "pending" /\ inv'[t[1]].gen = t[2]
        \/ finishing[t[1]] = "mail"]_vars

\* Accepted and cancelled invitations stay so, unless the write is one of
\* two overlapping requests: no status is re-checked at commit.
SettledStaysSettled ==
    [][\A i \in Invitations :
        inv[i].status \in {"accepted", "cancelled"} /\ inv'[i].status # inv[i].status =>
            \E q \in overlapped : Active(q) /\ pc'[q] = "idle"]_vars

\* A re-invitation that overlaps no other request leaves its invitation the
\* only pending one (cancelExistingForEmail).
LoneInviteSupersedes ==
    [][\A q \in Requests : CommitsAlone(q, "invite") =>
        Cardinality({i \in Invitations : inv'[i].status = "pending"}) = 1]_vars

\* Project access is granted to active members: an acceptance that overlaps
\* no other request and carries projects leaves the invitee one, with the
\* access of the invitation or of an admin.
LoneGrantReachesMember ==
    [][\A q \in Requests : CommitsAlone(q, "redeem") /\ "projects" \in op[q].carries =>
        member'[op[q].user] = "active" /\ op[q].user \in granted' \cup admin']_vars

\* The sole-admin rule of updateMember and removeMember: a change that
\* overlaps no other request leaves the workspace an active admin.
LoneChangeKeepsAnAdmin ==
    [][\A q \in Requests : CommitsAlone(q, "update") /\ ActiveAdmins(member) # {} =>
        \E u \in admin' : member'[u] = "active"]_vars

=============================================================================
