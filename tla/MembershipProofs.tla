-------------------------- MODULE MembershipProofs --------------------------
(***************************************************************************)
(* Proofs about Membership: no invitation is stranded, tokens are          *)
(* scrubbed, acceptances are whole, and what requests that overlap no      *)
(* other guarantee, for every set of invitations, users and requests.      *)
(***************************************************************************)
EXTENDS Membership, FiniteSetTheorems, TLAPS

(***************************************************************************)
(* Types                                                                   *)
(***************************************************************************)

\* A request that starts keeps the types when what it keeps is of its kind.
LEMMA StartType ==
    ASSUME TypeOK, NEW q \in Requests, NEW k, NEW asked, Start(q, k, asked), Asked(k, asked)
    PROVE  TypeOK'
<1>1. starts' \in 0..MaxStarts
    BY MembershipBoundsAssumption DEF TypeOK, Start
<1>2. overlapped' \subseteq Requests
    BY DEF TypeOK, Start
<1>3. pc' \in [Requests -> {"idle", "redeem"} \cup Ops]
    BY DEF TypeOK, Start
<1>4. DOMAIN op' = Requests /\ \A r \in Requests : Asked(pc'[r], op'[r])
    BY DEF TypeOK, Start
<1>5. UNCHANGED <<inv, guest, mails, links, people>>
    BY DEF Start
<1> QED BY <1>1, <1>2, <1>3, <1>4, <1>5 DEF TypeOK, guest, people, Tokens

\* A request that ends leaves the requests well-typed.
LEMMA EndType ==
    ASSUME TypeOK, NEW q \in Requests, End(q)
    PROVE  /\ pc' \in [Requests -> {"idle", "redeem"} \cup Ops]
           /\ DOMAIN op' = Requests /\ \A r \in Requests : Asked(pc'[r], op'[r])
           /\ overlapped' \subseteq Requests /\ starts' \in 0..MaxStarts
<1>1. \A r \in Requests : Asked(pc'[r], op'[r])
    BY DEF TypeOK, End, Asked
<1> QED BY <1>1 DEF TypeOK, End

\* Scheduling a guest invite keeps the guest rows' types.
LEMMA ScheduleType ==
    ASSUME TypeOK, NEW i \in Invitations, NEW on, NEW owed \in BOOLEAN, schedule(i, on, owed)
    PROVE  /\ state' \in [Invitations -> {"absent", "pending", "sent", "failed"}]
           /\ owes' \in [Invitations -> BOOLEAN]
           /\ finishing' \in [Invitations -> {"no", "mail", "skip"}]
BY DEF TypeOK, schedule

\* The changes the code makes to an invitation leave an invitation.
LEMMA RowUpdates ==
    ASSUME NEW r \in InvitationRow
    PROVE  /\ \A s \in InvitationStatuses : [r EXCEPT !.status = s] \in InvitationRow
           /\ [r EXCEPT !.past = TRUE] \in InvitationRow
           /\ [r EXCEPT !.oid = TRUE] \in InvitationRow
           /\ \A u \in Users : [r EXCEPT !.status = "accepted", !.by = u] \in InvitationRow
BY DEF InvitationRow, InvitationStatuses

\* A rotation leaves an invitation, with a token of the next generation.
LEMMA RotatedType ==
    ASSUME TypeOK, NEW i \in Invitations, inv[i].gen < MaxRotations
    PROVE  Rotated(i) \in InvitationRow /\ <<i, inv[i].gen + 1>> \in Tokens
<1>1. inv[i] \in InvitationRow
    BY DEF TypeOK
<1>2. inv[i].gen + 1 \in 0..MaxRotations
    BY <1>1, MembershipBoundsAssumption DEF InvitationRow
<1>3. \A g \in 0..MaxRotations : [inv[i] EXCEPT !.status = "pending", !.gen = g, !.past = FALSE] \in InvitationRow
    BY <1>1 DEF InvitationRow, InvitationStatuses
<1>4. Rotated(i) = [inv[i] EXCEPT !.status = "pending", !.gen = inv[i].gen + 1, !.past = FALSE]
    BY DEF Rotated
<1>5. <<i, inv[i].gen + 1>> \in Tokens
    BY <1>2 DEF Tokens
<1> QED BY <1>2, <1>3, <1>4, <1>5

\* markSent keeps the types of guest rows and emails.
LEMMA MarkSentType ==
    ASSUME TypeOK, NEW i \in Invitations, NEW mailed, markSent(i, mailed)
    PROVE  /\ state' \in [Invitations -> {"absent", "pending", "sent", "failed"}]
           /\ owes' \in [Invitations -> BOOLEAN]
           /\ mails' \subseteq Tokens
<1>1. <<i, 0>> \in Tokens
    BY MembershipBoundsAssumption DEF Tokens
<1>2. mails' \subseteq Tokens
    BY <1>1 DEF TypeOK, markSent
<1>3. owes' \in [Invitations -> BOOLEAN]
    BY DEF TypeOK, markSent, Scrubbed
<1>4. state' \in [Invitations -> {"absent", "pending", "sent", "failed"}]
    BY DEF TypeOK, markSent
<1> QED BY <1>2, <1>3, <1>4

\* There are no invitations yet, and the founders are members.
LEMMA InitType == Init => TypeOK
<1> SUFFICES ASSUME Init PROVE TypeOK
    OBVIOUS
<1>1. inv \in [Invitations -> InvitationRow]
    BY MembershipBoundsAssumption DEF Init, NewRow, InvitationRow
<1>2. pc \in [Requests -> {"idle", "redeem"} \cup Ops]
    BY DEF Init
<1>3. DOMAIN op = Requests /\ \A q \in Requests : Asked(pc[q], op[q])
    BY DEF Init, Asked
<1> QED BY <1>1, <1>2, <1>3, MembershipUsersAssumption, MembershipBoundsAssumption DEF Init, TypeOK

\* The reads that start requests keep the types.
LEMMA StartsType ==
    ASSUME TypeOK, NEW q \in Requests,
           startInvite(q) \/ startRotation(q) \/ startCancel(q) \/ startAccept(q) \/ startAdd(q) \/ startUpdate(q)
    PROVE  TypeOK'
<1>1. CASE startInvite(q)
    <2> PICK c \in Carries : Start(q, "invite", [carries |-> c, seen |-> {i \in Invitations : Pending(i)}])
        BY <1>1 DEF startInvite
    <2>1. Asked("invite", [carries |-> c, seen |-> {i \in Invitations : Pending(i)}])
        BY DEF Asked
    <2> QED BY <2>1, StartType
<1>2. CASE startRotation(q)
    <2> PICK i \in Invitations, k \in {"resend", "link"} : Start(q, k, [inv |-> i])
        BY <1>2 DEF startRotation
    <2>1. Asked(k, [inv |-> i])
        BY DEF Asked
    <2> QED BY <2>1, StartType
<1>3. CASE startCancel(q)
    <2> PICK i \in Invitations : Start(q, "cancel", [inv |-> i])
        BY <1>3 DEF startCancel
    <2>1. Asked("cancel", [inv |-> i])
        BY DEF Asked
    <2> QED BY <2>1, StartType
<1>4. CASE startAccept(q)
    <2> PICK t \in mails \cup links, u \in Users :
            Start(q, "accept", [inv |-> t[1], user |-> u, carries |-> inv[t[1]].carries,
                                had |-> member[u] # "none", grants |-> FALSE])
        BY <1>4 DEF startAccept
    <2>1. t[1] \in Invitations
        BY DEF TypeOK, Tokens
    <2>2. inv[t[1]].carries \in {{}} \cup Carries
        BY <2>1 DEF TypeOK, InvitationRow
    <2>3. Asked("accept", [inv |-> t[1], user |-> u, carries |-> inv[t[1]].carries,
                           had |-> member[u] # "none", grants |-> FALSE])
        BY <2>1, <2>2 DEF Asked
    <2> QED BY <2>3, StartType
<1>5. CASE startAdd(q)
    <2> PICK u \in Users : Start(q, "add", [user |-> u])
        BY <1>5 DEF startAdd
    <2>1. Asked("add", [user |-> u])
        BY DEF Asked
    <2> QED BY <2>1, StartType
<1>6. CASE startUpdate(q)
    <2> PICK u \in Users, to \in MemberStatuses : Start(q, "update", [user |-> u, to |-> to])
        BY <1>6 DEF startUpdate
    <2>1. Asked("update", [user |-> u, to |-> to])
        BY DEF Asked
    <2> QED BY <2>1, StartType
<1> QED BY <1>1, <1>2, <1>3, <1>4, <1>5, <1>6

\* The transactions of requests keep the types.
LEMMA CommitsType ==
    ASSUME TypeOK, NEW q \in Requests,
           \/ inviteMember(q) \/ resendInvitation(q) \/ buildInvitationLink(q) \/ cancelInvitation(q)
           \/ acceptInvitation(q) \/ addMember(q) \/ updateMember(q) \/ rollBack(q)
    PROVE  TypeOK'
<1>0. End(q)
    BY DEF inviteMember, resendInvitation, buildInvitationLink, cancelInvitation, acceptInvitation,
           addMember, updateMember, rollBack
<1>1. /\ pc' \in [Requests -> {"idle", "redeem"} \cup Ops]
      /\ DOMAIN op' = Requests /\ \A r \in Requests : Asked(pc'[r], op'[r])
      /\ overlapped' \subseteq Requests /\ starts' \in 0..MaxStarts
    BY <1>0, EndType
<1>2. Asked(pc[q], op[q])
    BY DEF TypeOK
<1>3. CASE inviteMember(q)
    <2> PICK i \in Invitations, on \in Flags :
            /\ inv' = [k \in Invitations |->
                    IF k = i THEN NewRow("pending", op[q].carries)
                    ELSE IF Superseded(k, op[q].seen) THEN [inv[k] EXCEPT !.status = "cancelled"]
                    ELSE inv[k]]
            /\ schedule(i, on, TRUE)
            /\ mails' = IF on THEN mails ELSE mails \cup {<<i, 0>>}
        BY <1>3 DEF inviteMember
    <2>1. op[q].carries \in Carries
        BY <1>2, <1>3 DEF inviteMember, Asked
    <2>2. inv' \in [Invitations -> InvitationRow]
        <3>1. NewRow("pending", op[q].carries) \in InvitationRow
            BY <2>1, MembershipBoundsAssumption DEF InvitationRow, NewRow, InvitationStatuses
        <3>2. \A k \in Invitations : [inv[k] EXCEPT !.status = "cancelled"] \in InvitationRow
            BY RowUpdates DEF TypeOK, InvitationStatuses
        <3> QED BY <3>1, <3>2 DEF TypeOK
    <2>3. mails' \subseteq Tokens
        BY MembershipBoundsAssumption DEF TypeOK, Tokens
    <2> QED BY <1>1, <1>3, <2>2, <2>3, ScheduleType DEF TypeOK, inviteMember, people
<1>4. CASE resendInvitation(q)
    <2> DEFINE i == op[q].inv
    <2>1. i \in Invitations /\ inv[i].gen < MaxRotations
        BY <1>2, <1>4 DEF resendInvitation, Asked
    <2>2. Rotated(i) \in InvitationRow /\ <<i, inv[i].gen + 1>> \in Tokens
        BY <2>1, RotatedType
    <2>3. PICK on \in Flags : schedule(i, on, FALSE)
        BY <1>4 DEF resendInvitation
    <2> QED BY <1>1, <1>4, <2>1, <2>2, <2>3, ScheduleType DEF TypeOK, resendInvitation, people
<1>5. CASE buildInvitationLink(q)
    <2> DEFINE i == op[q].inv
    <2>1. i \in Invitations /\ inv[i].gen < MaxRotations
        BY <1>2, <1>5 DEF buildInvitationLink, Asked
    <2>2. Rotated(i) \in InvitationRow /\ <<i, inv[i].gen + 1>> \in Tokens
        BY <2>1, RotatedType
    <2> QED BY <1>1, <1>5, <2>1, <2>2 DEF TypeOK, buildInvitationLink, people, guest
<1>6. CASE cancelInvitation(q)
    <2>1. op[q].inv \in Invitations
        BY <1>2, <1>6 DEF cancelInvitation, Asked
    <2>2. inv' \in [Invitations -> InvitationRow]
        BY <2>1, <1>6, RowUpdates DEF TypeOK, cancelInvitation, InvitationStatuses
    <2> QED BY <1>1, <1>6, <2>2 DEF TypeOK, cancelInvitation, people, guest
<1>7. CASE acceptInvitation(q)
    <2>1. op[q].inv \in Invitations /\ op[q].user \in Users
        BY <1>2, <1>7 DEF acceptInvitation, Asked
    <2>2. inv' \in [Invitations -> InvitationRow]
        BY <2>1, <1>7, RowUpdates DEF TypeOK, acceptInvitation
    <2>3. member' \in [Users -> MemberStatuses \cup {"none"}] /\ admin' \subseteq Users /\ granted' \subseteq Users
        BY <2>1, <1>7 DEF TypeOK, acceptInvitation, Enrolled, MemberStatuses
    <2> QED BY <1>1, <1>7, <2>2, <2>3 DEF TypeOK, acceptInvitation, guest
<1>8. CASE addMember(q)
    <2>1. member' \in [Users -> MemberStatuses \cup {"none"}]
        BY <1>8 DEF TypeOK, addMember, MemberStatuses
    <2> QED BY <1>1, <1>8, <2>1 DEF TypeOK, addMember, guest
<1>9. CASE updateMember(q)
    <2>1. op[q].to \in MemberStatuses
        BY <1>2, <1>9 DEF updateMember, Asked
    <2>2. member' \in [Users -> MemberStatuses \cup {"none"}]
        BY <1>9, <2>1 DEF TypeOK, updateMember
    <2> QED BY <1>1, <1>9, <2>2 DEF TypeOK, updateMember, guest
<1>10. CASE rollBack(q)
    BY <1>1, <1>10 DEF TypeOK, rollBack, guest, people
<1> QED BY <1>3, <1>4, <1>5, <1>6, <1>7, <1>8, <1>9, <1>10

\* The grants of an acceptance keep the types.
LEMMA GrantType ==
    ASSUME TypeOK, NEW q \in Requests, grantProjectAccess(q)
    PROVE  TypeOK'
<1>1. Asked("redeem", op'[q])
    <2>1. Asked("accept", op[q])
        BY DEF TypeOK, grantProjectAccess
    <2> QED BY <2>1 DEF TypeOK, grantProjectAccess, Asked
<1>2. pc' \in [Requests -> {"idle", "redeem"} \cup Ops]
    BY DEF TypeOK, grantProjectAccess
<1>3. DOMAIN op' = Requests /\ \A r \in Requests : Asked(pc'[r], op'[r])
    BY <1>1 DEF TypeOK, grantProjectAccess
<1> QED BY <1>2, <1>3 DEF TypeOK, grantProjectAccess, guest, people

\* Every step of the guest relay keeps the types.
LEMMA RelayType ==
    ASSUME TypeOK, Relay
    PROVE  TypeOK'
<1>1. ASSUME NEW i \in Invitations, settleInvited(i) PROVE TypeOK'
    <2>1. inv' \in [Invitations -> InvitationRow]
        BY <1>1, RowUpdates DEF TypeOK, settleInvited
    <2> QED BY <1>1, <2>1, MarkSentType DEF TypeOK, settleInvited, people, requests
<1>2. ASSUME NEW i \in Invitations, settleRead(i) PROVE TypeOK'
    BY <1>2 DEF TypeOK, settleRead, people, requests
<1>3. ASSUME NEW i \in Invitations, settle(i) PROVE TypeOK'
    BY <1>3, MarkSentType DEF TypeOK, settle, people, requests
<1>4. ASSUME NEW i \in Invitations, finishFails(i) PROVE TypeOK'
    BY <1>4 DEF TypeOK, finishFails, people, requests
<1>5. ASSUME NEW R \in SUBSET Invitations, deadLetter(R) PROVE TypeOK'
    BY <1>5 DEF TypeOK, deadLetter, Scrubbed, people, requests
<1> QED BY <1>1, <1>2, <1>3, <1>4, <1>5 DEF Relay

\* The passing of time and the daily expiry keep the types.
LEMMA TimeType ==
    ASSUME TypeOK, expireInvitations \/ \E i \in Invitations : lapse(i)
    PROVE  TypeOK'
<1>1. inv' \in [Invitations -> InvitationRow]
    <2>1. CASE expireInvitations
        <3>1. \A i \in Invitations : [inv[i] EXCEPT !.status = "expired"] \in InvitationRow
            BY RowUpdates DEF TypeOK, InvitationStatuses
        <3> QED BY <2>1, <3>1 DEF TypeOK, expireInvitations
    <2>2. ASSUME NEW i \in Invitations, lapse(i) PROVE inv' \in [Invitations -> InvitationRow]
        BY <2>2, RowUpdates DEF TypeOK, lapse
    <2> QED BY <2>1, <2>2
<1> QED BY <1>1 DEF TypeOK, lapse, expireInvitations, guest, people, requests

\* Every step keeps the types.
LEMMA NextType == TypeOK /\ [Next]_vars => TypeOK'
<1> SUFFICES ASSUME TypeOK, [Next]_vars PROVE TypeOK'
    OBVIOUS
<1>1. ASSUME NEW q \in Requests, Request(q) PROVE TypeOK'
    BY <1>1, StartsType, CommitsType, GrantType DEF Request
<1>2. CASE UNCHANGED vars
    BY <1>2 DEF TypeOK, vars, guest, people, requests
<1> QED BY <1>1, <1>2, RelayType, TimeType DEF Next

\* Every variable of the membership model keeps its type.
THEOREM MembershipTypeCorrect == Spec => []TypeOK
BY InitType, NextType, PTL DEF Spec

(***************************************************************************)
(* The inductive invariant                                                 *)
(***************************************************************************)

\* The guest rows: they belong to invitations, and an open finish
\* transaction has decided to mail what is owed, or found nothing to mail.
GuestInv ==
    \A i \in Invitations :
        /\ inv[i].status = "absent" => state[i] = "absent" /\ inv[i].by = None
        /\ finishing[i] # "no" => state[i] = "pending"
        /\ finishing[i] = "mail" => owes[i]
        /\ finishing[i] = "skip" => ~OwesLiveToken(i)

\* What a request has read of its invitation and user and cannot change.
OpInv ==
    \A q \in Requests :
        /\ pc[q] \in {"resend", "link", "cancel", "accept", "redeem"} => inv[op[q].inv].status # "absent"
        /\ pc[q] \in {"accept", "redeem"} =>
            /\ op[q].carries = inv[op[q].inv].carries
            /\ op[q].had => member[op[q].user] # "none"
        /\ pc[q] = "redeem" /\ "projects" \in op[q].carries =>
            op[q].grants \/ op[q].user \in admin \/ "role" \in op[q].carries

\* What a request that overlaps no other has read is still so.
AsRead(q) ==
    /\ \A r \in Requests : Active(r) => r = q
    /\ pc[q] \in {"resend", "link", "cancel", "accept", "redeem"} =>
        inv[op[q].inv].status \in {"pending", "expired"}
    /\ pc[q] = "invite" => \A i \in Invitations : Pending(i) => i \in op[q].seen
    /\ pc[q] = "redeem" /\ "projects" \in op[q].carries => ~op[q].had \/ member[op[q].user] = "active"
    /\ pc[q] = "update" /\ op[q].to # "active" => MayDemote(op[q].user)

LoneInv == \A q \in Requests : Active(q) /\ q \notin overlapped => AsRead(q)

MemberInv ==
    /\ TypeOK /\ GuestInv /\ OpInv /\ LoneInv
    /\ PendingIsReachable /\ TokensAreScrubbed /\ AcceptedIsEnrolled

(***************************************************************************)
(* Invitations and guest rows                                              *)
(***************************************************************************)

GuestOK == GuestInv /\ PendingIsReachable /\ TokensAreScrubbed

\* No invitation is created or revived, and the guest rows stay.
LEMMA NoRevival ==
    ASSUME GuestOK, UNCHANGED <<guest, mails, links>>,
           \A i \in Invitations :
             \/ inv'[i] = inv[i]
             \/ /\ inv[i].status # "absent" /\ inv'[i].status # "absent" /\ inv'[i].gen = inv[i].gen
                /\ inv'[i].status = "pending" => inv[i].status = "pending"
    PROVE  GuestOK'
<1>1. GuestInv'
    BY DEF GuestOK, GuestInv, guest, OwesLiveToken, Pending
<1>2. PendingIsReachable'
    BY DEF GuestOK, PendingIsReachable, guest, Pending
<1>3. TokensAreScrubbed'
    BY DEF GuestOK, TokensAreScrubbed, guest
<1> QED BY <1>1, <1>2, <1>3 DEF GuestOK

\* A new invitation leaves nobody stranded and no token behind.
LEMMA GuestInvite ==
    ASSUME TypeOK, GuestOK, NEW q \in Requests, inviteMember(q)
    PROVE  GuestOK'
<1> PICK i \in Invitations, on \in Flags :
        /\ inv[i].status = "absent"
        /\ inv' = [k \in Invitations |->
                IF k = i THEN NewRow("pending", op[q].carries)
                ELSE IF Superseded(k, op[q].seen) THEN [inv[k] EXCEPT !.status = "cancelled"]
                ELSE inv[k]]
        /\ schedule(i, on, TRUE)
        /\ mails' = IF on THEN mails ELSE mails \cup {<<i, 0>>}
    BY DEF inviteMember
<1>1. links' = links /\ finishing' = finishing
    BY DEF inviteMember, schedule
<1>2. state[i] = "absent" /\ finishing[i] = "no" /\ ~owes[i]
    BY DEF GuestOK, GuestInv, TokensAreScrubbed
<1>3. inv'[i].status = "pending" /\ inv'[i].gen = 0 /\ inv'[i].by = None
    BY DEF NewRow
<1>4. \A k \in Invitations \ {i} :
        /\ state'[k] = state[k] /\ owes'[k] = owes[k]
        /\ inv'[k].gen = inv[k].gen /\ inv'[k].by = inv[k].by
        /\ inv'[k].status = inv[k].status \/ (inv[k].status = "pending" /\ inv'[k].status = "cancelled")
    BY <1>2 DEF schedule, Superseded, Pending, TypeOK, InvitationRow
<1>5. IF on THEN state'[i] = "pending" /\ owes'[i] ELSE state'[i] = "absent" /\ ~owes'[i] /\ <<i, 0>> \in mails'
    BY <1>2 DEF schedule, TypeOK
<1>6. GuestInv'
    <2>1. ASSUME NEW k \in Invitations, k # i
          PROVE  /\ inv'[k].status = "absent" => state'[k] = "absent" /\ inv'[k].by = None
                 /\ finishing'[k] # "no" => state'[k] = "pending"
                 /\ finishing'[k] = "mail" => owes'[k]
                 /\ finishing'[k] = "skip" => ~OwesLiveToken(k)'
        <3>1. /\ state'[k] = state[k] /\ owes'[k] = owes[k] /\ inv'[k].gen = inv[k].gen /\ inv'[k].by = inv[k].by
              /\ inv'[k].status = inv[k].status \/ (inv[k].status = "pending" /\ inv'[k].status = "cancelled")
            BY <1>4, <2>1
        <3>2. OwesLiveToken(k)' => OwesLiveToken(k)
            BY <3>1 DEF OwesLiveToken, Pending
        <3> QED BY <1>1, <3>1, <3>2 DEF GuestOK, GuestInv
    <2> QED BY <1>1, <1>2, <1>3, <2>1 DEF GuestInv
<1>7. PendingIsReachable'
    <2>1. ASSUME NEW k \in Invitations, k # i, Pending(k)'
          PROVE  \/ <<k, inv'[k].gen>> \in mails' \cup links'
                 \/ inv'[k].gen = 0 /\ state'[k] = "pending" /\ owes'[k]
                 \/ inv'[k].gen = 0 /\ state'[k] = "failed"
        <3>1. inv[k].status = "pending" /\ inv'[k].gen = inv[k].gen /\ state'[k] = state[k] /\ owes'[k] = owes[k]
            BY <1>4, <2>1 DEF Pending
        <3>2. mails \subseteq mails'
            OBVIOUS
        <3> QED BY <1>1, <3>1, <3>2 DEF GuestOK, PendingIsReachable, Pending
    <2> QED BY <1>3, <1>5, <2>1 DEF PendingIsReachable
<1>8. TokensAreScrubbed'
    BY <1>4, <1>5 DEF GuestOK, TokensAreScrubbed
<1> QED BY <1>6, <1>7, <1>8 DEF GuestOK

\* A rotation, which scrubs the guest row, mails or returns its new token.
LEMMA GuestRotation ==
    ASSUME TypeOK, GuestOK, OpInv, NEW q \in Requests, resendInvitation(q) \/ buildInvitationLink(q)
    PROVE  GuestOK'
<1>0. op[q].inv \in Invitations /\ pc[q] \in {"resend", "link"}
    BY DEF TypeOK, Asked, resendInvitation, buildInvitationLink
<1> PICK i \in Invitations : i = op[q].inv
    BY <1>0
<1>1. i \in Invitations /\ inv[i].status # "absent"
    BY <1>0 DEF OpInv
<1>2. inv' = [inv EXCEPT ![i] = Rotated(i)] /\ finishing' = finishing
    BY DEF resendInvitation, buildInvitationLink, schedule, guest
<1>3. inv'[i].gen = inv[i].gen + 1 /\ inv'[i].status = "pending" /\ inv[i].gen \in Nat
    BY <1>1, <1>2, MembershipBoundsAssumption DEF Rotated, TypeOK, InvitationRow
<1>4. \A k \in Invitations \ {i} : inv'[k] = inv[k] /\ state'[k] = state[k] /\ owes'[k] = owes[k]
    BY <1>1, <1>2 DEF resendInvitation, buildInvitationLink, schedule, guest, TypeOK
<1>5. /\ state'[i] = state[i] \/ (state[i] = "absent" /\ state'[i] = "pending")
      /\ owes'[i] = owes[i] \/ ~owes'[i]
    BY <1>1 DEF resendInvitation, buildInvitationLink, schedule, guest, TypeOK
<1>6. mails \subseteq mails' /\ links \subseteq links' /\ <<i, inv[i].gen + 1>> \in mails' \cup links'
    BY DEF resendInvitation, buildInvitationLink
<1>7. GuestInv'
    <2>1. ASSUME NEW k \in Invitations, k # i
          PROVE  /\ inv'[k].status = "absent" => state'[k] = "absent" /\ inv'[k].by = None
                 /\ finishing'[k] # "no" => state'[k] = "pending"
                 /\ finishing'[k] = "mail" => owes'[k]
                 /\ finishing'[k] = "skip" => ~OwesLiveToken(k)'
        BY <1>2, <1>4, <2>1 DEF GuestOK, GuestInv, OwesLiveToken, Pending
    <2>2. ~OwesLiveToken(i)'
        BY <1>3 DEF OwesLiveToken
    <2>3. finishing'[i] # "no" => state'[i] = "pending" /\ state'[i] = state[i] /\ owes'[i] = owes[i]
        <3>1. SUFFICES ASSUME finishing[i] # "no" PROVE state'[i] = "pending" /\ state'[i] = state[i] /\ owes'[i] = owes[i]
            BY <1>2
        <3>2. state[i] = "pending"
            BY <1>1, <3>1 DEF GuestOK, GuestInv
        <3> QED BY <1>1, <3>2 DEF resendInvitation, buildInvitationLink, schedule, guest
    <2> QED BY <1>1, <1>2, <1>3, <2>1, <2>2, <2>3 DEF GuestOK, GuestInv
<1>8. PendingIsReachable'
    BY <1>3, <1>4, <1>6 DEF GuestOK, PendingIsReachable, Pending
<1>9. TokensAreScrubbed'
    BY <1>1, <1>4, <1>5 DEF GuestOK, TokensAreScrubbed
<1> QED BY <1>7, <1>8, <1>9 DEF GuestOK

\* The relay scrubs what it settles, after it has mailed what it owed.
LEMMA GuestRelay ==
    ASSUME TypeOK, GuestOK, Relay
    PROVE  GuestOK'
<1>1. ASSUME NEW i \in Invitations, settleInvited(i) \/ settle(i) PROVE GuestOK'
    <2>1. /\ state' = [state EXCEPT ![i] = "sent"] /\ owes' = Scrubbed({i}) /\ links' = links /\ mails \subseteq mails'
          /\ state[i] = "pending"
        BY <1>1 DEF settleInvited, settle, markSent
    <2>2. \A k \in Invitations : inv'[k].status = inv[k].status /\ inv'[k].gen = inv[k].gen /\ inv'[k].by = inv[k].by
        BY <1>1 DEF settleInvited, settle, TypeOK, InvitationRow
    <2>3. \A k \in Invitations \ {i} : finishing'[k] = finishing[k] /\ state'[k] = state[k] /\ owes'[k] = owes[k]
        BY <1>1, <2>1 DEF settleInvited, settle, TypeOK, Scrubbed
    <2>4. finishing'[i] = "no" /\ state'[i] = "sent" /\ ~owes'[i]
        BY <1>1, <2>1 DEF settleInvited, settle, TypeOK, Scrubbed
    <2>5. inv[i].status # "absent"
        BY <2>1 DEF GuestOK, GuestInv
    <2>6. OwesLiveToken(i) => <<i, 0>> \in mails'
        <3>1. CASE settleInvited(i)
            BY <3>1 DEF settleInvited, markSent
        <3>2. CASE settle(i)
            BY <3>2 DEF settle, markSent, GuestOK, GuestInv, TypeOK
        <3> QED BY <1>1, <3>1, <3>2
    <2>7. GuestInv'
        BY <2>2, <2>3, <2>4, <2>5 DEF GuestOK, GuestInv, OwesLiveToken, Pending
    <2>8. PendingIsReachable'
        <3>1. ASSUME NEW k \in Invitations, k # i, Pending(k)'
              PROVE  \/ <<k, inv'[k].gen>> \in mails' \cup links'
                     \/ inv'[k].gen = 0 /\ state'[k] = "pending" /\ owes'[k]
                     \/ inv'[k].gen = 0 /\ state'[k] = "failed"
            BY <2>1, <2>2, <2>3, <3>1 DEF GuestOK, PendingIsReachable, Pending
        <3>2. Pending(i)' => <<i, inv'[i].gen>> \in mails' \cup links'
            BY <2>1, <2>2, <2>6 DEF GuestOK, PendingIsReachable, Pending, OwesLiveToken
        <3> QED BY <3>1, <3>2 DEF PendingIsReachable
    <2>9. TokensAreScrubbed'
        BY <2>3, <2>4 DEF GuestOK, TokensAreScrubbed
    <2> QED BY <2>7, <2>8, <2>9 DEF GuestOK
<1>2. ASSUME NEW i \in Invitations, settleRead(i) \/ finishFails(i) PROVE GuestOK'
    <2>1. UNCHANGED <<inv, state, owes, mails, links>>
        BY <1>2 DEF settleRead, finishFails
    <2>2. GuestInv'
        BY <1>2, <2>1 DEF GuestOK, GuestInv, settleRead, finishFails, OwesLiveToken, Pending, TypeOK
    <2> QED BY <2>1, <2>2 DEF GuestOK, PendingIsReachable, TokensAreScrubbed, Pending
<1>3. ASSUME NEW R \in SUBSET Invitations, deadLetter(R) PROVE GuestOK'
    <2>1. UNCHANGED <<inv, finishing, mails, links>>
        BY <1>3 DEF deadLetter
    <2>2. \A i \in R : state[i] = "pending" /\ finishing[i] = "no" /\ state'[i] = "failed" /\ ~owes'[i]
        BY <1>3 DEF deadLetter, Scrubbed
    <2>3. \A i \in Invitations \ R : state'[i] = state[i] /\ owes'[i] = owes[i]
        BY <1>3 DEF deadLetter, Scrubbed
    <2>4. GuestInv'
        BY <2>1, <2>2, <2>3 DEF GuestOK, GuestInv, OwesLiveToken, Pending
    <2>5. PendingIsReachable'
        BY <2>1, <2>2, <2>3 DEF GuestOK, PendingIsReachable, Pending
    <2>6. TokensAreScrubbed'
        BY <2>2, <2>3 DEF GuestOK, TokensAreScrubbed
    <2> QED BY <2>4, <2>5, <2>6 DEF GuestOK
<1> QED BY <1>1, <1>2, <1>3 DEF Relay

StartsNow(q) ==
    startInvite(q) \/ startRotation(q) \/ startCancel(q) \/ startAccept(q) \/ startAdd(q) \/ startUpdate(q)

CommitsNow(q) ==
    \/ inviteMember(q) \/ resendInvitation(q) \/ buildInvitationLink(q) \/ cancelInvitation(q)
    \/ acceptInvitation(q) \/ addMember(q) \/ updateMember(q) \/ rollBack(q)

Clock == expireInvitations \/ \E i \in Invitations : lapse(i)

\* The four kinds of steps.
LEMMA StepKinds ==
    ASSUME [Next]_vars
    PROVE  \/ \E q \in Requests : StartsNow(q) \/ grantProjectAccess(q) \/ CommitsNow(q)
           \/ Relay \/ Clock \/ UNCHANGED vars
BY DEF Next, Request, StartsNow, CommitsNow, Clock

\* A request that starts changes nothing but itself and who overlaps.
LEMMA StartFacts ==
    ASSUME TypeOK, NEW q \in Requests, StartsNow(q)
    PROVE  /\ UNCHANGED <<inv, guest, mails, links, people>>
           /\ pc[q] = "idle" /\ pc'[q] \in Ops
           /\ \A r \in Requests \ {q} : pc'[r] = pc[r] /\ op'[r] = op[r]
           /\ overlapped' = IF \E r \in Requests : Active(r)
                            THEN overlapped \cup {r \in Requests : Active(r)} \cup {q} ELSE overlapped \ {q}
<1>1. PICK k, asked : Start(q, k, asked)
    BY DEF StartsNow, startInvite, startRotation, startCancel, startAccept, startAdd, startUpdate
<1> QED BY <1>1 DEF Start, Active, TypeOK

\* A request that commits or fails is over; the others are as they were.
LEMMA CommitFacts ==
    ASSUME TypeOK, NEW q \in Requests, CommitsNow(q)
    PROVE  /\ pc[q] # "idle" /\ pc'[q] = "idle" /\ overlapped' = overlapped
           /\ \A r \in Requests \ {q} : pc'[r] = pc[r] /\ op'[r] = op[r]
<1>1. End(q) /\ pc[q] # "idle"
    BY DEF CommitsNow, inviteMember, resendInvitation, buildInvitationLink, cancelInvitation,
           acceptInvitation, addMember, updateMember, rollBack, Active
<1> QED BY <1>1 DEF End, TypeOK

\* The relay and the clock touch neither members nor requests.
LEMMA QuietFacts ==
    ASSUME Relay \/ Clock \/ UNCHANGED vars
    PROVE  UNCHANGED <<people, pc, op, overlapped>>
BY DEF Relay, Clock, settleInvited, settleRead, settle, finishFails, deadLetter, lapse, expireInvitations,
       vars, requests

\* The accepted and cancelled rows, and what their requests ask.
LEMMA AskedRow ==
    ASSUME TypeOK, NEW q \in Requests
    PROVE  /\ pc[q] \in {"resend", "link", "cancel", "accept", "redeem"} => op[q].inv \in Invitations
           /\ pc[q] \in {"accept", "redeem"} => op[q].user \in Users /\ op[q].had \in BOOLEAN /\ op[q].carries \in {{}} \cup Carries
           /\ pc[q] \in {"add", "update"} => op[q].user \in Users
           /\ pc[q] = "update" => op[q].to \in MemberStatuses
BY DEF TypeOK, Asked

\* Rows are never removed, keep what they carry, and are accepted by the
\* request that accepts them.
LEMMA RowsKept ==
    ASSUME TypeOK, OpInv, [Next]_vars, NEW i \in Invitations, inv[i].status # "absent"
    PROVE  /\ inv'[i].status # "absent" /\ inv'[i].carries = inv[i].carries
           /\ \/ inv'[i].by = inv[i].by
              \/ \E q \in Requests : acceptInvitation(q) /\ i = op[q].inv /\ inv'[i].by = op[q].user
<1>1. ASSUME NEW q \in Requests, StartsNow(q) PROVE inv' = inv
    BY <1>1, StartFacts
<1>2. ASSUME NEW q \in Requests, grantProjectAccess(q) PROVE inv' = inv
    BY <1>2 DEF grantProjectAccess
<1>3. ASSUME NEW q \in Requests, CommitsNow(q), ~acceptInvitation(q)
      PROVE  inv'[i].status # "absent" /\ inv'[i].carries = inv[i].carries /\ inv'[i].by = inv[i].by
    <2>1. CASE inviteMember(q)
        BY <2>1 DEF inviteMember, Superseded, TypeOK, InvitationRow
    <2>2. CASE resendInvitation(q) \/ buildInvitationLink(q)
        <3>1. inv[i] \in InvitationRow
            BY DEF TypeOK
        <3>2. Rotated(i).status = "pending" /\ Rotated(i).carries = inv[i].carries /\ Rotated(i).by = inv[i].by
            BY <3>1 DEF Rotated, InvitationRow
        <3>3. inv' = [inv EXCEPT ![op[q].inv] = Rotated(op[q].inv)]
            BY <2>2 DEF resendInvitation, buildInvitationLink
        <3> QED BY <3>2, <3>3 DEF TypeOK
    <2>3. CASE cancelInvitation(q)
        BY <2>3 DEF cancelInvitation, TypeOK, InvitationRow
    <2>4. CASE addMember(q) \/ updateMember(q) \/ rollBack(q)
        BY <2>4 DEF addMember, updateMember, rollBack
    <2> QED BY <1>3, <2>1, <2>2, <2>3, <2>4 DEF CommitsNow
<1>4. ASSUME NEW q \in Requests, acceptInvitation(q)
      PROVE  /\ inv'[i].status # "absent" /\ inv'[i].carries = inv[i].carries
             /\ inv'[i].by = inv[i].by \/ (i = op[q].inv /\ inv'[i].by = op[q].user)
    BY <1>4 DEF acceptInvitation, TypeOK, InvitationRow
<1>5. ASSUME Relay \/ Clock \/ UNCHANGED vars
      PROVE  inv'[i].status # "absent" /\ inv'[i].carries = inv[i].carries /\ inv'[i].by = inv[i].by
    <2>1. ASSUME NEW k \in Invitations, settleInvited(k) \/ settleRead(k) \/ settle(k) \/ finishFails(k)
          PROVE  inv'[i].status # "absent" /\ inv'[i].carries = inv[i].carries /\ inv'[i].by = inv[i].by
        BY <2>1 DEF settleInvited, settleRead, settle, finishFails, TypeOK, InvitationRow
    <2>2. ASSUME NEW R \in SUBSET Invitations, deadLetter(R) PROVE inv' = inv
        BY <2>2 DEF deadLetter
    <2>3. CASE Clock
        BY <2>3 DEF Clock, lapse, expireInvitations, TypeOK, InvitationRow
    <2> QED BY <1>5, <2>1, <2>2, <2>3 DEF Relay, vars
<1> QED BY <1>1, <1>2, <1>3, <1>4, <1>5, StepKinds DEF CommitsNow

\* Member rows, role assignments and grants are never removed.
LEMMA PeopleKept ==
    ASSUME TypeOK, [Next]_vars
    PROVE  /\ \A u \in Users : member[u] # "none" => member'[u] # "none"
           /\ admin \subseteq admin' /\ granted \subseteq granted'
<1>1. ASSUME NEW q \in Requests, StartsNow(q) \/ grantProjectAccess(q) PROVE UNCHANGED people
    BY <1>1, StartFacts DEF grantProjectAccess
<1>2. ASSUME NEW q \in Requests, CommitsNow(q)
      PROVE  /\ \A u \in Users : member[u] # "none" => member'[u] # "none"
             /\ admin \subseteq admin' /\ granted \subseteq granted'
    <2>1. CASE acceptInvitation(q)
        BY <2>1 DEF acceptInvitation, Enrolled, TypeOK
    <2>2. CASE addMember(q)
        BY <2>2 DEF addMember, TypeOK
    <2>3. CASE updateMember(q)
        BY <2>3, AskedRow DEF updateMember, TypeOK, MemberStatuses
    <2>4. CASE inviteMember(q) \/ resendInvitation(q) \/ buildInvitationLink(q) \/ cancelInvitation(q) \/ rollBack(q)
        BY <2>4 DEF inviteMember, resendInvitation, buildInvitationLink, cancelInvitation, rollBack, people
    <2> QED BY <1>2, <2>1, <2>2, <2>3, <2>4 DEF CommitsNow
<1>3. ASSUME Relay \/ Clock \/ UNCHANGED vars PROVE UNCHANGED people
    BY <1>3, QuietFacts
<1> QED BY <1>1, <1>2, <1>3, StepKinds DEF people

\* Every step keeps what is owed to addressees and to tokens.
LEMMA GuestNext ==
    ASSUME TypeOK, GuestOK, OpInv, [Next]_vars
    PROVE  GuestOK'
<1>1. ASSUME NEW q \in Requests, StartsNow(q) PROVE GuestOK'
    BY <1>1, StartFacts, NoRevival
<1>2. ASSUME NEW q \in Requests, grantProjectAccess(q) PROVE GuestOK'
    BY <1>2, NoRevival DEF grantProjectAccess
<1>3. ASSUME NEW q \in Requests, CommitsNow(q) PROVE GuestOK'
    <2>1. CASE cancelInvitation(q)
        <3>1. op[q].inv \in Invitations /\ inv[op[q].inv].status # "absent"
            BY <2>1, AskedRow DEF cancelInvitation, OpInv
        <3> QED BY <2>1, <3>1, NoRevival DEF cancelInvitation, TypeOK, InvitationRow
    <2>2. CASE acceptInvitation(q)
        <3>1. op[q].inv \in Invitations /\ inv[op[q].inv].status # "absent"
            BY <2>2, AskedRow DEF acceptInvitation, OpInv
        <3> QED BY <2>2, <3>1, NoRevival DEF acceptInvitation, TypeOK, InvitationRow
    <2>3. CASE addMember(q) \/ updateMember(q) \/ rollBack(q)
        BY <2>3, NoRevival DEF addMember, updateMember, rollBack
    <2> QED BY <1>3, <2>1, <2>2, <2>3, GuestInvite, GuestRotation DEF CommitsNow
<1>4. CASE Clock
    BY <1>4, NoRevival DEF Clock, lapse, expireInvitations, Lapsed, Pending, TypeOK, InvitationRow
<1>5. CASE UNCHANGED vars
    BY <1>5, NoRevival DEF vars
<1> QED BY <1>1, <1>2, <1>3, <1>4, <1>5, GuestRelay, StepKinds

(***************************************************************************)
(* What requests have read                                                 *)
(***************************************************************************)

\* Every step keeps what requests know of what they have read.
LEMMA OpNext ==
    ASSUME TypeOK, OpInv, [Next]_vars
    PROVE  OpInv'
<1> DEFINE Kept(r) ==
        /\ pc'[r] \in {"resend", "link", "cancel", "accept", "redeem"} => inv'[op'[r].inv].status # "absent"
        /\ pc'[r] \in {"accept", "redeem"} =>
            /\ op'[r].carries = inv'[op'[r].inv].carries
            /\ op'[r].had => member'[op'[r].user] # "none"
        /\ pc'[r] = "redeem" /\ "projects" \in op'[r].carries =>
            op'[r].grants \/ op'[r].user \in admin' \/ "role" \in op'[r].carries
<1>1. ASSUME NEW r \in Requests, pc'[r] = pc[r], op'[r] = op[r] PROVE Kept(r)
    <2>1. pc[r] \in {"resend", "link", "cancel", "accept", "redeem"} =>
            inv'[op[r].inv].status # "absent" /\ inv'[op[r].inv].carries = inv[op[r].inv].carries
        BY AskedRow, RowsKept DEF OpInv
    <2>2. pc[r] \in {"accept", "redeem"} /\ op[r].had => member'[op[r].user] # "none"
        BY AskedRow, PeopleKept DEF OpInv
    <2>3. pc[r] = "redeem" /\ "projects" \in op[r].carries =>
            op[r].grants \/ op[r].user \in admin' \/ "role" \in op[r].carries
        BY PeopleKept DEF OpInv
    <2> QED BY <1>1, <2>1, <2>2, <2>3 DEF OpInv
<1>2. ASSUME NEW q \in Requests, StartsNow(q) PROVE Kept(q)
    <2>0. inv' = inv /\ member' = member /\ admin' = admin
        BY <1>2, StartFacts DEF people
    <2>1. CASE startInvite(q) \/ startAdd(q) \/ startUpdate(q)
        BY <2>1 DEF startInvite, startAdd, startUpdate, Start, TypeOK
    <2>2. CASE startRotation(q)
        BY <2>0, <2>2 DEF startRotation, loadRotatableInvitation, Start, TypeOK
    <2>3. CASE startCancel(q)
        BY <2>0, <2>3 DEF startCancel, Pending, Start, TypeOK
    <2>4. CASE startAccept(q)
        <3> PICK t \in mails \cup links, u \in Users :
                /\ Redeemable(t, u)
                /\ Start(q, "accept", [inv |-> t[1], user |-> u, carries |-> inv[t[1]].carries,
                                       had |-> member[u] # "none", grants |-> FALSE])
            BY <2>4 DEF startAccept
        <3>1. /\ pc'[q] = "accept"
              /\ op'[q] = [inv |-> t[1], user |-> u, carries |-> inv[t[1]].carries,
                           had |-> member[u] # "none", grants |-> FALSE]
            BY DEF Start, TypeOK
        <3>2. inv[t[1]].status = "pending"
            BY DEF Redeemable, Pending
        <3>3. /\ op'[q].inv = t[1] /\ op'[q].user = u /\ op'[q].carries = inv[t[1]].carries
              /\ op'[q].had = (member[u] # "none")
            BY <3>1
        <3>4. op'[q].had => member[u] # "none"
            BY <3>3
        <3> QED BY <2>0, <3>1, <3>2, <3>3, <3>4
    <2> QED BY <1>2, <2>1, <2>2, <2>3, <2>4 DEF StartsNow
<1>3. ASSUME NEW q \in Requests, grantProjectAccess(q) PROVE Kept(q)
    <2>1. /\ pc[q] = "accept" /\ pc'[q] = "redeem" /\ inv' = inv /\ member' = member /\ admin' = admin
          /\ op'[q] = [op[q] EXCEPT !.grants = op[q].carries = {"projects"} /\ op[q].user \notin admin]
        BY <1>3 DEF grantProjectAccess, people, TypeOK
    <2>2. op[q] \in [inv : Invitations, user : Users, carries : {{}} \cup Carries, had : BOOLEAN, grants : BOOLEAN]
        BY <2>1 DEF TypeOK, Asked
    <2>3. /\ op'[q].inv = op[q].inv /\ op'[q].user = op[q].user /\ op'[q].carries = op[q].carries
          /\ op'[q].had = op[q].had
          /\ op'[q].grants <=> op[q].carries = {"projects"} /\ op[q].user \notin admin
        BY <2>1, <2>2
    <2>4. "projects" \in op[q].carries => "role" \in op[q].carries \/ op[q].carries = {"projects"}
        <3>1. op[q].carries \in {{}} \cup Carries
            BY <2>2
        <3>2. \A e \in op[q].carries : e \in {"role", "projects"}
            BY <3>1, MembershipOpsAssumption
        <3> QED BY <3>2
    <2> QED BY <2>1, <2>3, <2>4 DEF OpInv
<1>4. ASSUME NEW q \in Requests, CommitsNow(q) PROVE Kept(q)
    BY <1>4, CommitFacts
<1>5. ASSUME NEW q \in Requests, grantProjectAccess(q), NEW r \in Requests \ {q} PROVE pc'[r] = pc[r] /\ op'[r] = op[r]
    BY <1>5 DEF grantProjectAccess, TypeOK
<1>6. \A r \in Requests : Kept(r)
    <2>1. ASSUME NEW q \in Requests, StartsNow(q) PROVE \A r \in Requests : Kept(r)
        <3>1. \A r \in Requests \ {q} : pc'[r] = pc[r] /\ op'[r] = op[r]
            BY <2>1, StartFacts
        <3> HIDE DEF Kept
        <3> QED BY <1>1, <1>2, <2>1, <3>1
    <2>2. ASSUME NEW q \in Requests, grantProjectAccess(q) PROVE \A r \in Requests : Kept(r)
        <3> HIDE DEF Kept
        <3> QED BY <1>1, <1>3, <1>5, <2>2
    <2>3. ASSUME NEW q \in Requests, CommitsNow(q) PROVE \A r \in Requests : Kept(r)
        <3>1. \A r \in Requests \ {q} : pc'[r] = pc[r] /\ op'[r] = op[r]
            BY <2>3, CommitFacts
        <3> HIDE DEF Kept
        <3> QED BY <1>1, <1>4, <2>3, <3>1
    <2>4. ASSUME Relay \/ Clock \/ UNCHANGED vars PROVE \A r \in Requests : Kept(r)
        <3>1. pc' = pc /\ op' = op
            BY <2>4, QuietFacts
        <3> HIDE DEF Kept
        <3> QED BY <1>1, <3>1
    <2> HIDE DEF Kept
    <2> QED BY <2>1, <2>2, <2>3, <2>4, StepKinds
<1> QED BY <1>6 DEF OpInv

\* No step takes from an acceptance what it has given.
LEMMA AcceptedNext ==
    ASSUME TypeOK, GuestInv, OpInv, AcceptedIsEnrolled, [Next]_vars
    PROVE  AcceptedIsEnrolled'
<1> SUFFICES ASSUME NEW i \in Invitations, inv'[i].by # None
             PROVE  /\ member'[inv'[i].by] # "none"
                    /\ "role" \in inv'[i].carries => inv'[i].by \in admin'
                    /\ "projects" \in inv'[i].carries => inv'[i].by \in granted' \cup admin'
    BY DEF AcceptedIsEnrolled
<1>1. CASE inv[i].status # "absent" /\ inv'[i].by = inv[i].by
    <2>1. inv[i].by \in Users /\ inv'[i].carries = inv[i].carries
        BY <1>1, RowsKept DEF TypeOK, InvitationRow
    <2> QED BY <1>1, <2>1, PeopleKept DEF AcceptedIsEnrolled
<1>2. ASSUME NEW q \in Requests, acceptInvitation(q), inv[i].status # "absent", i = op[q].inv, inv'[i].by = op[q].user
      PROVE  /\ member'[inv'[i].by] # "none"
             /\ "role" \in inv'[i].carries => inv'[i].by \in admin'
             /\ "projects" \in inv'[i].carries => inv'[i].by \in granted' \cup admin'
    <2>1. pc[q] = "redeem" /\ op[q].user \in Users /\ op[q].had \in BOOLEAN
        BY <1>2, AskedRow DEF acceptInvitation
    <2>2. inv'[i].carries = op[q].carries
        BY <1>2, <2>1, RowsKept DEF OpInv
    <2>3. member'[op[q].user] # "none"
        BY <1>2, <2>1 DEF acceptInvitation, Enrolled, OpInv, TypeOK
    <2>4. "projects" \in op[q].carries => op[q].user \in granted' \cup admin'
        BY <1>2, <2>1 DEF acceptInvitation, OpInv
    <2> QED BY <1>2, <2>2, <2>3, <2>4 DEF acceptInvitation
<1>3. CASE inv[i].status = "absent"
    <2>1. inv'[i].by = None
        <3>1. inv[i].by = None
            BY <1>3 DEF GuestInv
        <3>2. ASSUME NEW q \in Requests, CommitsNow(q) PROVE inv'[i].by = None
            <4>1. CASE inviteMember(q)
                BY <3>1, <4>1 DEF inviteMember, NewRow, Superseded, TypeOK, InvitationRow
            <4>2. CASE resendInvitation(q) \/ buildInvitationLink(q) \/ cancelInvitation(q) \/ acceptInvitation(q)
                <5>1. op[q].inv # i
                    BY <1>3, <4>2 DEF resendInvitation, buildInvitationLink, cancelInvitation, acceptInvitation, OpInv
                <5> QED BY <3>1, <4>2, <5>1
                        DEF resendInvitation, buildInvitationLink, cancelInvitation, acceptInvitation, TypeOK
            <4>3. CASE addMember(q) \/ updateMember(q) \/ rollBack(q)
                BY <3>1, <4>3 DEF addMember, updateMember, rollBack
            <4> QED BY <3>2, <4>1, <4>2, <4>3 DEF CommitsNow
        <3>3. ASSUME NEW k \in Invitations, settleInvited(k) PROVE inv'[i].by = None
            BY <3>1, <3>3 DEF settleInvited, TypeOK, InvitationRow
        <3>4. CASE Relay
            BY <3>1, <3>3, <3>4 DEF Relay, settleRead, settle, finishFails, deadLetter
        <3>5. CASE Clock
            BY <1>3, <3>1, <3>5 DEF Clock, lapse, expireInvitations, Lapsed, Pending, TypeOK, InvitationRow
        <3>6. ASSUME NEW q \in Requests, StartsNow(q) \/ grantProjectAccess(q) PROVE inv' = inv
            BY <3>6, StartFacts DEF grantProjectAccess
        <3>7. CASE UNCHANGED vars
            BY <3>1, <3>7 DEF vars
        <3> QED BY <3>1, <3>2, <3>4, <3>5, <3>6, <3>7, StepKinds
    <2> QED BY <2>1
<1> QED BY <1>1, <1>2, <1>3, RowsKept

(***************************************************************************)
(* Requests that overlap no other                                          *)
(***************************************************************************)

\* Without a request an invitation can only expire.
LEMMA QuietStatus ==
    ASSUME TypeOK, Relay \/ Clock \/ UNCHANGED vars, NEW i \in Invitations
    PROVE  inv'[i].status = inv[i].status \/ (inv[i].status = "pending" /\ inv'[i].status = "expired")
<1>1. ASSUME NEW k \in Invitations, settleInvited(k) PROVE inv'[i].status = inv[i].status
    BY <1>1 DEF settleInvited, TypeOK, InvitationRow
<1>2. CASE Relay
    BY <1>1, <1>2 DEF Relay, settleRead, settle, finishFails, deadLetter
<1>3. CASE Clock
    BY <1>3 DEF Clock, lapse, expireInvitations, Lapsed, Pending, TypeOK, InvitationRow
<1>4. CASE UNCHANGED vars
    BY <1>4 DEF vars
<1> QED BY <1>2, <1>3, <1>4

\* A request reads what it keeps.
LEMMA StartReads ==
    ASSUME TypeOK, NEW q \in Requests, StartsNow(q), \A r \in Requests : ~Active(r)
    PROVE  AsRead(q)'
<1>0. inv' = inv /\ member' = member /\ admin' = admin
    BY StartFacts DEF people
<1>1. \A r \in Requests : Active(r)' => r = q
    BY StartFacts DEF Active
<1>2. CASE startInvite(q)
    <2> PICK c \in Carries : Start(q, "invite", [carries |-> c, seen |-> {i \in Invitations : Pending(i)}])
        BY <1>2 DEF startInvite
    <2>1. pc'[q] = "invite" /\ op'[q] = [carries |-> c, seen |-> {i \in Invitations : Pending(i)}]
        BY DEF Start, TypeOK
    <2> QED BY <1>0, <1>1, <2>1 DEF AsRead, Pending
<1>3. CASE startRotation(q)
    BY <1>0, <1>1, <1>3 DEF startRotation, loadRotatableInvitation, Start, TypeOK, AsRead
<1>4. CASE startCancel(q)
    BY <1>0, <1>1, <1>4 DEF startCancel, Pending, Start, TypeOK, AsRead
<1>5. CASE startAccept(q)
    <2> PICK t \in mails \cup links, u \in Users :
            /\ Redeemable(t, u)
            /\ Start(q, "accept", [inv |-> t[1], user |-> u, carries |-> inv[t[1]].carries,
                                   had |-> member[u] # "none", grants |-> FALSE])
        BY <1>5 DEF startAccept
    <2>1. pc'[q] = "accept" /\ op'[q].inv = t[1]
        BY DEF Start, TypeOK
    <2>2. inv[t[1]].status = "pending"
        BY DEF Redeemable, Pending
    <2> QED BY <1>0, <1>1, <2>1, <2>2 DEF AsRead
<1>6. CASE startAdd(q)
    BY <1>1, <1>6 DEF startAdd, Start, TypeOK, AsRead
<1>7. CASE startUpdate(q)
    <2> PICK u \in Users, to \in MemberStatuses :
            /\ to # "active" => MayDemote(u)
            /\ Start(q, "update", [user |-> u, to |-> to])
        BY <1>7 DEF startUpdate
    <2>1. pc'[q] = "update" /\ op'[q].user = u /\ op'[q].to = to
        BY DEF Start, TypeOK
    <2>2. to # "active" => MayDemote(u)'
        BY <1>0 DEF MayDemote, ActiveAdmins
    <2> QED BY <1>1, <2>1, <2>2 DEF AsRead, MayDemote, ActiveAdmins
<1> QED BY <1>2, <1>3, <1>4, <1>5, <1>6, <1>7 DEF StartsNow

\* A request that overlaps no other finds what it has read.
LEMMA LoneNext ==
    ASSUME TypeOK, LoneInv, [Next]_vars
    PROVE  LoneInv'
<1> SUFFICES ASSUME NEW q \in Requests, Active(q)', q \notin overlapped'
             PROVE  AsRead(q)'
    BY DEF LoneInv
<1>1. ASSUME NEW p \in Requests, StartsNow(p) PROVE AsRead(q)'
    <2>1. CASE \E r \in Requests : Active(r)
        <3>1. overlapped' = overlapped \cup {r \in Requests : Active(r)} \cup {p}
            BY <1>1, <2>1, StartFacts
        <3>2. p # q /\ ~Active(q)
            BY <3>1
        <3>3. pc'[q] = pc[q]
            BY <1>1, <3>2, StartFacts
        <3> QED BY <3>2, <3>3 DEF Active
    <2>2. CASE \A r \in Requests : ~Active(r)
        <3>1. p = q
            BY <1>1, <2>2, StartFacts DEF Active
        <3> QED BY <1>1, <2>2, <3>1, StartReads
    <2> QED BY <2>1, <2>2
<1>2. ASSUME NEW p \in Requests, grantProjectAccess(p) PROVE AsRead(q)'
    <2>1. /\ Active(p) /\ overlapped' = overlapped /\ inv' = inv /\ member' = member /\ admin' = admin
          /\ \A r \in Requests \ {p} : pc'[r] = pc[r] /\ op'[r] = op[r]
        BY <1>2 DEF grantProjectAccess, Active, people, TypeOK
    <2>2. Active(q)
        BY <2>1 DEF Active
    <2>3. AsRead(q) /\ p = q
        BY <2>1, <2>2 DEF LoneInv, AsRead
    <2>4. /\ pc[q] = "accept" /\ pc'[q] = "redeem" /\ Grantable(q)
          /\ op'[q] = [op[q] EXCEPT !.grants = op[q].carries = {"projects"} /\ op[q].user \notin admin]
        BY <1>2, <2>3 DEF grantProjectAccess, TypeOK
    <2>5. op[q] \in [inv : Invitations, user : Users, carries : {{}} \cup Carries, had : BOOLEAN, grants : BOOLEAN]
        BY <2>4 DEF TypeOK, Asked
    <2>6. op'[q].inv = op[q].inv /\ op'[q].user = op[q].user /\ op'[q].carries = op[q].carries /\ op'[q].had = op[q].had
        BY <2>4, <2>5
    <2>7. \A r \in Requests : Active(r)' => r = q
        BY <2>1, <2>3 DEF Active, AsRead
    <2> QED BY <2>1, <2>3, <2>4, <2>6, <2>7 DEF AsRead, Grantable
<1>3. ASSUME NEW p \in Requests, CommitsNow(p) PROVE AsRead(q)'
    <2>1. Active(p) /\ ~Active(p)' /\ overlapped' = overlapped /\ p # q /\ Active(q)
        BY <1>3, CommitFacts DEF Active
    <2> QED BY <2>1 DEF LoneInv, AsRead
<1>4. ASSUME Relay \/ Clock \/ UNCHANGED vars PROVE AsRead(q)'
    <2>1. pc' = pc /\ op' = op /\ overlapped' = overlapped /\ member' = member /\ admin' = admin
        BY <1>4, QuietFacts DEF people
    <2>2. AsRead(q)
        BY <2>1 DEF LoneInv, Active
    <2>3. pc[q] \in {"resend", "link", "cancel", "accept", "redeem"} =>
            inv'[op[q].inv].status \in {"pending", "expired"}
        BY <1>4, <2>2, AskedRow, QuietStatus DEF AsRead
    <2>4. \A i \in Invitations : Pending(i)' => Pending(i)
        BY <1>4, QuietStatus DEF Pending
    <2> QED BY <2>1, <2>2, <2>3, <2>4 DEF AsRead, Active, MayDemote, ActiveAdmins
<1> QED BY <1>1, <1>2, <1>3, <1>4, StepKinds

\* The inductive invariant holds at first.
LEMMA InitInvariant == Init => MemberInv
<1> SUFFICES ASSUME Init PROVE MemberInv
    OBVIOUS
<1>1. GuestInv /\ PendingIsReachable /\ TokensAreScrubbed /\ AcceptedIsEnrolled
    BY DEF Init, NewRow, GuestInv, PendingIsReachable, TokensAreScrubbed, AcceptedIsEnrolled, Pending
<1>2. OpInv /\ LoneInv
    BY DEF Init, OpInv, LoneInv, Active
<1> QED BY <1>1, <1>2, InitType DEF MemberInv

\* Every step keeps the inductive invariant.
LEMMA NextInvariant == MemberInv /\ [Next]_vars => MemberInv'
BY NextType, GuestNext, OpNext, AcceptedNext, LoneNext DEF MemberInv, GuestOK

\* The inductive invariant holds throughout.
THEOREM MembershipInvariant == Spec => []MemberInv
BY InitInvariant, NextInvariant, PTL DEF Spec

\* No pending invitation is silently stranded, whatever the flag and
\* however requests, relay and clock interleave.
THEOREM InvitationsAreReachable == Spec => []PendingIsReachable
<1>1. MemberInv => PendingIsReachable
    BY DEF MemberInv
<1> QED BY <1>1, MembershipInvariant, PTL

\* Only queued guest rows hold a raw token.
THEOREM GuestTokensAreScrubbed == Spec => []TokensAreScrubbed
<1>1. MemberInv => TokensAreScrubbed
    BY DEF MemberInv
<1> QED BY <1>1, MembershipInvariant, PTL

\* Acceptances are all or nothing.
THEOREM AcceptancesAreWhole == Spec => []AcceptedIsEnrolled
<1>1. MemberInv => AcceptedIsEnrolled
    BY DEF MemberInv
<1> QED BY <1>1, MembershipInvariant, PTL

(***************************************************************************)
(* Action properties                                                       *)
(***************************************************************************)

\* Emails are scheduled for live tokens, but for a guest row finished
\* without an object id.
THEOREM ScheduledMailsAreLive == Spec => MailsAreLive
<1> DEFINE A == \A t \in mails' \ mails :
        \/ inv'[t[1]].status = "pending" /\ inv'[t[1]].gen = t[2]
        \/ finishing[t[1]] = "mail"
<1>1. MemberInv /\ [Next]_vars => [A]_vars
    <2> SUFFICES ASSUME MemberInv, [Next]_vars, NEW t \in mails' \ mails
                 PROVE  \/ inv'[t[1]].status = "pending" /\ inv'[t[1]].gen = t[2]
                        \/ finishing[t[1]] = "mail"
        OBVIOUS
    <2>0. TypeOK
        BY DEF MemberInv
    <2>1. ASSUME NEW q \in Requests, CommitsNow(q) PROVE inv'[t[1]].status = "pending" /\ inv'[t[1]].gen = t[2]
        <3>1. CASE inviteMember(q)
            BY <3>1 DEF inviteMember, NewRow
        <3>2. CASE resendInvitation(q)
            <4>1. op[q].inv \in Invitations /\ t = <<op[q].inv, inv[op[q].inv].gen + 1>>
                BY <2>0, <3>2, AskedRow DEF resendInvitation
            <4>2. inv[op[q].inv] \in InvitationRow
                BY <2>0, <4>1 DEF TypeOK
            <4>3. Rotated(op[q].inv).status = "pending" /\ Rotated(op[q].inv).gen = inv[op[q].inv].gen + 1
                BY <4>2 DEF Rotated, InvitationRow
            <4> QED BY <2>0, <3>2, <4>1, <4>3 DEF resendInvitation, TypeOK
        <3>3. CASE ~inviteMember(q) /\ ~resendInvitation(q)
            BY <2>1, <3>3 DEF CommitsNow, buildInvitationLink, cancelInvitation, acceptInvitation, addMember,
                              updateMember, rollBack
        <3> QED BY <3>1, <3>2, <3>3
    <2>2. ASSUME NEW i \in Invitations, settleInvited(i) PROVE inv'[t[1]].status = "pending" /\ inv'[t[1]].gen = t[2]
        <3>1. t = <<i, 0>> /\ OwesLiveToken(i)
            BY <2>2 DEF settleInvited, markSent
        <3> QED BY <2>0, <2>2, <3>1 DEF settleInvited, OwesLiveToken, Pending, TypeOK, InvitationRow
    <2>3. ASSUME NEW i \in Invitations, settle(i) PROVE finishing[t[1]] = "mail"
        BY <2>3 DEF settle, markSent
    <2>4. CASE Relay
        BY <2>2, <2>3, <2>4 DEF Relay, settleRead, finishFails, deadLetter
    <2>5. ASSUME NEW q \in Requests, StartsNow(q) \/ grantProjectAccess(q) PROVE mails' = mails
        BY <2>0, <2>5, StartFacts DEF grantProjectAccess
    <2>6. CASE Clock \/ UNCHANGED vars
        BY <2>6 DEF Clock, lapse, expireInvitations, vars
    <2> QED BY <2>1, <2>4, <2>5, <2>6, StepKinds
<1> QED BY <1>1, MembershipInvariant, PTL DEF Spec, MailsAreLive

\* Accepted and cancelled invitations are reopened or changed only by one
\* of two overlapping requests.
THEOREM SettledInvitationsStay == Spec => SettledStaysSettled
<1> DEFINE A == \A i \in Invitations :
        inv[i].status \in {"accepted", "cancelled"} /\ inv'[i].status # inv[i].status =>
            \E q \in overlapped : Active(q) /\ pc'[q] = "idle"
<1>1. MemberInv /\ [Next]_vars => [A]_vars
    <2> SUFFICES ASSUME MemberInv, [Next]_vars, NEW i \in Invitations,
                        inv[i].status \in {"accepted", "cancelled"}, inv'[i].status # inv[i].status
                 PROVE  \E q \in overlapped : Active(q) /\ pc'[q] = "idle"
        OBVIOUS
    <2>0. TypeOK /\ LoneInv /\ OpInv
        BY DEF MemberInv
    <2>1. ASSUME NEW q \in Requests, CommitsNow(q) PROVE \E r \in overlapped : Active(r) /\ pc'[r] = "idle"
        <3>1. Active(q) /\ pc'[q] = "idle"
            BY <2>0, <2>1, CommitFacts DEF Active
        <3>2. ~inviteMember(q)
            BY <2>0 DEF inviteMember, Superseded, Pending, TypeOK
        <3>3. ~(addMember(q) \/ updateMember(q) \/ rollBack(q))
            BY DEF addMember, updateMember, rollBack
        <3>4. i = op[q].inv /\ pc[q] \in {"resend", "link", "cancel", "accept", "redeem"}
            BY <2>0, <2>1, <3>2, <3>3
               DEF CommitsNow, resendInvitation, buildInvitationLink, cancelInvitation, acceptInvitation, TypeOK
        <3>5. q \in overlapped
            BY <2>0, <3>1, <3>4 DEF LoneInv, AsRead
        <3> QED BY <3>1, <3>5
    <2>2. ASSUME NEW q \in Requests, StartsNow(q) \/ grantProjectAccess(q) PROVE inv' = inv
        BY <2>0, <2>2, StartFacts DEF grantProjectAccess
    <2>3. ASSUME Relay \/ Clock \/ UNCHANGED vars PROVE FALSE
        BY <2>0, <2>3, QuietStatus
    <2> QED BY <2>1, <2>2, <2>3, StepKinds
<1> QED BY <1>1, MembershipInvariant, PTL DEF Spec, SettledStaysSettled

\* A request that commits alone has read what it relies on, and its commit
\* is the step.
LEMMA LoneCommit ==
    ASSUME MemberInv, [Next]_vars, NEW q \in Requests, NEW p \in {"invite", "redeem", "update"}, CommitsAlone(q, p)
    PROVE  /\ AsRead(q)
           /\ p = "invite" => inviteMember(q)
           /\ p = "redeem" => acceptInvitation(q)
           /\ p = "update" => updateMember(q)
<1>0. TypeOK /\ LoneInv
    BY DEF MemberInv
<1>1. pc[q] = p /\ pc'[q] = "idle" /\ <<inv, people>>' # <<inv, people>> /\ q \notin overlapped
    BY DEF CommitsAlone, Commits
<1>2. AsRead(q)
    BY <1>0, <1>1 DEF LoneInv, Active
<1>3. PICK r \in Requests : CommitsNow(r) /\ r = q
    <2>1. ASSUME NEW r \in Requests, StartsNow(r) PROVE FALSE
        BY <1>0, <1>1, <2>1, StartFacts
    <2>2. ASSUME NEW r \in Requests, grantProjectAccess(r) PROVE FALSE
        BY <1>1, <2>2 DEF grantProjectAccess
    <2>3. ASSUME Relay \/ Clock \/ UNCHANGED vars PROVE FALSE
        BY <1>1, <2>3, QuietFacts
    <2>4. ASSUME NEW r \in Requests, CommitsNow(r) PROVE r = q
        BY <1>0, <1>1, <2>4, CommitFacts
    <2> QED BY <2>1, <2>2, <2>3, <2>4, StepKinds
<1>4. ~rollBack(q)
    BY <1>1 DEF rollBack
<1> QED BY <1>1, <1>2, <1>3, <1>4
        DEF CommitsNow, inviteMember, resendInvitation, buildInvitationLink, cancelInvitation, acceptInvitation,
            addMember, updateMember

\* A re-invitation that overlaps no other request leaves one pending
\* invitation.
THEOREM LoneInvitesSupersede == Spec => LoneInviteSupersedes
<1> DEFINE A == \A q \in Requests : CommitsAlone(q, "invite") =>
        Cardinality({i \in Invitations : inv'[i].status = "pending"}) = 1
<1>1. MemberInv /\ [Next]_vars => [A]_vars
    <2> SUFFICES ASSUME MemberInv, [Next]_vars, NEW q \in Requests, CommitsAlone(q, "invite")
                 PROVE  Cardinality({i \in Invitations : inv'[i].status = "pending"}) = 1
        OBVIOUS
    <2>1. AsRead(q) /\ inviteMember(q) /\ pc[q] = "invite"
        BY LoneCommit DEF inviteMember
    <2>2. PICK i \in Invitations :
            inv' = [k \in Invitations |->
                    IF k = i THEN NewRow("pending", op[q].carries)
                    ELSE IF Superseded(k, op[q].seen) THEN [inv[k] EXCEPT !.status = "cancelled"]
                    ELSE inv[k]]
        BY <2>1 DEF inviteMember
    <2>3. inv'[i].status = "pending"
        BY <2>2 DEF NewRow
    <2>4. \A k \in Invitations \ {i} : inv'[k].status # "pending"
        BY <2>1, <2>2 DEF AsRead, Superseded, Pending, MemberInv, TypeOK, InvitationRow
    <2>5. {k \in Invitations : inv'[k].status = "pending"} = {i}
        BY <2>3, <2>4
    <2> QED BY <2>5, FS_Singleton
<1> QED BY <1>1, MembershipInvariant, PTL DEF Spec, LoneInviteSupersedes

\* An acceptance that overlaps no other request and carries projects leaves
\* the invitee an active member with access.
THEOREM LoneGrantsReachMembers == Spec => LoneGrantReachesMember
<1> DEFINE A == \A q \in Requests : CommitsAlone(q, "redeem") /\ "projects" \in op[q].carries =>
        member'[op[q].user] = "active" /\ op[q].user \in granted' \cup admin'
<1>1. MemberInv /\ [Next]_vars => [A]_vars
    <2> SUFFICES ASSUME MemberInv, [Next]_vars, NEW q \in Requests, CommitsAlone(q, "redeem"),
                        "projects" \in op[q].carries
                 PROVE  member'[op[q].user] = "active" /\ op[q].user \in granted' \cup admin'
        OBVIOUS
    <2>1. AsRead(q) /\ acceptInvitation(q) /\ pc[q] = "redeem"
        BY LoneCommit DEF acceptInvitation
    <2>2. op[q].user \in Users
        BY <2>1, AskedRow DEF MemberInv
    <2>3. member'[op[q].user] = "active"
        BY <2>1, <2>2 DEF AsRead, acceptInvitation, Enrolled, MemberInv, TypeOK
    <2>4. op[q].user \in granted' \cup admin'
        BY <2>1 DEF acceptInvitation, MemberInv, OpInv
    <2> QED BY <2>3, <2>4
<1> QED BY <1>1, MembershipInvariant, PTL DEF Spec, LoneGrantReachesMember

\* A change of a member that overlaps no other request leaves the workspace
\* an active admin.
THEOREM LoneChangesKeepAnAdmin == Spec => LoneChangeKeepsAnAdmin
<1> DEFINE A == \A q \in Requests : CommitsAlone(q, "update") /\ ActiveAdmins(member) # {} =>
        \E u \in admin' : member'[u] = "active"
<1>1. MemberInv /\ [Next]_vars => [A]_vars
    <2> SUFFICES ASSUME MemberInv, [Next]_vars, NEW q \in Requests, CommitsAlone(q, "update"),
                        ActiveAdmins(member) # {}
                 PROVE  \E u \in admin' : member'[u] = "active"
        OBVIOUS
    <2>1. AsRead(q) /\ updateMember(q) /\ pc[q] = "update"
        BY LoneCommit DEF updateMember
    <2>2. member' = [member EXCEPT ![op[q].user] = op[q].to] /\ admin' = admin
        BY <2>1 DEF updateMember
    <2>3. op[q].user \in Users /\ admin \subseteq Users /\ member \in [Users -> MemberStatuses \cup {"none"}]
        BY <2>1, AskedRow DEF MemberInv, TypeOK
    <2>4. PICK v \in admin : member[v] = "active" /\ (op[q].to # "active" => v # op[q].user)
        <3>1. CASE op[q].to = "active" \/ op[q].user \notin ActiveAdmins(member)
            BY <3>1 DEF ActiveAdmins
        <3>2. CASE op[q].to # "active" /\ op[q].user \in ActiveAdmins(member)
            <4>1. Cardinality(ActiveAdmins(member)) > 1
                BY <2>1, <3>2 DEF AsRead, MayDemote
            <4>2. ActiveAdmins(member) # {op[q].user}
                BY <4>1, FS_Singleton
            <4> QED BY <3>2, <4>2 DEF ActiveAdmins
        <3> QED BY <3>1, <3>2
    <2> QED BY <2>2, <2>3, <2>4
<1> QED BY <1>1, MembershipInvariant, PTL DEF Spec, LoneChangeKeepsAnAdmin

=============================================================================
