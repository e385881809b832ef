----------------------------- MODULE Membership -----------------------------
(***************************************************************************)
(* Who may use a deployment: registering the first owner, inviting,        *)
(* accepting an invitation, removing a member, cancelling an invitation    *)
(* and signing in.  Requests run concurrently; a transaction commits or    *)
(* rolls back as a whole, what it read may be out of date by then, and a   *)
(* request may fail or die at any step.  A person is known by an email     *)
(* address; an account is the number of the user row that has it.  The     *)
(* account library's own checks (an address has one account, a person is   *)
(* invited once at a time) are external.                                   *)
(***************************************************************************)
EXTENDS Naturals, FiniteSets

CONSTANTS
    People, Invites, AccessRequests,
    MaxUsers, MaxCallsMade, MaxAccessFaults    \* bounds

ASSUME AccessAssumption == {MaxUsers, MaxCallsMade, MaxAccessFaults} \subseteq Nat

VARIABLES
    accounts,      \* by person: the number of their user row, 0 when they have none
    founded,       \* the organisations made
    members,       \* of the organisation: user, role, the invitation they came by
    invites,       \* by invitation: status, person, role, who sent it
    sessions,      \* the users signed in to the organisation
    calls,         \* by request slot: the request under way
    bootstrapLock, memberLock,      \* the advisory locks, and which slot holds each
    users, callsMade, accessFaults

accessVars == <<accounts, founded, members, invites, sessions, calls, bootstrapLock, memberLock, users, callsMade, accessFaults>>

Nobody == "nobody"
Founder == "founder"
NoCall == [at |-> "none"]
Roles == {"owner", "operator", "viewer"}

\* No request or invitation has the name that stands for none.
ASSUME NamesAssumption == Nobody \notin AccessRequests /\ Founder \notin Invites

CanManageMembers(role) == role = "owner"

MemberOf(u) == {m \in members : m.user = u}
ManagesMembers(u) == \E m \in MemberOf(u) : CanManageMembers(m.role)
Owners == {m \in members : m.role = "owner"}
AnyUserExists == \E p \in People : accounts[p] # 0

\* signUpEmail: one account to an address.
SignUp(p) == accounts' = [accounts EXCEPT ![p] = users + 1] /\ users' = users + 1
\* deleteUser takes the row, its sessions and its memberships, and only that row.
DeleteUser(u) ==
    /\ accounts' = [p \in People |-> IF accounts[p] = u THEN 0 ELSE accounts[p]]
    /\ sessions' = sessions \ {u}
    /\ members' = {m \in members : m.user # u}

StartCall(r, call) ==
    /\ calls[r] = NoCall /\ callsMade < MaxCallsMade
    /\ calls' = [calls EXCEPT ![r] = call]
    /\ callsMade' = callsMade + 1
    /\ UNCHANGED <<accounts, founded, members, invites, sessions, bootstrapLock, memberLock, users, accessFaults>>
Proceed(r, at) == calls' = [calls EXCEPT ![r].at = at]
EndCall(r) == calls' = [calls EXCEPT ![r] = NoCall]

-----------------------------------------------------------------------------
(* registerFirstOwner: offered while there is no account; looked at before and under the lock. *)
StartRegister(r, p) == ~AnyUserExists /\ StartCall(r, [at |-> "await lock", kind |-> "register", person |-> p, user |-> 0])

RegisterLocked(r) ==
    /\ calls[r].at = "await lock" /\ bootstrapLock = Nobody
    /\ bootstrapLock' = r
    /\ Proceed(r, "look again")
    /\ UNCHANGED <<accounts, founded, members, invites, sessions, memberLock, users, callsMade, accessFaults>>

\* Mutation of RegisterLooks: what was seen before the lock was had still stands.
RegisterLooksNot(r) ==
    /\ calls[r].at = "look again"
    /\ Proceed(r, "sign up") /\ UNCHANGED bootstrapLock
    /\ UNCHANGED <<accounts, founded, members, invites, sessions, memberLock, users, callsMade, accessFaults>>
RegisterLooks(r) ==
    /\ calls[r].at = "look again"
    /\ IF AnyUserExists THEN EndCall(r) /\ bootstrapLock' = Nobody ELSE Proceed(r, "sign up") /\ UNCHANGED bootstrapLock
    /\ UNCHANGED <<accounts, founded, members, invites, sessions, memberLock, users, callsMade, accessFaults>>

RegisterSignsUp(r) ==
    /\ calls[r].at = "sign up" /\ calls[r].kind = "register" /\ users < MaxUsers
    /\ IF accounts[calls[r].person] # 0 THEN EndCall(r) /\ bootstrapLock' = Nobody /\ UNCHANGED <<accounts, users>>
       ELSE /\ SignUp(calls[r].person) /\ UNCHANGED bootstrapLock
            /\ calls' = [calls EXCEPT ![r].at = "found", ![r].user = users + 1]
    /\ UNCHANGED <<founded, members, invites, sessions, memberLock, callsMade, accessFaults>>

\* createOrganization with its creator as owner; the page then signs them in.
RegisterFounds(r) ==
    /\ calls[r].at = "found"
    /\ founded' = founded + 1
    /\ members' = members \cup {[user |-> calls[r].user, role |-> "owner", via |-> Founder]}
    /\ sessions' = sessions \cup {calls[r].user}
    /\ EndCall(r) /\ bootstrapLock' = Nobody
    /\ UNCHANGED <<accounts, invites, memberLock, users, callsMade, accessFaults>>

\* The organisation cannot be made: the account is taken back.
FoundingFails(r) ==
    /\ calls[r].at = "found" /\ accessFaults < MaxAccessFaults
    /\ accessFaults' = accessFaults + 1
    /\ DeleteUser(calls[r].user)
    /\ EndCall(r) /\ bootstrapLock' = Nobody
    /\ UNCHANGED <<founded, invites, memberLock, users, callsMade>>

-----------------------------------------------------------------------------
(* Signing in, by password or single sign-on: never makes an account; only a member gets anywhere. *)
\* A new session is opened in the organisation its user belongs to.
OpensInOrganisation(u) == MemberOf(u) # {}
SignIn(p) ==
    /\ accounts[p] # 0 /\ OpensInOrganisation(accounts[p]) /\ accounts[p] \notin sessions
    /\ sessions' = sessions \cup {accounts[p]}
    /\ UNCHANGED <<accounts, founded, members, invites, calls, bootstrapLock, memberLock, users, callsMade, accessFaults>>

SignOut(u) ==
    /\ u \in sessions
    /\ sessions' = sessions \ {u}
    /\ UNCHANGED <<accounts, founded, members, invites, calls, bootstrapLock, memberLock, users, callsMade, accessFaults>>

\* resolveActor, requireCapability: asked once, when the request comes in.
Actors == {u \in sessions : ManagesMembers(u)}

-----------------------------------------------------------------------------
(* invite: the library looks whether the sender may and the person is neither a member nor invited, and inserts. *)
MayInvite(u, p) ==
    /\ ManagesMembers(u)
    /\ accounts[p] = 0 \/ MemberOf(accounts[p]) = {}
    /\ \A i \in Invites : ~(invites[i].status = "pending" /\ invites[i].person = p /\ ~invites[i].expired)

StartInvite(r, u, p, role) ==
    u \in Actors /\ StartCall(r, [at |-> "may invite", kind |-> "invite", caller |-> u, person |-> p, role |-> role])

InviteChecked(r) ==
    /\ calls[r].at = "may invite"
    /\ IF MayInvite(calls[r].caller, calls[r].person) THEN Proceed(r, "insert invitation") ELSE EndCall(r)
    /\ UNCHANGED <<accounts, founded, members, invites, sessions, bootstrapLock, memberLock, users, callsMade, accessFaults>>

InviteInserted(r, i) ==
    /\ calls[r].at = "insert invitation" /\ invites[i].status = "none"
    /\ invites' = [invites EXCEPT ![i] = [status |-> "pending", person |-> calls[r].person, role |-> calls[r].role,
                                          inviter |-> calls[r].caller, expired |-> FALSE, joined |-> 0]]
    /\ EndCall(r)
    /\ UNCHANGED <<accounts, founded, members, sessions, bootstrapLock, memberLock, users, callsMade, accessFaults>>

InviteExpires(i) ==
    /\ invites[i].status = "pending" /\ ~invites[i].expired
    /\ invites' = [invites EXCEPT ![i].expired = TRUE]
    /\ UNCHANGED <<accounts, founded, members, sessions, calls, bootstrapLock, memberLock, users, callsMade, accessFaults>>

\* A row a removal has changed and not yet committed keeps other writers waiting.
RowFree(i) == \A r \in AccessRequests : calls[r].at = "commit removal" => i \notin calls[r].cancelling

\* cancelInvitation
CancelInvitation(u, i) ==
    /\ u \in Actors /\ invites[i].status = "pending" /\ RowFree(i)
    /\ invites' = [invites EXCEPT ![i].status = "canceled"]
    /\ UNCHANGED <<accounts, founded, members, sessions, calls, bootstrapLock, memberLock, users, callsMade, accessFaults>>

-----------------------------------------------------------------------------
(* acceptInvitation: read, sign up, then the transaction: the inviter, the membership, the invitation. *)
StartAccept(r, i) ==
    /\ invites[i].status = "pending" /\ ~invites[i].expired
    /\ StartCall(r, [at |-> "sign up", kind |-> "accept", invite |-> i, row |-> invites[i], person |-> invites[i].person, user |-> 0])

AcceptSignsUp(r) ==
    /\ calls[r].at = "sign up" /\ calls[r].kind = "accept" /\ users < MaxUsers
    /\ IF accounts[calls[r].person] # 0 THEN EndCall(r) /\ UNCHANGED <<accounts, users>>
       ELSE /\ SignUp(calls[r].person)
            /\ calls' = [calls EXCEPT ![r].at = "inviter", ![r].user = users + 1]
    /\ UNCHANGED <<founded, members, invites, sessions, bootstrapLock, memberLock, callsMade, accessFaults>>

AcceptReadsInviter(r) ==
    /\ calls[r].at = "inviter"
    /\ Proceed(r, IF MemberOf(calls[r].row.inviter) = {} THEN "take account back" ELSE "join")
    /\ UNCHANGED <<accounts, founded, members, invites, sessions, bootstrapLock, memberLock, users, callsMade, accessFaults>>

\* The membership and the used invitation, or neither.
AcceptJoins(r) ==
    LET c == calls[r]  i == calls[r].invite IN
    /\ c.at = "join" /\ RowFree(i)
    /\ IF invites[i].status = "pending"
       THEN /\ members' = members \cup {[user |-> c.user, role |-> c.row.role, via |-> i]}
            /\ invites' = [invites EXCEPT ![i].status = "accepted", ![i].joined = @ + 1]
            /\ EndCall(r)
       ELSE Proceed(r, "take account back") /\ UNCHANGED <<members, invites>>
    /\ UNCHANGED <<accounts, founded, sessions, bootstrapLock, memberLock, users, callsMade, accessFaults>>

\* Mutation of AcceptUndone: the account made for an invitation that is gone stays.
AcceptUndoneNot(r) ==
    /\ calls[r].at = "take account back"
    /\ EndCall(r) /\ UNCHANGED <<accounts, sessions, members>>
    /\ UNCHANGED <<founded, invites, bootstrapLock, memberLock, users, callsMade, accessFaults>>
AcceptUndone(r) ==
    /\ calls[r].at = "take account back"
    /\ DeleteUser(calls[r].user)
    /\ EndCall(r)
    /\ UNCHANGED <<founded, invites, bootstrapLock, memberLock, users, callsMade, accessFaults>>

-----------------------------------------------------------------------------
(* remove *)
StartRemove(r, u, m) ==
    /\ u \in Actors /\ m \in members /\ m.user # u
    /\ StartCall(r, [at |-> "await members", kind |-> "remove", caller |-> u, target |-> m.user, cancelling |-> {}])

\* Mutation of MembersLockFree: removals do not wait for one another.
MembersLockFreeAlways == TRUE
MembersLockFree == memberLock = Nobody

RemoveLocked(r) ==
    /\ calls[r].at = "await members" /\ MembersLockFree
    /\ memberLock' = r
    /\ Proceed(r, "decide")
    /\ UNCHANGED <<accounts, founded, members, invites, sessions, bootstrapLock, users, callsMade, accessFaults>>

\* The caller still manages members, the target is there and not the last owner.
RemoveDecides(r) ==
    LET c == calls[r]  target == MemberOf(c.target)
        allowed == /\ ManagesMembers(c.caller) /\ target # {}
                   /\ (\E m \in target : m.role = "owner") => Cardinality(Owners) > 1
    IN
    /\ c.at = "decide"
    /\ IF allowed THEN Proceed(r, "cancel invitations") /\ UNCHANGED memberLock ELSE EndCall(r) /\ memberLock' = Nobody
    /\ UNCHANGED <<accounts, founded, members, invites, sessions, bootstrapLock, users, callsMade, accessFaults>>

RemoveCancels(r) ==
    /\ calls[r].at = "cancel invitations"
    /\ calls' = [calls EXCEPT ![r].at = "commit removal",
                   ![r].cancelling = {i \in Invites : invites[i].status = "pending" /\ invites[i].inviter = calls[r].target}]
    /\ UNCHANGED <<accounts, founded, members, invites, sessions, bootstrapLock, memberLock, users, callsMade, accessFaults>>

RemoveCommits(r) ==
    /\ calls[r].at = "commit removal"
    /\ members' = members \ MemberOf(calls[r].target)
    /\ invites' = [i \in Invites |-> IF i \in calls[r].cancelling THEN [invites[i] EXCEPT !.status = "canceled"] ELSE invites[i]]
    /\ memberLock' = Nobody
    /\ Proceed(r, "end access")
    /\ UNCHANGED <<accounts, founded, sessions, bootstrapLock, users, callsMade, accessFaults>>

\* endRemovedMemberAccess: nobody belongs to another organisation here, so the account goes.
RemoveEndsAccess(r) ==
    /\ calls[r].at = "end access"
    /\ IF MemberOf(calls[r].target) = {} THEN DeleteUser(calls[r].target) ELSE UNCHANGED <<accounts, sessions, members>>
    /\ EndCall(r)
    /\ UNCHANGED <<founded, invites, bootstrapLock, memberLock, users, callsMade, accessFaults>>

-----------------------------------------------------------------------------
\* A request fails for a reason of its own (the database, or the process dies): its transaction is rolled
\* back, its locks are freed, and what it had committed stays.
CallDies(r) ==
    /\ calls[r] # NoCall /\ accessFaults < MaxAccessFaults
    /\ accessFaults' = accessFaults + 1
    /\ EndCall(r)
    /\ bootstrapLock' = IF bootstrapLock = r THEN Nobody ELSE bootstrapLock
    /\ memberLock' = IF memberLock = r THEN Nobody ELSE memberLock
    /\ UNCHANGED <<accounts, founded, members, invites, sessions, users, callsMade>>

AccessInit ==
    /\ accounts = [p \in People |-> 0] /\ founded = 0 /\ members = {} /\ sessions = {}
    /\ invites = [i \in Invites |-> [status |-> "none"]]
    /\ calls = [r \in AccessRequests |-> NoCall]
    /\ bootstrapLock = Nobody /\ memberLock = Nobody
    /\ users = 0 /\ callsMade = 0 /\ accessFaults = 0

AccessNext ==
    \/ \E r \in AccessRequests :
         \/ RegisterLocked(r) \/ RegisterLooks(r) \/ RegisterSignsUp(r) \/ RegisterFounds(r) \/ FoundingFails(r)
         \/ InviteChecked(r) \/ \E i \in Invites : InviteInserted(r, i) \/ StartAccept(r, i)
         \/ AcceptSignsUp(r) \/ AcceptReadsInviter(r) \/ AcceptJoins(r) \/ AcceptUndone(r)
         \/ RemoveLocked(r) \/ RemoveDecides(r) \/ RemoveCancels(r) \/ RemoveCommits(r) \/ RemoveEndsAccess(r) \/ CallDies(r)
         \/ \E p \in People : StartRegister(r, p)
         \/ \E u \in sessions, p \in People, role \in Roles : StartInvite(r, u, p, role)
         \/ \E u \in sessions, m \in members : StartRemove(r, u, m)
    \/ \E p \in People : SignIn(p)
    \/ \E u \in sessions : SignOut(u) \/ \E i \in Invites : CancelInvitation(u, i)
    \/ \E i \in Invites : InviteExpires(i)

AccessSpec == AccessInit /\ [][AccessNext]_accessVars

-----------------------------------------------------------------------------
(* Properties. *)

\* One deployment has one organisation, and once it is there it keeps an owner: whatever owners do to one
\* another at the same time, and however many register first.
OwnersRemain == founded <= 1 /\ (founded = 1 => Owners # {})

\* The request that looks after an account.
LooksAfter(r, u) == \E f \in DOMAIN calls[r] \cap {"user", "target"} : calls[r][f] = u
\* An invitation lets in one person, and only while it waits; and an account that belongs to nobody's
\* membership is still being made or taken back, unless a request failed on the way.
InvitationsWorkOnce ==
    /\ \A i \in Invites : Cardinality({m \in members : m.via = i}) <= 1
    /\ \A m \in members : m.via # Founder => invites[m.via].status = "accepted" /\ invites[m.via].joined = 1
    /\ accessFaults = 0 => \A p \in People : accounts[p] # 0 =>
         MemberOf(accounts[p]) # {} \/ \E r \in AccessRequests : LooksAfter(r, accounts[p])

\* Who may enter, and that somebody can always let others in (registration, acceptance, removal).
AccessIsKept == OwnersRemain /\ InvitationsWorkOnce
=============================================================================
