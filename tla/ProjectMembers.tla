--------------------------- MODULE ProjectMembers ---------------------------
(***************************************************************************)
(* Who belongs to a project: invitations, their acceptance, and the managers *)
(* who change roles and remove members.  Every call checks what it read some *)
(* awaits ago, the roles guard what it cached up to a minute ago.            *)
(***************************************************************************)
EXTENDS Naturals, FiniteSets

CONSTANTS
    MemberCalls,  \* API calls, each of them made once
    Users,
    Creator,      \* the user who made the project
    Managers,     \* those it has when the calls begin
    NoCall,
    Asks          \* what each call may ask for

Roles == {"manager", "agent"}

\* An invitation is known by the call that made it, a user by the email.
Ask ==
    [kind : {"invite", "role"}, by : Users, user : Users, role : Roles, invite : {NoCall}]
        \union [kind : {"remove"}, by : Users, user : Users, role : {"agent"}, invite : {NoCall}]
        \union [kind : {"accept", "cancel"}, by : Users, user : Users, role : {"agent"},
                invite : MemberCalls]

ASSUME MembersAssumption ==
    /\ Asks \in [MemberCalls -> SUBSET Ask]
    /\ Managers \subseteq Users
    /\ Creator \in Managers
    /\ NoCall \notin MemberCalls

VARIABLES
    member,      \* project_members: the role of a user, and the call that made the row
    invitation,  \* invitations by the call that made them
    guard,       \* the roles guard's cache of memberships
    ask,         \* what each call asks for
    step,        \* how far it came
    copy,        \* the entity it read
    unmanaged    \* a call of someone who was no manager any more changed the members

memberVars == <<member, invitation, guard, ask, step, copy, unmanaged>>

-----------------------------------------------------------------------------
(* Types *)

\* made is the call that inserted the row, NoCall for one from before the calls.
Membership == [role : Roles \union {"none"}, made : MemberCalls \union {NoCall}]

Invitation == [status : {"none", "pending", "accepted", "expired"}, user : Users,
               role : Roles, late : BOOLEAN]

Entity == [membership : Membership, invitation : Invitation]

MembersTypeOK ==
    /\ member \in [Users -> Membership]
    /\ invitation \in [MemberCalls -> Invitation]
    /\ guard \in [Users -> Roles \union {"none"}]
    /\ ask \in [MemberCalls -> Ask]
    /\ step \in [MemberCalls -> {"idle", "admitted", "checked", "found", "done", "refused"}]
    /\ copy \in [MemberCalls -> Entity]
    /\ unmanaged \in BOOLEAN

Outsider == [role |-> "none", made |-> NoCall]
NoInvitation == [status |-> "none", user |-> Creator, role |-> "agent", late |-> FALSE]
Nothing == [membership |-> Outsider, invitation |-> NoInvitation]

Visit == [kind |-> "remove", by |-> Creator, user |-> Creator, role |-> "agent",
          invite |-> NoCall]

\* create makes the creator the project's manager; others have joined since.
MembersInit ==
    /\ member = [u \in Users |->
                    IF u \in Managers THEN [role |-> "manager", made |-> NoCall] ELSE Outsider]
    /\ invitation = [c \in MemberCalls |-> NoInvitation]
    /\ guard = [u \in Users |-> "none"]
    /\ ask = [c \in MemberCalls |-> Visit]
    /\ step = [c \in MemberCalls |-> "idle"]
    /\ copy = [c \in MemberCalls |-> Nothing]
    /\ unmanaged = FALSE

-----------------------------------------------------------------------------
(* The roles guard *)

IsMember(u) == member[u].role # "none"
IsManager(u) == member[u].role = "manager"

Goes(c, to) == step' = [step EXCEPT ![c] = to]

\* The cached membership when there is one, otherwise the row, which is cached.
GuardRole(u) == IF guard[u] # "none" THEN guard[u] ELSE member[u].role

Admit(c, a) ==
    /\ step[c] = "idle"
    /\ ask' = [ask EXCEPT ![c] = a]
    /\ IF a.kind = "accept"
       THEN Goes(c, "admitted") /\ UNCHANGED guard
       ELSE /\ guard' = [guard EXCEPT ![a.by] = GuardRole(a.by)]
            /\ Goes(c, IF GuardRole(a.by) = "manager" THEN "admitted" ELSE "refused")
    /\ UNCHANGED <<member, invitation, copy, unmanaged>>

\* The minute of a cached membership is over.
Forget(u) ==
    /\ guard[u] # "none"
    /\ guard' = [guard EXCEPT ![u] = "none"]
    /\ UNCHANGED <<member, invitation, ask, step, copy, unmanaged>>

-----------------------------------------------------------------------------
(* createInvitation *)

\* The inviter is a manager by the row, the user is no member yet.
CheckInvitee(c) ==
    /\ step[c] = "admitted"
    /\ ask[c].kind = "invite"
    /\ Goes(c, IF IsManager(ask[c].by) /\ ~IsMember(ask[c].user) THEN "checked" ELSE "refused")
    /\ UNCHANGED <<member, invitation, guard, ask, copy, unmanaged>>

HasPending(u) ==
    \E i \in MemberCalls : invitation[i].status = "pending" /\ invitation[i].user = u

CheckPending(c) ==
    /\ step[c] = "checked"
    /\ ask[c].kind = "invite"
    /\ Goes(c, IF HasPending(ask[c].user) THEN "refused" ELSE "found")
    /\ UNCHANGED <<member, invitation, guard, ask, copy, unmanaged>>

\* Saved, and mailed.
Invite(c) ==
    /\ step[c] = "found"
    /\ ask[c].kind = "invite"
    /\ invitation' = [invitation EXCEPT ![c] = [status |-> "pending", user |-> ask[c].user,
                                                role |-> ask[c].role, late |-> FALSE]]
    /\ Goes(c, "done")
    /\ UNCHANGED <<member, guard, ask, copy, unmanaged>>

\* Seven days have passed.
Lapse(i) ==
    /\ invitation[i].status = "pending"
    /\ ~invitation[i].late
    /\ invitation' = [invitation EXCEPT ![i].late = TRUE]
    /\ UNCHANGED <<member, guard, ask, step, copy, unmanaged>>

-----------------------------------------------------------------------------
(* acceptInvitation *)

\* save of the invitation that was read: an UPDATE, or an INSERT when the row was
\* cancelled before save looked for it, or no row when it was cancelled after.
SaveInvitation(c, i, status) ==
    \/ /\ invitation[i].status # "none"
       /\ invitation' = [invitation EXCEPT ![i].status = status]
    \/ /\ invitation[i].status = "none"
       /\ invitation' = [invitation EXCEPT ![i] = [copy[c].invitation EXCEPT !.status = status]]
    \/ /\ invitation[i].status = "none"
       /\ UNCHANGED invitation

FindInvitation(c) ==
    LET i == ask[c].invite
        x == invitation[i]
        usable == x.status = "pending" /\ ~x.late /\ x.user = ask[c].by
    IN  /\ step[c] = "admitted"
        /\ ask[c].kind = "accept"
        /\ copy' = [copy EXCEPT ![c].invitation = x]
        /\ Goes(c, IF usable THEN "checked" ELSE "refused")
        /\ invitation' = [invitation EXCEPT ![i].status =
                             IF x.status = "pending" /\ x.late THEN "expired" ELSE @]
        /\ UNCHANGED <<member, guard, ask, unmanaged>>

\* A member already: the invitation is used up and the call answers 409.
CheckMembership(c) ==
    /\ step[c] = "checked"
    /\ ask[c].kind = "accept"
    /\ \/ /\ ~IsMember(ask[c].by)
          /\ Goes(c, "found")
          /\ UNCHANGED invitation
       \/ /\ IsMember(ask[c].by)
          /\ SaveInvitation(c, ask[c].invite, "accepted")
          /\ Goes(c, "refused")
    /\ UNCHANGED <<member, guard, ask, copy, unmanaged>>

\* The membership alone.
JoinWithoutSaving(c) ==
    LET u == ask[c].by
    IN  /\ step[c] = "found"
        /\ ask[c].kind = "accept"
        /\ ~IsMember(u)
        /\ member' = [member EXCEPT ![u] = [role |-> copy[c].invitation.role, made |-> c]]
        /\ Goes(c, "done")
        /\ UNCHANGED <<guard, ask, copy, unmanaged, invitation>>

\* One transaction inserts the membership and saves the invitation; the unique key
\* of the membership rolls both back.
Join(c) ==
    LET u == ask[c].by
    IN  /\ step[c] = "found"
        /\ ask[c].kind = "accept"
        /\ \/ /\ ~IsMember(u)
              /\ member' = [member EXCEPT ![u] = [role |-> copy[c].invitation.role, made |-> c]]
              /\ SaveInvitation(c, ask[c].invite, "accepted")
              /\ Goes(c, "done")
           \/ /\ IsMember(u)
              /\ Goes(c, "refused")
              /\ UNCHANGED <<member, invitation>>
        /\ UNCHANGED <<guard, ask, copy, unmanaged>>

-----------------------------------------------------------------------------
(* cancelInvitation, updateMemberRole, removeMember *)

FindCancelled(c) ==
    /\ step[c] = "admitted"
    /\ ask[c].kind = "cancel"
    /\ Goes(c, IF invitation[ask[c].invite].status # "none" /\ IsManager(ask[c].by)
               THEN "found" ELSE "refused")
    /\ UNCHANGED <<member, invitation, guard, ask, copy, unmanaged>>

\* The invitation is marked instead of deleted, with a status the table does not know.
MarkCancelled(c) ==
    /\ step[c] = "found"
    /\ ask[c].kind = "cancel"
    /\ invitation' = [invitation EXCEPT ![ask[c].invite].status = "cancelled"]
    /\ Goes(c, "done")
    /\ UNCHANGED <<member, guard, ask, copy, unmanaged>>

\* Whatever its status: an accepted invitation goes too.
Cancel(c) ==
    /\ step[c] = "found"
    /\ ask[c].kind = "cancel"
    /\ invitation' = [invitation EXCEPT ![ask[c].invite] = NoInvitation]
    /\ Goes(c, "done")
    /\ UNCHANGED <<member, guard, ask, copy, unmanaged>>

\* A manager may act on himself.
CheckMember(c) ==
    /\ step[c] = "admitted"
    /\ ask[c].kind \in {"role", "remove"}
    /\ Goes(c, IF IsMember(ask[c].by) THEN "checked" ELSE "refused")
    /\ UNCHANGED <<member, invitation, guard, ask, copy, unmanaged>>

\* validateProjectMembership: the caller is a member, in whatever role.
CheckCaller(c) ==
    /\ step[c] = "admitted"
    /\ ask[c].kind \in {"role", "remove"}
    /\ Goes(c, IF IsMember(ask[c].by) /\ ask[c].by # ask[c].user THEN "checked" ELSE "refused")
    /\ UNCHANGED <<member, invitation, guard, ask, copy, unmanaged>>

FindMember(c) ==
    /\ step[c] = "checked"
    /\ ask[c].kind \in {"role", "remove"}
    /\ copy' = [copy EXCEPT ![c].membership = member[ask[c].user]]
    /\ Goes(c, IF IsMember(ask[c].user) THEN "found" ELSE "refused")
    /\ UNCHANGED <<member, invitation, guard, ask, unmanaged>>

\* The row that was read is still there.
SameRow(c) == /\ IsMember(ask[c].user)
              /\ member[ask[c].user].made = copy[c].membership.made

Unmanaged(c) == unmanaged' = (unmanaged \/ ~IsManager(ask[c].by))

\* save of the membership: without its row it is inserted again, unless the user
\* has another row by then.
ChangeRole(c) ==
    LET u == ask[c].user
    IN  /\ step[c] = "found"
        /\ ask[c].kind = "role"
        /\ \/ /\ SameRow(c) \/ ~IsMember(u)
              /\ member' = [member EXCEPT ![u] = [role |-> ask[c].role,
                                                  made |-> copy[c].membership.made]]
              /\ Goes(c, "done")
              /\ Unmanaged(c)
           \/ /\ IsMember(u) => ~SameRow(c)
              /\ Goes(c, "refused")
              /\ UNCHANGED <<member, unmanaged>>
        /\ UNCHANGED <<invitation, guard, ask, copy>>

Remove(c) ==
    LET u == ask[c].user
    IN  /\ step[c] = "found"
        /\ ask[c].kind = "remove"
        /\ member' = [member EXCEPT ![u] = IF SameRow(c) THEN Outsider ELSE @]
        /\ Goes(c, "done")
        /\ Unmanaged(c)
        /\ UNCHANGED <<invitation, guard, ask, copy>>

MembersNext ==
    \/ \E c \in MemberCalls :
          \/ \E a \in Asks[c] : Admit(c, a)
          \/ CheckInvitee(c) \/ CheckPending(c) \/ Invite(c) \/ Lapse(c)
          \/ FindInvitation(c) \/ CheckMembership(c) \/ Join(c)
          \/ FindCancelled(c) \/ Cancel(c)
          \/ CheckCaller(c) \/ FindMember(c) \/ ChangeRole(c) \/ Remove(c)
    \/ \E u \in Users : Forget(u)

MembersSpec == MembersInit /\ [][MembersNext]_memberVars

-----------------------------------------------------------------------------
(* Properties *)

\* A project has a manager as long as nobody changes roles or members after having
\* lost the role: nobody can demote or remove himself.
ManagedUnlessStale == ~unmanaged => \E u \in Users : IsManager(u)

\* Nobody is in the project while the invitation that let him in can be used again.
InvitationsAreUsedUp ==
    \A u \in Users : IsMember(u) /\ member[u].made # NoCall
        => invitation[ask[member[u].made].invite].status # "pending"
=============================================================================
