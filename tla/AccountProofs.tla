---------------------------- MODULE AccountProofs ----------------------------
(***************************************************************************)
(* Theorems about the accounts: the members of a project (ProjectMembers),    *)
(* the sessions of a user (UserSessions) and that of an agent's browser        *)
(* (AgentSession), for any users, calls, limits and lifetimes.                *)
(***************************************************************************)
EXTENDS ProjectMembers, UserSessions, AgentSession, FiniteSetTheorems, TLAPS

-----------------------------------------------------------------------------
(* Members of a project: types *)

Point == {"idle", "admitted", "checked", "found", "done", "refused"}

\* What is known of a call and of what it asks for.
LEMMA AskFacts ==
    ASSUME MembersTypeOK, NEW c \in MemberCalls
    PROVE  /\ ask[c] \in Ask /\ ask[c].by \in Users /\ ask[c].user \in Users
           /\ ask[c].role \in Roles
           /\ ask[c].kind \in {"accept", "cancel"} => ask[c].invite \in MemberCalls
           /\ copy[c].membership \in Membership /\ copy[c].invitation \in Invitation
           /\ step[c] \in Point
  <1>1. ask[c] \in Ask /\ copy[c] \in Entity /\ step[c] \in Point
    BY DEF MembersTypeOK, Point
  <1>2. copy[c].membership \in Membership /\ copy[c].invitation \in Invitation
    BY <1>1 DEF Entity
  <1> QED  BY <1>1, <1>2 DEF Ask, Roles

LEMMA GoesType ==
    ASSUME MembersTypeOK, NEW c \in MemberCalls, NEW to \in Point, Goes(c, to)
    PROVE  step' \in [MemberCalls -> Point]
  BY DEF MembersTypeOK, Goes, Point

LEMMA InvitationsType ==
    ASSUME MembersTypeOK, NEW i \in MemberCalls, NEW x \in Invitation,
           invitation' = [invitation EXCEPT ![i] = x]
    PROVE  invitation' \in [MemberCalls -> Invitation]
  BY DEF MembersTypeOK

\* What save leaves of an invitation: nothing of the others changes.
LEMMA SaveInvitationFacts ==
    ASSUME MembersTypeOK, NEW c \in MemberCalls, NEW i \in MemberCalls,
           NEW status \in {"accepted", "expired"}, SaveInvitation(c, i, status)
    PROVE  /\ invitation' \in [MemberCalls -> Invitation]
           /\ \A j \in MemberCalls \ {i} : invitation'[j] = invitation[j]
           /\ invitation'[i].status \in {status, "none"}
  <1>1. copy[c].invitation \in Invitation /\ invitation[i] \in Invitation
    BY AskFacts DEF MembersTypeOK
  <1>2. CASE invitation' = [invitation EXCEPT ![i].status = status]
    <2>1. [invitation[i] EXCEPT !.status = status] \in Invitation
      BY <1>1 DEF Invitation
    <2> QED  BY <1>1, <1>2, <2>1 DEF MembersTypeOK, Invitation
  <1>3. CASE invitation' = [invitation EXCEPT
                              ![i] = [copy[c].invitation EXCEPT !.status = status]]
    <2>1. /\ [copy[c].invitation EXCEPT !.status = status] \in Invitation
          /\ [copy[c].invitation EXCEPT !.status = status].status = status
      BY <1>1 DEF Invitation
    <2> QED  BY <1>3, <2>1 DEF MembersTypeOK
  <1>4. CASE invitation[i].status = "none" /\ UNCHANGED invitation
    BY <1>4 DEF MembersTypeOK
  <1> QED  BY <1>2, <1>3, <1>4 DEF SaveInvitation

LEMMA MembersTypeInit ==
    MembersInit => MembersTypeOK
  <1> SUFFICES ASSUME MembersInit PROVE MembersTypeOK
    OBVIOUS
  <1>1. Creator \in Users /\ Managers \subseteq Users
    BY MembersAssumption DEF MembersAssumption
  <1>2. NoInvitation \in Invitation /\ Outsider \in Membership
    BY <1>1 DEF NoInvitation, Invitation, Outsider, Membership, Roles
  <1>3. Nothing \in Entity
    BY <1>2 DEF Nothing, Entity
  <1>4. Visit \in Ask
    BY <1>1 DEF Visit, Ask
  <1>5. [role |-> "manager", made |-> NoCall] \in Membership
    BY DEF Membership, Roles
  <1> QED  BY <1>2, <1>3, <1>4, <1>5 DEF MembersInit, MembersTypeOK, Roles

\* The steps that change nothing but how far their call came.
Checking(c) ==
    CheckInvitee(c) \/ CheckPending(c) \/ FindCancelled(c) \/ CheckCaller(c)

LEMMA CheckingFacts ==
    ASSUME NEW c \in MemberCalls, Checking(c)
    PROVE  /\ \E to \in {"checked", "found", "refused"} : Goes(c, to)
           /\ step[c] \in {"admitted", "checked"}
           /\ UNCHANGED <<member, invitation, guard, ask, copy, unmanaged>>
  BY DEF Checking, CheckInvitee, CheckPending, FindCancelled, CheckCaller

LEMMA MembersTypeStep ==
    MembersTypeOK /\ [MembersNext]_memberVars => MembersTypeOK'
  <1> SUFFICES ASSUME MembersTypeOK, [MembersNext]_memberVars PROVE MembersTypeOK'
    OBVIOUS
  <1>1. CASE UNCHANGED memberVars
    BY <1>1 DEF memberVars, MembersTypeOK
  <1>2. ASSUME NEW u \in Users, Forget(u) PROVE MembersTypeOK'
    BY <1>2 DEF Forget, MembersTypeOK
  <1>3. ASSUME NEW c \in MemberCalls, NEW a \in Asks[c], Admit(c, a) PROVE MembersTypeOK'
    <2>1. a \in Ask
      BY MembersAssumption DEF MembersAssumption
    <2>2. a.by \in Users
      BY <2>1 DEF Ask
    <2>3. ask' \in [MemberCalls -> Ask]
      BY <1>3, <2>1 DEF Admit, MembersTypeOK
    <2>4. GuardRole(a.by) \in Roles \union {"none"}
      BY <2>2 DEF GuardRole, MembersTypeOK, Membership
    <2>5. guard' \in [Users -> Roles \union {"none"}]
      BY <1>3, <2>4 DEF Admit, MembersTypeOK
    <2>6. PICK to \in {"admitted", "refused"} : Goes(c, to)
      BY <1>3 DEF Admit
    <2>7. step' \in [MemberCalls -> Point]
      BY <2>6, GoesType DEF Point
    <2> QED  BY <1>3, <2>3, <2>5, <2>7 DEF Admit, MembersTypeOK, Point
  <1>4. ASSUME NEW c \in MemberCalls, Checking(c) PROVE MembersTypeOK'
    <2>1. step' \in [MemberCalls -> Point]
      BY <1>4, CheckingFacts, GoesType DEF Point
    <2> QED  BY <1>4, <2>1, CheckingFacts DEF MembersTypeOK, Point
  <1>5. ASSUME NEW c \in MemberCalls, Invite(c) PROVE MembersTypeOK'
    <2>1. [status |-> "pending", user |-> ask[c].user, role |-> ask[c].role, late |-> FALSE]
             \in Invitation
      BY AskFacts DEF Invitation
    <2>2. invitation' \in [MemberCalls -> Invitation]
      BY <1>5, <2>1 DEF Invite, MembersTypeOK
    <2>3. step' \in [MemberCalls -> Point]
      BY <1>5, GoesType DEF Invite, Point
    <2> QED  BY <1>5, <2>2, <2>3 DEF Invite, MembersTypeOK, Point
  <1>6. ASSUME NEW i \in MemberCalls, Lapse(i) PROVE MembersTypeOK'
    <2>1. [invitation[i] EXCEPT !.late = TRUE] \in Invitation
      BY DEF MembersTypeOK, Invitation
    <2> QED  BY <1>6, <2>1 DEF Lapse, MembersTypeOK
  <1>7. ASSUME NEW c \in MemberCalls, FindInvitation(c) PROVE MembersTypeOK'
    <2> DEFINE i == ask[c].invite
               to == IF invitation[i].status = "pending" /\ invitation[i].late
                     THEN "expired" ELSE invitation[i].status
    <2>1. i \in MemberCalls /\ copy[c] \in Entity
      BY <1>7, AskFacts DEF FindInvitation, MembersTypeOK
    <2>2. invitation[i] \in Invitation
      BY <2>1 DEF MembersTypeOK
    <2>3. [invitation[i] EXCEPT !.status = to] \in Invitation
      BY <2>2 DEF Invitation
    <2>4. invitation' \in [MemberCalls -> Invitation]
      BY <1>7, <2>1, <2>3 DEF FindInvitation, MembersTypeOK
    <2>5. [copy[c] EXCEPT !.invitation = invitation[i]] \in Entity
      BY <2>1, <2>2 DEF Entity
    <2>6. copy' \in [MemberCalls -> Entity]
      BY <1>7, <2>5 DEF FindInvitation, MembersTypeOK
    <2>7. PICK way \in {"checked", "refused"} : Goes(c, way)
      BY <1>7 DEF FindInvitation
    <2>8. step' \in [MemberCalls -> Point]
      BY <2>7, GoesType DEF Point
    <2> QED  BY <1>7, <2>4, <2>6, <2>8 DEF FindInvitation, MembersTypeOK, Point
  <1>8. ASSUME NEW c \in MemberCalls, CheckMembership(c) PROVE MembersTypeOK'
    <2>1. ask[c].invite \in MemberCalls
      BY <1>8, AskFacts DEF CheckMembership
    <2>2. invitation' \in [MemberCalls -> Invitation]
      BY <1>8, <2>1, SaveInvitationFacts DEF CheckMembership, MembersTypeOK
    <2>3. PICK way \in {"found", "refused"} : Goes(c, way)
      BY <1>8 DEF CheckMembership
    <2>4. step' \in [MemberCalls -> Point]
      BY <2>3, GoesType DEF Point
    <2> QED  BY <1>8, <2>2, <2>4 DEF CheckMembership, MembersTypeOK, Point
  <1>9. ASSUME NEW c \in MemberCalls, Join(c) PROVE MembersTypeOK'
    <2>1. ask[c].invite \in MemberCalls /\ ask[c].by \in Users
      BY <1>9, AskFacts DEF Join
    <2>2. invitation' \in [MemberCalls -> Invitation]
      BY <1>9, <2>1, SaveInvitationFacts DEF Join, MembersTypeOK
    <2>3. [role |-> copy[c].invitation.role, made |-> c] \in Membership
      BY AskFacts DEF Invitation, Membership
    <2>4. member' \in [Users -> Membership]
      BY <1>9, <2>1, <2>3 DEF Join, MembersTypeOK
    <2>5. PICK way \in {"done", "refused"} : Goes(c, way)
      BY <1>9 DEF Join
    <2>6. step' \in [MemberCalls -> Point]
      BY <2>5, GoesType DEF Point
    <2> QED  BY <1>9, <2>2, <2>4, <2>6 DEF Join, MembersTypeOK, Point
  <1>10. ASSUME NEW c \in MemberCalls, Cancel(c) PROVE MembersTypeOK'
    <2>1. ask[c].invite \in MemberCalls
      BY <1>10, AskFacts DEF Cancel
    <2>2. NoInvitation \in Invitation
      BY MembersAssumption DEF MembersAssumption, NoInvitation, Invitation, Roles
    <2>3. invitation' \in [MemberCalls -> Invitation]
      BY <1>10, <2>1, <2>2 DEF Cancel, MembersTypeOK
    <2>4. step' \in [MemberCalls -> Point]
      BY <1>10, GoesType DEF Cancel, Point
    <2> QED  BY <1>10, <2>3, <2>4 DEF Cancel, MembersTypeOK, Point
  <1>11. ASSUME NEW c \in MemberCalls, FindMember(c) PROVE MembersTypeOK'
    <2>1. member[ask[c].user] \in Membership /\ copy[c] \in Entity
      BY AskFacts DEF MembersTypeOK
    <2>2. [copy[c] EXCEPT !.membership = member[ask[c].user]] \in Entity
      BY <2>1 DEF Entity
    <2>3. copy' \in [MemberCalls -> Entity]
      BY <1>11, <2>2 DEF FindMember, MembersTypeOK
    <2>4. PICK way \in {"found", "refused"} : Goes(c, way)
      BY <1>11 DEF FindMember
    <2>5. step' \in [MemberCalls -> Point]
      BY <2>4, GoesType DEF Point
    <2> QED  BY <1>11, <2>3, <2>5 DEF FindMember, MembersTypeOK, Point
  <1>12. ASSUME NEW c \in MemberCalls, ChangeRole(c) PROVE MembersTypeOK'
    <2>1. [role |-> ask[c].role, made |-> copy[c].membership.made] \in Membership
      BY AskFacts DEF Membership
    <2>2. member' \in [Users -> Membership]
      BY <1>12, <2>1 DEF ChangeRole, MembersTypeOK
    <2>3. PICK way \in {"done", "refused"} : Goes(c, way)
      BY <1>12 DEF ChangeRole
    <2>4. step' \in [MemberCalls -> Point]
      BY <2>3, GoesType DEF Point
    <2>5. unmanaged' \in BOOLEAN
      BY <1>12 DEF ChangeRole, Unmanaged, IsManager, MembersTypeOK
    <2> QED  BY <1>12, <2>2, <2>4, <2>5 DEF ChangeRole, MembersTypeOK, Point
  <1>13. ASSUME NEW c \in MemberCalls, Remove(c) PROVE MembersTypeOK'
    <2>1. Outsider \in Membership
      BY DEF Outsider, Membership
    <2>2. member' \in [Users -> Membership]
      BY <1>13, <2>1 DEF Remove, MembersTypeOK
    <2>3. step' \in [MemberCalls -> Point]
      BY <1>13, GoesType DEF Remove, Point
    <2>4. unmanaged' \in BOOLEAN
      BY <1>13 DEF Remove, Unmanaged, IsManager, MembersTypeOK
    <2> QED  BY <1>13, <2>2, <2>3, <2>4 DEF Remove, MembersTypeOK, Point
  <1> QED
    BY <1>1, <1>2, <1>3, <1>4, <1>5, <1>6, <1>7, <1>8, <1>9, <1>10, <1>11, <1>12, <1>13
    DEF MembersNext, Checking

\* Members, invitations and calls keep their types.
THEOREM MembersTypeCorrect == MembersSpec => []MembersTypeOK
  BY MembersTypeInit, MembersTypeStep, PTL DEF MembersSpec

-----------------------------------------------------------------------------
(* A project keeps a manager *)

\* Past the check of the caller, nobody acts on himself.
OnAnother(c) ==
    step[c] \in {"checked", "found"} /\ ask[c].kind \in {"role", "remove"}
        => ask[c].by # ask[c].user

ManagedInv ==
    /\ \A c \in MemberCalls : OnAnother(c)
    /\ ManagedUnlessStale

LEMMA ManagedInit ==
    MembersInit => ManagedInv
  <1> SUFFICES ASSUME MembersInit PROVE ManagedInv
    OBVIOUS
  <1>1. Creator \in Users /\ Creator \in Managers
    BY MembersAssumption DEF MembersAssumption
  <1>2. IsManager(Creator)
    BY <1>1 DEF MembersInit, IsManager
  <1> QED  BY <1>1, <1>2 DEF MembersInit, ManagedInv, OnAnother, ManagedUnlessStale

\* A step leaves the calls alone but for its own, which keeps what it asks for once it
\* is past the guard.
Alone(c) ==
    /\ \A e \in MemberCalls \ {c} : step'[e] = step[e] /\ ask'[e] = ask[e]
    /\ step[c] # "idle" => ask'[c] = ask[c]

LEMMA GoesAlone ==
    ASSUME MembersTypeOK, NEW c \in MemberCalls, NEW to, Goes(c, to), UNCHANGED ask
    PROVE  Alone(c) /\ step'[c] = to
  BY DEF MembersTypeOK, Goes, Alone

\* A call that is past the guard already stays on another.
LEMMA OnAnotherKept ==
    ASSUME ManagedInv, NEW c \in MemberCalls, Alone(c), OnAnother(c)'
    PROVE  \A e \in MemberCalls : OnAnother(e)'
  BY DEF ManagedInv, Alone, OnAnother

LEMMA OnAnotherStep ==
    ASSUME MembersTypeOK, ManagedInv, MembersNext
    PROVE  \A e \in MemberCalls : OnAnother(e)'
  <1>1. ASSUME NEW u \in Users, Forget(u) PROVE \A e \in MemberCalls : OnAnother(e)'
    BY <1>1 DEF Forget, ManagedInv, OnAnother
  <1>2. ASSUME NEW i \in MemberCalls, Lapse(i) PROVE \A e \in MemberCalls : OnAnother(e)'
    BY <1>2 DEF Lapse, ManagedInv, OnAnother
  <1>3. ASSUME NEW c \in MemberCalls, NEW a \in Asks[c], Admit(c, a)
        PROVE  \A e \in MemberCalls : OnAnother(e)'
    <2>1. Alone(c) /\ step'[c] \in {"admitted", "refused"}
      BY <1>3 DEF Admit, Goes, Alone, MembersTypeOK
    <2>2. OnAnother(c)'
      BY <2>1 DEF OnAnother
    <2> QED  BY <2>1, <2>2, OnAnotherKept
  <1>4. ASSUME NEW c \in MemberCalls, Checking(c) PROVE \A e \in MemberCalls : OnAnother(e)'
    <2>1. PICK to \in {"checked", "found", "refused"} : Goes(c, to) /\ UNCHANGED ask
      BY <1>4, CheckingFacts
    <2>2. Alone(c) /\ step'[c] = to /\ ask'[c] = ask[c]
      BY <2>1, GoesAlone
    <2>3. CASE CheckCaller(c)
      <3>1. to = "checked" => ask[c].by # ask[c].user
        BY <2>2, <2>3 DEF CheckCaller, Goes, MembersTypeOK
      <3>2. to # "found"
        BY <2>2, <2>3 DEF CheckCaller, Goes, MembersTypeOK
      <3> QED  BY <2>2, <3>1, <3>2, OnAnotherKept DEF OnAnother
    <2>4. CASE ~CheckCaller(c)
      <3>1. ask[c].kind \notin {"role", "remove"}
        BY <1>4, <2>4 DEF Checking, CheckInvitee, CheckPending, FindCancelled
      <3> QED  BY <2>2, <3>1, OnAnotherKept DEF OnAnother
    <2> QED  BY <2>3, <2>4
  <1>5. ASSUME NEW c \in MemberCalls, FindMember(c) PROVE \A e \in MemberCalls : OnAnother(e)'
    <2>1. step[c] = "checked" /\ UNCHANGED ask /\ \E to \in Point : Goes(c, to)
      BY <1>5 DEF FindMember, Point
    <2>2. Alone(c) /\ ask'[c] = ask[c]
      BY <2>1, GoesAlone
    <2>3. OnAnother(c)'
      BY <2>1, <2>2 DEF ManagedInv, OnAnother
    <2> QED  BY <2>2, <2>3, OnAnotherKept
  <1>6. ASSUME NEW c \in MemberCalls,
               \/ Invite(c) \/ FindInvitation(c) \/ CheckMembership(c) \/ Join(c) \/ Cancel(c)
               \/ ChangeRole(c) \/ Remove(c)
        PROVE  \A e \in MemberCalls : OnAnother(e)'
    <2>1. PICK to \in Point :
             /\ Goes(c, to) /\ UNCHANGED ask
             /\ to \in {"checked", "found"} => ask[c].kind = "accept"
      BY <1>6
      DEF Invite, FindInvitation, CheckMembership, Join, Cancel, ChangeRole, Remove, Point
    <2>2. Alone(c) /\ step'[c] = to /\ ask'[c] = ask[c]
      BY <2>1, GoesAlone
    <2>3. OnAnother(c)'
      BY <2>1, <2>2 DEF OnAnother
    <2> QED  BY <2>2, <2>3, OnAnotherKept
  <1> QED  BY <1>1, <1>2, <1>3, <1>4, <1>5, <1>6 DEF MembersNext, Checking

\* Somebody changes the members: a manager, who acts on another, is still one.
LEMMA ManagedStep ==
    MembersTypeOK /\ ManagedInv /\ [MembersNext]_memberVars => ManagedInv'
  <1> SUFFICES ASSUME MembersTypeOK, ManagedInv, [MembersNext]_memberVars PROVE ManagedInv'
    OBVIOUS
  <1>1. CASE UNCHANGED memberVars
    BY <1>1 DEF memberVars, ManagedInv, OnAnother, ManagedUnlessStale, IsManager
  <1>2. CASE MembersNext
    <2>1. ASSUME UNCHANGED <<member, unmanaged>> PROVE ManagedUnlessStale'
      BY <2>1 DEF ManagedInv, ManagedUnlessStale, IsManager
    <2>2. ASSUME NEW c \in MemberCalls, Join(c) PROVE ManagedUnlessStale'
      <3>1. CASE UNCHANGED member
        BY <2>1, <2>2, <3>1 DEF Join
      <3>2. CASE ~IsMember(ask[c].by)
        <4>1. ASSUME NEW m \in Users, IsManager(m) PROVE IsManager(m)'
          <5>1. m # ask[c].by
            BY <3>2, <4>1 DEF IsMember, IsManager
          <5> QED  BY <2>2, <3>2, <4>1, <5>1 DEF Join, IsManager, MembersTypeOK
        <4> QED  BY <2>2, <4>1 DEF Join, ManagedInv, ManagedUnlessStale
      <3> QED  BY <2>2, <3>1, <3>2 DEF Join
    <2>3. ASSUME NEW c \in MemberCalls, ChangeRole(c) \/ Remove(c) PROVE ManagedUnlessStale'
      <3>1. CASE UNCHANGED <<member, unmanaged>>
        BY <2>1, <3>1
      <3>2. CASE Unmanaged(c)
        <4> SUFFICES ASSUME ~unmanaged' PROVE \E m \in Users : IsManager(m)'
          BY DEF ManagedUnlessStale
        <4> DEFINE by == ask[c].by
        <4>1. by \in Users /\ IsManager(by)
          BY <3>2, AskFacts DEF Unmanaged
        <4>2. by # ask[c].user
          BY <2>3 DEF ManagedInv, OnAnother, ChangeRole, Remove
        <4>3. member'[by] = member[by]
          BY <2>3, <4>1, <4>2 DEF ChangeRole, Remove, MembersTypeOK
        <4> QED  BY <4>1, <4>3 DEF IsManager
      <3> QED  BY <2>3, <3>1, <3>2 DEF ChangeRole, Remove
    <2>4. ManagedUnlessStale'
      BY <1>2, <2>1, <2>2, <2>3
      DEF MembersNext, Admit, CheckInvitee, CheckPending, Invite, Lapse, FindInvitation,
          CheckMembership, FindCancelled, Cancel, CheckCaller, FindMember, Forget
    <2> QED  BY <1>2, <2>4, OnAnotherStep DEF ManagedInv
  <1> QED  BY <1>1, <1>2

\* However many managers act on each other at once, the project keeps one as long as
\* nobody acts who was a manager only by the guard's cache or by a check made earlier.
THEOREM ProjectStaysManaged == MembersSpec => []ManagedUnlessStale
  <1>1. ManagedInv => ManagedUnlessStale
    BY DEF ManagedInv
  <1> QED
    BY <1>1, MembersTypeInit, MembersTypeStep, ManagedInit, ManagedStep, PTL DEF MembersSpec
-----------------------------------------------------------------------------
(* Invitations are used up *)

\* d let a user in, and the invitation it used is not to be used again.
Used(d) ==
    /\ d \in MemberCalls
    /\ step[d] = "done"
    /\ ask[d].kind = "accept"
    /\ step[ask[d].invite] = "done"
    /\ invitation[ask[d].invite].status # "pending"

\* An invitation is there only once its call is done.
Made == \A i \in MemberCalls : invitation[i].status # "none" => step[i] = "done"

\* Past the search, an acceptance is of such an invitation.
AcceptsMade(c) ==
    step[c] \in {"checked", "found"} /\ ask[c].kind = "accept" => step[ask[c].invite] = "done"

\* The row of a member, and the copy that can be inserted in its place, say which
\* acceptance made it.
RowUsed(u) == IsMember(u) /\ member[u].made # NoCall => Used(member[u].made)

CopyUsed(c) ==
    /\ step[c] = "found"
    /\ ask[c].kind \in {"role", "remove"}
    /\ copy[c].membership.made # NoCall
    => Used(copy[c].membership.made)

UsedInv ==
    /\ Made
    /\ \A c \in MemberCalls : AcceptsMade(c) /\ CopyUsed(c)
    /\ \A u \in Users : RowUsed(u)

LEMMA UsedInit ==
    MembersInit => UsedInv
  BY DEF MembersInit, UsedInv, Made, AcceptsMade, CopyUsed, RowUsed, NoInvitation, Outsider

\* Every step but one of the clock and of the cache is a step of one call.
LEMMA OneCall ==
    ASSUME MembersTypeOK, MembersNext
    PROVE  \/ UNCHANGED <<step, ask>>
           \/ \E c \in MemberCalls : Alone(c) /\ step[c] \notin {"done", "refused"}
  <1>1. ASSUME NEW c \in MemberCalls, NEW a \in Asks[c], Admit(c, a)
        PROVE  Alone(c) /\ step[c] \notin {"done", "refused"}
    BY <1>1 DEF Admit, Goes, Alone, MembersTypeOK
  <1>2. ASSUME NEW c \in MemberCalls, Checking(c)
        PROVE  Alone(c) /\ step[c] \notin {"done", "refused"}
    BY <1>2, CheckingFacts, GoesAlone
  <1>3. ASSUME NEW c \in MemberCalls,
               \/ Invite(c) \/ FindInvitation(c) \/ CheckMembership(c) \/ Join(c) \/ Cancel(c)
               \/ FindMember(c) \/ ChangeRole(c) \/ Remove(c)
        PROVE  Alone(c) /\ step[c] \notin {"done", "refused"}
    <2>1. /\ \E to \in Point : Goes(c, to)
          /\ UNCHANGED ask
          /\ step[c] \in {"admitted", "checked", "found"}
      BY <1>3
      DEF Invite, FindInvitation, CheckMembership, Join, Cancel, FindMember, ChangeRole,
          Remove, Point
    <2> QED  BY <2>1, GoesAlone
  <1>4. ASSUME NEW i \in MemberCalls, Lapse(i) PROVE UNCHANGED <<step, ask>>
    BY <1>4 DEF Lapse
  <1>5. ASSUME NEW u \in Users, Forget(u) PROVE UNCHANGED <<step, ask>>
    BY <1>5 DEF Forget
  <1> QED  BY <1>1, <1>2, <1>3, <1>4, <1>5 DEF MembersNext, Checking

\* A call that is done stays done, with what it asked for.
LEMMA StillDone ==
    ASSUME MembersTypeOK, MembersNext, NEW e \in MemberCalls, step[e] = "done"
    PROVE  step'[e] = "done" /\ ask'[e] = ask[e]
  BY OneCall DEF Alone

\* What a step makes of one invitation.
LEMMA InvitationSteps ==
    ASSUME MembersTypeOK, UsedInv, MembersNext, NEW i \in MemberCalls
    PROVE  \/ invitation'[i].status = invitation[i].status
           \/ invitation'[i].status = "none"
           \/ step[i] = "done" /\ invitation'[i].status # "pending"
           \/ step[i] = "found" /\ step'[i] = "done"
  <1>1. ASSUME NEW c \in MemberCalls, Invite(c)
        PROVE  \/ invitation'[i].status = invitation[i].status
               \/ step[i] = "found" /\ step'[i] = "done"
    BY <1>1 DEF Invite, Goes, MembersTypeOK
  <1>2. ASSUME NEW c \in MemberCalls, FindInvitation(c)
        PROVE  \/ invitation'[i].status = invitation[i].status
               \/ step[i] = "done" /\ invitation'[i].status # "pending"
    <2>1. ask[c].invite \in MemberCalls
      BY <1>2, AskFacts DEF FindInvitation
    <2>2. CASE i # ask[c].invite
      BY <1>2, <2>1, <2>2 DEF FindInvitation, MembersTypeOK
    <2>3. CASE i = ask[c].invite
      <3>1. /\ invitation[i] \in Invitation
            /\ invitation'[i] = [invitation[i] EXCEPT !.status =
                 IF invitation[i].status = "pending" /\ invitation[i].late
                 THEN "expired" ELSE invitation[i].status]
        BY <1>2, <2>3 DEF FindInvitation, MembersTypeOK
      <3>2. invitation'[i].status = IF invitation[i].status = "pending" /\ invitation[i].late
                                    THEN "expired" ELSE invitation[i].status
        BY <3>1 DEF Invitation
      <3> QED  BY <3>2 DEF UsedInv, Made
    <2> QED  BY <2>2, <2>3
  <1>3. ASSUME NEW c \in MemberCalls, CheckMembership(c) \/ Join(c)
        PROVE  \/ invitation'[i].status = invitation[i].status
               \/ step[i] = "done" /\ invitation'[i].status # "pending"
    <2>1. ask[c].invite \in MemberCalls /\ step[ask[c].invite] = "done"
      BY <1>3, AskFacts DEF CheckMembership, Join, UsedInv, AcceptsMade
    <2>2. UNCHANGED invitation \/ SaveInvitation(c, ask[c].invite, "accepted")
      BY <1>3 DEF CheckMembership, Join
    <2> QED  BY <2>1, <2>2, SaveInvitationFacts
  <1>4. ASSUME NEW c \in MemberCalls, Cancel(c)
        PROVE  \/ invitation'[i].status = invitation[i].status
               \/ invitation'[i].status = "none"
    <2>1. ask[c].invite \in MemberCalls
      BY <1>4, AskFacts DEF Cancel
    <2> QED  BY <1>4, <2>1 DEF Cancel, NoInvitation, MembersTypeOK
  <1>5. ASSUME NEW j \in MemberCalls, Lapse(j)
        PROVE  invitation'[i].status = invitation[i].status
    BY <1>5 DEF Lapse, MembersTypeOK, Invitation
  <1>6. CASE UNCHANGED invitation
    BY <1>6
  <1> QED
    BY <1>1, <1>2, <1>3, <1>4, <1>5, <1>6
    DEF MembersNext, Admit, CheckInvitee, CheckPending, FindCancelled, CheckCaller, FindMember,
        ChangeRole, Remove, Forget

\* A used invitation stays used, whatever is saved, cancelled or invited afterwards.
LEMMA UsedKept ==
    ASSUME MembersTypeOK, UsedInv, MembersNext, NEW d, Used(d)
    PROVE  Used(d)'
  <1> DEFINE i == ask[d].invite
  <1>1. d \in MemberCalls /\ i \in MemberCalls
    BY AskFacts DEF Used
  <1>2. step'[d] = "done" /\ ask'[d] = ask[d] /\ step'[i] = "done"
    BY <1>1, StillDone DEF Used
  <1>3. invitation'[i].status # "pending"
    BY <1>1, InvitationSteps DEF Used
  <1> QED  BY <1>1, <1>2, <1>3 DEF Used

LEMMA MadeStep ==
    ASSUME MembersTypeOK, UsedInv, MembersNext
    PROVE  Made'
  <1> SUFFICES ASSUME NEW i \in MemberCalls, invitation'[i].status # "none"
               PROVE  step'[i] = "done"
    BY DEF Made
  <1>1. CASE step[i] = "done"
    BY <1>1, StillDone
  <1>2. CASE step[i] # "done"
    BY <1>2, InvitationSteps DEF UsedInv, Made
  <1> QED  BY <1>1, <1>2

\* An acceptance that went on found an invitation, or was on its way before.
LEMMA AcceptsMadeStep ==
    ASSUME MembersTypeOK, UsedInv, MembersNext, NEW c \in MemberCalls
    PROVE  AcceptsMade(c)'
  <1> SUFFICES ASSUME step'[c] \in {"checked", "found"}, ask'[c].kind = "accept"
               PROVE  step'[ask'[c].invite] = "done"
    BY DEF AcceptsMade
  <1>1. ASSUME ask'[c] = ask[c], step[c] \in {"checked", "found"} PROVE step'[ask'[c].invite] = "done"
    <2>1. ask[c].invite \in MemberCalls /\ step[ask[c].invite] = "done"
      BY <1>1, AskFacts DEF UsedInv, AcceptsMade
    <2> QED  BY <1>1, <2>1, StillDone
  <1>2. ASSUME FindInvitation(c) PROVE step'[ask'[c].invite] = "done"
    <2>1. ask'[c] = ask[c] /\ ask[c].invite \in MemberCalls
      BY <1>2, AskFacts DEF FindInvitation
    <2>2. invitation[ask[c].invite].status = "pending"
      BY <1>2 DEF FindInvitation, Goes, MembersTypeOK
    <2>3. step[ask[c].invite] = "done"
      BY <2>1, <2>2 DEF UsedInv, Made
    <2> QED  BY <2>1, <2>3, StillDone
  <1>3. ASSUME NEW e \in MemberCalls, e # c, Alone(e) PROVE step'[ask'[c].invite] = "done"
    BY <1>1, <1>3 DEF Alone
  <1>4. ASSUME NEW e \in MemberCalls, NEW a \in Asks[e], Admit(e, a)
        PROVE  step'[ask'[c].invite] = "done"
    <2>1. Alone(e) /\ step'[e] \in {"admitted", "refused"}
      BY <1>4 DEF Admit, Goes, Alone, MembersTypeOK
    <2> QED  BY <1>3, <2>1
  <1>5. ASSUME NEW e \in MemberCalls, Checking(e) PROVE step'[ask'[c].invite] = "done"
    <2>1. Alone(e) /\ UNCHANGED ask
      BY <1>5, CheckingFacts, GoesAlone
    <2>2. ask[e].kind # "accept"
      BY <1>5 DEF Checking, CheckInvitee, CheckPending, FindCancelled, CheckCaller
    <2> QED  BY <1>3, <2>1, <2>2
  <1>6. ASSUME NEW e \in MemberCalls,
               \/ Invite(e) \/ FindInvitation(e) \/ CheckMembership(e) \/ Join(e) \/ Cancel(e)
               \/ FindMember(e) \/ ChangeRole(e) \/ Remove(e)
        PROVE  step'[ask'[c].invite] = "done"
    <2>1. /\ \E to \in Point : Goes(e, to)
          /\ UNCHANGED ask
          /\ FindInvitation(e) \/ ask[e].kind # "accept" \/ step[e] \in {"checked", "found"}
      BY <1>6
      DEF Invite, FindInvitation, CheckMembership, Join, Cancel, FindMember, ChangeRole,
          Remove, Point
    <2>2. Alone(e)
      BY <2>1, GoesAlone
    <2>3. CASE e = c
      BY <1>1, <1>2, <2>1, <2>3
    <2> QED  BY <1>3, <2>2, <2>3
  <1>7. ASSUME UNCHANGED <<step, ask>> PROVE step'[ask'[c].invite] = "done"
    BY <1>1, <1>7
  <1> QED
    BY <1>4, <1>5, <1>6, <1>7 DEF MembersNext, Checking, Lapse, Forget

\* The copy of a manager's call is of a row that is or was there.
LEMMA CopyUsedStep ==
    ASSUME MembersTypeOK, UsedInv, MembersNext, NEW c \in MemberCalls
    PROVE  CopyUsed(c)'
  <1> SUFFICES ASSUME step'[c] = "found", ask'[c].kind \in {"role", "remove"},
                      NEW d, d = copy'[c].membership.made, d # NoCall
               PROVE  Used(d)'
    BY DEF CopyUsed, Used
  <1>1. ASSUME step[c] = "found", ask'[c] = ask[c], copy'[c].membership = copy[c].membership
        PROVE  Used(d)'
    BY <1>1, UsedKept DEF UsedInv, CopyUsed
  <1>2. ASSUME NEW e \in MemberCalls, FindMember(e) PROVE Used(d)'
    <2>1. CASE e = c
      <3>1. ask[c].user \in Users /\ IsMember(ask[c].user)
        BY <1>2, <2>1, AskFacts DEF FindMember, Goes, MembersTypeOK
      <3>2. copy'[c].membership = member[ask[c].user]
        BY <1>2, <2>1, AskFacts DEF FindMember, MembersTypeOK, Entity
      <3> QED  BY <3>1, <3>2, UsedKept DEF UsedInv, RowUsed
    <2>2. CASE e # c
      BY <1>1, <1>2, <2>2 DEF FindMember, Goes, MembersTypeOK
    <2> QED  BY <2>1, <2>2
  <1>3. ASSUME NEW e \in MemberCalls, FindInvitation(e) PROVE Used(d)'
    <2>1. e # c /\ step[c] = "found" /\ UNCHANGED ask
      BY <1>3 DEF FindInvitation, Goes, MembersTypeOK
    <2> QED  BY <1>1, <1>3, <2>1 DEF FindInvitation, MembersTypeOK
  <1>4. ASSUME NEW e \in MemberCalls, e # c, Alone(e), UNCHANGED copy
        PROVE  Used(d)'
    BY <1>1, <1>4 DEF Alone
  <1>5. ASSUME NEW e \in MemberCalls, NEW a \in Asks[e], Admit(e, a)
        PROVE  Used(d)'
    <2>1. Alone(e) /\ step'[e] \in {"admitted", "refused"} /\ UNCHANGED copy
      BY <1>5 DEF Admit, Goes, Alone, MembersTypeOK
    <2> QED  BY <1>4, <2>1
  <1>6. ASSUME NEW e \in MemberCalls, Checking(e) PROVE Used(d)'
    <2>1. /\ Alone(e) /\ UNCHANGED <<ask, copy>>
          /\ \E to \in {"checked", "found", "refused"} : step'[e] = to
      BY <1>6, CheckingFacts, GoesAlone
    <2>2. ask[e].kind \in {"role", "remove"} => step'[e] # "found"
      BY <1>6 DEF Checking, CheckInvitee, CheckPending, FindCancelled, CheckCaller, Goes,
                  MembersTypeOK
    <2> QED  BY <1>4, <2>1, <2>2
  <1>7. ASSUME NEW e \in MemberCalls,
               \/ Invite(e) \/ CheckMembership(e) \/ Join(e) \/ Cancel(e) \/ ChangeRole(e)
               \/ Remove(e)
        PROVE  Used(d)'
    <2>1. /\ \E to \in Point : Goes(e, to)
          /\ UNCHANGED <<ask, copy>>
      BY <1>7 DEF Invite, CheckMembership, Join, Cancel, ChangeRole, Remove, Point
    <2>2. Alone(e)
      BY <2>1, GoesAlone
    <2>3. ask[e].kind \in {"role", "remove"} => step'[e] # "found"
      BY <1>7 DEF Invite, CheckMembership, Join, Cancel, ChangeRole, Remove, Goes, MembersTypeOK
    <2> QED  BY <1>4, <2>1, <2>2, <2>3
  <1>8. ASSUME UNCHANGED <<step, ask, copy>> PROVE Used(d)'
    BY <1>1, <1>8
  <1> QED
    BY <1>2, <1>3, <1>5, <1>6, <1>7, <1>8 DEF MembersNext, Checking, Lapse, Forget

\* A row is new by an acceptance that used its invitation, or again by a copy.
LEMMA RowUsedStep ==
    ASSUME MembersTypeOK, UsedInv, MembersNext, NEW u \in Users
    PROVE  RowUsed(u)'
  <1> SUFFICES ASSUME IsMember(u)', NEW d, d = member'[u].made, d # NoCall
               PROVE  Used(d)'
    BY DEF RowUsed, Used
  <1>1. ASSUME member'[u] = member[u] PROVE Used(d)'
    BY <1>1, UsedKept DEF UsedInv, RowUsed, IsMember
  <1>2. ASSUME NEW c \in MemberCalls, Join(c) PROVE Used(d)'
    <2> DEFINE i == ask[c].invite
    <2>1. i \in MemberCalls /\ ask[c].by \in Users /\ step[i] = "done" /\ c # i
      BY <1>2, AskFacts DEF Join, UsedInv, AcceptsMade
    <2>2. CASE u = ask[c].by /\ ~IsMember(u)
      <3>1. /\ SaveInvitation(c, i, "accepted")
            /\ Goes(c, "done")
            /\ member'[u] = [role |-> copy[c].invitation.role, made |-> c]
        BY <1>2, <2>1, <2>2 DEF Join, MembersTypeOK
      <3>2. step'[c] = "done" /\ ask'[c] = ask[c] /\ step'[i] = "done"
        BY <1>2, <2>1, <3>1 DEF Join, Goes, MembersTypeOK
      <3>3. invitation'[i].status # "pending"
        BY <2>1, <3>1, SaveInvitationFacts
      <3>4. Used(c)'
        BY <1>2, <3>2, <3>3 DEF Join, Used
      <3> QED  BY <3>1, <3>4
    <2>3. CASE ~(u = ask[c].by /\ ~IsMember(u))
      <3>1. member'[u] = member[u]
        BY <1>2, <2>1, <2>3 DEF Join, MembersTypeOK
      <3> QED  BY <1>1, <3>1
    <2> QED  BY <2>2, <2>3
  <1>3. ASSUME NEW c \in MemberCalls, ChangeRole(c) PROVE Used(d)'
    <2>1. CASE member'[u] = member[u]
      BY <1>1, <2>1
    <2>2. CASE member'[u] # member[u]
      <3>1. ask[c].user \in Users
        BY AskFacts
      <3>2. member'[u].made = copy[c].membership.made
        BY <1>3, <2>2, <3>1 DEF ChangeRole, MembersTypeOK
      <3>3. Used(d)
        BY <1>3, <3>2 DEF ChangeRole, UsedInv, CopyUsed
      <3> QED  BY <3>2, <3>3, UsedKept
    <2> QED  BY <2>1, <2>2
  <1>4. ASSUME NEW c \in MemberCalls, Remove(c) PROVE Used(d)'
    <2>1. ask[c].user \in Users
      BY AskFacts
    <2>2. member'[u] = member[u]
      BY <1>4, <2>1 DEF Remove, Outsider, IsMember, MembersTypeOK
    <2> QED  BY <1>1, <2>2
  <1>5. CASE UNCHANGED member
    BY <1>1, <1>5
  <1> QED
    BY <1>2, <1>3, <1>4, <1>5
    DEF MembersNext, Admit, CheckInvitee, CheckPending, Invite, Lapse, FindInvitation,
        CheckMembership, FindCancelled, Cancel, CheckCaller, FindMember, Forget

LEMMA UsedStep ==
    MembersTypeOK /\ UsedInv /\ [MembersNext]_memberVars => UsedInv'
  <1> SUFFICES ASSUME MembersTypeOK, UsedInv, [MembersNext]_memberVars PROVE UsedInv'
    OBVIOUS
  <1>1. CASE UNCHANGED memberVars
    BY <1>1 DEF memberVars, UsedInv, Made, AcceptsMade, CopyUsed, RowUsed, Used, IsMember
  <1>2. CASE MembersNext
    BY <1>2, MadeStep, AcceptsMadeStep, CopyUsedStep, RowUsedStep DEF UsedInv
  <1> QED  BY <1>1, <1>2

\* Nobody is in the project by an invitation that can be used again, whatever calls
\* overlap: an acceptance saves both in one transaction, and a row that is inserted
\* again after a removal is one whose invitation was used before.
THEOREM InvitedOnce == MembersSpec => []InvitationsAreUsedUp
  <1>1. UsedInv => InvitationsAreUsedUp
    BY DEF UsedInv, RowUsed, Used, InvitationsAreUsedUp
  <1> QED
    BY <1>1, MembersTypeInit, MembersTypeStep, UsedInit, UsedStep, PTL DEF MembersSpec

-----------------------------------------------------------------------------
(* Types of a user's sessions *)

LEMMA BriefType ==
    ASSUME NEW pc \in {"idle", "guarded", "verified", "loaded", "locked", "done", "refused",
                       "dead"},
           NEW w \in Wish, NEW p \in Seconds, NEW s \in SessionCalls \union {NoSession}
    PROVE  Brief(pc, w, p, s) \in Call
  BY SessionsAssumption DEF SessionsAssumption, Brief, Call, InFlight, Seconds

\* What is known of a call.
LEMMA CallFacts ==
    ASSUME SessionsTypeOK, NEW c \in SessionCalls
    PROVE  /\ call[c] \in Call
           /\ call[c].wish \in Wish
           /\ Kind(c) = call[c].wish.kind
           /\ Browser(c) \in Browsers
           /\ call[c].presented \in Seconds
           /\ call[c].issued \in Seconds /\ call[c].began \in Seconds
           /\ call[c].copy \in Seconds
           /\ call[c].doomed \subseteq SessionCalls
           /\ call[c].old \in SessionCalls \union {NoSession}
           /\ call[c].overlapped \in BOOLEAN
  <1>1. call[c] \in Call
    BY DEF SessionsTypeOK
  <1>2. call[c].wish \in Wish
    BY <1>1 DEF Call
  <1>3. Browser(c) \in Browsers
    BY <1>2 DEF Browser, Wish
  <1> QED  BY <1>1, <1>2, <1>3 DEF Call, Kind

\* One call gets another value.
LEMMA UpdateFacts ==
    ASSUME SessionsTypeOK, NEW c \in SessionCalls, NEW x \in Call, Update(c, x)
    PROVE  /\ call' \in [SessionCalls -> Call]
           /\ call'[c] = x
           /\ \A d \in SessionCalls \ {c} : call'[d] = call[d]
  BY DEF SessionsTypeOK, Update

\* A call goes on and keeps the rest.
LEMMA ReachFacts ==
    ASSUME SessionsTypeOK, NEW c \in SessionCalls,
           NEW pc \in {"purging", "verified", "invalidating"}, Reach(c, pc)
    PROVE  /\ call' \in [SessionCalls -> Call]
           /\ \A d \in SessionCalls \ {c} : call'[d] = call[d]
           /\ call'[c].pc = pc /\ call'[c].wish = call[c].wish
           /\ call'[c].presented = call[c].presented
           /\ call'[c].issued = call[c].issued /\ call'[c].copy = call[c].copy
  <1>1. call[c] \in Call
    BY DEF SessionsTypeOK
  <1>2. [call[c] EXCEPT !.pc = pc] \in Call
    BY <1>1 DEF Call, InFlight
  <1>3. /\ call' \in [SessionCalls -> Call]
        /\ call'[c] = [call[c] EXCEPT !.pc = pc]
        /\ \A d \in SessionCalls \ {c} : call'[d] = call[d]
    BY <1>2, UpdateFacts DEF Reach
  <1> QED  BY <1>1, <1>3 DEF Call

\* A call that is through keeps what it came with.
LEMMA CloseFacts ==
    ASSUME SessionsTypeOK, NEW c \in SessionCalls, NEW pc \in {"done", "refused", "dead"},
           Close(c, pc)
    PROVE  /\ call' \in [SessionCalls -> Call]
           /\ \A d \in SessionCalls \ {c} : call'[d] = call[d]
           /\ call'[c].pc = pc /\ call'[c].wish = call[c].wish
           /\ call'[c].presented = call[c].presented
           /\ call'[c].copy = 0
  <1>1. Brief(pc, call[c].wish, call[c].presented, NoSession) \in Call
    BY CallFacts, BriefType
  <1> QED  BY <1>1, UpdateFacts DEF Close, Brief

LEMMA DropFacts ==
    ASSUME SessionsTypeOK, NEW rows, Drop(rows)
    PROVE  /\ session' \in [SessionCalls -> Session]
           /\ \A s \in SessionCalls :
                 session'[s] = IF s \in rows THEN NoRow ELSE session[s]
           /\ Sessions' = Sessions \ rows
  <1>1. NoRow \in Session /\ ~NoRow.stored
    BY SessionsAssumption DEF SessionsAssumption, NoRow, Session, Seconds
  <1>2. session' \in [SessionCalls -> Session]
    BY <1>1 DEF SessionsTypeOK, Drop
  <1>3. \A s \in SessionCalls : session'[s] = IF s \in rows THEN NoRow ELSE session[s]
    BY DEF Drop
  <1> QED  BY <1>1, <1>2, <1>3 DEF Sessions

\* A request of one of the calls is one the user can make.
LEMMA WishFacts ==
    ASSUME NEW c \in SessionCalls, NEW w \in Wishes[c]
    PROVE  w \in Wish /\ w.browser \in Browsers
  <1>1. w \in Wish
    BY SessionsAssumption DEF SessionsAssumption
  <1> QED  BY <1>1 DEF Wish

LEMMA PresentedFacts ==
    ASSUME SessionsTypeOK, NEW b \in Browsers
    PROVE  /\ Presented(b) \in Seconds
           /\ Presented(b) \in {0, cookie[b]}
           /\ Presented(b) # 0 => second < Presented(b) + Lifetime
  BY SessionsAssumption DEF SessionsAssumption, SessionsTypeOK, Presented, Seconds

LEMMA SessionsTypeInit ==
    SessionsInit => SessionsTypeOK
  <1> SUFFICES ASSUME SessionsInit PROVE SessionsTypeOK
    OBVIOUS
  <1>1. 0 \in Seconds /\ 1 \in Seconds /\ 2 \in Seconds /\ Home \in Browsers
    BY SessionsAssumption DEF SessionsAssumption, Seconds
  <1>2. FirstWish \in Wish
    BY <1>1 DEF FirstWish, Wish
  <1>3. call \in [SessionCalls -> Call]
    BY <1>1, <1>2, BriefType DEF SessionsInit
  <1>4. NoRow \in Session /\ [stored |-> TRUE, made |-> 1, expires |-> 1 + Lifetime] \in Session
    BY <1>1, SessionsAssumption DEF SessionsAssumption, NoRow, Session
  <1>5. session \in [SessionCalls -> Session]
    BY <1>4 DEF SessionsInit
  <1>6. owner \in [Browsers -> SessionCalls \union {NoSession}]
    BY SessionsAssumption DEF SessionsAssumption, SessionsInit
  <1> QED  BY <1>1, <1>3, <1>5, <1>6 DEF SessionsInit, SessionsTypeOK

\* The calls that come in and what they ask for at first.
Entering(c, w) ==
    EnterGuard(c, w) \/ Login(c, w) \/ SavePassword(c, w) \/ ChangeEmail(c, w) \/ LoadUser(c, w)

LEMMA EnteringFacts ==
    ASSUME SessionsTypeOK, NEW c \in SessionCalls, NEW w \in Wishes[c], Entering(c, w)
    PROVE  /\ call' \in [SessionCalls -> Call]
           /\ \A d \in SessionCalls \ {c} : call'[d] = call[d]
           /\ call'[c].wish = w
           /\ \/ call'[c].presented = 0 /\ call'[c].pc \in {"verified", "loaded", "locked", "done"}
              \/ /\ EnterGuard(c, w)
                 /\ call'[c].presented = Presented(w.browser)
                 /\ call'[c].pc = IF Presented(w.browser) # 0 /\ Presented(w.browser) >= validFrom
                                  THEN "guarded" ELSE "refused"
           /\ call'[c].copy \in {0, validFrom}
           /\ call'[c].pc # "loaded" => call'[c].copy = 0
           /\ call'[c].pc = "locked" => w.kind = "password"
  <1>1. 0 \in Seconds /\ validFrom \in Seconds
    BY SessionsAssumption DEF SessionsAssumption, SessionsTypeOK, Seconds
  <1>2. /\ w \in Wish /\ Presented(w.browser) \in Seconds
        /\ owner[w.browser] \in SessionCalls \union {NoSession}
    BY WishFacts, PresentedFacts DEF SessionsTypeOK
  <1>3. CASE EnterGuard(c, w)
    <2> DEFINE p == Presented(w.browser)
               x == IF p # 0 /\ p >= validFrom THEN Brief("guarded", w, p, owner[w.browser])
                                              ELSE Brief("refused", w, p, NoSession)
    <2>1. x \in Call
      BY <1>1, <1>2, BriefType
    <2>2. Update(c, x)
      BY <1>3 DEF EnterGuard
    <2>3. /\ call' \in [SessionCalls -> Call] /\ call'[c] = x
          /\ \A d \in SessionCalls \ {c} : call'[d] = call[d]
      BY <2>1, <2>2, UpdateFacts
    <2> QED  BY <1>3, <2>3 DEF Brief
  <1>4. CASE LoadUser(c, w)
    <2> DEFINE x == [Brief("loaded", w, 0, NoSession) EXCEPT !.copy = validFrom]
    <2>1. Brief("loaded", w, 0, NoSession) \in Call
      BY <1>1, <1>2, BriefType
    <2>2. x \in Call /\ x.pc = "loaded" /\ x.wish = w /\ x.presented = 0
          /\ x.copy = validFrom
      BY <1>1, <2>1 DEF Call, Brief
    <2>3. Update(c, x)
      BY <1>4 DEF LoadUser
    <2>4. /\ call' \in [SessionCalls -> Call] /\ call'[c] = x
          /\ \A d \in SessionCalls \ {c} : call'[d] = call[d]
      BY <2>2, <2>3, UpdateFacts
    <2> QED  BY <1>4, <2>2, <2>4 DEF LoadUser
  <1>5. CASE Login(c, w) \/ SavePassword(c, w) \/ ChangeEmail(c, w)
    <2>1. PICK pc \in {"verified", "locked", "done"} :
             /\ Update(c, Brief(pc, w, 0, NoSession))
             /\ pc = "locked" => w.kind = "password"
      BY <1>5 DEF Login, SavePassword, ChangeEmail
    <2>2. Brief(pc, w, 0, NoSession) \in Call
      BY <1>1, <1>2, BriefType
    <2>3. /\ call' \in [SessionCalls -> Call] /\ call'[c] = Brief(pc, w, 0, NoSession)
          /\ \A d \in SessionCalls \ {c} : call'[d] = call[d]
      BY <2>1, <2>2, UpdateFacts
    <2> QED  BY <2>1, <2>3 DEF Brief
  <1> QED  BY <1>3, <1>4, <1>5 DEF Entering

\* Storing a session: the row of the call is new, the one it rotates may come back.
LEMMA StoreFacts ==
    ASSUME SessionsTypeOK, NEW c \in SessionCalls, StoreSession(c)
    PROVE  /\ session' \in [SessionCalls -> Session]
           /\ session'[c].stored
           /\ session'[c].expires = call[c].issued + Lifetime
           /\ Sessions' \subseteq (Sessions \ call[c].doomed) \union {call[c].old, c}
           /\ call' \in [SessionCalls -> Call]
           /\ call'[c].pc = "stored" /\ call'[c].wish = call[c].wish
           /\ call'[c].presented = call[c].presented
           /\ call'[c].issued = call[c].issued /\ call'[c].copy = call[c].copy
           /\ \A d \in SessionCalls \ {c} :
                 call'[d] = IF call[d].pc \in Storing THEN [call[d] EXCEPT !.overlapped = TRUE]
                            ELSE call[d]
  <1> DEFINE x == call[c]
             new == [stored |-> TRUE, made |-> x.began, expires |-> x.issued + Lifetime]
  <1>1. /\ second \in Nat /\ Grace \in Nat /\ Lifetime \in Nat
        /\ x \in Call /\ x.began \in Seconds /\ x.issued \in Seconds /\ x.issued \in Nat
    BY CallFacts, SessionsAssumption DEF SessionsAssumption, SessionsTypeOK, Seconds
  <1>2. new \in Session /\ NoRow \in Session /\ ~NoRow.stored
    BY <1>1, SessionsAssumption DEF SessionsAssumption, Session, NoRow, Seconds
  <1>3. \A s \in SessionCalls, back \in BOOLEAN : Rotated(s, back) \in Session
    BY <1>1, <1>2 DEF Rotated, Session, SessionsTypeOK
  <1>4. PICK back \in BOOLEAN :
           session' = [s \in SessionCalls |->
                         IF s = c THEN new
                         ELSE IF s = x.old THEN Rotated(s, back)
                         ELSE IF s \in x.doomed THEN NoRow
                         ELSE session[s]]
    BY DEF StoreSession
  <1>5. ASSUME NEW s \in SessionCalls
        PROVE  /\ session'[s] \in Session
               /\ s = c => session'[s] = new
               /\ s # c /\ s # x.old /\ s \in x.doomed => session'[s] = NoRow
               /\ s # c /\ s # x.old /\ s \notin x.doomed => session'[s] = session[s]
    <2>1. session[s] \in Session /\ Rotated(s, back) \in Session
      BY <1>3 DEF SessionsTypeOK
    <2> HIDE DEF x, new
    <2>2. CASE s = c
      <3>1. session'[s] = new
        BY <1>4, <2>2
      <3> QED  BY <1>2, <2>2, <3>1
    <2>3. CASE s # c /\ s = x.old
      <3>1. session'[s] = Rotated(s, back)
        BY <1>4, <2>3
      <3> QED  BY <2>1, <2>3, <3>1
    <2>4. CASE s # c /\ s # x.old /\ s \in x.doomed
      <3>1. session'[s] = NoRow
        BY <1>4, <2>4
      <3> QED  BY <1>2, <2>4, <3>1
    <2>5. CASE s # c /\ s # x.old /\ s \notin x.doomed
      <3>1. session'[s] = session[s]
        BY <1>4, <2>5
      <3> QED  BY <2>1, <2>5, <3>1
    <2> QED  BY <2>2, <2>3, <2>4, <2>5
  <1>6. session' \in [SessionCalls -> Session]
    BY <1>4, <1>5
  <1>7. Sessions' \subseteq (Sessions \ x.doomed) \union {x.old, c}
    BY <1>2, <1>5 DEF Sessions
  <1>8. ASSUME NEW d \in SessionCalls
        PROVE  /\ call'[d] \in Call
               /\ d = c => call'[d] = [x EXCEPT !.pc = "stored"]
               /\ d # c /\ call[d].pc \in Storing =>
                     call'[d] = [call[d] EXCEPT !.overlapped = TRUE]
               /\ d # c /\ call[d].pc \notin Storing => call'[d] = call[d]
    <2>1. call[d] \in Call
      BY DEF SessionsTypeOK
    <2>2. call'[d] = CASE d = c -> [x EXCEPT !.pc = "stored"]
                       [] d # c /\ call[d].pc \in Storing -> [call[d] EXCEPT !.overlapped = TRUE]
                       [] OTHER -> call[d]
      BY DEF StoreSession
    <2>3. [x EXCEPT !.pc = "stored"] \in Call
      BY <1>1 DEF Call, InFlight
    <2>4. [call[d] EXCEPT !.overlapped = TRUE] \in Call
      BY <2>1 DEF Call
    <2>5. CASE d = c
      BY <2>2, <2>3, <2>5
    <2>6. CASE d # c /\ call[d].pc \in Storing
      BY <2>2, <2>4, <2>6
    <2>7. CASE d # c /\ call[d].pc \notin Storing
      BY <2>1, <2>2, <2>7
    <2> QED  BY <2>5, <2>6, <2>7
  <1>9. call' = [d \in SessionCalls |-> call'[d]]
    BY DEF StoreSession
  <1>10. call' \in [SessionCalls -> Call]
    BY <1>8, <1>9
  <1>11. /\ call'[c].pc = "stored" /\ call'[c].wish = x.wish
         /\ call'[c].presented = x.presented
         /\ call'[c].issued = x.issued /\ call'[c].copy = x.copy
    BY <1>1, <1>8 DEF Call
  <1>12. session'[c].stored /\ session'[c].expires = x.issued + Lifetime
    BY <1>5
  <1> QED  BY <1>6, <1>7, <1>8, <1>10, <1>11, <1>12

LEMMA SessionsTypeStep ==
    SessionsTypeOK /\ [SessionsNext]_sessionVars => SessionsTypeOK'
  <1> SUFFICES ASSUME SessionsTypeOK, [SessionsNext]_sessionVars PROVE SessionsTypeOK'
    OBVIOUS
  <1>0. 0 \in Seconds /\ Seconds \subseteq Nat
    BY SessionsAssumption DEF SessionsAssumption, Seconds
  <1>1. CASE UNCHANGED sessionVars
    BY <1>1 DEF sessionVars, SessionsTypeOK
  <1>2. ASSUME NEW c \in SessionCalls, NEW w \in Wishes[c], Entering(c, w)
        PROVE  SessionsTypeOK'
    <2>1. call' \in [SessionCalls -> Call]
      BY <1>2, EnteringFacts
    <2>2. session' \in [SessionCalls -> Session]
      BY <1>2, DropFacts
      DEF Entering, EnterGuard, Login, SavePassword, ChangeEmail, LoadUser, SessionsTypeOK
    <2> QED
      BY <1>2, <2>1, <2>2
      DEF Entering, EnterGuard, Login, SavePassword, ChangeEmail, LoadUser, Revoke,
          SessionsTypeOK
  <1>3. ASSUME NEW c \in SessionCalls, Verify(c) PROVE SessionsTypeOK'
    <2>1. call' \in [SessionCalls -> Call]
      BY <1>3, ReachFacts, CloseFacts DEF Verify
    <2>2. session' \in [SessionCalls -> Session]
      BY <1>3, DropFacts DEF Verify, SessionsTypeOK
    <2> QED  BY <1>3, <2>1, <2>2 DEF Verify, SessionsTypeOK
  <1>4. ASSUME NEW c \in SessionCalls, Issue(c) \/ OpenSession(c) \/ PickOld(c) \/ ListSessions(c)
        PROVE  SessionsTypeOK'
    <2>1. call' \in [SessionCalls -> Call]
      <3>1. call[c] \in Call /\ second \in Seconds /\ Sessions \subseteq SessionCalls
        BY CallFacts DEF SessionsTypeOK, Sessions
      <3>2. \/ Update(c, [call[c] EXCEPT !.pc = "issued", !.issued = second])
            \/ \E d \in SUBSET SessionCalls :
                  Update(c, [call[c] EXCEPT !.pc = "opened", !.began = second, !.doomed = d])
            \/ \E s \in SessionCalls \union {NoSession} :
                  Update(c, [call[c] EXCEPT !.pc = "picked", !.old = s])
            \/ Update(c, [call[c] EXCEPT !.pc = "listed", !.doomed = Sessions])
        BY <1>4, <3>1 DEF Issue, OpenSession, PickOld, ListSessions, Oldest
      <3>3. PICK x \in Call : Update(c, x)
        BY <3>1, <3>2 DEF Call, InFlight
      <3> QED  BY <3>3, UpdateFacts
    <2> QED
      BY <1>4, <2>1 DEF Issue, OpenSession, PickOld, ListSessions, SessionsTypeOK
  <1>5. ASSUME NEW c \in SessionCalls, StoreSession(c) PROVE SessionsTypeOK'
    <2>1. crowded' \in BOOLEAN
      BY <1>5, CallFacts DEF StoreSession, SessionsTypeOK
    <2> QED  BY <1>5, <2>1, StoreFacts DEF StoreSession, SessionsTypeOK
  <1>6. ASSUME NEW c \in SessionCalls, Answer(c) PROVE SessionsTypeOK'
    <2>1. call' \in [SessionCalls -> Call]
      BY <1>6, CloseFacts DEF Answer
    <2>2. /\ cookie' \in [Browsers -> Seconds]
          /\ owner' \in [Browsers -> SessionCalls \union {NoSession}]
      BY <1>6, CallFacts DEF Answer, SetCookie, SessionsTypeOK
    <2> QED  BY <1>6, <2>1, <2>2 DEF Answer, SessionsTypeOK
  <1>7. ASSUME NEW c \in SessionCalls, Logout(c) PROVE SessionsTypeOK'
    <2>1. call' \in [SessionCalls -> Call] /\ session' \in [SessionCalls -> Session]
      BY <1>7, CloseFacts, DropFacts DEF Logout
    <2>2. /\ cookie' \in [Browsers -> Seconds]
          /\ owner' \in [Browsers -> SessionCalls \union {NoSession}]
      BY <1>0, <1>7 DEF Logout, Clear, SetCookie, SessionsTypeOK
    <2> QED  BY <1>7, <2>1, <2>2 DEF Logout, SessionsTypeOK
  <1>8. ASSUME NEW c \in SessionCalls, Purge(c) PROVE SessionsTypeOK'
    <2>1. call' \in [SessionCalls -> Call] /\ session' \in [SessionCalls -> Session]
      BY <1>8, ReachFacts, DropFacts DEF Purge
    <2> QED  BY <1>8, <2>1 DEF Purge, SessionsTypeOK
  <1>9. ASSUME NEW c \in SessionCalls, Invalidate(c) PROVE SessionsTypeOK'
    <2>1. call' \in [SessionCalls -> Call]
      BY <1>9, CloseFacts DEF Invalidate
    <2>2. /\ cookie' \in [Browsers -> Seconds]
          /\ owner' \in [Browsers -> SessionCalls \union {NoSession}]
      BY <1>0, <1>9 DEF Invalidate, Clear, SetCookie, SessionsTypeOK
    <2> QED  BY <1>9, <2>1, <2>2 DEF Invalidate, Revoke, SessionsTypeOK
  <1>10. ASSUME NEW c \in SessionCalls, SaveUser(c) PROVE SessionsTypeOK'
    <2>1. call' \in [SessionCalls -> Call] /\ call[c].copy \in Seconds
      BY <1>10, CloseFacts, CallFacts DEF SaveUser
    <2> QED  BY <1>10, <2>1 DEF SaveUser, SessionsTypeOK
  <1>11. ASSUME NEW c \in SessionCalls, Crash(c) PROVE SessionsTypeOK'
    <2>1. call' \in [SessionCalls -> Call]
      BY <1>11, CloseFacts DEF Crash
    <2> QED  BY <1>11, <2>1 DEF Crash, SessionsTypeOK
  <1>12. CASE Cleanup
    BY <1>12, DropFacts DEF Cleanup, SessionsTypeOK
  <1>13. CASE SessionTick
    <2>1. second + 1 \in Seconds
      BY <1>13, SessionsAssumption DEF SessionTick, SessionsAssumption, SessionsTypeOK, Seconds
    <2>2. excused' \in BOOLEAN
      BY <1>13 DEF SessionTick, SessionsTypeOK
    <2> QED  BY <1>13, <2>1, <2>2 DEF SessionTick, SessionsTypeOK
  <1> QED
    BY <1>1, <1>2, <1>3, <1>4, <1>5, <1>6, <1>7, <1>8, <1>9, <1>10, <1>11, <1>12, <1>13
    DEF SessionsNext, Proceed, Entering

\* Rows, cookies, revocations and calls keep their types.
THEOREM SessionsTypeCorrect == SessionsSpec => []SessionsTypeOK
  BY SessionsTypeInit, SessionsTypeStep, PTL DEF SessionsSpec

-----------------------------------------------------------------------------
(* Steps of a call *)

\* A call that goes on or dies keeps what it came with; of the others at most the note
\* that a session was stored meanwhile changes.
LEMMA OnwardFacts ==
    ASSUME SessionsTypeOK, NEW c \in SessionCalls, Proceed(c) \/ Crash(c)
    PROVE  /\ call[c].pc \in InFlight
           /\ call'[c].wish = call[c].wish /\ call'[c].presented = call[c].presented
           /\ call'[c].copy \in {0, call[c].copy}
           /\ call'[c].pc \notin {"idle", "guarded"}
           /\ \A d \in SessionCalls \ {c} :
                 /\ call'[d].pc = call[d].pc /\ call'[d].wish = call[d].wish
                 /\ call'[d].presented = call[d].presented
                 /\ call'[d].copy = call[d].copy /\ call'[d].issued = call[d].issued
                 /\ call'[d].old = call[d].old /\ call'[d].doomed = call[d].doomed
  <1>1. CASE StoreSession(c)
    <2>1. call[c].pc \in Storing
      BY <1>1 DEF StoreSession, Storing
    <2>2. ASSUME NEW d \in SessionCalls \ {c}
          PROVE  /\ call'[d].pc = call[d].pc /\ call'[d].wish = call[d].wish
                 /\ call'[d].presented = call[d].presented
                 /\ call'[d].copy = call[d].copy /\ call'[d].issued = call[d].issued
                 /\ call'[d].old = call[d].old /\ call'[d].doomed = call[d].doomed
      <3>1. call[d] \in Call /\ call'[d] \in {call[d], [call[d] EXCEPT !.overlapped = TRUE]}
        BY <1>1, StoreFacts DEF SessionsTypeOK
      <3> QED  BY <3>1 DEF Call
    <2> QED  BY <1>1, <2>1, <2>2, StoreFacts DEF Storing, InFlight
  <1>2. CASE Issue(c) \/ OpenSession(c) \/ PickOld(c) \/ ListSessions(c)
    <2>1. call[c] \in Call /\ second \in Seconds /\ Sessions \subseteq SessionCalls
      BY CallFacts DEF SessionsTypeOK, Sessions
    <2>2. \/ Update(c, [call[c] EXCEPT !.pc = "issued", !.issued = second])
          \/ \E d \in SUBSET SessionCalls :
                Update(c, [call[c] EXCEPT !.pc = "opened", !.began = second, !.doomed = d])
          \/ \E s \in SessionCalls \union {NoSession} :
                Update(c, [call[c] EXCEPT !.pc = "picked", !.old = s])
          \/ Update(c, [call[c] EXCEPT !.pc = "listed", !.doomed = Sessions])
      BY <1>2, <2>1 DEF Issue, OpenSession, PickOld, ListSessions, Oldest
    <2>3. PICK x \in Call :
             /\ Update(c, x)
             /\ x.wish = call[c].wish /\ x.presented = call[c].presented
             /\ x.copy = call[c].copy
             /\ x.pc \in {"issued", "opened", "picked", "listed"}
      <3> DEFINE Fits(x) == /\ x \in Call
                            /\ x.wish = call[c].wish /\ x.presented = call[c].presented
                            /\ x.copy = call[c].copy
                            /\ x.pc \in {"issued", "opened", "picked", "listed"}
      <3>1. Fits([call[c] EXCEPT !.pc = "issued", !.issued = second])
        BY <2>1 DEF Call, InFlight
      <3>2. \A d \in SUBSET SessionCalls :
               Fits([call[c] EXCEPT !.pc = "opened", !.began = second, !.doomed = d])
        BY <2>1 DEF Call, InFlight
      <3>3. \A s \in SessionCalls \union {NoSession} :
               Fits([call[c] EXCEPT !.pc = "picked", !.old = s])
        BY <2>1 DEF Call, InFlight
      <3>4. Fits([call[c] EXCEPT !.pc = "listed", !.doomed = Sessions])
        BY <2>1 DEF Call, InFlight
      <3>5. \A x : Fits(x) => x \in Call /\ Fits(x)
        OBVIOUS
      <3> HIDE DEF Fits
      <3>6. PICK x : Update(c, x) /\ Fits(x)
        BY <2>2, <3>1, <3>2, <3>3, <3>4
      <3> QED  BY <3>5, <3>6 DEF Fits
    <2>4. call'[c] = x /\ \A d \in SessionCalls \ {c} : call'[d] = call[d]
      BY <2>3, UpdateFacts
    <2>5. call[c].pc \in InFlight
      BY <1>2 DEF Issue, OpenSession, PickOld, ListSessions, InFlight
    <2> QED  BY <2>3, <2>4, <2>5
  <1>3. CASE Verify(c) \/ Purge(c)
    <2>1. call[c].pc \in InFlight
      BY <1>3 DEF Verify, Purge, InFlight
    <2>2. \/ Close(c, "refused") \/ Reach(c, "verified") \/ Reach(c, "purging")
          \/ Reach(c, "invalidating")
      BY <1>3 DEF Verify, Purge
    <2> QED  BY <2>1, <2>2, ReachFacts, CloseFacts
  <1>4. CASE Answer(c) \/ Logout(c) \/ Invalidate(c) \/ SaveUser(c) \/ Crash(c)
    <2>1. call[c].pc \in InFlight
      BY <1>4 DEF Answer, Logout, Invalidate, SaveUser, Crash, InFlight
    <2>2. Close(c, "done") \/ Close(c, "refused") \/ Close(c, "dead")
      BY <1>4 DEF Answer, Logout, Invalidate, SaveUser, Crash
    <2> QED  BY <2>1, <2>2, CloseFacts
  <1> QED  BY <1>1, <1>2, <1>3, <1>4 DEF Proceed

\* Who steps, and what does not change when nobody does.
LEMMA SessionSteps ==
    ASSUME [SessionsNext]_sessionVars
    PROVE  \/ \E c \in SessionCalls : \E w \in Wishes[c] : Entering(c, w)
           \/ \E c \in SessionCalls : Proceed(c) \/ Crash(c)
           \/ /\ Cleanup \/ SessionTick \/ UNCHANGED sessionVars
              /\ UNCHANGED <<call, cookie, validFrom, crowded>>
  BY DEF SessionsNext, Entering, Cleanup, SessionTick, sessionVars

-----------------------------------------------------------------------------
(* Password changes *)

\* A password change that is not dead is on its way and holds the user's row; nothing else
\* holds it.
PasswordInv ==
    /\ \A c \in SessionCalls :
          Kind(c) = "password" =>
              \/ call[c].pc = "dead"
              \/ call[c].pc \in {"locked", "invalidating"} /\ lock = c
    /\ lock # NoSession => /\ lock \in SessionCalls /\ Kind(lock) = "password"
                           /\ call[lock].pc \in {"locked", "invalidating"}

\* The row of the user stays locked until the process of the call that locked it dies.
RowStaysLocked ==
    [][lock # NoSession =>
          lock' = lock \/ (lock \in Fragile /\ call'[lock].pc = "dead")]_sessionVars

LEMMA PasswordStep ==
    SessionsTypeOK /\ PasswordInv /\ [SessionsNext]_sessionVars =>
        /\ PasswordInv'
        /\ lock # NoSession => lock' = lock \/ (lock \in Fragile /\ call'[lock].pc = "dead")
  <1> SUFFICES ASSUME SessionsTypeOK, PasswordInv, [SessionsNext]_sessionVars
               PROVE  /\ PasswordInv'
                      /\ lock # NoSession =>
                            lock' = lock \/ (lock \in Fragile /\ call'[lock].pc = "dead")
    OBVIOUS
  <1> USE DEF Kind
  <1>1. ASSUME NEW c \in SessionCalls, NEW w \in Wishes[c], Entering(c, w)
        PROVE  PasswordInv' /\ (lock # NoSession => lock' = lock)
    <2>1. call[c].pc = "idle"
      BY <1>1 DEF Entering, EnterGuard, Login, SavePassword, ChangeEmail, LoadUser
    <2>2. call'[c].wish = w /\ \A d \in SessionCalls \ {c} : call'[d] = call[d]
      BY <1>1, EnteringFacts
    <2>3. lock # c
      BY <2>1, SessionsAssumption DEF PasswordInv, SessionsAssumption
    <2>4. CASE SavePassword(c, w)
      <3>1. lock = NoSession /\ lock' = c /\ w.kind = "password"
        BY <2>4 DEF SavePassword, Unlocked
      <3>2. call'[c].pc = "locked"
        BY <2>4 DEF SavePassword, Update, Brief, SessionsTypeOK
      <3> QED
        BY <2>2, <3>1, <3>2, SessionsAssumption DEF PasswordInv, SessionsAssumption
    <2>5. CASE ~SavePassword(c, w)
      <3>1. lock' = lock /\ w.kind # "password"
        BY <1>1, <2>5 DEF Entering, EnterGuard, Login, SavePassword, ChangeEmail, LoadUser
      <3> QED
        BY <2>2, <2>3, <3>1 DEF PasswordInv
    <2> QED
      BY <2>4, <2>5
  <1>2. ASSUME NEW c \in SessionCalls, Proceed(c)
        PROVE  PasswordInv' /\ lock' = lock
    <2>1. /\ call'[c].wish = call[c].wish
          /\ \A d \in SessionCalls \ {c} :
                call'[d].wish = call[d].wish /\ call'[d].pc = call[d].pc
      BY <1>2, OnwardFacts
    <2>2. call[c].pc \in InFlight
      BY <1>2, OnwardFacts
    <2>3. lock' = lock
      BY <1>2 DEF Proceed, Verify, Issue, OpenSession, PickOld, StoreSession, Answer,
                  ListSessions, Logout, Purge, Invalidate, SaveUser
    <2>4. CASE Kind(c) = "password"
      <3>1. call[c].pc \in {"locked", "invalidating"} /\ lock = c
        BY <2>2, <2>4 DEF PasswordInv, InFlight
      <3>2. lock # NoSession
        BY <3>1, SessionsAssumption DEF SessionsAssumption
      <3>3. Purge(c)
        BY <1>2, <3>1, <3>2, <2>4 DEF Proceed, Verify, Issue, OpenSession, PickOld, StoreSession,
              Answer, ListSessions, Logout, Invalidate, SaveUser, Unlocked, Storing
      <3>4. call'[c].pc = "invalidating"
        BY <3>3, ReachFacts DEF Purge
      <3> QED
        BY <2>1, <2>3, <3>1, <3>4 DEF PasswordInv
    <2>5. CASE Kind(c) # "password"
      BY <2>1, <2>3, <2>5 DEF PasswordInv
    <2> QED
      BY <2>3, <2>4, <2>5
  <1>3. ASSUME NEW c \in SessionCalls, Crash(c)
        PROVE  /\ PasswordInv'
               /\ lock # NoSession =>
                     lock' = lock \/ (lock \in Fragile /\ call'[lock].pc = "dead")
    <2>1. /\ call'[c].wish = call[c].wish /\ call'[c].pc = "dead"
          /\ \A d \in SessionCalls \ {c} : call'[d] = call[d]
      BY <1>3, CloseFacts DEF Crash
    <2>2. c \in Fragile /\ lock' = IF lock = c THEN NoSession ELSE lock
      BY <1>3 DEF Crash
    <2> QED
      BY <2>1, <2>2, SessionsAssumption DEF PasswordInv, SessionsAssumption
  <1>4. CASE UNCHANGED <<call, lock>>
    BY <1>4 DEF PasswordInv
  <1>5. Cleanup \/ SessionTick \/ UNCHANGED sessionVars => UNCHANGED <<call, lock>>
    BY DEF Cleanup, SessionTick, sessionVars
  <1> QED
    BY <1>1, <1>2, <1>3, <1>4, <1>5, SessionSteps

\* No password change is ever answered, in any instance: it waits for the row that its own
\* transaction holds, and the row stays locked until the process dies (changePassword and
\* resetPassword await invalidateAllTokens inside the transaction).
THEOREM PasswordChangesHang ==
    SessionsSpec =>
        /\ [](\A c \in SessionCalls :
                 Kind(c) = "password" => call[c].pc \in {"locked", "invalidating", "dead"})
        /\ RowStaysLocked
  <1>1. SessionsInit => PasswordInv
    <2>1. SessionsInit => /\ lock = NoSession
                          /\ \A c \in SessionCalls : call[c].wish.kind = "login"
      BY DEF SessionsInit, Brief, FirstWish
    <2> QED
      BY <2>1 DEF PasswordInv, Kind
  <1>2. PasswordInv => \A c \in SessionCalls :
                 Kind(c) = "password" => call[c].pc \in {"locked", "invalidating", "dead"}
    BY DEF PasswordInv
  <1>3. SessionsTypeOK /\ PasswordInv /\ [SessionsNext]_sessionVars =>
           /\ PasswordInv'
           /\ [lock # NoSession =>
                  lock' = lock \/ (lock \in Fragile /\ call'[lock].pc = "dead")]_sessionVars
    BY PasswordStep
  <1> QED
    BY <1>1, <1>2, <1>3, SessionsTypeInit, SessionsTypeStep, PTL
       DEF SessionsSpec, RowStaysLocked

-----------------------------------------------------------------------------
(* The limit on the sessions *)

\* The rows a call leaves of those it found.
Left(c) == (Sessions \ call[c].doomed) \union ({call[c].old} \ {NoSession})

\* A call whose transaction no other overlapped leaves room for its session.
RoomInv ==
    /\ WithinLimitUnlessCrowded
    /\ \A c \in SessionCalls :
          /\ call[c].pc \in {"guarded", "verified", "issued", "opened"} => call[c].old = NoSession
          /\ call[c].pc \in Storing /\ ~call[c].overlapped => Cardinality(Left(c)) < SessionLimit

LEMMA RowsAreFinite ==
    ASSUME NEW rows \in SUBSET SessionCalls
    PROVE  IsFiniteSet(rows) /\ Cardinality(rows) \in Nat
  BY SessionsAssumption, FS_Subset, FS_CardinalityType DEF SessionsAssumption

LEMMA FewerRows ==
    ASSUME NEW rows \in SUBSET SessionCalls, NEW some \in SUBSET rows
    PROVE  Cardinality(some) <= Cardinality(rows)
  BY RowsAreFinite, FS_Subset

\* Without the oldest there is room for one more.
LEMMA OldestFacts ==
    ASSUME NEW rows \in SUBSET SessionCalls, NEW d \in Oldest(rows)
    PROVE  Cardinality(rows \ d) < SessionLimit
  <1>1. SessionLimit \in Nat /\ SessionLimit > 0
    BY SessionsAssumption DEF SessionsAssumption
  <1>2. IsFiniteSet(rows) /\ Cardinality(rows) \in Nat
    BY RowsAreFinite
  <1>3. CASE Cardinality(rows) >= SessionLimit
    <2>1. d \subseteq rows /\ Cardinality(d) = Cardinality(rows) - SessionLimit + 1
      BY <1>3 DEF Oldest
    <2>2. Cardinality(rows \ d) = Cardinality(rows) - Cardinality(d)
      <3>1. IsFiniteSet(d) /\ rows \intersect d = d
        BY <1>2, <2>1, FS_Subset
      <3> QED  BY <1>2, <3>1, FS_Difference
    <2>3. Cardinality(rows) - (Cardinality(rows) - SessionLimit + 1) < SessionLimit
      BY <1>1, <1>2
    <2> QED  BY <2>1, <2>2, <2>3
  <1>4. CASE ~(Cardinality(rows) >= SessionLimit)
    <2>1. rows \ d = rows
      BY <1>4 DEF Oldest
    <2> QED  BY <1>1, <1>2, <1>4, <2>1
  <1> QED  BY <1>3, <1>4

\* Where no call stores a session the rows are as many at most, and nothing changes for
\* the calls that are storing.
LEMMA RoomKept ==
    ASSUME SessionsTypeOK, RoomInv, Sessions' \subseteq Sessions, UNCHANGED crowded,
           \A c \in SessionCalls :
              \/ /\ call'[c].pc = call[c].pc /\ call'[c].old = call[c].old
                 /\ call'[c].doomed = call[c].doomed /\ call'[c].overlapped = call[c].overlapped
              \/ /\ call'[c].pc \in {"guarded", "verified", "issued", "opened"} =>
                       call'[c].old = NoSession
                 /\ call'[c].pc \in Storing /\ ~call'[c].overlapped =>
                       Cardinality(Left(c)') < SessionLimit
    PROVE  RoomInv'
  <1>1. /\ Sessions \in SUBSET SessionCalls /\ Sessions' \in SUBSET SessionCalls
        /\ SessionLimit \in Nat
    BY SessionsAssumption DEF Sessions, SessionsAssumption
  <1>2. Cardinality(Sessions') <= Cardinality(Sessions)
    BY <1>1, FewerRows
  <1>3. WithinLimitUnlessCrowded'
    BY <1>1, <1>2, RowsAreFinite DEF RoomInv, WithinLimitUnlessCrowded
  <1>4. ASSUME NEW c \in SessionCalls,
               call'[c].pc = call[c].pc, call'[c].old = call[c].old,
               call'[c].doomed = call[c].doomed, call'[c].overlapped = call[c].overlapped,
               call'[c].pc \in Storing, ~call'[c].overlapped
        PROVE  Cardinality(Left(c)') < SessionLimit
    <2>1. Left(c) \in SUBSET SessionCalls /\ Left(c)' \in SUBSET Left(c)
      BY <1>1, <1>4, CallFacts DEF Left
    <2>2. Cardinality(Left(c)') <= Cardinality(Left(c))
      BY <2>1, FewerRows
    <2>3. Left(c)' \in SUBSET SessionCalls
      BY <2>1
    <2>4. Cardinality(Left(c)) < SessionLimit
      BY <1>4 DEF RoomInv
    <2> QED  BY <1>1, <2>1, <2>2, <2>3, <2>4, RowsAreFinite
  <1>5. ASSUME NEW c \in SessionCalls
        PROVE  /\ call'[c].pc \in {"guarded", "verified", "issued", "opened"} =>
                     call'[c].old = NoSession
               /\ call'[c].pc \in Storing /\ ~call'[c].overlapped =>
                     Cardinality(Left(c)') < SessionLimit
    BY <1>4 DEF RoomInv
  <1> QED  BY <1>3, <1>5 DEF RoomInv

LEMMA RoomStep ==
    SessionsTypeOK /\ RoomInv /\ [SessionsNext]_sessionVars => RoomInv'
  <1> SUFFICES ASSUME SessionsTypeOK, RoomInv, [SessionsNext]_sessionVars
               PROVE  RoomInv'
    OBVIOUS
  <1>0. /\ Sessions \in SUBSET SessionCalls /\ SessionLimit \in Nat
        /\ NoSession \notin SessionCalls
    BY SessionsAssumption DEF Sessions, SessionsAssumption
  <1>1. ASSUME NEW c \in SessionCalls, NEW w \in Wishes[c], Entering(c, w)
        PROVE  RoomInv'
    <2>1. call'[c].old = NoSession /\ call'[c].pc \notin Storing
      <3>1. call[c].pc = "idle"
        BY <1>1 DEF Entering, EnterGuard, Login, SavePassword, ChangeEmail, LoadUser
      <3>2. \E pc \in {"guarded", "refused", "verified", "locked", "done", "loaded"},
                p \in Seconds, s \in SessionCalls \union {NoSession} :
                  call'[c] \in {Brief(pc, w, p, s), [Brief(pc, w, p, s) EXCEPT !.copy = validFrom]}
        <4>1. /\ call \in [SessionCalls -> Call] /\ 0 \in Seconds
              /\ Presented(w.browser) \in Seconds
              /\ owner[w.browser] \in SessionCalls \union {NoSession}
          BY WishFacts, PresentedFacts, SessionsAssumption
          DEF SessionsTypeOK, Seconds, SessionsAssumption
        <4> QED
          BY <1>1, <4>1
          DEF Entering, EnterGuard, Login, SavePassword, ChangeEmail, LoadUser, Update
      <3> QED  BY <3>2 DEF Brief, Storing
    <2>2. \A d \in SessionCalls \ {c} : call'[d] = call[d]
      BY <1>1, EnteringFacts
    <2>3. Sessions' \subseteq Sessions /\ UNCHANGED crowded
      BY <1>1, DropFacts
      DEF Entering, EnterGuard, Login, SavePassword, ChangeEmail, LoadUser, Sessions
    <2> QED  BY <2>1, <2>2, <2>3, RoomKept
  <1>2. ASSUME NEW c \in SessionCalls, OpenSession(c)
        PROVE  RoomInv'
    <2>1. PICK d \in Oldest(Sessions) :
             Update(c, [call[c] EXCEPT !.pc = "opened", !.began = second, !.doomed = d])
      BY <1>2 DEF OpenSession
    <2>2. /\ call' \in [SessionCalls -> Call]
          /\ \A e \in SessionCalls \ {c} : call'[e] = call[e]
          /\ call'[c] = [call[c] EXCEPT !.pc = "opened", !.began = second, !.doomed = d]
      <3>1. d \subseteq SessionCalls
        BY <1>0, <2>1 DEF Oldest
      <3>2. call[c] \in Call /\ second \in Seconds
        BY CallFacts DEF SessionsTypeOK
      <3>3. [call[c] EXCEPT !.pc = "opened", !.began = second, !.doomed = d] \in Call
        BY <3>1, <3>2 DEF Call, InFlight
      <3> QED  BY <2>1, <3>3, UpdateFacts
    <2>3. call[c].old = NoSession /\ call[c] \in Call
      BY <1>2, CallFacts DEF OpenSession, RoomInv
    <2>4. call'[c].old = NoSession /\ call'[c].doomed = d
      BY <2>2, <2>3 DEF Call
    <2>5. UNCHANGED <<session, crowded>> /\ Sessions' = Sessions
      BY <1>2 DEF OpenSession, Sessions
    <2>6. Left(c)' = Sessions \ d
      BY <2>4, <2>5 DEF Left
    <2>7. Cardinality(Left(c)') < SessionLimit
      BY <1>0, <2>6, OldestFacts
    <2> QED  BY <2>2, <2>4, <2>5, <2>7, RoomKept
  <1>3. ASSUME NEW c \in SessionCalls, PickOld(c)
        PROVE  RoomInv'
    <2> DEFINE rows == Sessions \ call[c].doomed
    <2>1. PICK s \in rows \union {NoSession} :
             /\ s = NoSession <=> rows = {}
             /\ Update(c, [call[c] EXCEPT !.pc = "picked", !.old = s])
      BY <1>3 DEF PickOld
    <2>2. call[c] \in Call /\ call[c].pc = "opened" /\ call[c].old = NoSession
      BY <1>3, CallFacts DEF PickOld, RoomInv
    <2>3. /\ call' \in [SessionCalls -> Call]
          /\ \A e \in SessionCalls \ {c} : call'[e] = call[e]
          /\ call'[c] = [call[c] EXCEPT !.pc = "picked", !.old = s]
      <3>1. [call[c] EXCEPT !.pc = "picked", !.old = s] \in Call
        BY <1>0, <2>1, <2>2 DEF Call, InFlight
      <3> QED  BY <2>1, <3>1, UpdateFacts
    <2>4. /\ call'[c].pc = "picked" /\ call'[c].old = s /\ call'[c].doomed = call[c].doomed
          /\ call'[c].overlapped = call[c].overlapped
      BY <2>2, <2>3 DEF Call
    <2>5. UNCHANGED <<session, crowded>> /\ Sessions' = Sessions
      BY <1>3 DEF PickOld, Sessions
    <2>6. Left(c)' = rows /\ Left(c) = rows
      BY <2>1, <2>2, <2>4, <2>5 DEF Left
    <2>7. ~call'[c].overlapped => Cardinality(Left(c)') < SessionLimit
      BY <2>2, <2>4, <2>6 DEF RoomInv, Storing
    <2> QED  BY <2>3, <2>4, <2>5, <2>7, RoomKept
  <1>4. ASSUME NEW c \in SessionCalls, StoreSession(c)
        PROVE  RoomInv'
    <2>1. call[c].pc \in Storing /\ crowded' = (crowded \/ call[c].overlapped)
      BY <1>4 DEF StoreSession, Storing
    <2>2. Left(c) \in SUBSET SessionCalls /\ Sessions' \subseteq Left(c) \union {c}
      <3>1. Sessions' \subseteq SessionCalls
        BY DEF Sessions
      <3> QED  BY <1>0, <1>4, <3>1, StoreFacts, CallFacts DEF Left
    <2>3. WithinLimitUnlessCrowded'
      <3> SUFFICES ASSUME ~crowded' PROVE Cardinality(Sessions') <= SessionLimit
        BY DEF WithinLimitUnlessCrowded
      <3>1. ~call[c].overlapped
        BY <2>1, CallFacts DEF SessionsTypeOK
      <3>2. Cardinality(Left(c)) < SessionLimit
        BY <2>1, <3>1 DEF RoomInv
      <3>3. Cardinality(Left(c) \union {c}) <= Cardinality(Left(c)) + 1
        BY <2>2, RowsAreFinite, FS_AddElement
      <3>4. Left(c) \union {c} \in SUBSET SessionCalls
        BY <2>2
      <3>5. Cardinality(Sessions') <= Cardinality(Left(c) \union {c})
        BY <2>2, <3>4, FewerRows
      <3>6. Cardinality(Sessions') \in Nat
        BY <2>2, <3>4, RowsAreFinite
      <3> QED  BY <1>0, <2>2, <3>2, <3>3, <3>4, <3>5, <3>6, RowsAreFinite
    <2>4. ASSUME NEW d \in SessionCalls
          PROVE  /\ call'[d].pc \in {"guarded", "verified", "issued", "opened"} =>
                       call'[d].old = NoSession
                 /\ call'[d].pc \in Storing /\ ~call'[d].overlapped =>
                       Cardinality(Left(d)') < SessionLimit
      <3>1. CASE d = c
        BY <1>4, <3>1, StoreFacts DEF Storing
      <3>2. CASE d # c /\ call[d].pc \in Storing
        <4>1. call[d] \in Call /\ call'[d] = [call[d] EXCEPT !.overlapped = TRUE]
          BY <1>4, <3>2, StoreFacts DEF SessionsTypeOK
        <4>2. call'[d].overlapped /\ call'[d].pc = call[d].pc /\ call'[d].old = call[d].old
          BY <4>1 DEF Call
        <4> QED  BY <4>2 DEF RoomInv
      <3>3. CASE d # c /\ call[d].pc \notin Storing
        <4>1. call'[d] = call[d]
          BY <1>4, <3>3, StoreFacts
        <4> QED  BY <3>3, <4>1 DEF RoomInv
      <3> QED  BY <3>1, <3>2, <3>3
    <2> QED  BY <2>3, <2>4 DEF RoomInv
  <1>5. ASSUME NEW c \in SessionCalls, Proceed(c) \/ Crash(c),
               ~OpenSession(c), ~PickOld(c), ~StoreSession(c)
        PROVE  RoomInv'
    <2>1. call'[c].pc \notin Storing
      <3>1. CASE Issue(c) \/ ListSessions(c)
        <4>1. call[c] \in Call
          BY CallFacts
        <4>2. call'[c] \in {[call[c] EXCEPT !.pc = "issued", !.issued = second],
                           [call[c] EXCEPT !.pc = "listed", !.doomed = Sessions]}
          BY <3>1 DEF Issue, ListSessions, Update, SessionsTypeOK
        <4> QED  BY <4>1, <4>2 DEF Call, Storing
      <3>2. CASE Verify(c) \/ Purge(c)
        BY <3>2, ReachFacts, CloseFacts DEF Verify, Purge, Storing
      <3>3. CASE Answer(c) \/ Logout(c) \/ Invalidate(c) \/ SaveUser(c) \/ Crash(c)
        BY <3>3, CloseFacts DEF Answer, Logout, Invalidate, SaveUser, Crash, Storing
      <3> QED  BY <1>5, <3>1, <3>2, <3>3 DEF Proceed
    <2>2. call'[c].pc \in {"guarded", "verified", "issued", "opened"} => call'[c].old = NoSession
      <3>1. CASE Issue(c) \/ (Verify(c) /\ Reach(c, "verified"))
        <4>1. call[c] \in Call /\ call[c].old = NoSession
          BY <3>1, CallFacts DEF Issue, Verify, RoomInv
        <4>2. call'[c] \in {[call[c] EXCEPT !.pc = "issued", !.issued = second],
                           [call[c] EXCEPT !.pc = "verified"]}
          BY <3>1 DEF Issue, Reach, Update, SessionsTypeOK
        <4> QED  BY <4>1, <4>2 DEF Call
      <3>2. CASE ListSessions(c)
        <4>1. call[c] \in Call
          BY CallFacts
        <4>2. call'[c] = [call[c] EXCEPT !.pc = "listed", !.doomed = Sessions]
          BY <3>2 DEF ListSessions, Update, SessionsTypeOK
        <4> QED  BY <4>1, <4>2 DEF Call
      <3>3. CASE Purge(c) \/ (Verify(c) /\ ~Reach(c, "verified"))
        BY <3>3, ReachFacts, CloseFacts DEF Verify, Purge
      <3>4. CASE Answer(c) \/ Logout(c) \/ Invalidate(c) \/ SaveUser(c) \/ Crash(c)
        BY <3>4, CloseFacts DEF Answer, Logout, Invalidate, SaveUser, Crash
      <3> QED  BY <1>5, <3>1, <3>2, <3>3, <3>4 DEF Proceed
    <2>3. \A d \in SessionCalls \ {c} : call'[d] = call[d]
      <3>1. CASE Issue(c) \/ ListSessions(c)
        BY <3>1 DEF Issue, ListSessions, Update, SessionsTypeOK
      <3>2. CASE Verify(c) \/ Purge(c)
        BY <3>2, ReachFacts, CloseFacts DEF Verify, Purge
      <3>3. CASE Answer(c) \/ Logout(c) \/ Invalidate(c) \/ SaveUser(c) \/ Crash(c)
        BY <3>3, CloseFacts DEF Answer, Logout, Invalidate, SaveUser, Crash
      <3> QED  BY <1>5, <3>1, <3>2, <3>3 DEF Proceed
    <2>4. Sessions' \subseteq Sessions /\ UNCHANGED crowded
      <3>1. CASE UNCHANGED session /\ UNCHANGED crowded
        BY <3>1 DEF Sessions
      <3>2. CASE (\E rows : Drop(rows)) /\ UNCHANGED crowded
        BY <3>2, DropFacts
      <3> QED
        BY <1>5, <3>1, <3>2 DEF Proceed, Verify, Issue, Answer, ListSessions, Logout, Purge,
                                Invalidate, SaveUser, Crash
    <2> QED  BY <2>1, <2>2, <2>3, <2>4, RoomKept
  <1>6. ASSUME Cleanup \/ SessionTick \/ UNCHANGED sessionVars
        PROVE  RoomInv'
    <2>1. UNCHANGED <<call, crowded>>
      BY <1>6 DEF Cleanup, SessionTick, sessionVars
    <2>2. Sessions' \subseteq Sessions
      BY <1>6, DropFacts DEF Cleanup, SessionTick, sessionVars, Sessions
    <2> QED  BY <2>1, <2>2, RoomKept
  <1> QED  BY <1>1, <1>2, <1>3, <1>4, <1>5, <1>6, SessionSteps

\* SESSION_LIMIT holds as long as no two transactions that store a session overlap, for
\* any number of calls and any limit (WithinLimitUnlessCrowded).
THEOREM SessionLimitHolds == SessionsSpec => []WithinLimitUnlessCrowded
  <1>1. SessionsInit => RoomInv
    <2> SUFFICES ASSUME SessionsInit PROVE RoomInv
      OBVIOUS
    <2>1. \A c \in SessionCalls : call[c].old = NoSession /\ call[c].pc \in {"idle", "done"}
      BY DEF SessionsInit, Brief
    <2>2. Sessions = {First}
      BY SessionsAssumption DEF SessionsInit, Sessions, NoRow, SessionsAssumption
    <2>3. Cardinality(Sessions) = 1
      BY <2>2, FS_Singleton
    <2> QED
      BY <2>1, <2>3, SessionsAssumption
      DEF RoomInv, WithinLimitUnlessCrowded, Storing, SessionsAssumption
  <1>2. RoomInv => WithinLimitUnlessCrowded
    BY DEF RoomInv
  <1> QED
    BY <1>1, <1>2, RoomStep, SessionsTypeInit, SessionsTypeStep, PTL DEF SessionsSpec

-----------------------------------------------------------------------------
(* Who is logged out, and why *)

\* While a token issued at p is alive, so is a row that expires at most a second earlier.
Covered(p) ==
    /\ p <= second
    /\ p # 0 /\ second < p + Lifetime =>
          \E s \in Sessions : p + Lifetime <= session[s].expires + 1

\* A call that would log nobody out: it revokes nothing, and its token is covered.
CallSafe(c) ==
    /\ call[c].copy = 0
    /\ call[c].pc \notin {"purging", "invalidating"}
    /\ call[c].pc = "locked" => Kind(c) = "password"
    /\ call[c].pc = "guarded" /\ Kind(c) = "refresh" =>
          /\ call[c].presented # 0
          /\ second < call[c].presented + Lifetime
          /\ Covered(call[c].presented)
    /\ call[c].pc \in {"issued", "opened", "picked"} =>
          call[c].issued <= second /\ second <= call[c].issued + 1
    /\ call[c].pc = "stored" => Covered(call[c].issued)

\* Until somebody is excused nothing has been revoked, and every token in a cookie or on
\* its way to or from one is covered.
LoggedInInv ==
    ~excused =>
        /\ validFrom = 0
        /\ \A b \in Browsers : Covered(cookie[b])
        /\ \A c \in SessionCalls : CallSafe(c)

LEMMA TimeFacts ==
    ASSUME SessionsTypeOK
    PROVE  /\ second \in Nat /\ Lifetime \in Nat /\ Lifetime > 0
           /\ Seconds \subseteq Nat
           /\ \A s \in SessionCalls : session[s].expires \in Nat
           /\ \A b \in Browsers : cookie[b] \in Seconds
  BY SessionsAssumption DEF SessionsAssumption, SessionsTypeOK, Seconds, Session

\* Rows that have not expired stay, and so what they cover.
LEMMA CoveredKept ==
    ASSUME SessionsTypeOK, NEW p \in Seconds, Covered(p),
           second' \in {second, second + 1},
           \A s \in Sessions : second <= session[s].expires =>
              s \in Sessions' /\ session'[s] = session[s]
    PROVE  Covered(p)'
  <1>1. /\ second \in Nat /\ Lifetime \in Nat /\ p \in Nat
        /\ \A s \in SessionCalls : session[s].expires \in Nat
    BY TimeFacts
  <1>2. p <= second'
    BY <1>1 DEF Covered
  <1>3. ASSUME p # 0, second' < p + Lifetime
        PROVE  \E s \in Sessions' : p + Lifetime <= session'[s].expires + 1
    <2>1. second < p + Lifetime
      BY <1>1, <1>3
    <2>2. PICK s \in Sessions : p + Lifetime <= session[s].expires + 1
      BY <1>3, <2>1 DEF Covered
    <2>3. session[s].expires \in Nat
      BY <1>1, <2>2 DEF Sessions
    <2>4. second <= session[s].expires
      BY <1>1, <2>1, <2>2, <2>3
    <2> QED  BY <2>2, <2>4
  <1> QED  BY <1>2, <1>3 DEF Covered

\* So do the calls whose state does not change.
LEMMA SafeKept ==
    ASSUME SessionsTypeOK, NEW d \in SessionCalls, CallSafe(d), UNCHANGED second,
           \A s \in Sessions : second <= session[s].expires =>
              s \in Sessions' /\ session'[s] = session[s],
           call'[d].pc = call[d].pc, call'[d].wish = call[d].wish,
           call'[d].presented = call[d].presented, call'[d].issued = call[d].issued,
           call'[d].copy = call[d].copy
    PROVE  CallSafe(d)'
  <1>1. PICK p \in Seconds, i \in Seconds : p = call[d].presented /\ i = call[d].issued
    BY CallFacts
  <1>2. (Covered(p) => Covered(p)') /\ (Covered(i) => Covered(i)')
    BY CoveredKept
  <1>3. /\ Covered(call[d].presented) => Covered(p)
        /\ Covered(call[d].issued) => Covered(i)
    BY <1>1
  <1>4. /\ Covered(p)' => Covered(call[d].presented)'
        /\ Covered(i)' => Covered(call[d].issued)'
    BY <1>1 DEF Covered
  <1> QED  BY <1>2, <1>3, <1>4 DEF CallSafe, Kind

\* The steps that store no session.
StoresNone ==
    \/ \E c \in SessionCalls : \E w \in Wishes[c] : Entering(c, w)
    \/ \E c \in SessionCalls : (Proceed(c) \/ Crash(c)) /\ ~StoreSession(c)
    \/ Cleanup \/ SessionTick \/ UNCHANGED sessionVars

\* One after which nobody is excused drops no row that has not expired.
LEMMA RowsKept ==
    ASSUME SessionsTypeOK, LoggedInInv, StoresNone, ~excused'
    PROVE  \A s \in Sessions : second <= session[s].expires =>
              s \in Sessions' /\ session'[s] = session[s]
  <1>1. CASE UNCHANGED session
    BY <1>1 DEF Sessions
  <1>2. ASSUME NEW rows, Drop(rows), \A s \in rows : ~(second <= session[s].expires)
        PROVE  \A s \in Sessions : second <= session[s].expires =>
                  s \in Sessions' /\ session'[s] = session[s]
    BY <1>2, DropFacts DEF Sessions
  <1>3. ASSUME NEW s \in SessionCalls, session[s].expires < second
        PROVE  ~(second <= session[s].expires)
    BY <1>3, TimeFacts
  <1>4. ASSUME NEW c \in SessionCalls, NEW w \in Wishes[c], Entering(c, w)
        PROVE  UNCHANGED session
    BY <1>4 DEF Entering, EnterGuard, Login, SavePassword, ChangeEmail, LoadUser
  <1>5. ASSUME NEW c \in SessionCalls, Proceed(c) \/ Crash(c), ~StoreSession(c)
        PROVE  \/ UNCHANGED session
               \/ \E s \in Sessions : Drop({s}) /\ session[s].expires < second
    <2>1. CASE Verify(c)
      BY <2>1 DEF Verify
    <2>2. ~Logout(c)
      BY DEF Logout
    <2>3. ~Purge(c)
      <3> SUFFICES ASSUME Purge(c) PROVE FALSE
        OBVIOUS
      <3>1. ~excused /\ Kind(c) = "refresh"
        BY DEF Purge
      <3>2. CallSafe(c)
        BY <3>1 DEF LoggedInInv
      <3> QED  BY <3>1, <3>2 DEF CallSafe, Purge
    <2> QED
      BY <1>5, <2>1, <2>2, <2>3
      DEF Proceed, Issue, OpenSession, PickOld, Answer, ListSessions, Invalidate, SaveUser, Crash
  <1>6. CASE Cleanup
    BY <1>2, <1>3, <1>6 DEF Cleanup, Sessions
  <1>7. CASE SessionTick \/ UNCHANGED sessionVars
    BY <1>1, <1>7 DEF SessionTick, sessionVars
  <1>8. ASSUME NEW s \in Sessions, Drop({s}), session[s].expires < second
        PROVE  \A r \in Sessions : second <= session[r].expires =>
                  r \in Sessions' /\ session'[r] = session[r]
    BY <1>2, <1>3, <1>8 DEF Sessions
  <1> QED  BY <1>1, <1>4, <1>5, <1>6, <1>7, <1>8 DEF StoresNone

\* excused is never taken back.
LEMMA ExcusedStays ==
    ASSUME SessionsTypeOK, [SessionsNext]_sessionVars, ~excused'
    PROVE  ~excused
  <1>1. ASSUME NEW c \in SessionCalls, NEW w \in Wishes[c], Entering(c, w)
        PROVE  ~excused
    BY <1>1 DEF Entering, EnterGuard, Login, SavePassword, ChangeEmail, LoadUser
  <1>2. ASSUME NEW c \in SessionCalls, Proceed(c) \/ Crash(c)
        PROVE  ~excused
    BY <1>2 DEF Proceed, Verify, Issue, OpenSession, PickOld, StoreSession, Answer,
                ListSessions, Logout, Purge, Invalidate, SaveUser, Crash
  <1>3. CASE Cleanup \/ SessionTick \/ UNCHANGED sessionVars
    BY <1>3 DEF Cleanup, SessionTick, sessionVars
  <1> QED  BY <1>1, <1>2, <1>3, SessionSteps

\* A refresh to be verified finds a row that has not expired.
LEMMA VerifyFacts ==
    ASSUME SessionsTypeOK, NEW c \in SessionCalls, CallSafe(c), Verify(c)
    PROVE  Reach(c, "verified") /\ Kind(c) = "refresh"
  <1>1. /\ call[c].presented # 0 /\ second < call[c].presented + Lifetime
        /\ Covered(call[c].presented) /\ Kind(c) = "refresh"
    BY DEF Verify, CallSafe
  <1>2. PICK r \in Sessions : call[c].presented + Lifetime <= session[r].expires + 1
    BY <1>1 DEF Covered
  <1>3. call[c].presented \in Nat /\ r \in SessionCalls
    BY <1>2, CallFacts, TimeFacts DEF Sessions
  <1>4. second <= session[r].expires
    BY <1>1, <1>2, <1>3, TimeFacts
  <1>5. ASSUME NEW s \in Sessions, \A t \in Sessions : session[t].expires <= session[s].expires
        PROVE  ~(session[s].expires < second)
    <2>1. session[r].expires <= session[s].expires /\ s \in SessionCalls
      BY <1>5 DEF Sessions
    <2> QED  BY <1>3, <1>4, <2>1, TimeFacts
  <1> QED  BY <1>1, <1>2, <1>5 DEF Verify

LEMMA LoggedInStep ==
    SessionsTypeOK /\ LoggedInInv /\ [SessionsNext]_sessionVars => LoggedInInv'
  <1> SUFFICES ASSUME SessionsTypeOK, LoggedInInv, [SessionsNext]_sessionVars, ~excused'
               PROVE  /\ validFrom' = 0
                      /\ \A b \in Browsers : Covered(cookie[b])'
                      /\ \A c \in SessionCalls : CallSafe(c)'
    BY DEF LoggedInInv
  <1>1. /\ ~excused /\ validFrom = 0
        /\ \A b \in Browsers : Covered(cookie[b])
        /\ \A c \in SessionCalls : CallSafe(c)
    BY ExcusedStays DEF LoggedInInv
  <1>2. ASSUME StoresNone, second' \in {second, second + 1},
               NEW b \in Browsers, cookie'[b] = cookie[b]
        PROVE  Covered(cookie[b])'
    <2>1. PICK p \in Seconds : p = cookie[b]
      BY TimeFacts
    <2>2. Covered(p)
      BY <1>1, <2>1
    <2>3. Covered(p)'
      BY <1>2, <2>2, RowsKept, CoveredKept
    <2> QED  BY <1>2, <2>1, <2>3 DEF Covered
  <1>3. ASSUME NEW c \in SessionCalls, NEW w \in Wishes[c], Entering(c, w)
        PROVE  /\ validFrom' = 0
               /\ \A b \in Browsers : Covered(cookie[b])'
               /\ \A d \in SessionCalls : CallSafe(d)'
    <2>1. UNCHANGED <<second, cookie, session>> /\ validFrom' = 0 /\ ~ChangeEmail(c, w)
      BY <1>1, <1>3 DEF Entering, EnterGuard, Login, SavePassword, ChangeEmail, LoadUser
    <2>2. StoresNone /\ Sessions' = Sessions
      BY <1>3, <2>1 DEF StoresNone, Sessions
    <2>3. ASSUME NEW d \in SessionCalls \ {c} PROVE CallSafe(d)'
      <3>1. call'[d] = call[d]
        BY <1>3, EnteringFacts
      <3> QED  BY <1>1, <2>1, <2>2, <3>1, SafeKept
    <2>4. CallSafe(c)'
      <3>1. w.kind = "password" \/ call'[c].pc # "locked"
        BY <1>3, EnteringFacts
      <3>2. CASE call'[c].presented = 0
        BY <1>1, <1>3, <3>1, <3>2, EnteringFacts DEF CallSafe, Kind
      <3>3. CASE call'[c].presented # 0
        <4>1. /\ call'[c].presented = Presented(w.browser)
              /\ call'[c].presented = cookie[w.browser]
              /\ second < call'[c].presented + Lifetime
          BY <1>3, <3>3, EnteringFacts, WishFacts, PresentedFacts
        <4>2. Covered(cookie[w.browser])
          BY <1>1, WishFacts
        <4>3. Covered(call[c].presented)'
          BY <2>1, <2>2, <4>1, <4>2 DEF Covered
        <4> QED  BY <1>1, <1>3, <2>1, <3>1, <3>3, <4>1, <4>3, EnteringFacts DEF CallSafe, Kind
      <3> QED  BY <3>2, <3>3
    <2> QED  BY <1>2, <2>1, <2>2, <2>3, <2>4
  <1>4. ASSUME NEW c \in SessionCalls, StoreSession(c)
        PROVE  /\ validFrom' = 0
               /\ \A b \in Browsers : Covered(cookie[b])'
               /\ \A d \in SessionCalls : CallSafe(d)'
    <2>1. UNCHANGED <<second, cookie, validFrom>>
      BY <1>4 DEF StoreSession
    <2>2. /\ c \in Sessions' /\ session'[c].expires = call[c].issued + Lifetime
          /\ call[c].issued <= second /\ second <= call[c].issued + 1
          /\ call[c].issued \in Nat
      <3>1. call[c].pc \in {"opened", "picked"}
        BY <1>4 DEF StoreSession
      <3> QED  BY <1>1, <1>4, <3>1, StoreFacts, CallFacts, TimeFacts DEF Sessions, CallSafe
    <2>3. ASSUME NEW p \in Seconds, p <= second PROVE Covered(p)'
      <3>1. p + Lifetime <= session'[c].expires + 1
        BY <2>2, <2>3, TimeFacts
      <3> QED  BY <2>1, <2>2, <2>3, <3>1 DEF Covered
    <2>4. ASSUME NEW b \in Browsers PROVE Covered(cookie[b])'
      <3>1. PICK p \in Seconds : p = cookie[b]
        BY TimeFacts
      <3>2. p <= second
        BY <1>1, <3>1 DEF Covered
      <3> QED  BY <2>1, <2>3, <3>1, <3>2 DEF Covered
    <2>5. ASSUME NEW d \in SessionCalls PROVE CallSafe(d)'
      <3>1. /\ call'[d].wish = call[d].wish /\ call'[d].presented = call[d].presented
            /\ call'[d].issued = call[d].issued /\ call'[d].copy = call[d].copy
            /\ call'[d].pc = IF d = c THEN "stored" ELSE call[d].pc
        BY <1>4, StoreFacts, OnwardFacts DEF Proceed
      <3>2. PICK p \in Seconds, i \in Seconds : p = call[d].presented /\ i = call[d].issued
        BY CallFacts
      <3>3. /\ p <= second => Covered(call[d].presented)'
            /\ i <= second => Covered(call[d].issued)'
        BY <2>3, <3>1, <3>2 DEF Covered
      <3>4. CallSafe(d)
        BY <1>1
      <3> QED  BY <2>1, <2>2, <3>1, <3>2, <3>3, <3>4 DEF CallSafe, Covered, Kind
    <2> QED  BY <1>1, <2>1, <2>4, <2>5
  <1>5. ASSUME NEW c \in SessionCalls, Proceed(c) \/ Crash(c), ~StoreSession(c)
        PROVE  /\ validFrom' = 0
               /\ \A b \in Browsers : Covered(cookie[b])'
               /\ \A d \in SessionCalls : CallSafe(d)'
    <2>1. StoresNone /\ CallSafe(c)
      BY <1>1, <1>5 DEF StoresNone
    <2>2. ~Logout(c) /\ ~Purge(c) /\ ~Invalidate(c)
      <3>1. ~Invalidate(c) /\ ~Logout(c)
        BY <2>1 DEF Invalidate, Logout, CallSafe
      <3>2. ASSUME Purge(c) PROVE FALSE
        <4>1. Kind(c) = "refresh"
          BY <1>1, <3>2 DEF Purge
        <4> QED  BY <2>1, <3>2, <4>1 DEF Purge, CallSafe
      <3> QED  BY <3>1, <3>2
    <2>3. UNCHANGED second
      BY <1>5, <2>2 DEF Proceed, Verify, Issue, OpenSession, PickOld, Answer, ListSessions,
                        SaveUser, Crash
    <2>4. validFrom' = 0
      BY <1>1, <1>5, <2>1, <2>2
      DEF Proceed, Verify, Issue, OpenSession, PickOld, Answer, ListSessions, SaveUser, Crash,
          CallSafe
    <2>5. ASSUME NEW b \in Browsers PROVE Covered(cookie[b])'
      <3>1. CASE Answer(c) /\ b = Browser(c)
        <4>1. PICK p \in Seconds : p = call[c].issued
          BY CallFacts
        <4>2. Covered(p)
          BY <2>1, <3>1, <4>1 DEF Answer, CallSafe
        <4>3. Covered(p)'
          BY <2>1, <2>3, <4>2, RowsKept, CoveredKept
        <4>4. cookie'[b] = p
          BY <3>1, <4>1 DEF Answer, SetCookie, SessionsTypeOK
        <4> QED  BY <4>3, <4>4 DEF Covered
      <3>2. CASE ~(Answer(c) /\ b = Browser(c))
        <4>1. cookie'[b] = cookie[b]
          BY <1>5, <2>2, <3>2
          DEF Proceed, Verify, Issue, OpenSession, PickOld, Answer, ListSessions, SaveUser,
              Crash, SetCookie, SessionsTypeOK
        <4> QED  BY <1>2, <2>1, <2>3, <4>1
      <3> QED  BY <3>1, <3>2
    <2>6. ASSUME NEW d \in SessionCalls \ {c} PROVE CallSafe(d)'
      <3>1. /\ call'[d].pc = call[d].pc /\ call'[d].wish = call[d].wish
            /\ call'[d].presented = call[d].presented /\ call'[d].issued = call[d].issued
            /\ call'[d].copy = call[d].copy
        BY <1>5, OnwardFacts
      <3> QED  BY <1>1, <2>1, <2>3, <3>1, RowsKept, SafeKept
    <2>7. CallSafe(c)'
      <3>0. call'[c].copy = 0 /\ call[c] \in Call /\ second \in Nat
        BY <1>5, <2>1, OnwardFacts, CallFacts, TimeFacts DEF CallSafe
      <3>1. CASE Verify(c)
        BY <2>1, <3>0, <3>1, VerifyFacts, ReachFacts DEF CallSafe
      <3>2. CASE Issue(c)
        <4>1. call'[c] = [call[c] EXCEPT !.pc = "issued", !.issued = second]
          BY <3>2 DEF Issue, Update, SessionsTypeOK
        <4>2. call'[c].pc = "issued" /\ call'[c].issued = second
          BY <3>0, <4>1 DEF Call
        <4> QED  BY <2>3, <3>0, <4>2 DEF CallSafe
      <3>3. CASE OpenSession(c) \/ PickOld(c) \/ ListSessions(c)
        <4>1. \/ call'[c].pc \in {"opened", "picked"} /\ call'[c].issued = call[c].issued
              \/ call'[c].pc = "listed"
          <5>1. CASE OpenSession(c)
            <6>1. PICK d : call'[c] = [call[c] EXCEPT !.pc = "opened", !.began = second, !.doomed = d]
              BY <5>1 DEF OpenSession, Update, SessionsTypeOK
            <6> QED  BY <3>0, <6>1 DEF Call
          <5>2. CASE PickOld(c)
            <6>1. PICK s : call'[c] = [call[c] EXCEPT !.pc = "picked", !.old = s]
              BY <5>2 DEF PickOld, Update, SessionsTypeOK
            <6> QED  BY <3>0, <6>1 DEF Call
          <5>3. CASE ListSessions(c)
            <6>1. call'[c] = [call[c] EXCEPT !.pc = "listed", !.doomed = Sessions]
              BY <5>3 DEF ListSessions, Update, SessionsTypeOK
            <6> QED  BY <3>0, <6>1 DEF Call
          <5> QED  BY <3>3, <5>1, <5>2, <5>3
        <4>2. call[c].pc \in {"issued", "opened"} \/ call'[c].pc = "listed"
          BY <3>3, <4>1, <3>0 DEF OpenSession, PickOld, ListSessions, Update, SessionsTypeOK, Call
        <4> QED  BY <2>1, <2>3, <3>0, <4>1, <4>2 DEF CallSafe
      <3>4. CASE Answer(c) \/ SaveUser(c) \/ Crash(c)
        BY <3>0, <3>4, CloseFacts DEF Answer, SaveUser, Crash, CallSafe
      <3> QED  BY <1>5, <2>2, <3>1, <3>2, <3>3, <3>4 DEF Proceed
    <2> QED  BY <2>4, <2>5, <2>6, <2>7
  <1>6. CASE Cleanup \/ UNCHANGED sessionVars
    <2>1. StoresNone /\ UNCHANGED <<second, cookie, validFrom, call>>
      BY <1>6 DEF StoresNone, Cleanup, sessionVars
    <2> QED  BY <1>1, <1>2, <2>1, RowsKept, SafeKept
  <1>7. CASE SessionTick
    <2>1. StoresNone /\ UNCHANGED <<cookie, validFrom, call>> /\ second' = second + 1
      BY <1>7 DEF StoresNone, SessionTick
    <2>2. ASSUME NEW c \in SessionCalls PROVE CallSafe(c)'
      <3>1. ~Dawdling(c) /\ CallSafe(c)
        BY <1>1, <1>7 DEF SessionTick
      <3>2. PICK p \in Seconds, i \in Seconds : p = call[c].presented /\ i = call[c].issued
        BY CallFacts
      <3>3. (Covered(p) => Covered(p)') /\ (Covered(i) => Covered(i)')
        BY <2>1, RowsKept, CoveredKept
      <3>4. /\ Covered(call[c].presented) => Covered(call[c].presented)'
            /\ Covered(call[c].issued) => Covered(call[c].issued)'
        BY <2>1, <3>2, <3>3 DEF Covered
      <3>5. p \in Nat /\ i \in Nat
        BY TimeFacts
      <3>6. call[c].pc = "guarded" /\ Kind(c) = "refresh" =>
               second + 1 < call[c].presented + Lifetime
        BY <3>1, <3>2, <3>5, TimeFacts DEF Dawdling
      <3>7. call[c].pc \in {"issued", "opened", "picked"} => call[c].issued = second
        BY <3>1, <3>2, <3>5, TimeFacts DEF Dawdling, CallSafe
      <3> QED  BY <2>1, <3>1, <3>4, <3>6, <3>7, TimeFacts DEF CallSafe, Kind
    <2> QED  BY <1>1, <1>2, <2>1, <2>2
  <1> QED  BY <1>3, <1>4, <1>5, <1>6, <1>7, SessionSteps

\* No step refuses a call that came with a cookie.
LEMMA RefusedWhenExcused ==
    ASSUME SessionsTypeOK, LoggedInInv, [SessionsNext]_sessionVars, NEW c \in SessionCalls,
           call'[c].pc = "refused", call[c].pc # "refused", call'[c].presented # 0
    PROVE  excused
  <1> SUFFICES ASSUME ~excused PROVE FALSE
    OBVIOUS
  <1>1. validFrom = 0 /\ \A d \in SessionCalls : CallSafe(d)
    BY DEF LoggedInInv
  <1>2. ASSUME NEW d \in SessionCalls, NEW w \in Wishes[d], Entering(d, w)
        PROVE  FALSE
    <2>1. d = c
      BY <1>2, EnteringFacts
    <2>2. Presented(w.browser) # 0 /\ ~(Presented(w.browser) >= validFrom)
      BY <1>2, <2>1, EnteringFacts
    <2> QED  BY <1>1, <1>2, <2>2, WishFacts, PresentedFacts, TimeFacts
  <1>3. ASSUME NEW d \in SessionCalls, Proceed(d) \/ Crash(d)
        PROVE  FALSE
    <2>1. d = c
      BY <1>3, OnwardFacts
    <2>2. ~Invalidate(c)
      BY <1>1 DEF Invalidate, CallSafe
    <2>3. ~Verify(c)
      BY <1>1, VerifyFacts, ReachFacts
    <2>4. CASE Answer(c) \/ Logout(c) \/ SaveUser(c) \/ Crash(c)
      BY <2>4, CloseFacts DEF Answer, Logout, SaveUser, Crash
    <2>5. CASE StoreSession(c) \/ Purge(c)
      BY <2>5, StoreFacts, ReachFacts DEF Purge
    <2>6. CASE Issue(c) \/ OpenSession(c) \/ PickOld(c) \/ ListSessions(c)
      <3>1. call[c] \in Call
        BY CallFacts
      <3>2. \/ call'[c] = [call[c] EXCEPT !.pc = "issued", !.issued = second]
            \/ \E r : call'[c] = [call[c] EXCEPT !.pc = "opened", !.began = second, !.doomed = r]
            \/ \E s : call'[c] = [call[c] EXCEPT !.pc = "picked", !.old = s]
            \/ call'[c] = [call[c] EXCEPT !.pc = "listed", !.doomed = Sessions]
        BY <2>6 DEF Issue, OpenSession, PickOld, ListSessions, Update, SessionsTypeOK
      <3> QED  BY <3>1, <3>2 DEF Call
    <2> QED  BY <1>3, <2>1, <2>2, <2>3, <2>4, <2>5, <2>6 DEF Proceed
  <1>4. CASE UNCHANGED call
    BY <1>4
  <1> QED  BY <1>2, <1>3, <1>4, SessionSteps

\* Neither the tabs of a browser, the session limit, lost answers nor the cleanup ever log
\* a user out whose cookie lives (NoLogoutLoop).  The tokens of a user match all of the
\* user's rows, and the proof rests on it: some row outlives every token (Covered).
THEOREM NobodyLoggedOut == SessionsSpec => NoLogoutLoop
  <1>1. SessionsInit => LoggedInInv
    <2> SUFFICES ASSUME SessionsInit PROVE LoggedInInv
      OBVIOUS
    <2>1. First \in Sessions /\ session[First].expires = 1 + Lifetime /\ second = 2
      BY SessionsAssumption DEF SessionsInit, Sessions, SessionsAssumption
    <2>2. Covered(0) /\ Covered(1)
      BY <2>1, SessionsAssumption DEF Covered, SessionsAssumption
    <2>3. \A b \in Browsers : cookie[b] \in {0, 1}
      BY DEF SessionsInit
    <2>4. \A b \in Browsers : Covered(cookie[b])
      BY <2>2, <2>3
    <2>5. \A c \in SessionCalls : call[c].pc \in {"idle", "done"} /\ call[c].copy = 0
      BY DEF SessionsInit, Brief
    <2>6. \A c \in SessionCalls : CallSafe(c)
      BY <2>5 DEF CallSafe
    <2> QED  BY <2>4, <2>6 DEF SessionsInit, LoggedInInv
  <1>2. SessionsTypeOK /\ LoggedInInv /\ [SessionsNext]_sessionVars =>
           [\A c \in SessionCalls :
              call[c].pc # "refused" /\ call'[c].pc = "refused" /\ call'[c].presented # 0
                  => excused]_sessionVars
    BY RefusedWhenExcused
  <1> QED
    BY <1>1, <1>2, LoggedInStep, SessionsTypeInit, SessionsTypeStep, PTL
    DEF SessionsSpec, NoLogoutLoop

-----------------------------------------------------------------------------
(* The session of an agent's browser *)

\* One of the browser's calls.
AnyCall == ApiCalls \union {UserMe}

LEMMA CallTypes ==
    ASSUME NEW pc \in {"unused", "sent", "waiting", "ended"}, NEW token \in {0} \union Tokens
    PROVE  CallAt(pc, token) \in ApiCall /\ CallAt(pc, token).pc = pc
  BY DEF CallAt, ApiCall

LEMMA TokenFacts ==
    ASSUME AgentTypeOK
    PROVE  /\ LastToken \in Nat /\ 1 \in Tokens
           /\ bearer \in {0} \union Tokens /\ tokens \in Nat /\ tokens <= LastToken
           /\ renewal \in Renewal /\ renewal.token \in {0} \union Tokens
           /\ NoRenewal \in Renewal /\ NoRenewal.pc = "idle"
           /\ Ended \in ApiCall
           /\ \A c \in AnyCall : apiCall[c] \in ApiCall
  <1>1. LastToken \in Nat /\ 1 \in Tokens
    BY AgentAssumption DEF AgentAssumption, Tokens
  <1>2. NoRenewal \in Renewal /\ NoRenewal.pc = "idle" /\ Ended \in ApiCall
    BY CallTypes DEF NoRenewal, Renewal, Ended
  <1> QED  BY <1>1, <1>2 DEF AgentTypeOK, Renewal, Tokens, AnyCall

LEMMA AgentTypeInit ==
    AgentInit => AgentTypeOK
  <1> SUFFICES ASSUME AgentInit PROVE AgentTypeOK
    OBVIOUS
  <1>1. 1 \in Tokens
    BY AgentAssumption DEF AgentAssumption, Tokens
  <1>2. apiCall \in [ApiCalls \union {UserMe} -> ApiCall]
    BY CallTypes DEF AgentInit, Ended
  <1>3. renewal \in Renewal
    BY DEF AgentInit, NoRenewal, Renewal
  <1> QED  BY <1>1, <1>2, <1>3 DEF AgentInit, AgentTypeOK

LEMMA AgentTypeStep ==
    AgentTypeOK /\ [AgentNext]_agentVars => AgentTypeOK'
  <1> SUFFICES ASSUME AgentTypeOK, [AgentNext]_agentVars PROVE AgentTypeOK'
    OBVIOUS
  <1> USE TokenFacts
  <1>1. CASE UNCHANGED agentVars
    BY <1>1 DEF agentVars, AgentTypeOK
  <1>2. ASSUME NEW c \in ApiCalls, SendCall(c) PROVE AgentTypeOK'
    <2>1. CallAt("sent", bearer) \in ApiCall
      BY CallTypes DEF AgentTypeOK
    <2> QED  BY <1>2, <2>1 DEF SendCall, AgentTypeOK
  <1>3. ASSUME NEW c \in AnyCall, AnswerCall(c) PROVE AgentTypeOK'
    BY <1>3 DEF AnswerCall, AgentTypeOK, Enter, SignOut, AnyCall
  <1>4. ASSUME NEW c \in AnyCall, FailCall(c) \/ RefuseAgain(c) PROVE AgentTypeOK'
    BY <1>4 DEF FailCall, RefuseAgain, Reject, AgentTypeOK, SignOut, AnyCall
  <1>5. ASSUME NEW c \in AnyCall, RefuseCall(c) PROVE AgentTypeOK'
    <2>1. [apiCall[c] EXCEPT !.pc = "waiting", !.retried = TRUE] \in ApiCall
      BY DEF ApiCall
    <2>2. apiCall' = [apiCall EXCEPT ![c] = [apiCall[c] EXCEPT !.pc = "waiting", !.retried = TRUE]]
      BY <1>5 DEF RefuseCall, AgentTypeOK
    <2>3. [NoRenewal EXCEPT !.pc = "sent"] \in Renewal
      BY DEF Renewal
    <2> QED  BY <1>5, <2>1, <2>2, <2>3 DEF RefuseCall, AgentTypeOK
  <1>6. CASE GrantRenewal
    <2>1. tokens + 1 \in Tokens
      BY <1>6 DEF GrantRenewal, Tokens
    <2>2. [pc |-> "granted", token |-> tokens + 1] \in Renewal
      BY <2>1 DEF Renewal
    <2>3. expired \subseteq 1 .. tokens + 1
      BY DEF AgentTypeOK
    <2> QED  BY <1>6, <2>1, <2>2, <2>3 DEF GrantRenewal, AgentTypeOK
  <1>7. CASE AnswerRenewal
    <2>1. apiCall' = [c \in ApiCalls \union {UserMe} |->
                         IF apiCall[c].pc = "waiting"
                         THEN [apiCall[c] EXCEPT !.pc = "sent", !.token = renewal.token]
                         ELSE apiCall[c]]
      BY <1>7 DEF AnswerRenewal, WaitingBecome, AgentTypeOK
    <2>2. \A c \in AnyCall :
             [apiCall[c] EXCEPT !.pc = "sent", !.token = renewal.token] \in ApiCall
      BY DEF ApiCall
    <2>3. apiCall' \in [ApiCalls \union {UserMe} -> ApiCall]
      BY <2>1, <2>2 DEF AnyCall
    <2> QED  BY <1>7, <2>3 DEF AnswerRenewal, Enter, AgentTypeOK
  <1>8. CASE RefuseRenewal \/ FailRenewal
    <2>1. EndRenewal
      BY <1>8 DEF RefuseRenewal, FailRenewal, Refusal
    <2>2. apiCall' = [c \in ApiCalls \union {UserMe} |->
                         IF apiCall[c].pc = "waiting" THEN Ended ELSE apiCall[c]]
      BY <2>1 DEF EndRenewal, WaitingBecome, AgentTypeOK
    <2>3. apiCall' \in [ApiCalls \union {UserMe} -> ApiCall]
      BY <2>2 DEF AnyCall
    <2> QED  BY <2>1, <2>3 DEF EndRenewal, SignOut, AgentTypeOK
  <1>9. CASE LogIn
    <2>1. tokens + 1 \in Tokens
      BY <1>9 DEF LogIn, Tokens
    <2>2. expired \subseteq 1 .. tokens + 1
      BY DEF AgentTypeOK
    <2> QED  BY <1>9, <2>1, <2>2 DEF LogIn, Enter, AgentTypeOK
  <1>10. CASE LogOut \/ ServeLogout \/ EndLogout \/ EndSession
    BY <1>10 DEF LogOut, ServeLogout, EndLogout, ClearAnyway, SignOut, EndSession, AgentTypeOK
  <1>11. CASE LoadPage
    <2>1. CallAt("sent", bearer) \in ApiCall
      BY CallTypes DEF AgentTypeOK
    <2>2. apiCall' \in [ApiCalls \union {UserMe} -> ApiCall]
      BY <1>11, <2>1 DEF LoadPage, AgentTypeOK, AnyCall
    <2> QED  BY <1>11, <2>2 DEF LoadPage, AgentTypeOK
  <1>12. ASSUME NEW t \in Tokens, ExpireToken(t) PROVE AgentTypeOK'
    BY <1>12 DEF ExpireToken, AgentTypeOK
  <1> QED
    BY <1>1, <1>2, <1>3, <1>4, <1>5, <1>6, <1>7, <1>8, <1>9, <1>10, <1>11, <1>12
    DEF AgentNext, Respond, AnyCall

\* The store, the calls and the refresh of a browser keep their types.
THEOREM AgentTypeCorrect == AgentSpec => []AgentTypeOK
  BY AgentTypeInit, AgentTypeStep, PTL DEF AgentSpec

\* Who has a token is signed in; and a logout that left no refresh and no cookie behind
\* leaves nothing that could sign the agent in again.
StoreInv ==
    /\ bearer # 0 <=> signedIn
    /\ renewal.pc = "granted" => renewal.token # 0
    /\ SessionFollowsAgent
    /\ ~crossed /\ said = "logout" => ~renewable /\ renewal.pc # "granted"

LEMMA StoreStep ==
    AgentTypeOK /\ StoreInv /\ [AgentNext]_agentVars => StoreInv'
  <1> SUFFICES ASSUME AgentTypeOK, StoreInv, [AgentNext]_agentVars PROVE StoreInv'
    OBVIOUS
  <1> USE TokenFacts
  <1>1. CASE UNCHANGED <<bearer, signedIn, renewal, renewable, said, crossed, repelled>>
    BY <1>1 DEF StoreInv, SessionFollowsAgent
  <1>2. ASSUME NEW c \in AnyCall, AnswerCall(c) PROVE StoreInv'
    <2>1. UNCHANGED <<bearer, signedIn>>
      BY <1>2 DEF AnswerCall, Enter, SignOut, StoreInv, AgentTypeOK
    <2> QED  BY <1>1, <1>2, <2>1 DEF AnswerCall
  <1>3. ASSUME NEW c \in AnyCall, FailCall(c) \/ RefuseAgain(c) PROVE StoreInv'
    <2>1. UNCHANGED <<renewal, renewable, said, crossed>>
      BY <1>3 DEF FailCall, RefuseAgain, Reject
    <2>2. \/ UNCHANGED <<bearer, signedIn, repelled>>
          \/ bearer' = 0 /\ signedIn' = FALSE /\ repelled' = TRUE
      BY <1>3 DEF FailCall, RefuseAgain, Reject, SignOut
    <2> QED  BY <2>1, <2>2 DEF StoreInv, SessionFollowsAgent
  <1>4. ASSUME NEW c \in AnyCall, RefuseCall(c) PROVE StoreInv'
    <2>1. renewal' = renewal \/ renewal'.pc = "sent"
      BY <1>4 DEF RefuseCall, NoRenewal
    <2> QED  BY <1>4, <2>1 DEF RefuseCall, StoreInv, SessionFollowsAgent
  <1>5. CASE GrantRenewal
    <2>1. renewable /\ renewal'.token # 0 /\ UNCHANGED <<bearer, signedIn, renewable, said, crossed, repelled>>
      BY <1>5 DEF GrantRenewal
    <2> QED  BY <2>1 DEF StoreInv, SessionFollowsAgent
  <1>6. CASE AnswerRenewal
    <2>1. /\ bearer' = renewal.token /\ bearer' # 0 /\ signedIn' = TRUE
          /\ renewal' = NoRenewal /\ UNCHANGED <<said, crossed, repelled>>
          /\ renewal.pc = "granted"
      BY <1>6 DEF AnswerRenewal, Enter, StoreInv
    <2>2. crossed \/ said # "logout"
      BY <2>1 DEF StoreInv
    <2> QED  BY <2>1, <2>2 DEF StoreInv, SessionFollowsAgent
  <1>7. CASE RefuseRenewal \/ FailRenewal
    BY <1>7 DEF RefuseRenewal, FailRenewal, Refusal, EndRenewal, SignOut, StoreInv,
                SessionFollowsAgent
  <1>8. CASE LogIn
    <2>1. tokens + 1 # 0
      OBVIOUS
    <2> QED  BY <1>8, <2>1 DEF LogIn, Enter, StoreInv, SessionFollowsAgent
  <1>9. CASE EndLogout
    <2>1. ~crossed' => ~renewable' /\ renewal'.pc # "granted"
      BY <1>9 DEF EndLogout
    <2> QED  BY <1>9, <2>1 DEF EndLogout, ClearAnyway, SignOut, StoreInv, SessionFollowsAgent
  <1>10. CASE LoadPage \/ ServeLogout \/ EndSession
    BY <1>10 DEF LoadPage, ServeLogout, EndSession, StoreInv, SessionFollowsAgent
  <1>11. ASSUME NEW c \in ApiCalls, SendCall(c) PROVE StoreInv'
    BY <1>1, <1>11 DEF SendCall
  <1>12. ASSUME NEW t \in Tokens, ExpireToken(t) PROVE StoreInv'
    BY <1>1, <1>12 DEF ExpireToken
  <1>13. CASE LogOut \/ UNCHANGED agentVars
    BY <1>1, <1>13 DEF LogOut, agentVars
  <1> QED
    BY <1>2, <1>3, <1>4, <1>5, <1>6, <1>7, <1>8, <1>9, <1>10, <1>11, <1>12, <1>13
    DEF AgentNext, Respond, AnyCall

\* What the browser keeps safe owes nothing to the fairness of its specification.
LEMMA AgentSafe ==
    AgentInit /\ [][AgentNext]_agentVars => [](AgentTypeOK /\ SessionFollowsAgent)
  <1>1. AgentInit => StoreInv
    BY DEF AgentInit, StoreInv, SessionFollowsAgent, NoRenewal
  <1>2. StoreInv => SessionFollowsAgent
    BY DEF StoreInv
  <1> QED
    BY <1>1, <1>2, StoreStep, AgentTypeInit, AgentTypeStep, PTL

\* The browser is signed in or out as the agent said last (SessionFollowsAgent), unless a
\* refresh was under way when the agent said it, or the logout did not reach the server.
\* Answers of other calls, of verifications and of the logout may come as late as they will.
THEOREM AgentIsFollowed == AgentSpec => []SessionFollowsAgent
  BY AgentSafe, PTL DEF AgentSpec

=============================================================================
