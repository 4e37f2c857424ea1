----------------------------- MODULE TeamAccess -----------------------------
(***************************************************************************)
(* The members of one artist workspace and the invitations to it:           *)
(* MembershipsAdminService (updateRole, removeMember), InvitesService        *)
(* (createInvite, revoke, accept) and the expiry made by accept and by the   *)
(* invite.send job.                                                          *)
(*                                                                          *)
(* Each await of a handler is a step: the role check, the counts of owners   *)
(* and the row read are statements of their own, outside any transaction,    *)
(* so another request may run between any two of them.                       *)
(***************************************************************************)
EXTENDS Naturals, FiniteSets, TLAPS

CONSTANTS
  Operators,  \* people with an account; an invite is addressed to the account's email
  Founders,   \* the owners the workspace starts with
  Requests,   \* concurrent requests of the memberships API
  Invites,    \* invite ids (bounds how many are created)
  Nobody      \* no operator

TeamConstants == /\ Founders \subseteq Operators
                 /\ Founders # {}
                 /\ Nobody \notin Operators

VARIABLES
  member,  \* [Operators -> [role, row]]: ArtistMembership, row tells a re-created row apart
  invite,  \* [Invites -> [status, to, role, late]]: late once expiresAt has passed
  req      \* [Requests -> what the handler has read and will do]

vars == <<member, invite, req>>

-----------------------------------------------------------------------------
Roles == {"viewer", "member", "owner"}
InviteStatuses == {"absent", "pending", "accepted", "revoked", "expired"}
Kinds == {"none", "update", "remove", "invite", "revoke", "accept"}
PCs == {"idle", "self", "read", "count", "write", "pending", "create", "claim"}

Idle == [pc |-> "idle", kind |-> "none", by |-> Nobody, on |-> Nobody, role |-> "none", row |-> 0]

NoInvite == [status |-> "absent", to |-> Nobody, role |-> "none", late |-> FALSE]

TypeOK ==
  /\ member \in [Operators -> [role : Roles \union {"none"}, row : Nat]]
  /\ invite \in [Invites -> [status : InviteStatuses, to : Operators \union {Nobody},
                             role : Roles \union {"none"}, late : BOOLEAN]]
  /\ req \in [Requests -> [pc : PCs, kind : Kinds, by : Operators \union {Nobody},
                           on : Operators \union Invites \union {Nobody},
                           role : Roles \union {"none"}, row : Nat]]

Owners == {o \in Operators : member[o].role = "owner"}
Pending(i) == invite[i].status = "pending"

Return(q) == req' = [req EXCEPT ![q] = Idle]
Goto(q, pc) == req' = [req EXCEPT ![q].pc = pc]

-----------------------------------------------------------------------------
(* assertOwner, the first statement of every owner's operation *)

Authorise(q, by, call, pc) ==
  /\ req[q].pc = "idle"
  /\ by \in Owners
  /\ req' = [req EXCEPT ![q] = [Idle EXCEPT !.pc = pc, !.kind = call.kind, !.by = by,
                                            !.on = call.on, !.role = call.role]]
  /\ UNCHANGED <<member, invite>>

Call(kind, on, role) == [kind |-> kind, on |-> on, role |-> role]

UpdateRole(q, by, on, role) ==
  Authorise(q, by, Call("update", on, role),
            IF on = by /\ role # "owner" THEN "self" ELSE "read")

RemoveMember(q, by, on) ==
  on # by /\ Authorise(q, by, Call("remove", on, "none"), "read")

CreateInvite(q, by, to, role) == Authorise(q, by, Call("invite", to, role), "pending")

Revoke(q, by, i) == Authorise(q, by, Call("revoke", i, "none"), "claim")

-----------------------------------------------------------------------------
(* updateRole and removeMember *)

\* ownerCount <= 1
OnlyOwner == Cardinality(Owners) <= 1

\* An owner who steps down is counted first.
CountSelf(q) ==
  /\ req[q].pc = "self"
  /\ IF OnlyOwner THEN Return(q) ELSE Goto(q, "read")
  /\ UNCHANGED <<member, invite>>

\* The target's row: its id is what will be written, its role decides whether
\* owners are counted.
ReadRow(q) ==
  LET m == member[req[q].on] IN
  /\ req[q].pc = "read"
  /\ IF m.role = "none" THEN Return(q)
     ELSE req' = [req EXCEPT ![q].row = m.row,
                             ![q].pc = IF m.role = "owner" /\ req[q].role # "owner"
                                       THEN "count" ELSE "write"]
  /\ UNCHANGED <<member, invite>>

CountOwners(q) ==
  /\ req[q].pc = "count"
  /\ IF OnlyOwner THEN Return(q) ELSE Goto(q, "write")
  /\ UNCHANGED <<member, invite>>

\* The write is by row id: it fails when the row is gone.
WriteRow(q) ==
  LET o == req[q].on IN
  /\ req[q].pc = "write"
  /\ member' = IF member[o].role # "none" /\ member[o].row = req[q].row
               THEN [member EXCEPT ![o].role = req[q].role]
               ELSE member
  /\ Return(q)
  /\ UNCHANGED invite

-----------------------------------------------------------------------------
(* Invitations *)

FindPending(q) ==
  /\ req[q].pc = "pending"
  /\ IF \E i \in Invites : Pending(i) /\ invite[i].to = req[q].on
     THEN Return(q) ELSE Goto(q, "create")
  /\ UNCHANGED <<member, invite>>

InsertInvite(q, i) ==
  /\ req[q].pc = "create"
  /\ invite[i].status = "absent"
  /\ invite' = [invite EXCEPT ![i] = [status |-> "pending", to |-> req[q].on,
                                      role |-> req[q].role, late |-> FALSE]]
  /\ Return(q)
  /\ UNCHANGED member

\* accept: the invite is read and compared with the clock and the account's
\* email; one that is over is marked so.
PresentToken(q, i) ==
  /\ req[q].pc = "idle"
  /\ Pending(i)
  /\ IF invite[i].late
     THEN /\ invite' = [invite EXCEPT ![i].status = "expired"]
          /\ UNCHANGED req
     ELSE /\ req' = [req EXCEPT ![q] = [Idle EXCEPT !.pc = "claim", !.kind = "accept",
                                                    !.by = invite[i].to, !.on = i]]
          /\ UNCHANGED invite
  /\ UNCHANGED member

\* Mistakes: the transaction relies on the status read before it, or forgets the
\* clock.
Claimable_AsRead(i) == ~invite[i].late
Claimable_AnyTime(i) == Pending(i)

\* The guarded update inside the transaction of accept.
Claimable(i) == Pending(i) /\ ~invite[i].late

\* Mistake: a role that RolePolicyService does not rank.
Granted_Guest(o, r) == [role |-> "guest", row |-> member[o].row + 1]

\* Mistake: the upsert also updates the role of a member who is there already.
Granted_Upsert(o, r) ==
  [role |-> r, row |-> member[o].row + IF member[o].role = "none" THEN 1 ELSE 0]

\* upsert with an empty update: only someone who is not a member gets a role.
Granted(o, r) ==
  IF member[o].role = "none" THEN [role |-> r, row |-> member[o].row + 1] ELSE member[o]

Accept(q) ==
  LET i == req[q].on  o == req[q].by IN
  /\ req[q].pc = "claim" /\ req[q].kind = "accept"
  /\ IF Claimable(i)
     THEN /\ invite' = [invite EXCEPT ![i].status = "accepted"]
          /\ member' = [member EXCEPT ![o] = Granted(o, invite[i].role)]
     ELSE UNCHANGED <<invite, member>>
  /\ Return(q)

\* revoke: the read before it changes nothing that the guarded update does not
\* check again.
RevokeClaim(q) ==
  LET i == req[q].on IN
  /\ req[q].pc = "claim" /\ req[q].kind = "revoke"
  /\ invite' = IF Pending(i) THEN [invite EXCEPT ![i].status = "revoked"] ELSE invite
  /\ Return(q)
  /\ UNCHANGED member

\* The invite.send job finds the invite over.
ExpireInvite(i) ==
  /\ Pending(i) /\ invite[i].late
  /\ invite' = [invite EXCEPT ![i].status = "expired"]
  /\ UNCHANGED <<member, req>>

\* expiresAt passes.
Lapse(i) ==
  /\ Pending(i) /\ ~invite[i].late
  /\ invite' = [invite EXCEPT ![i].late = TRUE]
  /\ UNCHANGED <<member, req>>

-----------------------------------------------------------------------------
Init ==
  /\ member = [o \in Operators |-> IF o \in Founders THEN [role |-> "owner", row |-> 1]
                                                     ELSE [role |-> "none", row |-> 0]]
  /\ invite = [i \in Invites |-> NoInvite]
  /\ req = [q \in Requests |-> Idle]

Asked(q) ==
  \E by \in Operators :
    \/ \E on \in Operators, role \in Roles : UpdateRole(q, by, on, role)
    \/ \E on \in Operators : RemoveMember(q, by, on)
    \/ \E to \in Operators, role \in Roles : CreateInvite(q, by, to, role)
    \/ \E i \in Invites : Revoke(q, by, i)

Administration(q) == CountSelf(q) \/ ReadRow(q) \/ CountOwners(q) \/ WriteRow(q)

Invitation(q) ==
  \/ FindPending(q) \/ Accept(q) \/ RevokeClaim(q)
  \/ \E i \in Invites : InsertInvite(q, i) \/ PresentToken(q, i)

Next ==
  \/ \E q \in Requests : Asked(q) \/ Administration(q) \/ Invitation(q)
  \/ \E i \in Invites : ExpireInvite(i) \/ Lapse(i)

Spec == Init /\ [][Next]_vars

-----------------------------------------------------------------------------
(* Properties *)

\* What the messages of updateRole and removeMember promise: a workspace never
\* loses its only owner.
AlwaysOwned == Owners # {}

\* Whatever races, an invitation is concluded once: accepting, revoking and
\* expiring never overwrite one another.
ConcludesOnce == \A i \in Invites :
  invite[i].status \in {"accepted", "revoked", "expired"} => invite'[i].status = invite[i].status
InviteConcludedOnce == [][ConcludesOnce]_vars

\* Somebody becomes a member only by the step that accepts an invitation to them
\* that was pending and in time at that very step, with the role it offers; and
\* accepting one changes the role of nobody who is a member already.
Joins ==
  /\ \A o \in Operators :
       member[o].role = "none" /\ member'[o].role # "none"
       => \E i \in Invites : /\ Pending(i) /\ ~invite[i].late /\ invite[i].to = o
                             /\ invite'[i].status = "accepted"
                             /\ member'[o].role = invite[i].role
  /\ \A i \in Invites :
       invite[i].status # "accepted" /\ invite'[i].status = "accepted"
       => \A o \in Operators : member[o].role # "none" => member'[o] = member[o]
JoinsByLiveInvite == [][Joins]_vars

-----------------------------------------------------------------------------
(* Proofs *)

InviteRows == [status : InviteStatuses, to : Operators \union {Nobody}, role : Roles \union {"none"}, late : BOOLEAN]
RequestRows == [pc : PCs, kind : Kinds, by : Operators \union {Nobody},
                on : Operators \union Invites \union {Nobody}, role : Roles \union {"none"}, row : Nat]

\* What a request is about: a member, or an invitation; one that accepts comes
\* from the account the invitation is addressed to.
Fits(r) ==
  /\ r.pc \in {"self", "read", "count", "write", "pending", "create"} => r.on \in Operators
  /\ r.pc = "claim" => r.on \in Invites
  /\ r.pc = "claim" /\ r.kind = "accept" => invite[r.on].status # "absent" /\ r.by = invite[r.on].to

TeamInv == TypeOK /\ \A q \in Requests : Fits(req[q])

\* An invitation that is there keeps its address, its role and its conclusion.
Settles(i) ==
  /\ invite[i].status # "absent" =>
       /\ invite'[i].status # "absent" /\ invite'[i].to = invite[i].to /\ invite'[i].role = invite[i].role
  /\ invite[i].status \in {"accepted", "revoked", "expired"} => invite'[i].status = invite[i].status

LEMMA TeamInitial == Init => TeamInv
BY DEF Init, TeamInv, TypeOK, Fits, Idle, NoInvite, Roles, InviteStatuses, Kinds, PCs

LEMMA RequestKept ==
  ASSUME TeamInv, NEW q \in Requests, NEW r \in RequestRows, req' = [req EXCEPT ![q] = r], Fits(r)',
         \A i \in Invites : Settles(i)
  PROVE  req' \in [Requests -> RequestRows] /\ \A p \in Requests : Fits(req[p])'
<1>1. req \in [Requests -> RequestRows]
  BY DEF TeamInv, TypeOK, RequestRows
<1>2. req' \in [Requests -> RequestRows] /\ req'[q] = r /\ \A p \in Requests \ {q} : req'[p] = req[p]
  BY <1>1
<1>3. \A p \in Requests : Fits(req[p])'
  <2> SUFFICES ASSUME NEW p \in Requests PROVE Fits(req[p])'
    OBVIOUS
  <2>1. CASE p = q
    BY <1>2, <2>1 DEF Fits
  <2>2. CASE p # q
    BY <1>2, <2>2 DEF TeamInv, Fits, Settles
  <2> QED BY <2>1, <2>2
<1> QED BY <1>2, <1>3

LEMMA IdleFits == Idle \in RequestRows /\ Fits(Idle)' /\ Idle.pc = "idle"
BY DEF Idle, RequestRows, PCs, Kinds, Roles, Fits

\* A step that writes no invitation.
LEMMA InvitesStay == UNCHANGED invite => \A i \in Invites : Settles(i)
BY DEF Settles

\* A step of a request that writes no invitation and no member.
LEMMA OnlyRequest ==
  ASSUME TeamInv, NEW q \in Requests, NEW r \in RequestRows, req' = [req EXCEPT ![q] = r], Fits(r)',
         UNCHANGED <<member, invite>>
  PROVE  TeamInv' /\ ConcludesOnce /\ Joins
<1>1. req' \in [Requests -> RequestRows] /\ \A p \in Requests : Fits(req[p])'
  BY RequestKept, InvitesStay
<1> QED BY <1>1 DEF TeamInv, TypeOK, RequestRows, ConcludesOnce, Joins

\* A step that writes one invitation without accepting it.
LEMMA OnlyInvite ==
  ASSUME TeamInv, NEW i \in Invites, NEW row \in InviteRows, invite' = [invite EXCEPT ![i] = row],
         row.status # "absent", row.status # "accepted" \/ invite[i].status = "accepted",
         invite[i].status # "absent" => row.to = invite[i].to /\ row.role = invite[i].role,
         invite[i].status \in {"absent", "pending"} \/ row.status = invite[i].status,
         UNCHANGED member
  PROVE  invite' \in [Invites -> InviteRows] /\ (\A n \in Invites : Settles(n)) /\ ConcludesOnce /\ Joins
<1>1. invite \in [Invites -> InviteRows]
  BY DEF TeamInv, TypeOK, InviteRows
<1>2. invite' \in [Invites -> InviteRows] /\ invite'[i] = row /\ \A n \in Invites \ {i} : invite'[n] = invite[n]
  BY <1>1
<1>3. \A n \in Invites : Settles(n)
  BY <1>1, <1>2 DEF Settles, InviteRows, InviteStatuses
<1>4. ConcludesOnce
  BY <1>3 DEF ConcludesOnce, Settles
<1>5. Joins
  BY <1>1, <1>2 DEF Joins
<1> QED BY <1>2, <1>3, <1>4, <1>5

Kept == TeamInv' /\ ConcludesOnce /\ Joins

LEMMA AuthorisedKept ==
  ASSUME TeamInv, NEW q \in Requests, NEW by \in Operators, NEW pc, NEW call, Authorise(q, by, call, pc),
         call.kind \in Kinds \ {"accept"}, call.role \in Roles \union {"none"},
         \/ pc \in {"self", "read", "pending"} /\ call.on \in Operators
         \/ pc = "claim" /\ call.on \in Invites
  PROVE  Kept
<1>1. PICK r : r = [Idle EXCEPT !.pc = pc, !.kind = call.kind, !.by = by, !.on = call.on, !.role = call.role]
  OBVIOUS
<1>2. r = [pc |-> pc, kind |-> call.kind, by |-> by, on |-> call.on, role |-> call.role, row |-> 0]
  BY <1>1 DEF Idle
<1>3. r \in RequestRows /\ Fits(r)'
  BY <1>2 DEF RequestRows, PCs, Fits
<1> QED BY <1>1, <1>3, OnlyRequest DEF Authorise, Kept

LEMMA AskedKept == ASSUME TeamInv, NEW q \in Requests, Asked(q) PROVE Kept
<1>1. PICK by \in Operators :
        \/ \E on \in Operators, role \in Roles : UpdateRole(q, by, on, role)
        \/ \E on \in Operators : RemoveMember(q, by, on)
        \/ \E to \in Operators, role \in Roles : CreateInvite(q, by, to, role)
        \/ \E i \in Invites : Revoke(q, by, i)
  BY DEF Asked
<1>2. ASSUME NEW on \in Operators, NEW role \in Roles, UpdateRole(q, by, on, role) PROVE Kept
  <2>1. PICK pc \in {"self", "read"} : Authorise(q, by, Call("update", on, role), pc)
    BY <1>2 DEF UpdateRole
  <2> QED BY <2>1, AuthorisedKept DEF Call, Kinds
<1>3. ASSUME NEW on \in Operators, RemoveMember(q, by, on) PROVE Kept
  BY <1>3, AuthorisedKept DEF RemoveMember, Call, Kinds, Roles
<1>4. ASSUME NEW to \in Operators, NEW role \in Roles, CreateInvite(q, by, to, role) PROVE Kept
  BY <1>4, AuthorisedKept DEF CreateInvite, Call, Kinds
<1>5. ASSUME NEW i \in Invites, Revoke(q, by, i) PROVE Kept
  BY <1>5, AuthorisedKept DEF Revoke, Call, Kinds, Roles
<1> QED BY <1>1, <1>2, <1>3, <1>4, <1>5

\* A request goes on about what it is about, or returns.
LEMMA GoesOn ==
  ASSUME TeamInv, NEW q \in Requests, NEW pc \in {"read", "write", "create", "count"},
         req[q].on \in Operators, NEW row \in Nat,
         req' = [req EXCEPT ![q].pc = pc] \/ req' = [req EXCEPT ![q].row = row, ![q].pc = pc] \/ Return(q),
         UNCHANGED <<member, invite>>
  PROVE  Kept
<1>1. req \in [Requests -> RequestRows]
  BY DEF TeamInv, TypeOK, RequestRows
<1>2. PICK r \in RequestRows : req' = [req EXCEPT ![q] = r] /\ ((r.pc = pc /\ r.on = req[q].on) \/ r = Idle)
  <2>1. CASE req' = [req EXCEPT ![q].pc = pc]
    <3>1. [req[q] EXCEPT !.pc = pc] \in RequestRows
      BY <1>1 DEF RequestRows, PCs
    <3> QED BY <1>1, <2>1, <3>1 DEF RequestRows
  <2>2. CASE req' = [req EXCEPT ![q].row = row, ![q].pc = pc]
    <3>1. [req[q] EXCEPT !.row = row, !.pc = pc] \in RequestRows
      BY <1>1 DEF RequestRows, PCs
    <3> QED BY <1>1, <2>2, <3>1 DEF RequestRows
  <2>3. CASE Return(q)
    BY <2>3, IdleFits DEF Return
  <2> QED BY <2>1, <2>2, <2>3
<1>3. Fits(r)'
  BY <1>2, IdleFits DEF Fits
<1> QED BY <1>2, <1>3, OnlyRequest DEF Kept

LEMMA ReturnKept ==
  ASSUME TeamInv, NEW q \in Requests, Return(q), invite' \in [Invites -> InviteRows],
         member' \in [Operators -> [role : Roles \union {"none"}, row : Nat]],
         \A i \in Invites : Settles(i), ConcludesOnce, Joins
  PROVE  Kept
<1>1. req' \in [Requests -> RequestRows] /\ \A p \in Requests : Fits(req[p])'
  BY IdleFits, RequestKept DEF Return
<1> QED BY <1>1 DEF TeamInv, TypeOK, RequestRows, InviteRows, Kept

LEMMA AdministrationKept == ASSUME TeamInv, NEW q \in Requests, Administration(q) PROVE Kept
<1>1. req[q] \in RequestRows /\ Fits(req[q])
  BY DEF TeamInv, TypeOK, RequestRows
<1>2. CASE CountSelf(q) \/ CountOwners(q)
  <2>1. req[q].on \in Operators /\ 0 \in Nat
    BY <1>1, <1>2 DEF CountSelf, CountOwners, Fits
  <2> QED BY <1>2, <2>1, GoesOn DEF CountSelf, CountOwners, Goto
<1>3. CASE ReadRow(q)
  <2>1. req[q].on \in Operators /\ member[req[q].on].row \in Nat
    BY <1>1, <1>3 DEF ReadRow, Fits, TeamInv, TypeOK
  <2>2. PICK row \in Nat, pc \in {"write", "count"} : Return(q) \/ req' = [req EXCEPT ![q].row = row, ![q].pc = pc]
    BY <1>3, <2>1 DEF ReadRow
  <2> QED BY <1>3, <2>1, <2>2, GoesOn DEF ReadRow
<1>4. CASE WriteRow(q)
  <2>1. req[q].on \in Operators /\ req[q].role \in Roles \union {"none"}
    BY <1>1, <1>4 DEF WriteRow, Fits, RequestRows
  <2>2. /\ member' \in [Operators -> [role : Roles \union {"none"}, row : Nat]]
        /\ \A o \in Operators : member[o].role = "none" => member'[o] = member[o]
    <3>1. CASE member' = member
      BY <3>1 DEF TeamInv, TypeOK
    <3>2. CASE member[req[q].on].role # "none" /\ member' = [member EXCEPT ![req[q].on].role = req[q].role]
      BY <2>1, <3>2 DEF TeamInv, TypeOK
    <3> QED BY <1>4, <3>1, <3>2 DEF WriteRow
  <2>3. UNCHANGED invite /\ Return(q)
    BY <1>4 DEF WriteRow
  <2>4. ConcludesOnce /\ Joins
    BY <2>2, <2>3 DEF ConcludesOnce, Joins
  <2>5. invite' \in [Invites -> InviteRows]
    BY <2>3 DEF TeamInv, TypeOK, InviteRows
  <2> QED BY <2>2, <2>3, <2>4, <2>5, InvitesStay, ReturnKept
<1> QED BY <1>2, <1>3, <1>4 DEF Administration

LEMMA InvitationKept == ASSUME TeamInv, NEW q \in Requests, Invitation(q) PROVE Kept
<1>1. /\ req[q] \in RequestRows /\ Fits(req[q]) /\ invite \in [Invites -> InviteRows]
      /\ member \in [Operators -> [role : Roles \union {"none"}, row : Nat]]
  BY DEF TeamInv, TypeOK, RequestRows, InviteRows
<1>2. CASE FindPending(q)
  <2>1. req[q].on \in Operators /\ 0 \in Nat
    BY <1>1, <1>2 DEF FindPending, Fits
  <2> QED BY <1>2, <2>1, GoesOn DEF FindPending, Goto
<1>3. ASSUME NEW i \in Invites, InsertInvite(q, i) PROVE Kept
  <2> DEFINE row == [status |-> "pending", to |-> req[q].on, role |-> req[q].role, late |-> FALSE]
  <2>1. row \in InviteRows
    BY <1>1, <1>3 DEF InsertInvite, Fits, InviteRows, InviteStatuses, RequestRows
  <2>2. invite' = [invite EXCEPT ![i] = row] /\ invite[i].status = "absent" /\ UNCHANGED member /\ Return(q)
    BY <1>3 DEF InsertInvite
  <2>3. row.status = "pending"
    OBVIOUS
  <2> HIDE DEF row
  <2> QED BY <1>1, <2>1, <2>2, <2>3, OnlyInvite, ReturnKept
<1>4. ASSUME NEW i \in Invites, PresentToken(q, i) PROVE Kept
  <2>1. CASE invite[i].late
    <3>1. PICK row \in InviteRows : row = [invite[i] EXCEPT !.status = "expired"]
      BY <1>1 DEF InviteRows, InviteStatuses
    <3>2. /\ invite' = [invite EXCEPT ![i] = row] /\ invite[i].status = "pending" /\ UNCHANGED <<member, req>>
          /\ row.status = "expired" /\ row.to = invite[i].to /\ row.role = invite[i].role
      BY <1>1, <1>4, <2>1, <3>1 DEF PresentToken, Pending, InviteRows
    <3>3. invite' \in [Invites -> InviteRows] /\ (\A n \in Invites : Settles(n)) /\ ConcludesOnce /\ Joins
      BY <3>2, OnlyInvite
    <3>4. \A p \in Requests : Fits(req[p])'
      BY <3>2, <3>3 DEF TeamInv, Fits, Settles
    <3> QED BY <3>2, <3>3, <3>4 DEF TeamInv, TypeOK, InviteRows, Kept
  <2>2. CASE ~invite[i].late
    <3>1. PICK r : r = [Idle EXCEPT !.pc = "claim", !.kind = "accept", !.by = invite[i].to, !.on = i]
      OBVIOUS
    <3>2. r = [pc |-> "claim", kind |-> "accept", by |-> invite[i].to, on |-> i, role |-> "none", row |-> 0]
      BY <3>1 DEF Idle
    <3>3. req' = [req EXCEPT ![q] = r] /\ invite[i].status = "pending" /\ UNCHANGED <<member, invite>>
      BY <1>4, <2>2, <3>1 DEF PresentToken, Pending
    <3>4. r \in RequestRows /\ Fits(r)'
      BY <1>1, <3>2, <3>3 DEF RequestRows, PCs, Kinds, InviteRows, Fits
    <3> QED BY <3>3, <3>4, OnlyRequest DEF Kept
  <2> QED BY <2>1, <2>2
<1>5. CASE Accept(q)
  <2>1. PICK i \in Invites, o \in Operators \union {Nobody} : i = req[q].on /\ o = req[q].by /\ o = invite[i].to
    BY <1>1, <1>5 DEF Accept, Fits, RequestRows
  <2>2. Return(q)
    BY <1>5 DEF Accept
  <2>3. CASE UNCHANGED <<invite, member>>
    BY <1>1, <2>2, <2>3, InvitesStay, ReturnKept DEF ConcludesOnce, Joins
  <2>4. CASE ~UNCHANGED <<invite, member>>
    <3>1. /\ Pending(i) /\ ~invite[i].late
          /\ invite' = [invite EXCEPT ![i].status = "accepted"]
          /\ member' = [member EXCEPT ![o] = Granted(o, invite[i].role)]
      BY <1>5, <2>1, <2>4 DEF Accept, Claimable
    <3>2. /\ invite' \in [Invites -> InviteRows] /\ invite'[i].status = "accepted"
          /\ invite'[i].to = invite[i].to /\ invite'[i].role = invite[i].role
          /\ \A n \in Invites \ {i} : invite'[n] = invite[n]
      BY <1>1, <3>1 DEF InviteRows, InviteStatuses
    <3>3. (\A n \in Invites : Settles(n)) /\ ConcludesOnce
      BY <3>1, <3>2 DEF Settles, ConcludesOnce, Pending
    <3>4. \A a \in Operators :
            /\ member[a].role # "none" => member'[a] = member[a]
            /\ a # o => member'[a] = member[a]
            /\ a = o /\ member[a].role = "none" =>
                 member'[a] = [role |-> invite[i].role, row |-> member[a].row + 1]
      BY <1>1, <3>1 DEF Granted
    <3>5. Joins
      <4>1. ASSUME NEW a \in Operators, member[a].role = "none", member'[a].role # "none"
            PROVE  /\ Pending(i) /\ ~invite[i].late /\ invite[i].to = a
                   /\ invite'[i].status = "accepted" /\ member'[a].role = invite[i].role
        <5>1. a = o
          BY <3>4, <4>1
        <5>2. member'[a] = [role |-> invite[i].role, row |-> member[a].row + 1]
          BY <3>4, <4>1, <5>1
        <5> QED BY <2>1, <3>1, <3>2, <5>1, <5>2
      <4>2. \A a \in Operators : member[a].role # "none" => member'[a] = member[a]
        BY <3>4
      <4> QED BY <4>1, <4>2 DEF Joins
    <3>6. member' \in [Operators -> [role : Roles \union {"none"}, row : Nat]]
      <4>1. \A a \in Operators : member'[a] \in [role : Roles \union {"none"}, row : Nat]
        <5> SUFFICES ASSUME NEW a \in Operators
                     PROVE  member'[a] \in [role : Roles \union {"none"}, row : Nat]
          OBVIOUS
        <5>1. member[a] \in [role : Roles \union {"none"}, row : Nat] /\ member[a].row + 1 \in Nat
          BY <1>1
        <5>2. invite[i].role \in Roles \union {"none"}
          BY <1>1 DEF InviteRows
        <5>3. CASE a = o /\ member[a].role = "none"
          <6>1. member'[a] = [role |-> invite[i].role, row |-> member[a].row + 1]
            BY <3>4, <5>3
          <6> QED BY <5>1, <5>2, <6>1
        <5>4. CASE ~(a = o /\ member[a].role = "none")
          BY <3>4, <5>1, <5>4
        <5> QED BY <5>3, <5>4
      <4>2. DOMAIN member' = Operators /\ member' = [a \in Operators |-> member'[a]]
        BY <1>1, <3>1
      <4> QED BY <4>1, <4>2
    <3> QED BY <2>2, <3>2, <3>3, <3>5, <3>6, ReturnKept
  <2> QED BY <2>3, <2>4
<1>6. CASE RevokeClaim(q)
  <2>1. PICK i \in Invites : i = req[q].on
    BY <1>1, <1>6 DEF RevokeClaim, Fits
  <2>2. Return(q) /\ UNCHANGED member
    BY <1>6 DEF RevokeClaim
  <2>3. CASE invite' = invite
    BY <1>1, <2>2, <2>3, InvitesStay, ReturnKept DEF ConcludesOnce, Joins
  <2>4. CASE invite' # invite
    <3>1. PICK row \in InviteRows : row = [invite[i] EXCEPT !.status = "revoked"]
      BY <1>1 DEF InviteRows, InviteStatuses
    <3>2. /\ invite' = [invite EXCEPT ![i] = row] /\ invite[i].status = "pending"
          /\ row.status = "revoked" /\ row.to = invite[i].to /\ row.role = invite[i].role
      BY <1>1, <1>6, <2>1, <2>4, <3>1 DEF RevokeClaim, Pending, InviteRows
    <3>3. invite' \in [Invites -> InviteRows] /\ (\A n \in Invites : Settles(n)) /\ ConcludesOnce /\ Joins
      BY <2>2, <3>2, OnlyInvite
    <3> QED BY <1>1, <2>2, <3>3, ReturnKept
  <2> QED BY <2>3, <2>4
<1> QED BY <1>2, <1>3, <1>4, <1>5, <1>6 DEF Invitation

\* The clock and the job write one invitation and no request.
LEMMA ClockKept == ASSUME TeamInv, NEW i \in Invites, ExpireInvite(i) \/ Lapse(i) PROVE Kept
<1>1. invite \in [Invites -> InviteRows]
  BY DEF TeamInv, TypeOK, InviteRows
<1>2. PICK row \in InviteRows :
        /\ row = [invite[i] EXCEPT !.status = "expired"] \/ row = [invite[i] EXCEPT !.late = TRUE]
        /\ invite' = [invite EXCEPT ![i] = row] /\ invite[i].status = "pending" /\ UNCHANGED <<member, req>>
  <2>1. [invite[i] EXCEPT !.status = "expired"] \in InviteRows /\ [invite[i] EXCEPT !.late = TRUE] \in InviteRows
    BY <1>1 DEF InviteRows, InviteStatuses
  <2>2. CASE ExpireInvite(i)
    BY <1>1, <2>1, <2>2 DEF ExpireInvite, Pending
  <2>3. CASE Lapse(i)
    BY <1>1, <2>1, <2>3 DEF Lapse, Pending
  <2> QED BY <2>2, <2>3
<1>3. row.status \in {"expired", "pending"} /\ row.to = invite[i].to /\ row.role = invite[i].role
  BY <1>1, <1>2 DEF InviteRows
<1>4. invite' \in [Invites -> InviteRows] /\ (\A n \in Invites : Settles(n)) /\ ConcludesOnce /\ Joins
  BY <1>2, <1>3, OnlyInvite
<1>5. \A p \in Requests : Fits(req[p])'
  BY <1>2, <1>4 DEF TeamInv, Fits, Settles
<1> QED BY <1>2, <1>4, <1>5 DEF TeamInv, TypeOK, InviteRows, Kept

LEMMA TeamStep == TeamInv /\ [Next]_vars => Kept
<1> SUFFICES ASSUME TeamInv, [Next]_vars PROVE Kept
  OBVIOUS
<1>1. CASE UNCHANGED vars
  BY <1>1 DEF vars, Kept, TeamInv, TypeOK, Fits, ConcludesOnce, Joins
<1> QED BY <1>1, AskedKept, AdministrationKept, InvitationKept, ClockKept DEF Next

\* Whatever requests race, no invitation is concluded twice (InvitesService.accept,
\* revoke, the invite.send job).
THEOREM InviteConcludedOnceAlways == Spec => InviteConcludedOnce
<1>1. Init => TeamInv
  BY TeamInitial
<1>2. TeamInv /\ [Next]_vars => TeamInv' /\ ConcludesOnce
  BY TeamStep DEF Kept
<1> QED BY <1>1, <1>2, PTL DEF Spec, InviteConcludedOnce

\* Membership is gained by a live invitation alone, with the role it offers, and
\* accepting one changes no role that is held (InvitesService.accept).
THEOREM JoinsByLiveInviteAlways == Spec => JoinsByLiveInvite
<1>1. Init => TeamInv
  BY TeamInitial
<1>2. TeamInv /\ [Next]_vars => TeamInv' /\ Joins
  BY TeamStep DEF Kept
<1> QED BY <1>1, <1>2, PTL DEF Spec, JoinsByLiveInvite
=============================================================================
