-------------------------- MODULE GroupTransactions --------------------------
(***************************************************************************)
(* The writers of one group's membership table, statement by statement:    *)
(* the membership endpoints of main.py, group_service.py and the account   *)
(* erasure of account_data.py, each in a READ COMMITTED transaction of its *)
(* own.  A request reads its caller's membership before it locks anything  *)
(* (get_authorized_membership), and SQLAlchemy's identity map hands that   *)
(* same object to group_service after the group row is locked: the role it *)
(* then checks is the one read before the wait.  call keeps those reads.   *)
(* Only the role endpoint writes without the lock of the group row.        *)
(*                                                                         *)
(* Requests are the database sessions open at a time; a closed one is used *)
(* again.  Uncommitted row versions (pending) are visible to their own     *)
(* transaction alone and lock the row they replace.                        *)
(***************************************************************************)
CONSTANTS Users, Requests, NoUser, NoRequest

ASSUME SentinelAssumption == NoUser \notin Users /\ NoRequest \notin Requests

VARIABLES
    group,      \* the row of groups: "absent", "present" or "deleted"
    role,       \* committed rows of group_memberships: a role or NoRow
    person,     \* the row of users: "active", "tombstone" or "erased"
    groupLock,  \* the request holding SELECT ... FOR UPDATE on the group row
    pc,         \* the statement a request executes next
    call,       \* what a request was asked and has read
    pending     \* its flushed, uncommitted membership row versions

vars == <<group, role, person, groupLock, pc, call, pending>>

Owner     == "owner"
Organizer == "organizer"
Member    == "member"
NoRow     == "none"
Untouched == "untouched"

Roles  == {Owner, Organizer, Member}
Rows   == Roles \union {NoRow}
\* Mutant: the role endpoint accepts "owner" as well.
GrantsWithOwner == Roles

Grants == {Organizer, Member}     \* UpdateGroupMemberRoleRequest.role

Ops == {"idle", "create", "leave", "remove", "set_role", "transfer", "delete", "join", "erase"}

PCs == {"idle", "found", "load", "write", "lock", "unlink", "target", "demote", "promote",
        "verify", "commit", "purge", "insert", "rows", "erase"}

Calls == [op : Ops, actor : Users \union {NoUser}, target : Users \union {NoUser},
          grant : Grants, actorRole : Rows, targetRole : Rows]

NoCall == [op |-> "idle", actor |-> NoUser, target |-> NoUser,
           grant |-> Member, actorRole |-> NoRow, targetRole |-> NoRow]

Clean == [u \in Users |-> Untouched]

\* Every table, session and request holds values of its kind; a request knows
\* its caller and its target.
TypeOK == /\ group \in {"absent", "present", "deleted"}
          /\ role \in [Users -> Rows]
          /\ person \in [Users -> {"active", "tombstone", "erased"}]
          /\ groupLock \in Requests \union {NoRequest}
          /\ pc \in [Requests -> PCs]
          /\ call \in [Requests -> Calls]
          /\ pending \in [Requests -> [Users -> Rows \union {Untouched}]]
          /\ \A r \in Requests : pc[r] # "idle" => call[r].actor \in Users /\ call[r].target \in Users

Init == /\ group = "absent"
        /\ role = [u \in Users |-> NoRow]
        /\ person = [u \in Users |-> "active"]
        /\ groupLock = NoRequest
        /\ pc = [r \in Requests |-> "idle"]
        /\ call = [r \in Requests |-> NoCall]
        /\ pending = [r \in Requests |-> Clean]

-----------------------------------------------------------------------------
(* Transactions.                                                           *)

\* What a SELECT of r returns: committed rows under its own flushed writes.
Seen(r) == [u \in Users |-> IF pending[r][u] = Untouched THEN role[u]
                                                        ELSE pending[r][u]]

\* No other transaction holds an uncommitted version of u's row.
RowFree(r, u) == \A q \in Requests \ {r} : pending[q][u] = Untouched

\* Account erasure holds FOR UPDATE on the user row to its end; the foreign
\* key check of a membership insert waits for it.
UserLocked(u) == \E q \in Requests : call[q].op = "erase" /\ call[q].target = u

VerifyExactlyOneOwner(roster) ==
    \E u \in Users : \A v \in Users : roster[v] = Owner <=> v = u

\* uq_group_memberships_one_owner, asked before r gives ownership to u.
OwnerIndexAllows(r, u) == \A v \in Users \ {u} : Seen(r)[v] # Owner

\* Mutant: a finished session keeps the group row locked.
CloseKeepingLock(r) == /\ pc' = [pc EXCEPT ![r] = "idle"]
                       /\ call' = [call EXCEPT ![r] = NoCall]
                       /\ pending' = [pending EXCEPT ![r] = Clean]
                       /\ UNCHANGED groupLock

\* The session of r ends: locks and whatever was not committed are gone.
Close(r) == /\ pc' = [pc EXCEPT ![r] = "idle"]
            /\ call' = [call EXCEPT ![r] = NoCall]
            /\ pending' = [pending EXCEPT ![r] = Clean]
            /\ groupLock' = IF groupLock = r THEN NoRequest ELSE groupLock

Rollback(r) == Close(r) /\ UNCHANGED <<group, role, person>>

Goto(r, l) == pc' = [pc EXCEPT ![r] = l]

Flush(r, u, row, l) == /\ pending' = [pending EXCEPT ![r][u] = row]
                       /\ Goto(r, l)
                       /\ UNCHANGED <<group, role, person, groupLock, call>>

-----------------------------------------------------------------------------
(* Routes: what happens before the group row is locked.  A request refused *)
(* here changes nothing and is not shown.                                  *)

Admit(r, op, a, t, l) ==
    /\ Goto(r, l)
    /\ call' = [call EXCEPT ![r] = [NoCall EXCEPT !.op = op, !.actor = a, !.target = t,
                                                  !.actorRole = role[a]]]
    /\ UNCHANGED <<group, role, person, groupLock, pending>>

\* create_group: another group than this one has rows of its own.
CreateGroup(r, a) == /\ pc[r] = "idle"
                     /\ group = "absent"
                     /\ person[a] = "active"
                     /\ Admit(r, "create", a, a, "found")

\* The foreign key refuses an erased user, and waits for the verdict.
FoundGroup(r) ==
    LET u == call[r].actor IN
    /\ pc[r] = "found"
    /\ ~UserLocked(u)
    /\ \/ /\ person[u] = "erased" \/ group # "absent"
          /\ Rollback(r)
       \/ /\ person[u] # "erased" /\ group = "absent"
          /\ group' = "present"
          /\ role' = [v \in Users |-> IF v = u THEN Owner ELSE NoRow]
          /\ Close(r)
          /\ UNCHANGED person

\* get_authorized_membership: the role read here is the role checked later.
Authorized(r, a) == /\ pc[r] = "idle"
                    /\ group = "present"
                    /\ person[a] = "active"
                    /\ role[a] # NoRow

LeaveGroup(r, a) == /\ Authorized(r, a)
                    /\ role[a] # Owner
                    /\ Admit(r, "leave", a, a, "lock")

RemoveGroupMember(r, a, t) == /\ Authorized(r, a)
                              /\ role[a] \in {Owner, Organizer}
                              /\ t # a
                              /\ Admit(r, "remove", a, t, "load")

\* The caller's own row is the owner's row it already loaded: refused.
UpdateGroupMemberRole(r, a, t, g) ==
    /\ Authorized(r, a)
    /\ role[a] = Owner
    /\ t # a
    /\ Goto(r, "load")
    /\ call' = [call EXCEPT ![r] = [NoCall EXCEPT !.op = "set_role", !.actor = a,
                                                  !.target = t, !.grant = g,
                                                  !.actorRole = role[a]]]
    /\ UNCHANGED <<group, role, person, groupLock, pending>>

TransferGroupOwnership(r, a, t) == /\ Authorized(r, a)
                                   /\ role[a] = Owner
                                   /\ t # a
                                   /\ Admit(r, "transfer", a, t, "lock")

DeleteManagedGroup(r, a) == /\ Authorized(r, a)
                            /\ role[a] = Owner
                            /\ Admit(r, "delete", a, a, "lock")

\* The caller holds a code that resolved to this group; it need not be valid
\* any more when the lock is granted.
JoinGroupWithInvite(r, a) == /\ pc[r] = "idle"
                             /\ group = "present"
                             /\ person[a] = "active"
                             /\ Admit(r, "join", a, a, "lock")

\* target_membership = session.get(...): the row as of now, kept from now on.
LoadTarget(r) ==
    LET c == call[r]
        row == role[c.target]
        refused == \/ row \in {NoRow, Owner}
                   \/ c.op = "remove" /\ c.actorRole = Organizer /\ row # Member
    IN  /\ pc[r] = "load"
        /\ \/ refused /\ Rollback(r)
           \/ /\ ~refused
              /\ call' = [call EXCEPT ![r].targetRole = row]
              /\ Goto(r, IF c.op = "remove" THEN "lock" ELSE "write")
              /\ UNCHANGED <<group, role, person, groupLock, pending>>

\* UPDATE ... SET role WHERE the primary key, and COMMIT.  The ORM compares
\* with the value it loaded: an equal one emits no UPDATE, a vanished row is
\* a StaleDataError.  What the row holds by now is never looked at.
WriteRole(r) ==
    LET c == call[r] IN
    /\ pc[r] = "write"
    /\ \/ c.grant = c.targetRole /\ Rollback(r)
       \/ /\ c.grant # c.targetRole
          /\ RowFree(r, c.target)
          /\ \/ role[c.target] = NoRow /\ Rollback(r)
             \/ /\ role[c.target] # NoRow
                /\ role' = [role EXCEPT ![c.target] = c.grant]
                /\ Close(r)
                /\ UNCHANGED <<group, person>>

-----------------------------------------------------------------------------
(* group_service: everything below LockGroup runs under the group row lock *)
(* until Close.                                                            *)

\* _lock_group.  The group may have been deleted during the wait.  The stale
\* role check that follows it passed before the wait and passes again here.
LockGroup(r) ==
    /\ pc[r] = "lock"
    /\ groupLock = NoRequest
    /\ \/ group # "present" /\ Rollback(r)
       \/ /\ group = "present"
          /\ groupLock' = r
          /\ Goto(r, CASE call[r].op \in {"leave", "remove"} -> "unlink"
                        [] call[r].op = "transfer"           -> "target"
                        [] call[r].op = "delete"             -> "purge"
                        [] OTHER                             -> "insert")
          /\ UNCHANGED <<group, role, person, call, pending>>

\* remove_member: DELETE of the membership.  No row is only a warning.
RemoveMember(r) ==
    LET u == call[r].target IN
    /\ pc[r] = "unlink"
    /\ RowFree(r, u)
    /\ Flush(r, u, IF role[u] = NoRow THEN Untouched ELSE NoRow, "verify")

\* transfer_ownership: new_owner is read under the lock ...
LoadNewOwner(r) ==
    /\ pc[r] = "target"
    /\ \/ role[call[r].target] = NoRow /\ Rollback(r)
       \/ /\ role[call[r].target] # NoRow
          /\ call' = [call EXCEPT ![r].targetRole = role[call[r].target]]
          /\ Goto(r, "demote")
          /\ UNCHANGED <<group, role, person, groupLock, pending>>

\* ... the old owner becomes a member: an UPDATE, as OWNER was loaded ...
DemoteOwner(r) ==
    LET u == call[r].actor IN
    /\ pc[r] = "demote"
    /\ RowFree(r, u)
    /\ \/ role[u] = NoRow /\ Rollback(r)
       \/ role[u] # NoRow /\ Flush(r, u, Member, "promote")

\* ... and the new one the owner, unless it was loaded as the owner.
PromoteOwner(r) ==
    LET u == call[r].target IN
    /\ pc[r] = "promote"
    /\ \/ /\ call[r].targetRole = Owner
          /\ Goto(r, "verify")
          /\ UNCHANGED <<group, role, person, groupLock, call, pending>>
       \/ /\ call[r].targetRole # Owner
          /\ RowFree(r, u)
          /\ \/ /\ role[u] = NoRow \/ ~OwnerIndexAllows(r, u)
                /\ Rollback(r)
             \/ /\ role[u] # NoRow /\ OwnerIndexAllows(r, u)
                /\ Flush(r, u, Owner, "verify")

\* Mutant: the owners are not counted before the commit.
VerifyNothing(r) == /\ pc[r] = "verify"
                    /\ Goto(r, "commit")
                    /\ UNCHANGED <<group, role, person, groupLock, call, pending>>

\* The count ends remove_member and transfer_ownership alike.
VerifyOwner(r) ==
    /\ pc[r] = "verify"
    /\ \/ ~VerifyExactlyOneOwner(Seen(r)) /\ Rollback(r)
       \/ /\ VerifyExactlyOneOwner(Seen(r))
          /\ Goto(r, "commit")
          /\ UNCHANGED <<group, role, person, groupLock, call, pending>>

Commit(r) == /\ pc[r] = "commit"
             /\ role' = Seen(r)
             /\ Close(r)
             /\ UNCHANGED <<group, person>>

\* Mutant: the group goes and its membership rows stay.
DeleteGroupKeepingRows(r) == /\ pc[r] = "purge"
                             /\ \A u \in Users : RowFree(r, u)
                             /\ group' = "deleted"
                             /\ Close(r)
                             /\ UNCHANGED <<role, person>>

\* delete_group: the DELETE of the memberships waits for every locked row.
DeleteGroup(r) == /\ pc[r] = "purge"
                  /\ \A u \in Users : RowFree(r, u)
                  /\ group' = "deleted"
                  /\ role' = [u \in Users |-> NoRow]
                  /\ Close(r)
                  /\ UNCHANGED person

\* The locked half of join_group_with_invite: the invite is looked up again
\* (its state is not kept here, so it may be gone), a member is told so, and
\* the foreign key refuses a user erased during the wait.
InsertMember(r) ==
    LET u == call[r].actor IN
    /\ pc[r] = "insert"
    /\ \/ Rollback(r)
       \/ /\ role[u] = NoRow
          /\ ~UserLocked(u)
          /\ person[u] # "erased"
          /\ role' = [role EXCEPT ![u] = Member]
          /\ Close(r)
          /\ UNCHANGED <<group, person>>

-----------------------------------------------------------------------------
(* delete_account_data: the operator's erasure of u's account locks the    *)
(* account and user rows, then the memberships, and never the group row.   *)

BeginErase(r, u) == /\ pc[r] = "idle"
                    /\ person[u] = "active"
                    /\ ~UserLocked(u)
                    /\ Goto(r, "rows")
                    /\ call' = [call EXCEPT ![r] = [NoCall EXCEPT !.op = "erase", !.actor = u,
                                                                    !.target = u]]
                    /\ UNCHANGED <<group, role, person, groupLock, pending>>

LockMemberships(r) ==
    LET u == call[r].target IN
    /\ pc[r] = "rows"
    /\ RowFree(r, u)
    /\ \/ role[u] = Owner /\ Rollback(r)
       \/ role[u] # Owner /\ Flush(r, u, IF role[u] = NoRow THEN Untouched ELSE NoRow, "erase")

\* A user who confirmed or cancelled a session stays as a tombstone.
EraseAccount(r) ==
    LET u == call[r].target IN
    /\ pc[r] = "erase"
    /\ role' = Seen(r)
    /\ \E left \in {"tombstone", "erased"} : person' = [person EXCEPT ![u] = left]
    /\ Close(r)
    /\ UNCHANGED group

-----------------------------------------------------------------------------
\* A lost connection, a deadlock victim, a killed process: PostgreSQL rolls
\* the transaction back.
Crash(r) == pc[r] # "idle" /\ Rollback(r)

Start(r) == \/ \E a \in Users : \/ CreateGroup(r, a)
                                \/ LeaveGroup(r, a)
                                \/ DeleteManagedGroup(r, a)
                                \/ JoinGroupWithInvite(r, a)
                                \/ BeginErase(r, a)
            \/ \E a, t \in Users : \/ RemoveGroupMember(r, a, t)
                                   \/ TransferGroupOwnership(r, a, t)
                                   \/ \E g \in Grants : UpdateGroupMemberRole(r, a, t, g)

Step(r) == \/ FoundGroup(r)
           \/ LoadTarget(r) \/ WriteRole(r)
           \/ LockGroup(r) \/ RemoveMember(r)
           \/ LoadNewOwner(r) \/ DemoteOwner(r) \/ PromoteOwner(r)
           \/ VerifyOwner(r) \/ Commit(r)
           \/ DeleteGroup(r) \/ InsertMember(r)
           \/ LockMemberships(r) \/ EraseAccount(r)

Next == \E r \in Requests : Start(r) \/ Step(r) \/ Crash(r)

Spec == Init /\ [][Next]_vars

\* The server runs every admitted request; PostgreSQL serves the waiters of a
\* row lock in the order they came, so a wait that keeps ending is granted.
Fairness == \A r \in Requests : SF_vars(Step(r))

FairSpec == Spec /\ Fairness

-----------------------------------------------------------------------------
(* Properties.                                                             *)

Roster == INSTANCE GroupRoster

Owners == {u \in Users : role[u] = Owner}

\* Two hand-overs that both found their caller to be the owner, or a removal
\* and a hand-over, never leave the group with two owners.
AtMostOneOwner == \A u, v \in Owners : u = v

\* What the documentation and _verify_exactly_one_owner claim of a group.
\* The role endpoint breaks it.
ExactlyOneOwner == group = "present" => \E u \in Users : Owners = {u}

\* Of all requests that change a roster, only a role write whose target was
\* made the owner after the write was prepared can take the last owner away.
OwnerLostOnlyToStaleRoleWrite ==
    [][Owners # {} /\ group' = "present" /\ Owners' = {} =>
         \E r \in Requests : /\ WriteRole(r)
                             /\ call[r].targetRole # Owner
                             /\ Owners = {call[r].target}]_vars

\* A leave, removal or erasure decided while u was an ordinary member never
\* deletes the row of u once u has become the owner.
OwnerNeverRemoved ==
    [][\A u \in Owners : role'[u] = NoRow => group' = "deleted"]_vars

\* Ownership moves in one visible step: the old owner stays as a member and
\* the new owner was one of the others already.
HandOverIsAtomic ==
    [][\A u \in Owners, v \in Users \ Owners :
         role'[v] = Owner => role'[u] = Member /\ role[v] \in {Organizer, Member}]_vars

\* No request waits for ever: for the group lock, a row or a user row.
EveryRequestEnds == \A r \in Requests : pc[r] # "idle" ~> pc[r] = "idle"

\* The membership table, as its readers see it, is an atomic roster.
ImplementsRoster == Roster!Spec
=============================================================================
