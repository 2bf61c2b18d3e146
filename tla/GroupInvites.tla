---------------------------- MODULE GroupInvites ----------------------------
(***************************************************************************)
(* The invite codes of one group: issuing, replacing, revoking and joining *)
(* with them (main.py, invites.py), each request in a READ COMMITTED       *)
(* transaction of its own.  Joins and the deletion of the group lock the   *)
(* row of the group.  Issuing and revoking do not: they lock the row of    *)
(* the invite they end, by updating it, and the index                      *)
(* uq_group_invites_one_active decides between two that issue.  The insert *)
(* of an invite still waits for the group row, through its foreign key, so *)
(* that requests can wait for each other; PostgreSQL then aborts one.      *)
(*                                                                         *)
(* A code is drawn at random and never drawn twice.  Who may call what is  *)
(* read when a request begins and not read again.                          *)
(***************************************************************************)
EXTENDS Naturals

CONSTANTS Users, Codes, Requests, NoUser, NoCode, NoRequest,
          MaxUses        \* bounds the joins with one code

ASSUME SentinelAssumption == NoUser \notin Users /\ NoCode \notin Codes /\ NoRequest \notin Requests
ASSUME BoundAssumption == MaxUses \in Nat

VARIABLES
    group,      \* the row of groups: "present" or "deleted"
    owner,      \* the user whose membership has the role owner
    members,    \* the users with a membership
    erased,     \* the users whose account and row are gone
    invite,     \* the rows of group_invites by code
    groupLock,  \* the request holding SELECT ... FOR UPDATE on the group row
    pc,         \* the statement a request executes next
    call,       \* what a request was asked and has read
    admitted    \* history: the joins committed with each code

vars == <<group, owner, members, erased, invite, groupLock, pc, call, admitted>>

Status == {"undrawn", "active", "revoked", "deleted"}

Invites == [status : Status, creator : Users \union {NoUser}, uses : Nat]

Ops == {"idle", "generate", "revoke", "join", "delete", "erase"}

PCs == {"idle", "read", "mark", "issue", "resolve", "lock", "recheck", "enter", "purge", "erase"}

\* liveAtLock is history: the code was active when the group row was locked.
Calls == [op : Ops, user : Users \union {NoUser}, code : Codes \union {NoCode},
          uses : Nat, liveAtLock : BOOLEAN]

NoCall == [op |-> "idle", user |-> NoUser, code |-> NoCode, uses |-> 0, liveAtLock |-> FALSE]

\* Every row, session and request holds values of its kind, and only codes
\* that were issued have a creator.
TypeOK == /\ group \in {"present", "deleted"}
          /\ owner \in Users
          /\ members \subseteq Users
          /\ erased \subseteq Users
          /\ invite \in [Codes -> Invites]
          /\ groupLock \in Requests \union {NoRequest}
          /\ pc \in [Requests -> PCs]
          /\ call \in [Requests -> Calls]
          /\ admitted \in [Codes -> Nat]
          /\ \A c \in Codes : invite[c].status = "undrawn" <=> invite[c].creator = NoUser

Init == /\ group = "present"
        /\ owner \in Users
        /\ members = {owner}
        /\ erased = {}
        /\ invite = [c \in Codes |-> [status |-> "undrawn", creator |-> NoUser, uses |-> 0]]
        /\ groupLock = NoRequest
        /\ pc = [r \in Requests |-> "idle"]
        /\ call = [r \in Requests |-> NoCall]
        /\ admitted = [c \in Codes |-> 0]

-----------------------------------------------------------------------------
(* Locks.                                                                  *)

Active(c) == invite[c].status = "active"
Stored(c) == invite[c].status \in {"active", "revoked"}

\* A replaced invite stays locked from its UPDATE to the commit of the new one.
HoldsRow(r, c) == pc[r] = "issue" /\ call[r].code = c

HoldsUser(r, u) == pc[r] = "erase" /\ call[r].user = u

\* The requests whose locks the next statement of r conflicts with.
Waits(r) ==
    LET u == call[r].user  c == call[r].code IN
    {q \in Requests \ {r} :
        \/ pc[r] \in {"mark", "enter"} /\ HoldsRow(q, c)
        \/ pc[r] \in {"enter", "issue"} /\ HoldsUser(q, u)
        \/ pc[r] \in {"issue", "lock"} /\ groupLock = q
        \/ pc[r] = "purge" /\ \E d \in Codes : HoldsRow(q, d)
        \/ pc[r] = "erase" /\ \E d \in Codes : invite[d].creator = u /\ HoldsRow(q, d)}

Granted(r) == Waits(r) = {}

\* Every member of S waits for another one of S, and no part of S does so.
Deadlocked(S) == /\ S # {}
                 /\ \A r \in S : Waits(r) \cap S # {}
                 /\ \A T \in SUBSET S \ {S, {}} : \E r \in T : Waits(r) \cap T = {}

\* Mutant: a finished session keeps the group row locked.
CloseKeepingLock(r) == /\ pc' = [pc EXCEPT ![r] = "idle"]
                       /\ call' = [call EXCEPT ![r] = NoCall]
                       /\ UNCHANGED groupLock

Close(r) == /\ pc' = [pc EXCEPT ![r] = "idle"]
            /\ call' = [call EXCEPT ![r] = NoCall]
            /\ groupLock' = IF groupLock = r THEN NoRequest ELSE groupLock

rows == <<group, owner, members, erased, invite, admitted>>

Rollback(r) == Close(r) /\ UNCHANGED rows

Goto(r, l) == pc' = [pc EXCEPT ![r] = l]

Admit(r, op, u, c, l) == /\ pc[r] = "idle"
                         /\ group = "present"
                         /\ u \notin erased
                         /\ Goto(r, l)
                         /\ call' = [call EXCEPT ![r] = [NoCall EXCEPT !.op = op, !.user = u, !.code = c]]
                         /\ UNCHANGED <<rows, groupLock>>

-----------------------------------------------------------------------------
(* Issuing and revoking.                                                   *)

GenerateGroupInvite(r, u) == u = owner /\ Admit(r, "generate", u, NoCode, "read")

RevokeGroupInvite(r, u) == u = owner /\ Admit(r, "revoke", u, NoCode, "read")

\* SELECT the active invite: nothing to revoke is a 404, nothing to replace
\* goes straight to the insert.
ReadActive(r) ==
    /\ pc[r] = "read"
    /\ IF \E c \in Codes : Active(c)
       THEN \E c \in {d \in Codes : Active(d)} :
               /\ call' = [call EXCEPT ![r].code = c]
               /\ Goto(r, "mark")
               /\ UNCHANGED <<rows, groupLock>>
       ELSE IF call[r].op = "revoke"
            THEN Rollback(r)
            ELSE Goto(r, "issue") /\ UNCHANGED <<rows, groupLock, call>>

\* UPDATE ... SET revoked_at by primary key: whatever became of the invite
\* since, only its deletion (StaleDataError) stops the request.  A revocation
\* commits at once; a replacement holds the row until the new code commits.
MarkRevoked(r) ==
    /\ pc[r] = "mark"
    /\ Granted(r)
    /\ LET c == call[r].code IN
       \/ ~Stored(c) /\ Rollback(r)
       \/ /\ Stored(c) /\ call[r].op = "revoke"
          /\ invite' = [invite EXCEPT ![c].status = "revoked"]
          /\ Close(r)
          /\ UNCHANGED <<group, owner, members, erased, admitted>>
       \/ /\ Stored(c) /\ call[r].op = "generate"
          /\ Goto(r, "issue")
          /\ UNCHANGED <<rows, groupLock, call>>

\* Mutant: the index lacks its condition on revoked_at and is left out.
IndexIgnored(r) == TRUE

\* uq_group_invites_one_active, asked for a new code beside what r replaces.
IndexAllows(r) == \A c \in Codes : Active(c) => c = call[r].code

Replaced(r) == [c \in Codes |-> IF c = call[r].code THEN [invite[c] EXCEPT !.status = "revoked"]
                                                    ELSE invite[c]]

\* Mutant: the old invite is revoked in a transaction of its own.
IssueInTwoCommits(r) ==
    /\ pc[r] = "issue"
    /\ Granted(r)
    /\ IF IndexAllows(r) /\ group = "present" /\ call[r].user \notin erased
       THEN \E d \in {c \in Codes : invite[c].status = "undrawn"} :
               invite' = [Replaced(r) EXCEPT ![d] = [status |-> "active", creator |-> call[r].user, uses |-> 0]]
       ELSE invite' = IF group = "present" THEN Replaced(r) ELSE invite
    /\ Close(r)
    /\ UNCHANGED <<group, owner, members, erased, admitted>>

\* INSERT and commit.  A violated index or foreign key, or five draws that all
\* exist, undo the revocation as well.
IssueInvite(r) ==
    /\ pc[r] = "issue"
    /\ \/ ~IndexAllows(r) /\ Rollback(r)
       \/ (\E c \in Codes : Stored(c)) /\ Rollback(r)
       \/ (\A c \in Codes : invite[c].status # "undrawn") /\ Rollback(r)   \* bound: no code left
       \/ /\ Granted(r)
          /\ group = "deleted" \/ call[r].user \in erased
          /\ Rollback(r)
       \/ /\ Granted(r) /\ IndexAllows(r)
          /\ group = "present" /\ call[r].user \notin erased
          /\ \E d \in {c \in Codes : invite[c].status = "undrawn"} :
                invite' = [Replaced(r) EXCEPT ![d] = [status |-> "active", creator |-> call[r].user, uses |-> 0]]
          /\ Close(r)
          /\ UNCHANGED <<group, owner, members, erased, admitted>>

-----------------------------------------------------------------------------
(* Joining.                                                                *)

JoinGroupWithInvite(r, u, c) == /\ invite[c].status # "undrawn"
                                /\ admitted[c] < MaxUses
                                /\ Admit(r, "join", u, c, "resolve")

\* _active_invite_group: no lock yet.
ResolveCode(r) == /\ pc[r] = "resolve"
                  /\ IF Active(call[r].code)
                     THEN Goto(r, "lock") /\ UNCHANGED <<rows, groupLock, call>>
                     ELSE Rollback(r)

\* Mutant: the group is read without FOR UPDATE.
LockGroupUnlocked(r) == /\ pc[r] = "lock"
                        /\ group = "present"
                        /\ call' = [call EXCEPT ![r].liveAtLock = call[r].code # NoCode /\ Active(call[r].code)]
                        /\ Goto(r, IF call[r].op = "join" THEN "recheck" ELSE "purge")
                        /\ UNCHANGED <<rows, groupLock>>

LockGroup(r) == /\ pc[r] = "lock"
                /\ Granted(r)
                /\ IF group = "deleted"
                   THEN Rollback(r)
                   ELSE /\ groupLock' = r
                        /\ call' = [call EXCEPT ![r].liveAtLock = call[r].code # NoCode /\ Active(call[r].code)]
                        /\ Goto(r, IF call[r].op = "join" THEN "recheck" ELSE "purge")
                        /\ UNCHANGED rows

\* Mutant: the invite read before the wait is trusted.
TrustResolvedCode(r) == /\ pc[r] = "recheck"
                        /\ IF Stored(call[r].code) /\ call[r].user \notin members
                           THEN /\ call' = [call EXCEPT ![r].uses = invite[call[r].code].uses]
                                /\ Goto(r, "enter")
                                /\ UNCHANGED <<rows, groupLock>>
                           ELSE Rollback(r)

\* The invite is read again under the lock.  Members are told that they are.
RecheckCode(r) == /\ pc[r] = "recheck"
                  /\ IF Active(call[r].code) /\ call[r].user \notin members
                     THEN /\ call' = [call EXCEPT ![r].uses = invite[call[r].code].uses]
                          /\ Goto(r, "enter")
                          /\ UNCHANGED <<rows, groupLock>>
                     ELSE Rollback(r)

\* INSERT the membership, UPDATE use_count by primary key to the value read
\* plus one, commit.  An invite or user row gone in between fails the request.
EnterGroup(r) ==
    /\ pc[r] = "enter"
    /\ Granted(r)
    /\ LET c == call[r].code  u == call[r].user IN
       IF ~Stored(c) \/ u \in erased
       THEN Rollback(r)
       ELSE /\ members' = members \union {u}
            /\ invite' = [invite EXCEPT ![c].uses = call[r].uses + 1]
            /\ admitted' = [admitted EXCEPT ![c] = @ + 1]
            /\ Close(r)
            /\ UNCHANGED <<group, owner, erased>>

-----------------------------------------------------------------------------
(* What else ends invites, memberships and ownership.                      *)

DeleteManagedGroup(r, u) == u = owner /\ Admit(r, "delete", u, NoCode, "lock")

PurgeGroup(r) == /\ pc[r] = "purge"
                 /\ Granted(r)
                 /\ group' = "deleted"
                 /\ members' = {}
                 /\ invite' = [c \in Codes |-> IF Stored(c) THEN [invite[c] EXCEPT !.status = "deleted"]
                                                            ELSE invite[c]]
                 /\ Close(r)
                 /\ UNCHANGED <<owner, erased, admitted>>

\* delete_account_data locks the user row, then the memberships; owners are
\* refused.
BeginErase(r, u) == /\ u # owner
                    /\ \A q \in Requests : ~HoldsUser(q, u)
                    /\ Admit(r, "erase", u, NoCode, "erase")

EraseAccount(r) == LET u == call[r].user IN
                   /\ pc[r] = "erase"
                   /\ Granted(r)
                   /\ erased' = erased \union {u}
                   /\ members' = members \ {u}
                   /\ invite' = [c \in Codes |-> IF invite[c].creator = u /\ Stored(c)
                                                 THEN [invite[c] EXCEPT !.status = "deleted"]
                                                 ELSE invite[c]]
                   /\ Close(r)
                   /\ UNCHANGED <<group, owner, admitted>>

\* Memberships end and ownership moves under the group lock (GroupTransactions).
LeaveGroup(u) == /\ groupLock = NoRequest
                 /\ u \in members \ {owner}
                 /\ \A q \in Requests : ~HoldsUser(q, u)
                 /\ members' = members \ {u}
                 /\ UNCHANGED <<group, owner, erased, invite, groupLock, pc, call, admitted>>

TransferGroupOwnership(u) == /\ groupLock = NoRequest
                             /\ u \in members \ {owner}
                             /\ \A q \in Requests : ~HoldsUser(q, u)
                             /\ owner' = u
                             /\ UNCHANGED <<group, members, erased, invite, groupLock, pc, call, admitted>>

\* PostgreSQL aborts a request of a cycle: OperationalError, not the
\* IntegrityError the handlers expect.
AbortDeadlocked(r) == /\ \E S \in SUBSET Requests : r \in S /\ Deadlocked(S)
                      /\ Rollback(r)

Begin(r) == \E u \in Users : \/ GenerateGroupInvite(r, u)
                             \/ RevokeGroupInvite(r, u)
                             \/ DeleteManagedGroup(r, u)
                             \/ BeginErase(r, u)
                             \/ \E c \in Codes : JoinGroupWithInvite(r, u, c)

Step(r) == \/ ReadActive(r)
           \/ MarkRevoked(r)
           \/ IssueInvite(r)
           \/ ResolveCode(r)
           \/ LockGroup(r)
           \/ RecheckCode(r)
           \/ EnterGroup(r)
           \/ PurgeGroup(r)
           \/ EraseAccount(r)
           \/ AbortDeadlocked(r)

Next == \/ \E r \in Requests : Begin(r) \/ Step(r)
        \/ \E u \in Users : LeaveGroup(u) \/ TransferGroupOwnership(u)

Spec == Init /\ [][Next]_vars

\* A statement that can run does run: the thread pool and PostgreSQL's lock
\* queue serve every request that waits.
FairSpec == Spec /\ \A r \in Requests : SF_vars(Step(r))

-----------------------------------------------------------------------------
(* Properties.                                                             *)

\* However requests that issue, revoke and join overlap, the group never has
\* two codes that admit: the owner who replaces a code ends the old one.
OneActiveCode == \A c, d \in Codes : Active(c) /\ Active(d) => c = d

\* The state invariant of the invites: rows and locks of their kind, and the
\* unique index.
WellFormed == TypeOK /\ OneActiveCode

\* use_count is written from a value read earlier, yet no join is lost from
\* it and none is counted that was rolled back.
UsesAreCounted == \A c \in Codes : Stored(c) => invite[c].uses = admitted[c]

\* Nobody enters with a code that was already replaced, revoked or deleted
\* when the join got the group lock, however long it had waited for it.
EntersOnLiveCode ==
    [][\A r \in Requests : call[r].op = "join" /\ members' # members /\ pc[r] = "enter" /\ pc'[r] = "idle"
            => call[r].liveAtLock]_vars

\* A request to replace the code never leaves the group without one: either
\* the new code is there or the old one still works.
ReplacementIsAtomic ==
    [][\A r \in Requests : pc[r] = "issue" /\ pc'[r] = "idle" /\ (\E c \in Codes : Active(c))
            => \E c \in Codes : Active(c)']_vars

\* What the tables and the requests amount to: the codes that admit, the codes
\* issued, the use counts on record and the join that may still enter.
Valid     == {c \in Codes : Active(c)}
Used      == {c \in Codes : invite[c].status # "undrawn"}
Count     == [c \in {d \in Codes : Stored(d)} |-> invite[c].uses]
Admitting == {[user |-> call[r].user, code |-> call[r].code] : r \in {q \in Requests : pc[q] = "enter"}}

Desk == INSTANCE InviteDesk WITH valid <- Valid, used <- Used, count <- Count, admitting <- Admitting

\* Requests that read codes before they wait and write counts from values they
\* have read behave as a desk that lets in one newcomer at a time, and only on
\* a code that is valid at that moment.
ImplementsDesk == Desk!Spec

\* This model's share of the membership table, where everybody but the owner
\* is a plain member.
Roles  == [u \in Users |-> IF u \notin members THEN "none" ELSE IF u = owner THEN "owner" ELSE "member"]
Roster == INSTANCE GroupRoster WITH role <- Roles

\* Joins write the table that GroupTransactions models and never do to it what
\* the roster does not allow: nobody is enrolled twice, and no join, erasure or
\* deletion takes the owner's row while the group is there.
KeepsToRoster == [][Roster!Next]_Roster!vars

\* Joins, replacements and erasures wait for each other's rows in different
\* orders, and still every request gets its answer.
EveryRequestEnds == \A r \in Requests : pc[r] # "idle" ~> pc[r] = "idle"
=============================================================================
