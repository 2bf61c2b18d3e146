----------------------- MODULE GroupTransactionsProofs -----------------------
(***************************************************************************)
(* Proofs about GroupTransactions for every set of users and every number  *)
(* of open requests.  IInv says what a transaction may rely on between two *)
(* of its statements; from it follow the owner properties and that the     *)
(* committed table implements GroupRoster.                                 *)
(***************************************************************************)
EXTENDS GroupTransactions, TLAPS

\* The statements under the lock of the group row.
LockedPCs == {"unlink", "target", "demote", "promote", "verify", "commit", "purge", "insert"}

\* The sets of uncommitted rows a transaction can hold.
Wrote(u, row)    == [v \in Users |-> IF v = u THEN row ELSE Untouched]
HandedOver(u, w) == [v \in Users |-> IF v = u THEN Member
                                     ELSE IF v = w THEN Owner ELSE Untouched]

GroupInv == group # "present" => \A u \in Users : role[u] = NoRow

LockInv == \A r \in Requests : pc[r] \in LockedPCs => groupLock = r /\ group = "present"

CallInv == \A r \in Requests :
    /\ call[r].op = "transfer" => call[r].actor # call[r].target
    /\ pc[r] \in {"target", "demote", "promote"} => call[r].op = "transfer"
    /\ pc[r] = "write" => call[r].targetRole \in {Organizer, Member}

\* Nobody becomes the owner between the two halves of a hand-over.
TargetInv == \A r \in Requests :
    pc[r] \in {"demote", "promote"} /\ call[r].targetRole # Owner
       => role[call[r].target] # Owner

\* An uncommitted version replaces an existing row and keeps others off it.
RowInv == \A r \in Requests, u \in Users :
    pending[r][u] # Untouched => /\ role[u] # NoRow
                                 /\ \A q \in Requests \ {r} : pending[q][u] = Untouched

Removal(r)  == \E u \in Users : pending[r] = Wrote(u, NoRow)
Demotion(r) == \E u \in Users : pending[r] = Wrote(u, Member)
HandOver(r) == \E u, w \in Users : /\ u # w
                                   /\ role[w] # Owner
                                   /\ pending[r] = HandedOver(u, w)

Shape(r) ==
    /\ pc[r] \notin {"promote", "verify", "commit", "erase"} => pending[r] = Clean
    /\ pc[r] = "promote" => pending[r] = Wrote(call[r].actor, Member)
    /\ pc[r] = "erase" => \/ pending[r] = Clean
                          \/ /\ role[call[r].target] # Owner
                             /\ pending[r] = Wrote(call[r].target, NoRow)
    /\ pc[r] \in {"verify", "commit"} => \/ pending[r] = Clean
                                        \/ Removal(r) \/ Demotion(r) \/ HandOver(r)

ShapeInv == \A r \in Requests : Shape(r)

\* What VerifyOwner established still holds when Commit publishes the rows: one
\* owner at most, and an owner's row is replaced only if a new owner is written.
\* A role write may have cost the group its owner since.
Verified(r) ==
    /\ \A u, v \in Users : Seen(r)[u] = Owner /\ Seen(r)[v] = Owner => u = v
    /\ \A u \in Users : role[u] = Owner /\ pending[r][u] # Untouched
                          => \E v \in Users : pending[r][v] = Owner

CommitInv == \A r \in Requests : pc[r] = "commit" => Verified(r)

IInv == /\ TypeOK /\ GroupInv /\ LockInv /\ CallInv /\ TargetInv
        /\ RowInv /\ ShapeInv /\ CommitInv /\ AtMostOneOwner

-----------------------------------------------------------------------------
LEMMA InitTypeOK == Init => TypeOK
  BY SentinelAssumption
  DEF Init, TypeOK, Clean, NoCall, Calls, Ops, PCs, Grants, Rows, Roles,
      Owner, Organizer, Member, NoRow, Untouched

\* Closing a session types, whatever it committed before.
LEMMA CloseType ==
  ASSUME TypeOK, NEW r \in Requests, Close(r)
  PROVE  /\ groupLock' \in Requests \union {NoRequest}
         /\ pc' \in [Requests -> PCs]
         /\ call' \in [Requests -> Calls]
         /\ pending' \in [Requests -> [Users -> Rows \union {Untouched}]]
         /\ \A q \in Requests : pc'[q] # "idle" => call'[q].actor \in Users /\ call'[q].target \in Users
  BY DEF TypeOK, Close, Clean, NoCall, Calls, Ops, PCs, Grants, Rows, Roles,
         Owner, Organizer, Member, NoRow, Untouched

LEMMA SeenType ==
  ASSUME TypeOK, NEW r \in Requests
  PROVE  Seen(r) \in [Users -> Rows]
  BY DEF TypeOK, Seen

LEMMA FlushType ==
  ASSUME TypeOK, NEW r \in Requests, NEW u, NEW row \in Rows \union {Untouched},
         NEW l \in PCs, pc[r] # "idle", Flush(r, u, row, l)
  PROVE  TypeOK'
  BY DEF TypeOK, Flush, Goto

LEMMA NextTypeOK == TypeOK /\ [Next]_vars => TypeOK'
<1> SUFFICES ASSUME TypeOK, [Next]_vars PROVE TypeOK'
  OBVIOUS
<1>1. CASE UNCHANGED vars
  BY <1>1 DEF TypeOK, vars
<1>2. ASSUME NEW r \in Requests, Rollback(r) PROVE TypeOK'
  BY <1>2, CloseType DEF Rollback, TypeOK
<1>3. ASSUME NEW r \in Requests, Start(r) PROVE TypeOK'
  <2> USE DEF Admit, Goto, TypeOK, NoCall, Calls, Ops, PCs, Grants, Rows, Roles,
              Owner, Organizer, Member, NoRow
  <2>1. ASSUME NEW a \in Users, CreateGroup(r, a) PROVE TypeOK'
    BY <2>1 DEF CreateGroup
  <2>2. ASSUME NEW a \in Users, LeaveGroup(r, a) PROVE TypeOK'
    BY <2>2 DEF LeaveGroup
  <2>3. ASSUME NEW a \in Users, DeleteManagedGroup(r, a) PROVE TypeOK'
    BY <2>3 DEF DeleteManagedGroup
  <2>4. ASSUME NEW a \in Users, JoinGroupWithInvite(r, a) PROVE TypeOK'
    BY <2>4 DEF JoinGroupWithInvite
  <2>5. ASSUME NEW a \in Users, BeginErase(r, a) PROVE TypeOK'
    BY <2>5 DEF BeginErase
  <2>6. ASSUME NEW a \in Users, NEW t \in Users, RemoveGroupMember(r, a, t) PROVE TypeOK'
    BY <2>6 DEF RemoveGroupMember
  <2>7. ASSUME NEW a \in Users, NEW t \in Users, TransferGroupOwnership(r, a, t) PROVE TypeOK'
    BY <2>7 DEF TransferGroupOwnership
  <2>8. ASSUME NEW a \in Users, NEW t \in Users, NEW g \in Grants,
               UpdateGroupMemberRole(r, a, t, g)
        PROVE  TypeOK'
    BY <2>8 DEF UpdateGroupMemberRole
  <2> QED
    BY <1>3, <2>1, <2>2, <2>3, <2>4, <2>5, <2>6, <2>7, <2>8 DEF Start
<1>4. ASSUME NEW r \in Requests, Step(r), ~Rollback(r) PROVE TypeOK'
  <2> USE <1>4 DEF Goto, Flush, PCs, Rows, Roles, Owner, Organizer, Member, NoRow, Untouched
  <2>1. CASE FoundGroup(r)
    BY <2>1, CloseType DEF FoundGroup, TypeOK
  <2>2. CASE LoadTarget(r)
    <3>1. pc[r] = "load" /\ call[r].target \in Users
      BY <2>2 DEF LoadTarget, TypeOK
    <3>2. call' = [call EXCEPT ![r].targetRole = role[call[r].target]]
      BY <2>2 DEF LoadTarget
    <3>3. call' \in [Requests -> Calls]
      BY <3>1, <3>2 DEF TypeOK, Calls
    <3>4. \A q \in Requests : call'[q].actor = call[q].actor /\ call'[q].target = call[q].target
      BY <3>2 DEF TypeOK, Calls
    <3> QED
      BY <2>2, <3>1, <3>3, <3>4 DEF LoadTarget, TypeOK
  <2>3. CASE WriteRole(r)
    <3>1. call[r].grant \in Rows
      BY DEF TypeOK, Calls, Grants
    <3> QED
      BY <2>3, <3>1, CloseType DEF WriteRole, TypeOK
  <2>4. CASE LockGroup(r)
    BY <2>4 DEF LockGroup, TypeOK
  <2>5. CASE RemoveMember(r)
    <3>1. /\ pc[r] # "idle"
          /\ \E row \in Rows \union {Untouched} : Flush(r, call[r].target, row, "verify")
      BY <2>5 DEF RemoveMember
    <3> QED
      BY <3>1, FlushType
  <2>6. CASE LoadNewOwner(r)
    <3>1. pc[r] = "target" /\ call[r].target \in Users
      BY <2>6 DEF LoadNewOwner, TypeOK
    <3>2. call' = [call EXCEPT ![r].targetRole = role[call[r].target]]
      BY <2>6 DEF LoadNewOwner
    <3>3. call' \in [Requests -> Calls]
      BY <3>1, <3>2 DEF TypeOK, Calls
    <3>4. \A q \in Requests : call'[q].actor = call[q].actor /\ call'[q].target = call[q].target
      BY <3>2 DEF TypeOK, Calls
    <3> QED
      BY <2>6, <3>1, <3>3, <3>4 DEF LoadNewOwner, TypeOK
  <2>7. CASE DemoteOwner(r)
    <3>1. pc[r] # "idle" /\ Flush(r, call[r].actor, Member, "promote")
      BY <2>7 DEF DemoteOwner
    <3> QED
      BY <3>1, FlushType
  <2>8. CASE PromoteOwner(r)
    <3>1. CASE call[r].targetRole = Owner
      BY <2>8, <3>1 DEF PromoteOwner, TypeOK
    <3>2. CASE call[r].targetRole # Owner
      <4>1. pc[r] # "idle" /\ Flush(r, call[r].target, Owner, "verify")
        BY <2>8, <3>2 DEF PromoteOwner
      <4> QED
        BY <4>1, FlushType
    <3> QED
      BY <3>1, <3>2
  <2>9. CASE VerifyOwner(r)
    BY <2>9 DEF VerifyOwner, TypeOK
  <2>10. CASE Commit(r)
    BY <2>10, CloseType, SeenType DEF Commit, TypeOK
  <2>11. CASE DeleteGroup(r)
    BY <2>11, CloseType DEF DeleteGroup, TypeOK
  <2>12. CASE InsertMember(r)
    <3>1. call[r].actor \in Users
      BY <2>12 DEF InsertMember, TypeOK
    <3>2. /\ role' = [role EXCEPT ![call[r].actor] = Member]
          /\ Close(r)
          /\ UNCHANGED <<group, person>>
      BY <2>12 DEF InsertMember
    <3>3. role' \in [Users -> Rows]
      BY <3>1, <3>2 DEF TypeOK
    <3> QED
      BY <3>2, <3>3, CloseType DEF TypeOK
  <2>13. CASE LockMemberships(r)
    <3>1. /\ pc[r] # "idle"
          /\ \E row \in Rows \union {Untouched} : Flush(r, call[r].target, row, "erase")
      BY <2>13 DEF LockMemberships
    <3> QED
      BY <3>1, FlushType
  <2>14. CASE EraseAccount(r)
    BY <2>14, CloseType, SeenType DEF EraseAccount, TypeOK
  <2> QED
    BY <2>1, <2>2, <2>3, <2>4, <2>5, <2>6, <2>7, <2>8, <2>9, <2>10, <2>11,
       <2>12, <2>13, <2>14 DEF Step
<1>5. ASSUME NEW r \in Requests, Crash(r) PROVE TypeOK'
  BY <1>5, <1>2 DEF Crash
<1> QED
  BY <1>1, <1>2, <1>3, <1>4, <1>5 DEF Next

\* Every state of every table and session is one of those TypeOK lists.
THEOREM Typing == Spec => []TypeOK
  BY InitTypeOK, NextTypeOK, PTL DEF Spec

-----------------------------------------------------------------------------
(* Two ways to end a session, publishing rows or not, and the steps that   *)
(* keep it open.                                                           *)

Founds(r) == /\ pc[r] = "found" /\ group = "absent" /\ group' = "present"
             /\ role' = [v \in Users |-> IF v = call[r].actor THEN Owner ELSE NoRow]

Regrades(r) == LET u == call[r].target IN
               /\ pc[r] = "write" /\ WriteRole(r) /\ RowFree(r, u) /\ role[u] # NoRow
               /\ role' = [role EXCEPT ![u] = call[r].grant]
               /\ UNCHANGED group

Publishes(r) == pc[r] \in {"commit", "erase"} /\ role' = Seen(r) /\ UNCHANGED group

Dissolves(r) == /\ pc[r] = "purge" /\ group' = "deleted"
                /\ \A u \in Users : RowFree(r, u)
                /\ role' = [u \in Users |-> NoRow]

Enrols(r) == LET u == call[r].actor IN
             /\ pc[r] = "insert" /\ role[u] = NoRow
             /\ role' = [role EXCEPT ![u] = Member]
             /\ UNCHANGED group

Ends(r) == /\ pc[r] # "idle" /\ Close(r)
           /\ \/ UNCHANGED <<group, role>>
              \/ Founds(r) \/ Regrades(r) \/ Publishes(r) \/ Dissolves(r) \/ Enrols(r)

Continues(r) == /\ UNCHANGED <<group, role, person>>
                /\ \/ Start(r) \/ LoadTarget(r) \/ LockGroup(r) \/ RemoveMember(r)
                   \/ LoadNewOwner(r) \/ DemoteOwner(r) \/ PromoteOwner(r)
                   \/ VerifyOwner(r) \/ LockMemberships(r)
                /\ ~Close(r)

LEMMA StepEndsOrContinues ==
  ASSUME TypeOK, NEW r \in Requests, Start(r) \/ Step(r) \/ Crash(r)
  PROVE  Ends(r) \/ Continues(r)
<1>1. ASSUME Rollback(r), pc[r] # "idle" PROVE Ends(r)
  BY <1>1 DEF Rollback, Ends
<1>2. CASE Crash(r)
  BY <1>1, <1>2 DEF Crash
<1>3. CASE Start(r)
  <2>1. pc[r] = "idle" /\ pc'[r] # "idle" /\ UNCHANGED <<group, role, person>>
    BY <1>3 DEF TypeOK, Start, CreateGroup, LeaveGroup, DeleteManagedGroup, JoinGroupWithInvite,
       BeginErase, RemoveGroupMember, TransferGroupOwnership, UpdateGroupMemberRole,
       Admit, Goto, Authorized
  <2>2. ~Close(r)
    BY <2>1 DEF Close, TypeOK
  <2> QED
    BY <1>3, <2>1, <2>2 DEF Continues
<1>4. CASE Step(r)
  <2>1. CASE FoundGroup(r)
    BY <2>1, <1>1 DEF FoundGroup, Ends, Founds
  <2>2. CASE WriteRole(r)
    BY <2>2, <1>1 DEF WriteRole, Ends, Regrades
  <2>3. CASE Commit(r)
    BY <2>3 DEF Commit, Ends, Publishes
  <2>4. CASE EraseAccount(r)
    BY <2>4 DEF EraseAccount, Ends, Publishes
  <2>5. CASE DeleteGroup(r)
    BY <2>5 DEF DeleteGroup, Ends, Dissolves
  <2>6. CASE InsertMember(r)
    BY <2>6, <1>1 DEF InsertMember, Ends, Enrols
  <2>7. CASE LoadTarget(r)
    BY <2>7, <1>1 DEF LoadTarget, Continues, Ends
  <2>8. CASE LockGroup(r)
    BY <2>8, <1>1 DEF LockGroup, Continues, Ends
  <2>9. CASE RemoveMember(r)
    BY <2>9 DEF RemoveMember, Flush, Continues, Ends
  <2>10. CASE LoadNewOwner(r)
    BY <2>10, <1>1 DEF LoadNewOwner, Continues, Ends
  <2>11. CASE DemoteOwner(r)
    BY <2>11, <1>1 DEF DemoteOwner, Flush, Continues, Ends
  <2>12. CASE PromoteOwner(r)
    BY <2>12, <1>1 DEF PromoteOwner, Flush, Continues, Ends
  <2>13. CASE VerifyOwner(r)
    BY <2>13, <1>1 DEF VerifyOwner, Continues, Ends
  <2>14. CASE LockMemberships(r)
    BY <2>14, <1>1 DEF LockMemberships, Flush, Continues, Ends
  <2> QED
    BY <1>4, <2>1, <2>2, <2>3, <2>4, <2>5, <2>6, <2>7, <2>8, <2>9, <2>10, <2>11,
       <2>12, <2>13, <2>14 DEF Step
<1> QED
  BY <1>2, <1>3, <1>4

\* A step of r leaves every other session as it was.
LEMMA OthersUndisturbed ==
  ASSUME TypeOK, NEW r \in Requests, Ends(r) \/ Continues(r),
         NEW q \in Requests, q # r
  PROVE  /\ pc'[q] = pc[q] /\ call'[q] = call[q] /\ pending'[q] = pending[q]
         /\ groupLock = q => groupLock' = q
<1> USE DEF TypeOK
<1>1. CASE Ends(r)
  BY <1>1 DEF Ends, Close
<1>2. CASE Continues(r)
  <2>1. CASE Start(r)
    BY <2>1 DEF Start, CreateGroup, LeaveGroup, DeleteManagedGroup, JoinGroupWithInvite,
       BeginErase, RemoveGroupMember, TransferGroupOwnership, UpdateGroupMemberRole,
       Admit, Goto
  <2>2. CASE LoadTarget(r)
    BY <1>2, <2>2 DEF Continues, LoadTarget, Goto, Rollback
  <2>3. CASE LockGroup(r)
    BY <1>2, <2>3, SentinelAssumption DEF Continues, LockGroup, Goto, Rollback
  <2>4. CASE RemoveMember(r)
    BY <2>4 DEF RemoveMember, Flush, Goto
  <2>5. CASE LoadNewOwner(r)
    BY <1>2, <2>5 DEF Continues, LoadNewOwner, Goto, Rollback
  <2>6. CASE DemoteOwner(r)
    BY <1>2, <2>6 DEF Continues, DemoteOwner, Flush, Goto, Rollback
  <2>7. CASE PromoteOwner(r)
    BY <1>2, <2>7 DEF Continues, PromoteOwner, Flush, Goto, Rollback
  <2>8. CASE VerifyOwner(r)
    BY <1>2, <2>8 DEF Continues, VerifyOwner, Goto, Rollback
  <2>9. CASE LockMemberships(r)
    BY <1>2, <2>9 DEF Continues, LockMemberships, Flush, Goto, Rollback
  <2> QED
    BY <1>2, <2>1, <2>2, <2>3, <2>4, <2>5, <2>6, <2>7, <2>8, <2>9 DEF Continues
<1> QED
  BY <1>1, <1>2

-----------------------------------------------------------------------------
(* What the other sessions may rely on while r takes a step.               *)

\* An uncommitted version of a row shields the committed one.
LEMMA StableRow ==
  ASSUME IInv, NEW r \in Requests, Ends(r) \/ Continues(r),
         NEW q \in Requests, q # r, NEW u \in Users, pending[q][u] # Untouched
  PROVE  role'[u] = role[u]
<1>1. role[u] # NoRow /\ pending[r][u] = Untouched
  BY DEF IInv, RowInv
<1>2. group = "present"
  BY <1>1 DEF IInv, GroupInv
<1>3. ASSUME RowFree(r, u) PROVE FALSE
  BY <1>3 DEF RowFree
<1>4. CASE Ends(r)
  <2>1. ~Founds(r) /\ ~Dissolves(r)
    BY <1>2, <1>3 DEF Founds, Dissolves
  <2>2. CASE Regrades(r)
    BY <2>2, <1>3 DEF Regrades, IInv, TypeOK
  <2>3. CASE Publishes(r)
    BY <2>3, <1>1 DEF Publishes, Seen
  <2>4. CASE Enrols(r)
    BY <2>4, <1>1 DEF Enrols, IInv, TypeOK
  <2> QED
    BY <1>4, <2>1, <2>2, <2>3, <2>4 DEF Ends
<1> QED
  BY <1>4 DEF Continues

\* Nobody becomes the owner of a group whose lock another session holds.
LEMMA NoOwnerGained ==
  ASSUME IInv, NEW r \in Requests, Ends(r) \/ Continues(r),
         group = "present", groupLock # r, NEW u \in Users, role'[u] = Owner
  PROVE  role[u] = Owner
<1>1. pc[r] \notin LockedPCs
  BY DEF IInv, LockInv
<1>2. CASE Ends(r)
  <2>1. ~Founds(r) /\ ~Dissolves(r) /\ ~Enrols(r)
    BY <1>1 DEF Founds, Dissolves, Enrols, LockedPCs
  <2>2. CASE Regrades(r)
    BY <2>2 DEF Regrades, IInv, TypeOK, Calls, Grants, Owner, Organizer, Member
  <2>3. CASE Publishes(r)
    <3>1. pc[r] = "erase" /\ role' = Seen(r)
      BY <2>3, <1>1 DEF Publishes, LockedPCs
    <3>2. pending[r][u] # Owner
      <4>1. pending[r] = Clean \/ pending[r] = Wrote(call[r].target, NoRow)
        BY <3>1 DEF IInv, ShapeInv, Shape
      <4> QED
        BY <4>1 DEF Clean, Wrote, Owner, NoRow, Untouched
    <3> QED
      BY <3>1, <3>2 DEF Seen
  <2> QED
    BY <1>2, <2>1, <2>2, <2>3 DEF Ends
<1> QED
  BY <1>2 DEF Continues

\* A group stays while another session holds its lock.
LEMMA GroupStays ==
  ASSUME IInv, NEW r \in Requests, Ends(r) \/ Continues(r),
         group = "present", groupLock # r
  PROVE  group' = "present"
<1>1. ~Dissolves(r)
  BY DEF IInv, LockInv, LockedPCs, Dissolves
<1> QED
  BY <1>1 DEF Ends, Continues, Founds, Regrades, Publishes, Enrols

\* The session that ends is as good as new.
LEMMA Ended ==
  ASSUME TypeOK, NEW r \in Requests, Ends(r)
  PROVE  pc'[r] = "idle" /\ call'[r] = NoCall /\ pending'[r] = Clean
  BY DEF TypeOK, Ends, Close

\* A statement that writes locks the row it replaces.
LEMMA WritesLock ==
  ASSUME IInv, NEW r \in Requests, Continues(r), NEW u \in Users,
         pending'[r][u] # Untouched, pending'[r][u] # pending[r][u]
  PROVE  RowFree(r, u) /\ role[u] # NoRow
<1> USE DEF IInv, TypeOK
<1>1. ~Start(r) /\ ~LoadTarget(r) /\ ~LockGroup(r) /\ ~LoadNewOwner(r) /\ ~VerifyOwner(r)
  BY DEF Continues, Start, CreateGroup, LeaveGroup, DeleteManagedGroup, JoinGroupWithInvite,
     BeginErase, RemoveGroupMember, TransferGroupOwnership, UpdateGroupMemberRole, Admit,
     LoadTarget, LockGroup, LoadNewOwner, VerifyOwner, Rollback
<1>2. CASE RemoveMember(r)
  BY <1>2 DEF RemoveMember, Flush
<1>3. CASE DemoteOwner(r)
  BY <1>3 DEF DemoteOwner, Flush, Continues, Rollback
<1>4. CASE PromoteOwner(r)
  BY <1>4 DEF PromoteOwner, Flush, Continues, Rollback
<1>5. CASE LockMemberships(r)
  BY <1>5 DEF LockMemberships, Flush, Continues, Rollback
<1> QED
  BY <1>1, <1>2, <1>3, <1>4, <1>5 DEF Continues

-----------------------------------------------------------------------------
(* IInv is inductive: one lemma per part.  In each, the sessions other     *)
(* than r are left alone and r's own step is examined.                     *)

LEMMA NextGroupInv ==
  ASSUME IInv, NEW r \in Requests, Ends(r) \/ Continues(r)
  PROVE  GroupInv'
<1> USE DEF IInv, GroupInv
<1>1. CASE Continues(r)
  BY <1>1 DEF Continues
<1>2. CASE Ends(r)
  <2>1. CASE Founds(r)
    BY <2>1 DEF Founds
  <2>2. CASE Regrades(r)
    <3>1. call[r].target \in Users
      BY <2>2 DEF Regrades, TypeOK
    <3> QED
      BY <2>2, <3>1 DEF Regrades
  <2>3. CASE Publishes(r)
    BY <2>3 DEF Publishes, Seen, RowInv
  <2>4. CASE Dissolves(r)
    BY <2>4 DEF Dissolves
  <2>5. CASE Enrols(r)
    BY <2>5 DEF Enrols, LockInv, LockedPCs
  <2> QED
    BY <1>2, <2>1, <2>2, <2>3, <2>4, <2>5 DEF Ends
<1> QED
  BY <1>1, <1>2

LEMMA NextLockInv ==
  ASSUME IInv, NEW r \in Requests, Ends(r) \/ Continues(r)
  PROVE  LockInv'
<1> SUFFICES ASSUME NEW q \in Requests, pc'[q] \in LockedPCs
             PROVE  groupLock' = q /\ group' = "present"
  BY DEF LockInv
<1>1. CASE q # r
  <2>1. groupLock = q /\ group = "present" /\ groupLock' = q
    BY <1>1, OthersUndisturbed DEF IInv, LockInv
  <2> QED
    BY <1>1, <2>1, GroupStays
<1>2. CASE q = r
  <2> USE <1>2 DEF IInv, TypeOK, LockInv, LockedPCs
  <2>1. Continues(r)
    BY Ended
  <2>2. group' = group /\ ~Rollback(r)
    BY <2>1 DEF Continues, Rollback
  <2>3. ~Start(r) /\ ~LoadTarget(r) /\ ~LockMemberships(r)
    BY <2>1, <2>2 DEF Continues, Start, CreateGroup, LeaveGroup, DeleteManagedGroup,
       JoinGroupWithInvite, BeginErase, RemoveGroupMember, TransferGroupOwnership,
       UpdateGroupMemberRole, Admit, Goto, LoadTarget, LockMemberships, Flush
  <2>4. CASE LockGroup(r)
    BY <2>2, <2>4 DEF LockGroup
  <2>5. CASE RemoveMember(r)
    BY <2>2, <2>5 DEF RemoveMember, Flush
  <2>6. CASE LoadNewOwner(r)
    BY <2>2, <2>6 DEF LoadNewOwner
  <2>7. CASE DemoteOwner(r)
    BY <2>2, <2>7 DEF DemoteOwner, Flush
  <2>8. CASE PromoteOwner(r)
    BY <2>2, <2>8 DEF PromoteOwner, Flush
  <2>9. CASE VerifyOwner(r)
    BY <2>2, <2>9 DEF VerifyOwner
  <2> QED
    BY <2>1, <2>3, <2>4, <2>5, <2>6, <2>7, <2>8, <2>9 DEF Continues
<1> QED
  BY <1>1, <1>2

\* What r was asked stays what it was until r ends.
LEMMA CallKept ==
  ASSUME TypeOK, NEW r \in Requests, Continues(r), ~Start(r)
  PROVE  /\ call'[r].op = call[r].op
         /\ call'[r].actor = call[r].actor /\ call'[r].target = call[r].target
<1> USE DEF TypeOK, Calls, Continues, Rollback
<1> QED
  BY DEF LoadTarget, LockGroup, RemoveMember, LoadNewOwner, DemoteOwner, PromoteOwner,
         VerifyOwner, LockMemberships, Flush

\* What the routes hand on: a transfer to oneself is refused there.
LEMMA Started ==
  ASSUME TypeOK, NEW r \in Requests, Start(r)
  PROVE  /\ pc[r] = "idle" /\ pc'[r] \in {"found", "lock", "load", "rows"}
         /\ pending' = pending /\ groupLock' = groupLock
         /\ call'[r].op = "transfer" => call'[r].actor # call'[r].target
<1> DEFINE Goal == /\ pc[r] = "idle" /\ pc'[r] \in {"found", "lock", "load", "rows"}
                   /\ pending' = pending /\ groupLock' = groupLock
                   /\ call'[r].op = "transfer" => call'[r].actor # call'[r].target
<1> USE DEF Admit, Goto, TypeOK, NoCall
<1>1. ASSUME NEW a \in Users, CreateGroup(r, a) PROVE Goal
  BY <1>1 DEF CreateGroup
<1>2. ASSUME NEW a \in Users, LeaveGroup(r, a) PROVE Goal
  BY <1>2 DEF LeaveGroup, Authorized
<1>3. ASSUME NEW a \in Users, DeleteManagedGroup(r, a) PROVE Goal
  BY <1>3 DEF DeleteManagedGroup, Authorized
<1>4. ASSUME NEW a \in Users, JoinGroupWithInvite(r, a) PROVE Goal
  BY <1>4 DEF JoinGroupWithInvite
<1>5. ASSUME NEW a \in Users, BeginErase(r, a) PROVE Goal
  BY <1>5 DEF BeginErase
<1>6. ASSUME NEW a \in Users, NEW t \in Users, RemoveGroupMember(r, a, t) PROVE Goal
  BY <1>6 DEF RemoveGroupMember, Authorized
<1>7. ASSUME NEW a \in Users, NEW t \in Users, TransferGroupOwnership(r, a, t) PROVE Goal
  BY <1>7 DEF TransferGroupOwnership, Authorized
<1>8. ASSUME NEW a \in Users, NEW t \in Users, NEW g \in Grants,
             UpdateGroupMemberRole(r, a, t, g)
      PROVE  Goal
  BY <1>8 DEF UpdateGroupMemberRole, Authorized
<1> QED
  BY <1>1, <1>2, <1>3, <1>4, <1>5, <1>6, <1>7, <1>8 DEF Start

LEMMA NextCallInv ==
  ASSUME IInv, NEW r \in Requests, Ends(r) \/ Continues(r)
  PROVE  CallInv'
<1> DEFINE Fine(q) ==
      /\ call[q].op = "transfer" => call[q].actor # call[q].target
      /\ pc[q] \in {"target", "demote", "promote"} => call[q].op = "transfer"
      /\ pc[q] = "write" => call[q].targetRole \in {Organizer, Member}
<1> SUFFICES ASSUME NEW q \in Requests PROVE Fine(q)'
  BY DEF CallInv
<1>0. Fine(q)
  BY DEF IInv, CallInv
<1>1. CASE q # r
  BY <1>0, <1>1, OthersUndisturbed DEF IInv
<1>2. CASE q = r /\ Ends(r)
  BY <1>2, Ended DEF IInv, NoCall
<1>3. CASE q = r /\ Continues(r)
  <2> USE <1>3 DEF IInv, TypeOK
  <2>1. ~Rollback(r)
    BY DEF Continues, Rollback
  <2>2. CASE Start(r)
    BY <2>2, Started
  <2>3. CASE LoadTarget(r)
    <3>1. role[call[r].target] \in {Organizer, Member}
      <4>1. call[r].target \in Users
        BY <2>3 DEF LoadTarget
      <4> QED
        BY <2>1, <2>3, <4>1 DEF LoadTarget, Rows, Roles
    <3>2. call'[r].targetRole = role[call[r].target] /\ pc'[r] \in {"lock", "write"}
      BY <2>1, <2>3 DEF LoadTarget, Goto, Calls
    <3>3. call'[r].op = call[r].op /\ call'[r].actor = call[r].actor
          /\ call'[r].target = call[r].target
      BY <2>1, <2>3 DEF LoadTarget, Calls
    <3> QED
      BY <1>0, <3>1, <3>2, <3>3
  <2>4. CASE LockGroup(r)
    <3>1. call' = call /\ pc'[r] # "write"
          /\ (pc'[r] \in {"target", "demote", "promote"} => call[r].op = "transfer")
      BY <2>1, <2>4 DEF LockGroup, Goto, Calls, Ops
    <3> QED
      BY <1>0, <3>1
  <2>5. CASE LoadNewOwner(r)
    <3>1. pc[r] = "target" /\ pc'[r] = "demote"
      BY <2>1, <2>5 DEF LoadNewOwner, Goto
    <3>2. call'[r].op = call[r].op /\ call'[r].actor = call[r].actor
          /\ call'[r].target = call[r].target
      BY <2>1, <2>5 DEF LoadNewOwner, Calls
    <3> QED
      BY <1>0, <3>1, <3>2
  <2>6. CASE \/ RemoveMember(r) \/ DemoteOwner(r) \/ PromoteOwner(r)
             \/ VerifyOwner(r) \/ LockMemberships(r)
    <3>1. call' = call
      BY <2>1, <2>6 DEF RemoveMember, DemoteOwner, PromoteOwner, VerifyOwner, LockMemberships, Flush
    <3>2. /\ pc'[r] \notin {"write", "target", "demote"}
          /\ pc'[r] = "promote" => pc[r] = "demote"
      BY <2>1, <2>6 DEF RemoveMember, DemoteOwner, PromoteOwner, VerifyOwner, LockMemberships,
         Flush, Goto
    <3> QED
      BY <1>0, <3>1, <3>2
  <2> QED
    BY <2>2, <2>3, <2>4, <2>5, <2>6 DEF Continues
<1> QED
  BY <1>1, <1>2, <1>3

LEMMA NextTargetInv ==
  ASSUME IInv, NEW r \in Requests, Ends(r) \/ Continues(r)
  PROVE  TargetInv'
<1> SUFFICES ASSUME NEW q \in Requests, pc'[q] \in {"demote", "promote"},
                    call'[q].targetRole # Owner
             PROVE  role'[call'[q].target] # Owner
  BY DEF TargetInv
<1> USE DEF IInv, TypeOK
<1>1. CASE q # r
  <2>1. /\ pc[q] \in {"demote", "promote"} /\ call'[q] = call[q]
        /\ call[q].targetRole # Owner
    BY <1>1, OthersUndisturbed
  <2>2. /\ call[q].target \in Users /\ role[call[q].target] # Owner
        /\ group = "present" /\ groupLock # r
    BY <1>1, <2>1 DEF TargetInv, LockInv, LockedPCs
  <2> QED
    BY <2>1, <2>2, NoOwnerGained
<1>2. CASE q = r
  <2>1. Continues(r) /\ role' = role /\ ~Rollback(r)
    BY <1>2, Ended DEF Continues, Rollback
  <2>2. ~Start(r)
    BY <1>2, Started
  <2>3. CASE pc[r] \in {"demote", "promote"} /\ call'[r] = call[r]
    BY <1>2, <2>1, <2>3 DEF TargetInv
  <2>4. CASE LoadNewOwner(r)
    BY <1>2, <2>1, <2>4 DEF LoadNewOwner, Calls
  <2>5. CASE DemoteOwner(r) \/ PromoteOwner(r)
    BY <2>1, <2>3, <2>5 DEF DemoteOwner, PromoteOwner, Flush
  <2>6. CASE LoadTarget(r) \/ LockGroup(r) \/ RemoveMember(r) \/ VerifyOwner(r) \/ LockMemberships(r)
    BY <1>2, <2>1, <2>6 DEF LoadTarget, LockGroup, RemoveMember, VerifyOwner, LockMemberships,
       Flush, Goto
  <2> QED
    BY <2>1, <2>2, <2>4, <2>5, <2>6 DEF Continues
<1> QED
  BY <1>1, <1>2

LEMMA NextRowInv ==
  ASSUME IInv, NEW r \in Requests, Ends(r) \/ Continues(r)
  PROVE  RowInv'
<1> SUFFICES ASSUME NEW q \in Requests, NEW u \in Users, pending'[q][u] # Untouched
             PROVE  /\ role'[u] # NoRow
                    /\ \A p \in Requests \ {q} : pending'[p][u] = Untouched
  BY DEF RowInv
<1>1. CASE q # r
  <2>1. pending'[q] = pending[q]
    BY <1>1, OthersUndisturbed DEF IInv
  <2>2. /\ role[u] # NoRow /\ role'[u] = role[u]
        /\ \A p \in Requests \ {q} : pending[p][u] = Untouched
    BY <1>1, <2>1, StableRow DEF IInv, RowInv
  <2>3. pending'[r][u] = Untouched
    <3>1. CASE Ends(r)
      BY <3>1, Ended DEF IInv, Clean
    <3>2. CASE Continues(r)
      <4>1. ~RowFree(r, u)
        BY <1>1, <2>1 DEF RowFree
      <4> QED
        BY <1>1, <2>2, <3>2, <4>1, WritesLock
    <3> QED
      BY <3>1, <3>2
  <2> QED
    BY <2>2, <2>3, OthersUndisturbed DEF IInv
<1>2. CASE q = r
  <2>1. Continues(r)
    BY <1>2, Ended DEF IInv, Clean
  <2>2. role[u] # NoRow /\ \A p \in Requests \ {r} : pending[p][u] = Untouched
    BY <1>2, <2>1, WritesLock DEF IInv, RowInv, RowFree
  <2> QED
    BY <1>2, <2>1, <2>2, OthersUndisturbed DEF Continues, IInv
<1> QED
  BY <1>1, <1>2

LEMMA NextAtMostOneOwner ==
  ASSUME IInv, NEW r \in Requests, Ends(r) \/ Continues(r)
  PROVE  AtMostOneOwner'
<1> USE DEF IInv, AtMostOneOwner, Owners
<1>1. CASE Continues(r)
  BY <1>1 DEF Continues
<1>2. CASE Ends(r)
  <2>1. CASE Founds(r)
    BY <2>1 DEF Founds, Owner, NoRow
  <2>2. CASE Regrades(r)
    BY <2>2 DEF Regrades, TypeOK, Calls, Grants, Owner, Organizer, Member
  <2>3. CASE Publishes(r) /\ pc[r] = "commit"
    BY <2>3 DEF Publishes, CommitInv, Verified
  <2>4. CASE Publishes(r) /\ pc[r] = "erase"
    <3>1. \A u \in Users : pending[r][u] # Owner
      <4>1. pending[r] = Clean \/ pending[r] = Wrote(call[r].target, NoRow)
        BY <2>4 DEF ShapeInv, Shape
      <4> QED
        BY <4>1 DEF Clean, Wrote, Owner, NoRow, Untouched
    <3> QED
      BY <2>4, <3>1 DEF Publishes, Seen
  <2>5. CASE Dissolves(r)
    BY <2>5 DEF Dissolves, Owner, NoRow
  <2>6. CASE Enrols(r)
    BY <2>6 DEF Enrols, TypeOK, Owner, Member
  <2> QED
    BY <1>2, <2>1, <2>2, <2>3, <2>4, <2>5, <2>6 DEF Ends, Publishes
<1> QED
  BY <1>1, <1>2

LEMMA NextCommitInv ==
  ASSUME IInv, NEW r \in Requests, Ends(r) \/ Continues(r)
  PROVE  CommitInv'
<1> SUFFICES ASSUME NEW q \in Requests, pc'[q] = "commit" PROVE Verified(q)'
  BY DEF CommitInv
<1>1. CASE q # r
  <2>1. pc[q] = "commit" /\ pending'[q] = pending[q]
    BY <1>1, OthersUndisturbed DEF IInv
  <2>2. Verified(q) /\ group = "present" /\ groupLock # r
    BY <1>1, <2>1 DEF IInv, CommitInv, LockInv, LockedPCs
  <2>3. \A u \in Users : role'[u] = Owner => role[u] = Owner
    BY <2>2, NoOwnerGained
  <2>4. \A u \in Users : Seen(q)'[u] = Owner => Seen(q)[u] = Owner
    BY <2>1, <2>3 DEF Seen
  <2> QED
    BY <2>1, <2>2, <2>3, <2>4 DEF Verified
<1>2. CASE q = r
  <2>1. Continues(r) /\ ~Rollback(r) /\ role' = role
    BY <1>2, Ended DEF Continues, Rollback, IInv
  <2>2. VerifyOwner(r)
    BY <1>2, <2>1, Started DEF Continues, LoadTarget, LockGroup, RemoveMember, LoadNewOwner,
       DemoteOwner, PromoteOwner, LockMemberships, Flush, Goto, IInv, TypeOK
  <2>3. pending' = pending /\ VerifyExactlyOneOwner(Seen(r))
    BY <2>1, <2>2 DEF VerifyOwner
  <2>4. PICK w \in Users : \A v \in Users : Seen(r)[v] = Owner <=> v = w
    BY <2>3 DEF VerifyExactlyOneOwner
  <2>5. ASSUME NEW u \in Users, role[u] = Owner, pending[r][u] # Untouched
        PROVE  pending[r][w] = Owner
    <3>1. CASE pending[r][w] # Untouched
      BY <2>4, <3>1 DEF Seen
    <3>2. CASE pending[r][w] = Untouched
      <4>1. role[w] = Owner
        BY <2>4, <3>2 DEF Seen
      <4> QED
        BY <2>5, <3>2, <4>1 DEF IInv, AtMostOneOwner, Owners
    <3> QED
      BY <3>1, <3>2
  <2> QED
    BY <1>2, <2>1, <2>3, <2>4, <2>5 DEF Verified, Seen
<1> QED
  BY <1>1, <1>2

\* What others do cannot bend the shape of a waiting session's writes.
LEMMA ShapeUndisturbed ==
  ASSUME IInv, NEW r \in Requests, Ends(r) \/ Continues(r), NEW q \in Requests, q # r
  PROVE  Shape(q)'
<1>1. pc'[q] = pc[q] /\ call'[q] = call[q] /\ pending'[q] = pending[q] /\ Shape(q)
  BY OthersUndisturbed DEF IInv, ShapeInv
<1>2. CASE pc[q] = "erase"
  <2>1. ASSUME pending[q] = Wrote(call[q].target, NoRow), role[call[q].target] # Owner
        PROVE  role'[call[q].target] # Owner
    <3>1. call[q].target \in Users /\ pending[q][call[q].target] # Untouched
      BY <1>2, <2>1 DEF IInv, TypeOK, Wrote, NoRow, Untouched
    <3> QED
      BY <2>1, <3>1, StableRow
  <2> QED
    BY <1>1, <1>2, <2>1 DEF Shape, Wrote, Clean
<1>3. CASE pc[q] \in {"verify", "commit"}
  <2>1. group = "present" /\ groupLock # r
    BY <1>3 DEF IInv, LockInv, LockedPCs
  <2>2. HandOver(q) => HandOver(q)'
    BY <1>1, <2>1, NoOwnerGained DEF HandOver, HandedOver
  <2> QED
    BY <1>1, <1>3, <2>2 DEF Shape, Removal, Demotion, Wrote, Clean
<1>4. CASE pc[q] \notin {"erase", "verify", "commit"}
  BY <1>1, <1>4 DEF Shape, Wrote, Clean
<1> QED
  BY <1>2, <1>3, <1>4

\* One write on a clean session.
LEMMA FirstWrite ==
  ASSUME TypeOK, NEW r \in Requests, pending[r] = Clean,
         NEW u \in Users, NEW row, NEW l, Flush(r, u, row, l)
  PROVE  pending'[r] = Wrote(u, row)
  BY DEF TypeOK, Clean, Flush, Wrote

LEMMA NextShapeInv ==
  ASSUME IInv, NEW r \in Requests, Ends(r) \/ Continues(r)
  PROVE  ShapeInv'
<1> SUFFICES Shape(r)'
  BY ShapeUndisturbed DEF ShapeInv
<1> USE DEF IInv
<1>1. CASE Ends(r)
  BY <1>1, Ended DEF Shape, Clean
<1>2. CASE Continues(r)
  <2>1. role' = role /\ ~Rollback(r) /\ Shape(r)
    BY <1>2 DEF Continues, Rollback, ShapeInv
  <2>2. CASE Start(r)
    <3>1. pending'[r] = Clean /\ pc'[r] \in {"found", "lock", "load", "rows"}
      BY <2>1, <2>2, Started DEF Shape
    <3> QED
      BY <3>1 DEF Shape, Clean
  <2>3. CASE LoadTarget(r) \/ LockGroup(r) \/ LoadNewOwner(r)
    <3>1. /\ pc[r] \in {"load", "lock", "target"}
          /\ pc'[r] \in {"lock", "write", "unlink", "target", "purge", "insert", "demote"}
          /\ pending' = pending
      BY <2>1, <2>3 DEF LoadTarget, LockGroup, LoadNewOwner, Goto, TypeOK
    <3>2. pending'[r] = Clean
      BY <2>1, <3>1 DEF Shape
    <3> QED
      BY <3>1, <3>2 DEF Shape, Clean
  <2>4. CASE RemoveMember(r)
    <3> DEFINE u == call[r].target
    <3>1. /\ pc'[r] = "verify" /\ pending[r] = Clean /\ u \in Users
          /\ Flush(r, u, IF role[u] = NoRow THEN Untouched ELSE NoRow, "verify")
      BY <2>1, <2>4 DEF RemoveMember, Flush, Goto, TypeOK, Shape
    <3>2. pending'[r] = Wrote(u, NoRow) \/ pending'[r] = Wrote(u, Untouched)
      BY <3>1, FirstWrite
    <3>3. pending'[r] = Clean \/ Removal(r)'
      BY <3>1, <3>2 DEF Removal, Wrote, Clean
    <3> QED
      BY <3>1, <3>3 DEF Shape, Clean
  <2>5. CASE DemoteOwner(r)
    <3>1. /\ pc'[r] = "promote" /\ pending[r] = Clean /\ call[r].actor \in Users
          /\ call' = call /\ Flush(r, call[r].actor, Member, "promote")
      BY <2>1, <2>5 DEF DemoteOwner, Flush, Goto, TypeOK, Shape
    <3>2. pending'[r] = Wrote(call[r].actor, Member)
      BY <3>1, FirstWrite
    <3> QED
      BY <3>1, <3>2 DEF Shape, Wrote
  <2>6. CASE PromoteOwner(r)
    <3>1. /\ pc[r] = "promote" /\ pc'[r] = "verify"
          /\ pending[r] = Wrote(call[r].actor, Member)
          /\ call[r].actor \in Users /\ call[r].target \in Users
          /\ call[r].actor # call[r].target
      BY <2>1, <2>6 DEF PromoteOwner, Flush, Goto, TypeOK, Shape, CallInv
    <3>2. CASE call[r].targetRole = Owner
      <4>1. pending' = pending
        BY <2>1, <2>6, <3>2 DEF PromoteOwner
      <4>2. Demotion(r)'
        BY <3>1, <4>1 DEF Demotion, Wrote
      <4> QED
        BY <3>1, <4>2 DEF Shape, Clean
    <3>3. CASE call[r].targetRole # Owner
      <4>1. pending' = [pending EXCEPT ![r][call[r].target] = Owner]
        BY <2>1, <2>6, <3>3 DEF PromoteOwner, Flush
      <4>2. pending'[r] = HandedOver(call[r].actor, call[r].target)
        BY <3>1, <4>1 DEF Wrote, HandedOver, TypeOK
      <4>3. role[call[r].target] # Owner
        BY <3>1, <3>3 DEF TargetInv
      <4>4. HandOver(r)'
        BY <2>1, <3>1, <4>2, <4>3 DEF HandOver, HandedOver
      <4> QED
        BY <3>1, <4>4 DEF Shape, Clean
    <3> QED
      BY <3>2, <3>3
  <2>7. CASE VerifyOwner(r)
    <3>1. /\ pc[r] = "verify" /\ pc'[r] = "commit" /\ pending' = pending
          /\ role' = role
      BY <2>1, <2>7 DEF VerifyOwner, Goto, TypeOK
    <3>2. pending[r] = Clean \/ Removal(r) \/ Demotion(r) \/ HandOver(r)
      BY <2>1, <3>1 DEF Shape
    <3>3. /\ pending[r] = Clean => pending'[r] = Clean'
          /\ Removal(r) => Removal(r)'
          /\ Demotion(r) => Demotion(r)'
      BY <3>1 DEF Clean, Removal, Demotion, Wrote
    <3>4. HandOver(r) => HandOver(r)'
      BY <3>1 DEF HandOver, HandedOver
    <3> QED
      BY <3>1, <3>2, <3>3, <3>4 DEF Shape
  <2>8. CASE LockMemberships(r)
    <3> DEFINE u == call[r].target
    <3>1. /\ pc'[r] = "erase" /\ pending[r] = Clean /\ u \in Users /\ role[u] # Owner
          /\ call' = call
          /\ Flush(r, u, IF role[u] = NoRow THEN Untouched ELSE NoRow, "erase")
      BY <2>1, <2>8 DEF LockMemberships, Flush, Goto, TypeOK, Shape
    <3>2. pending'[r] = Wrote(u, NoRow) \/ pending'[r] = Wrote(u, Untouched)
      BY <3>1, FirstWrite
    <3>3. pending'[r] = Clean \/ pending'[r] = Wrote(u, NoRow)
      BY <3>2 DEF Wrote, Clean
    <3> QED
      BY <2>1, <3>1, <3>3 DEF Shape, Clean, Wrote
  <2> QED
    BY <1>2, <2>2, <2>3, <2>4, <2>5, <2>6, <2>7, <2>8 DEF Continues
<1> QED
  BY <1>1, <1>2

-----------------------------------------------------------------------------
LEMMA InitIInv == Init => IInv
  BY InitTypeOK DEF Init, IInv, GroupInv, LockInv, LockedPCs, CallInv, TargetInv, RowInv,
     ShapeInv, Shape, CommitInv, AtMostOneOwner, Owners, NoCall, Clean, Owner, NoRow

LEMMA NextIInv == IInv /\ [Next]_vars => IInv'
<1> SUFFICES ASSUME IInv, [Next]_vars PROVE IInv'
  OBVIOUS
<1>1. CASE UNCHANGED vars
  <2> USE <1>1 DEF vars
  <2>1. TypeOK' /\ GroupInv' /\ LockInv' /\ CallInv' /\ TargetInv' /\ RowInv' /\ AtMostOneOwner'
    BY DEF IInv, TypeOK, GroupInv, LockInv, CallInv, TargetInv, RowInv, AtMostOneOwner, Owners
  <2>2. ShapeInv'
    BY DEF IInv, ShapeInv, Shape, Removal, Demotion, HandOver
  <2>3. CommitInv'
    BY DEF IInv, CommitInv, Verified, Seen
  <2> QED
    BY <2>1, <2>2, <2>3 DEF IInv
<1>2. CASE Next
  <2>1. PICK r \in Requests : Start(r) \/ Step(r) \/ Crash(r)
    BY <1>2 DEF Next
  <2>2. Ends(r) \/ Continues(r)
    BY <2>1, StepEndsOrContinues DEF IInv
  <2>3. TypeOK'
    BY NextTypeOK DEF IInv
  <2>4. GroupInv' /\ LockInv' /\ CallInv' /\ TargetInv'
    BY <2>2, NextGroupInv, NextLockInv, NextCallInv, NextTargetInv
  <2>5. RowInv' /\ ShapeInv' /\ CommitInv' /\ AtMostOneOwner'
    BY <2>2, NextRowInv, NextShapeInv, NextCommitInv, NextAtMostOneOwner
  <2> QED
    BY <2>3, <2>4, <2>5 DEF IInv
<1> QED
  BY <1>1, <1>2

LEMMA Invariance == Spec => []IInv
  BY InitIInv, NextIInv, PTL DEF Spec

\* No interleaving of hand-overs, removals, role writes, joins and erasures
\* gives the group a second owner.
THEOREM OneOwnerAtMost == Spec => []AtMostOneOwner
<1>1. IInv => AtMostOneOwner
  BY DEF IInv
<1> QED
  BY <1>1, Invariance, PTL

-----------------------------------------------------------------------------
(* What a step does to the committed table.                                *)

Withdrawn(u)  == /\ role[u] \in {Organizer, Member}
                 /\ role' = [role EXCEPT ![u] = NoRow]
Levelled(u)   == /\ role[u] \in {Organizer, Member}
                 /\ role' = [role EXCEPT ![u] = Member]
Handed(u, w)  == /\ u # w /\ role[u] # NoRow /\ role[w] \in {Organizer, Member}
                 /\ \A v \in Users \ {u} : role[v] # Owner
                 /\ role' = [role EXCEPT ![u] = Member, ![w] = Owner]

\* A transaction that was verified publishes one whole operation or nothing.
LEMMA Published ==
  ASSUME IInv, NEW r \in Requests, Publishes(r)
  PROVE  \/ role' = role
         \/ \E u \in Users : Withdrawn(u) \/ Levelled(u) \/ (\E w \in Users : Handed(u, w))
<1> USE DEF IInv
<1>1. role' = Seen(r) /\ role \in [Users -> Rows]
  BY DEF Publishes, TypeOK
<1>2. ASSUME NEW u \in Users, NEW row \in {NoRow, Member}, pending[r] = Wrote(u, row)
      PROVE  role[u] # NoRow /\ role' = [role EXCEPT ![u] = row]
  <2>1. pending[r][u] = row /\ \A v \in Users \ {u} : pending[r][v] = Untouched
    BY <1>2 DEF Wrote
  <2>2. role[u] # NoRow
    BY <2>1 DEF RowInv, NoRow, Member, Untouched
  <2> QED
    BY <1>1, <2>1, <2>2 DEF Seen, NoRow, Member, Untouched
<1>3. CASE pending[r] = Clean
  BY <1>1, <1>3 DEF Seen, Clean
<1>4. CASE pc[r] = "erase" /\ pending[r] # Clean
  <2>1. /\ call[r].target \in Users /\ role[call[r].target] # Owner
        /\ pending[r] = Wrote(call[r].target, NoRow)
    BY <1>4 DEF ShapeInv, Shape, TypeOK
  <2>2. Withdrawn(call[r].target)
    BY <1>1, <1>2, <2>1 DEF Withdrawn, Rows, Roles
  <2> QED
    BY <2>1, <2>2
<1>5. CASE pc[r] = "commit" /\ pending[r] # Clean
  <2>1. Verified(r) /\ (Removal(r) \/ Demotion(r) \/ HandOver(r))
    BY <1>5 DEF ShapeInv, Shape, CommitInv
  <2>2. ASSUME NEW u \in Users, NEW row \in {NoRow, Member}, pending[r] = Wrote(u, row)
        PROVE  role[u] \in {Organizer, Member}
    <3>1. role[u] # Owner
      BY <2>1, <2>2 DEF Verified, Wrote, Owner, Member, NoRow, Untouched
    <3> QED
      BY <1>1, <1>2, <2>2, <3>1 DEF Rows, Roles
  <2>3. CASE Removal(r)
    <3>1. PICK u \in Users : pending[r] = Wrote(u, NoRow)
      BY <2>3 DEF Removal
    <3> QED
      BY <1>2, <2>2, <3>1 DEF Withdrawn
  <2>4. CASE Demotion(r)
    <3>1. PICK u \in Users : pending[r] = Wrote(u, Member)
      BY <2>4 DEF Demotion
    <3> QED
      BY <1>2, <2>2, <3>1 DEF Levelled
  <2>5. CASE HandOver(r)
    <3>1. PICK u \in Users, w \in Users :
             u # w /\ role[w] # Owner /\ pending[r] = HandedOver(u, w)
      BY <2>5 DEF HandOver
    <3>2. /\ pending[r][u] = Member /\ pending[r][w] = Owner
          /\ \A v \in Users \ {u, w} : pending[r][v] = Untouched
      BY <3>1 DEF HandedOver
    <3>3. role[u] # NoRow /\ role[w] # NoRow
      BY <3>2 DEF RowInv, Owner, Member, Untouched
    <3>4. ASSUME NEW v \in Users \ {u} PROVE role[v] # Owner
      <4>1. Seen(r)[w] = Owner /\ (v # w => Seen(r)[v] = role[v])
        BY <3>2 DEF Seen, Owner, Untouched
      <4> QED
        BY <2>1, <3>1, <4>1 DEF Verified
    <3>5. role' = [role EXCEPT ![u] = Member, ![w] = Owner]
      BY <1>1, <3>1, <3>2 DEF Seen, Owner, Member, Untouched
    <3>6. role[w] \in {Organizer, Member}
      BY <1>1, <3>1, <3>3 DEF Rows, Roles
    <3> QED
      BY <3>1, <3>3, <3>4, <3>5, <3>6 DEF Handed
  <2> QED
    BY <2>1, <2>3, <2>4, <2>5
<1> QED
  BY <1>3, <1>4, <1>5 DEF Publishes

\* Every step is a step of the roster, or leaves the table as it was.
LEMMA RosterStep == IInv /\ [Next]_vars => [Roster!Next]_<<group, role>>
<1> SUFFICES ASSUME IInv, Next PROVE [Roster!Next]_<<group, role>>
  BY DEF vars
<1> USE DEF Owner, Organizer, Member, NoRow,
            Roster!Owner, Roster!Organizer, Roster!Member, Roster!NoRow
<1>1. PICK r \in Requests : Ends(r) \/ Continues(r)
  BY StepEndsOrContinues DEF Next, IInv
<1>2. CASE UNCHANGED <<group, role>>
  BY <1>2
<1>3. CASE Founds(r)
  <2>1. call[r].actor \in Users
    BY <1>3 DEF Founds, IInv, TypeOK
  <2>2. Roster!Found(call[r].actor)
    BY <1>3 DEF Founds, Roster!Found
  <2> QED
    BY <2>1, <2>2 DEF Roster!Next
<1>4. CASE Regrades(r)
  <2>1. call[r].target \in Users /\ call[r].grant \in {Organizer, Member}
    BY <1>4 DEF Regrades, IInv, TypeOK, Calls, Grants
  <2>2. Roster!Appoint(call[r].target, call[r].grant)
    BY <1>4 DEF Regrades, Roster!Appoint
  <2> QED
    BY <2>1, <2>2 DEF Roster!Next
<1>5. CASE Publishes(r)
  <2>1. UNCHANGED group
    BY <1>5 DEF Publishes
  <2>2. ASSUME NEW u \in Users, Withdrawn(u) PROVE Roster!Next
    BY <2>1, <2>2 DEF Withdrawn, Roster!Withdraw, Roster!Next
  <2>3. ASSUME NEW u \in Users, Levelled(u) PROVE Roster!Next
    BY <2>1, <2>3 DEF Levelled, Roster!Appoint, Roster!Next
  <2>4. ASSUME NEW u \in Users, NEW w \in Users, Handed(u, w) PROVE Roster!Next
    BY <2>1, <2>4 DEF Handed, Roster!HandOver, Roster!Next
  <2> QED
    BY <1>5, <2>1, <2>2, <2>3, <2>4, Published
<1>6. CASE Dissolves(r)
  <2>1. group = "present"
    BY <1>6 DEF Dissolves, IInv, LockInv, LockedPCs
  <2> QED
    BY <1>6, <2>1 DEF Dissolves, Roster!Dissolve, Roster!Next
<1>7. CASE Enrols(r)
  <2>1. group = "present" /\ call[r].actor \in Users
    BY <1>7 DEF Enrols, IInv, LockInv, LockedPCs, TypeOK
  <2>2. Roster!Enrol(call[r].actor)
    BY <1>7, <2>1 DEF Enrols, Roster!Enrol
  <2> QED
    BY <2>1, <2>2 DEF Roster!Next
<1> QED
  BY <1>1, <1>2, <1>3, <1>4, <1>5, <1>6, <1>7 DEF Ends, Continues

\* The committed table behaves as the atomic roster of GroupRoster, whatever
\* locks, stale reads, crashes and half-done transactions lie beneath it.
THEOREM Implementation == Spec => ImplementsRoster
<1>1. Init => Roster!Init
  BY DEF Init, Roster!Init, NoRow, Roster!NoRow
<1>2. IInv /\ [Next]_vars => [Roster!Next]_Roster!vars
  BY RosterStep DEF Roster!vars
<1> QED
  BY <1>1, <1>2, Invariance, PTL DEF Spec, ImplementsRoster, Roster!Spec

\* A removal, leave or erasure never deletes the row of an owner, however old
\* the role is that it was admitted with.
THEOREM OwnersStay == Spec => OwnerNeverRemoved
<1>1. ASSUME IInv, [Next]_vars, NEW u \in Owners, role'[u] = NoRow
      PROVE  group' = "deleted"
  <2>1. u \in Users /\ role[u] = Owner /\ group = "present" /\ role \in [Users -> Rows]
    BY <1>1 DEF Owners, IInv, GroupInv, TypeOK, Owner, NoRow
  <2>2. Roster!Next
    BY <1>1, <2>1, RosterStep DEF Owner, NoRow
  <2> QED
    BY <1>1, <2>1, <2>2
    DEF Roster!Next, Roster!Dissolve, Roster!Found, Roster!Enrol, Roster!Withdraw,
        Roster!Appoint, Roster!HandOver, Owner, Organizer, Member, NoRow,
        Roster!Owner, Roster!Organizer, Roster!Member, Roster!NoRow
<1>2. IInv /\ [Next]_vars => [\A u \in Owners : role'[u] = NoRow => group' = "deleted"]_vars
  BY <1>1
<1> QED
  BY <1>2, Invariance, PTL DEF Spec, OwnerNeverRemoved

\* Whoever becomes the owner takes over from one who stays as a member, in one
\* commit.
THEOREM HandOversAreAtomic == Spec => HandOverIsAtomic
<1> DEFINE Goal == \A u \in Owners, v \in Users \ Owners :
         role'[v] = Owner => role'[u] = Member /\ role[v] \in {Organizer, Member}
<1>1. ASSUME IInv, [Next]_vars, NEW u \in Owners, NEW v \in Users \ Owners, role'[v] = Owner
      PROVE  role'[u] = Member /\ role[v] \in {Organizer, Member}
  <2>1. u \in Users /\ role[u] = Owner /\ group = "present" /\ role \in [Users -> Rows]
    BY <1>1 DEF Owners, IInv, GroupInv, TypeOK, Owner, NoRow
  <2>2. v \in Users /\ role[v] # Owner /\ Roster!Next
    BY <1>1, RosterStep DEF Owners
  <2> QED
    BY <1>1, <2>1, <2>2
    DEF Roster!Next, Roster!Dissolve, Roster!Found, Roster!Enrol, Roster!Withdraw,
        Roster!Appoint, Roster!HandOver, Owner, Organizer, Member, NoRow,
        Roster!Owner, Roster!Organizer, Roster!Member, Roster!NoRow
<1>2. IInv /\ [Next]_vars => [Goal]_vars
  BY <1>1
<1> QED
  BY <1>2, Invariance, PTL DEF Spec, HandOverIsAtomic

\* Only the unlocked role write can take a group's last owner away: every
\* other operation is safe in every interleaving.
THEOREM OwnerLoss == Spec => OwnerLostOnlyToStaleRoleWrite
<1> DEFINE Lost == Owners # {} /\ group' = "present" /\ Owners' = {}
           Cause == \E r \in Requests : /\ WriteRole(r)
                                        /\ call[r].targetRole # Owner
                                        /\ Owners = {call[r].target}
<1>1. ASSUME IInv, [Next]_vars, Lost PROVE Cause
  <2>1. PICK o \in Users : role[o] = Owner
    BY <1>1 DEF Owners
  <2>2. group = "present" /\ role'[o] # Owner /\ role \in [Users -> Rows]
    BY <1>1, <2>1 DEF Owners, IInv, GroupInv, TypeOK, Owner, NoRow
  <2>3. PICK r \in Requests : Ends(r) \/ Continues(r)
    BY <1>1, <2>1, <2>2, StepEndsOrContinues DEF Next, IInv, vars
  <2>4. CASE Regrades(r)
    <3>1. WriteRole(r) /\ pc[r] = "write" /\ role' = [role EXCEPT ![call[r].target] = call[r].grant]
      BY <2>4 DEF Regrades
    <3>2. \A u \in Users : u # call[r].target => role'[u] = role[u]
      BY <2>2, <3>1
    <3>3. Owners = {call[r].target}
      BY <1>1, <2>1, <3>2 DEF Owners
    <3>4. call[r].targetRole # Owner
      BY <1>1, <3>1 DEF IInv, CallInv, Owner, Organizer, Member
    <3> QED
      BY <3>1, <3>3, <3>4
  <2>5. CASE Publishes(r)
    <3>1. ~(\E w \in Users : Handed(o, w))
      <4>1. ASSUME NEW w \in Users, Handed(o, w) PROVE FALSE
        <5>1. role'[w] = Owner
          BY <2>2, <4>1 DEF Handed
        <5> QED
          BY <1>1, <5>1 DEF Owners
      <4> QED
        BY <4>1
    <3> QED
      BY <1>1, <2>1, <2>2, <2>5, <3>1, Published DEF Withdrawn, Levelled, Handed, Owner, Organizer, Member, NoRow
  <2>6. ~Founds(r) /\ ~Dissolves(r)
    BY <1>1, <2>2 DEF Founds, Dissolves
  <2>7. ~Enrols(r)
    BY <2>1, <2>2 DEF Enrols, Owner, Member, NoRow
  <2> QED
    BY <2>1, <2>2, <2>3, <2>4, <2>5, <2>6, <2>7 DEF Ends, Continues
<1>2. IInv /\ [Next]_vars => [Lost => Cause]_vars
  BY <1>1
<1> QED
  BY <1>2, Invariance, PTL DEF Spec, OwnerLostOnlyToStaleRoleWrite
=============================================================================
