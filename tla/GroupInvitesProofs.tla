-------------------------- MODULE GroupInvitesProofs --------------------------
(***************************************************************************)
(* Proofs about GroupInvites for every set of users, codes and requests.   *)
(* The invariant says what a join that holds the group row can rely on     *)
(* while codes are replaced and revoked without that lock.                 *)
(***************************************************************************)
EXTENDS GroupInvites, TLAPS

Locked == {"recheck", "enter", "purge"}

Undrawn(c) == invite[c].status = "undrawn"

\* What a request of statement p, asked and read as in c, can rely on.
AskedOf(p, c) == /\ p # "idle" => c.user \in Users
                 /\ p \in {"mark", "resolve", "recheck", "enter"} => c.code \in Codes
                 /\ p = "lock" /\ c.op = "join" => c.code \in Codes
                 /\ p \in {"recheck", "enter"} => c.op = "join"
                 /\ p = "read" => c.code \notin Codes
                 /\ c.code \in Codes => ~Undrawn(c.code)
                 /\ p = "issue" /\ c.code \in Codes => Stored(c.code)

\* A code that works under the lock worked when it was taken, and its use
\* count is the one read.
JoinOf(p, c) == /\ p = "recheck" /\ Active(c.code) => c.liveAtLock
                /\ p = "enter" => c.liveAtLock
                /\ p = "enter" /\ Stored(c.code) => c.uses = invite[c.code].uses

LocalOf(p, c) == AskedOf(p, c) /\ JoinOf(p, c)

LockInv == \A r \in Requests : pc[r] \in Locked => groupLock = r

CountInv == \A c \in Codes : Undrawn(c) => admitted[c] = 0

IInv == /\ TypeOK /\ LockInv /\ CountInv
        /\ \A r \in Requests : LocalOf(pc[r], call[r])
        /\ OneActiveCode /\ UsesAreCounted

LEMMA InitIInv == Init => IInv
<1> SUFFICES ASSUME Init PROVE IInv
  OBVIOUS
<1>1. NoCall \in Calls
  BY DEF NoCall, Calls, Ops
<1>2. TypeOK
  BY <1>1, SentinelAssumption DEF Init, TypeOK, Invites, Status, PCs
<1>3. \A r \in Requests : LocalOf(pc[r], call[r])
  BY SentinelAssumption DEF Init, LocalOf, AskedOf, JoinOf, NoCall
<1>4. OneActiveCode /\ UsesAreCounted /\ CountInv
  BY DEF Init, OneActiveCode, UsesAreCounted, CountInv, Active, Stored
<1> QED
  BY <1>2, <1>3, <1>4 DEF IInv, LockInv, Locked, Init

-----------------------------------------------------------------------------
(* A step of one request.                                                  *)

\* What a step does to the invites: codes go from undrawn to active, never
\* back, only the holder of the group row counts a use, and nobody deletes
\* the row of an invite that another request holds.
Forward(r) == /\ invite' \in [Codes -> Invites]
              /\ \A c \in Codes : /\ Undrawn(c)' => Undrawn(c)
                                  /\ Active(c)' => Active(c) \/ Undrawn(c)
                                  /\ Undrawn(c)' <=> invite'[c].creator = NoUser
                                  /\ Stored(c)' => Stored(c) \/ Undrawn(c)
                                  /\ Stored(c) => invite'[c].uses = invite[c].uses \/ groupLock = r
                                  /\ Stored(c) /\ ~Stored(c)' => \A q \in Requests \ {r} : ~HoldsRow(q, c)

RequestStep(r, l, c) == /\ pc' = [pc EXCEPT ![r] = l]
                        /\ call' = [call EXCEPT ![r] = c]
                        /\ \/ groupLock' = groupLock
                           \/ groupLock = NoRequest /\ groupLock' = r
                           \/ groupLock = r /\ groupLock' = NoRequest
                        /\ l \in Locked => groupLock' = r
                        /\ Forward(r)

LEMMA OthersUndisturbed ==
  ASSUME IInv, NEW r \in Requests, NEW l \in PCs, NEW c \in Calls, RequestStep(r, l, c),
         NEW q \in Requests \ {r}
  PROVE  LocalOf(pc[q], call[q])' /\ (pc'[q] \in Locked => groupLock' = q)
<1>1. pc'[q] = pc[q] /\ call'[q] = call[q]
  BY DEF IInv, TypeOK, RequestStep
<1>2. pc[q] \in Locked => groupLock = q /\ groupLock' = q /\ groupLock # r
  BY SentinelAssumption DEF IInv, LockInv, RequestStep
<1>3. LocalOf(pc[q], call[q])
  BY DEF IInv
<1>4. AskedOf(pc[q], call[q])'
  BY <1>1, <1>3 DEF LocalOf, AskedOf, RequestStep, Forward, HoldsRow
<1>5. JoinOf(pc[q], call[q])'
  <2>1. pc[q] \in {"recheck", "enter"} => call[q].code \in Codes /\ ~Undrawn(call[q].code)
    BY <1>3 DEF LocalOf, AskedOf
  <2>2. pc[q] \in {"recheck", "enter"} =>
          /\ Active(call[q].code)' => Active(call[q].code)
          /\ Stored(call[q].code)' => Stored(call[q].code) /\ invite'[call[q].code].uses = invite[call[q].code].uses
    BY <1>2, <2>1 DEF RequestStep, Forward, Locked
  <2> QED
    BY <1>1, <1>3, <2>2 DEF LocalOf, JoinOf, Active, Stored
<1> QED
  BY <1>1, <1>2, <1>4, <1>5 DEF LocalOf

LEMMA StepKeeps ==
  ASSUME IInv, NEW r \in Requests, NEW l \in PCs, NEW c \in Calls, RequestStep(r, l, c),
         group' \in {"present", "deleted"}, owner' = owner,
         members' \subseteq Users, erased' \subseteq Users, admitted' \in [Codes -> Nat],
         LocalOf(l, c)', (CountInv /\ OneActiveCode /\ UsesAreCounted)'
  PROVE  IInv'
<1>1. pc'[r] = l /\ call'[r] = c /\ pc' \in [Requests -> PCs] /\ call' \in [Requests -> Calls]
  BY DEF IInv, TypeOK, RequestStep
<1>2. groupLock' \in Requests \union {NoRequest} /\ owner' \in Users
  BY DEF IInv, TypeOK, RequestStep
<1>3. /\ invite' \in [Codes -> Invites]
      /\ \A d \in Codes : invite'[d].status = "undrawn" <=> invite'[d].creator = NoUser
  BY DEF RequestStep, Forward, Undrawn
<1>4. TypeOK'
  BY <1>1, <1>2, <1>3 DEF TypeOK
<1>5. LockInv'
  BY <1>1, OthersUndisturbed DEF LockInv, RequestStep
<1>6. \A q \in Requests : LocalOf(pc[q], call[q])'
  <2> TAKE q \in Requests
  <2>1. CASE q = r
    BY <2>1, <1>1
  <2> QED
    BY <2>1, OthersUndisturbed
<1> QED
  BY <1>4, <1>5, <1>6 DEF IInv

\* What a request of the invariant knows before its step.
LEMMA Before ==
  ASSUME IInv, NEW r \in Requests
  PROVE  /\ pc \in [Requests -> PCs] /\ call \in [Requests -> Calls] /\ call[r] \in Calls
         /\ call = [call EXCEPT ![r] = call[r]]
         /\ LocalOf(pc[r], call[r])
         /\ pc[r] \in Locked => groupLock = r
         /\ invite \in [Codes -> Invites] /\ admitted \in [Codes -> Nat]
         /\ r # NoRequest
BY SentinelAssumption DEF IInv, TypeOK, LockInv

\* A step that leaves the rows alone.
LEMMA MoveKeeps ==
  ASSUME IInv, NEW r \in Requests, NEW l \in PCs, NEW c \in Calls,
         pc' = [pc EXCEPT ![r] = l], call' = [call EXCEPT ![r] = c], UNCHANGED rows,
         \/ groupLock' = groupLock
         \/ groupLock = NoRequest /\ groupLock' = r
         \/ groupLock = r /\ groupLock' = NoRequest,
         l \in Locked => groupLock' = r,
         LocalOf(l, c)
  PROVE  IInv'
<1>1. Forward(r)
  BY DEF IInv, TypeOK, rows, Forward, Undrawn, Active, Stored
<1>2. RequestStep(r, l, c)
  BY <1>1 DEF RequestStep
<1>3. LocalOf(l, c)' /\ (CountInv /\ OneActiveCode /\ UsesAreCounted)'
  BY DEF IInv, rows, LocalOf, AskedOf, JoinOf, CountInv, OneActiveCode, UsesAreCounted, Undrawn, Active, Stored
<1>4. /\ group' \in {"present", "deleted"} /\ owner' = owner /\ members' \subseteq Users /\ erased' \subseteq Users
      /\ admitted' \in [Codes -> Nat]
  BY DEF IInv, TypeOK, rows
<1> QED
  BY <1>2, <1>3, <1>4, StepKeeps

LEMMA Closed ==
  ASSUME IInv, NEW r \in Requests, Close(r)
  PROVE  /\ "idle" \in PCs /\ NoCall \in Calls /\ "idle" \notin Locked
         /\ pc' = [pc EXCEPT ![r] = "idle"] /\ call' = [call EXCEPT ![r] = NoCall]
         /\ \/ groupLock' = groupLock
            \/ groupLock = r /\ groupLock' = NoRequest
         /\ LocalOf("idle", NoCall) /\ LocalOf("idle", NoCall)'
BY SentinelAssumption DEF Close, PCs, NoCall, Calls, Ops, Locked, LocalOf, AskedOf, JoinOf

LEMMA RollbackKeeps ==
  ASSUME IInv, NEW r \in Requests, Rollback(r)
  PROVE  IInv'
BY Closed, MoveKeeps DEF Rollback

\* A commit: it closes the session and moves the invites forward.
LEMMA CommitKeeps ==
  ASSUME IInv, NEW r \in Requests, Close(r), Forward(r),
         group' \in {"present", "deleted"}, owner' = owner,
         members' \subseteq Users, erased' \subseteq Users, admitted' \in [Codes -> Nat],
         (CountInv /\ OneActiveCode /\ UsesAreCounted)'
  PROVE  IInv'
<1>1. RequestStep(r, "idle", NoCall)
  BY Closed DEF RequestStep
<1> QED
  BY <1>1, Closed, StepKeeps

-----------------------------------------------------------------------------
(* The requests.                                                           *)

LEMMA BeginKeeps ==
  ASSUME IInv, NEW r \in Requests, Begin(r)
  PROVE  IInv'
<1>1. ASSUME NEW op \in Ops, NEW u \in Users, NEW c \in Codes \union {NoCode},
             NEW l \in {"read", "resolve", "lock", "erase"},
             Admit(r, op, u, c, l),
             c \in Codes => ~Undrawn(c),
             l = "read" => c \notin Codes,
             l = "resolve" \/ (l = "lock" /\ op = "join") => c \in Codes
      PROVE  IInv'
  <2> DEFINE d == [NoCall EXCEPT !.op = op, !.user = u, !.code = c]
  <2>1. d \in Calls
    BY Before DEF NoCall, Calls
  <2>2. LocalOf(l, d)
    <3>1. d.user = u /\ d.code = c /\ d.op = op
      BY DEF NoCall
    <3>2. AskedOf(l, d) /\ JoinOf(l, d)
      BY <1>1, <3>1 DEF AskedOf, JoinOf, Locked
    <3> QED
      BY <3>2 DEF LocalOf
  <2>3. pc' = [pc EXCEPT ![r] = l] /\ call' = [call EXCEPT ![r] = d] /\ UNCHANGED <<rows, groupLock>>
    BY <1>1 DEF Admit, Goto
  <2>4. l \in PCs /\ l \notin Locked
    BY DEF PCs, Locked
  <2> HIDE DEF d
  <2> QED
    BY <2>1, <2>2, <2>3, <2>4, MoveKeeps
<1>2. NoCode \notin Codes
  BY SentinelAssumption
<1>3. {"generate", "revoke", "join", "delete", "erase"} \subseteq Ops
  BY DEF Ops
<1>4. PICK u \in Users : \/ GenerateGroupInvite(r, u) \/ RevokeGroupInvite(r, u)
                         \/ DeleteManagedGroup(r, u) \/ BeginErase(r, u)
                         \/ \E c \in Codes : JoinGroupWithInvite(r, u, c)
  BY DEF Begin
<1>5. CASE GenerateGroupInvite(r, u)
  BY <1>1, <1>2, <1>3, <1>5 DEF GenerateGroupInvite
<1>6. CASE RevokeGroupInvite(r, u)
  BY <1>1, <1>2, <1>3, <1>6 DEF RevokeGroupInvite
<1>7. CASE DeleteManagedGroup(r, u)
  BY <1>1, <1>2, <1>3, <1>7 DEF DeleteManagedGroup
<1>8. CASE BeginErase(r, u)
  BY <1>1, <1>2, <1>3, <1>8 DEF BeginErase
<1>9. ASSUME NEW c \in Codes, JoinGroupWithInvite(r, u, c) PROVE IInv'
  BY <1>1, <1>3, <1>9 DEF JoinGroupWithInvite, Undrawn
<1> QED
  BY <1>4, <1>5, <1>6, <1>7, <1>8, <1>9

LEMMA IssuingKeeps ==
  ASSUME IInv, NEW r \in Requests, ReadActive(r) \/ MarkRevoked(r) \/ IssueInvite(r)
  PROVE  IInv'
<1>0. /\ pc \in [Requests -> PCs] /\ call \in [Requests -> Calls] /\ call[r] \in Calls
      /\ call = [call EXCEPT ![r] = call[r]]
      /\ LocalOf(pc[r], call[r])
      /\ invite \in [Codes -> Invites] /\ admitted \in [Codes -> Nat]
  BY Before
<1>1. TypeOK /\ CountInv /\ OneActiveCode /\ UsesAreCounted
  BY DEF IInv
<1>2. CASE Rollback(r)
  BY <1>2, RollbackKeeps
<1>3. CASE ReadActive(r) /\ ~Rollback(r)
  <2>1. CASE \E c \in Codes : Active(c)
    <3>1. PICK c \in Codes : /\ Active(c)
                             /\ call' = [call EXCEPT ![r].code = c]
                             /\ pc' = [pc EXCEPT ![r] = "mark"]
                             /\ UNCHANGED <<rows, groupLock>>
      BY <1>3, <2>1 DEF ReadActive, Goto
    <3> DEFINE d == [call[r] EXCEPT !.code = c]
    <3>2. d \in Calls
      BY <1>0 DEF Calls
    <3>3. LocalOf("mark", d)
      BY <1>0, <1>3, <3>1 DEF ReadActive, LocalOf, AskedOf, JoinOf, Calls, Active, Undrawn
    <3>4. call' = [call EXCEPT ![r] = d]
      BY <3>1
    <3> HIDE DEF d
    <3> QED
      BY <3>1, <3>2, <3>3, <3>4, MoveKeeps DEF PCs, Locked
  <2>2. CASE ~\E c \in Codes : Active(c)
    <3>1. pc' = [pc EXCEPT ![r] = "issue"] /\ UNCHANGED <<rows, groupLock, call>>
      BY <1>3, <2>2 DEF ReadActive, Goto
    <3>2. LocalOf("issue", call[r])
      BY <1>0, <1>3 DEF ReadActive, LocalOf, AskedOf, JoinOf
    <3> QED
      BY <1>0, <3>1, <3>2, MoveKeeps DEF PCs, Locked
  <2> QED
    BY <2>1, <2>2
<1>4. CASE MarkRevoked(r) /\ ~Rollback(r)
  <2> DEFINE c == call[r].code
  <2>1. c \in Codes /\ Stored(c)
    BY <1>0, <1>4 DEF MarkRevoked, LocalOf, AskedOf
  <2>2. CASE call[r].op = "revoke"
    <3>1. /\ invite' = [invite EXCEPT ![c].status = "revoked"] /\ Close(r)
          /\ UNCHANGED <<group, owner, members, erased, admitted>>
      BY <1>4, <2>1, <2>2 DEF MarkRevoked
    <3>2. /\ invite' \in [Codes -> Invites]
          /\ \A d \in Codes : /\ invite'[d].uses = invite[d].uses /\ invite'[d].creator = invite[d].creator
                              /\ invite'[d].status = IF d = c THEN "revoked" ELSE invite[d].status
      BY <1>0, <2>1, <3>1 DEF Invites, Status
    <3>3. Forward(r)
      BY <1>1, <2>1, <3>2 DEF Forward, TypeOK, Undrawn, Active, Stored
    <3>4. (CountInv /\ OneActiveCode /\ UsesAreCounted)'
      BY <1>1, <2>1, <3>1, <3>2 DEF CountInv, OneActiveCode, UsesAreCounted, Undrawn, Active, Stored
    <3> QED
      BY <1>1, <3>1, <3>3, <3>4, CommitKeeps DEF TypeOK
  <2>3. CASE call[r].op # "revoke"
    <3>1. pc' = [pc EXCEPT ![r] = "issue"] /\ UNCHANGED <<rows, groupLock, call>>
      BY <1>4, <2>1, <2>3 DEF MarkRevoked, Goto
    <3>2. LocalOf("issue", call[r])
      BY <1>0, <1>4 DEF MarkRevoked, LocalOf, AskedOf, JoinOf
    <3> QED
      BY <1>0, <3>1, <3>2, MoveKeeps DEF PCs, Locked
  <2> QED
    BY <2>2, <2>3
<1>5. CASE IssueInvite(r) /\ ~Rollback(r)
  <2>1. PICK d \in Codes : /\ Undrawn(d)
                           /\ invite' = [Replaced(r) EXCEPT ![d] = [status |-> "active", creator |-> call[r].user,
                                                                    uses |-> 0]]
    BY <1>5 DEF IssueInvite, Undrawn
  <2>2. IndexAllows(r) /\ Close(r) /\ UNCHANGED <<group, owner, members, erased, admitted>>
    BY <1>5 DEF IssueInvite
  <2>3. call[r].user \in Users /\ (call[r].code \in Codes => Stored(call[r].code))
    BY <1>0, <1>5 DEF IssueInvite, LocalOf, AskedOf
  <2>4. invite' \in [Codes -> Invites]
    BY <1>0, <2>1, <2>3 DEF Replaced, Invites, Status
  <2>5. /\ invite'[d].status = "active" /\ invite'[d].creator = call[r].user /\ invite'[d].uses = 0
        /\ \A c \in Codes \ {d} :
             /\ invite'[c].uses = invite[c].uses /\ invite'[c].creator = invite[c].creator
             /\ invite'[c].status = IF c = call[r].code THEN "revoked" ELSE invite[c].status
    BY <1>0, <2>1 DEF Replaced, Invites
  <2>6. Forward(r)
    <3>1. \A c \in Codes : Undrawn(c) <=> invite[c].creator = NoUser
      BY <1>1 DEF TypeOK, Undrawn
    <3>2. call[r].user # NoUser
      BY <2>3, SentinelAssumption
    <3>3. ~Stored(d)
      BY <2>1 DEF Stored, Undrawn
    <3>4. \A c \in Codes \ {d} : Stored(c) => Stored(c)'
      BY <2>5 DEF Stored
    <3> QED
      BY <2>1, <2>3, <2>4, <2>5, <3>1, <3>2, <3>3, <3>4 DEF Forward, Undrawn, Active, Stored
  <2>7. \A c \in Codes : Active(c)' => c = d
    BY <2>2, <2>5 DEF IndexAllows, Active
  <2>8. \A c \in Codes : c # d => (Stored(c)' => Stored(c) \/ c = call[r].code) /\ (Undrawn(c)' => Undrawn(c))
    BY <2>5 DEF Stored, Undrawn
  <2>9. CountInv' /\ OneActiveCode'
    BY <1>1, <2>2, <2>5, <2>7, <2>8 DEF CountInv, OneActiveCode, Undrawn
  <2>10. UsesAreCounted'
    <3>1. admitted[d] = 0
      BY <1>1, <2>1 DEF CountInv
    <3>2. \A c \in Codes \ {d} : Stored(c)' => Stored(c)
      BY <2>3, <2>8
    <3> QED
      BY <1>1, <2>2, <2>5, <3>1, <3>2 DEF UsesAreCounted
  <2> QED
    BY <1>1, <2>2, <2>6, <2>9, <2>10, CommitKeeps DEF TypeOK
<1> QED
  BY <1>2, <1>3, <1>4, <1>5

LEMMA JoiningKeeps ==
  ASSUME IInv, NEW r \in Requests, ResolveCode(r) \/ LockGroup(r) \/ RecheckCode(r) \/ EnterGroup(r)
  PROVE  IInv'
<1>0. /\ pc \in [Requests -> PCs] /\ call \in [Requests -> Calls] /\ call[r] \in Calls
      /\ call = [call EXCEPT ![r] = call[r]]
      /\ LocalOf(pc[r], call[r]) /\ (pc[r] \in Locked => groupLock = r)
      /\ invite \in [Codes -> Invites] /\ admitted \in [Codes -> Nat] /\ r # NoRequest
  BY Before
<1>1. TypeOK /\ CountInv /\ OneActiveCode /\ UsesAreCounted
  BY DEF IInv
<1>2. CASE Rollback(r)
  BY <1>2, RollbackKeeps
<1>3. CASE ResolveCode(r) /\ ~Rollback(r)
  <2>1. pc' = [pc EXCEPT ![r] = "lock"] /\ UNCHANGED <<rows, groupLock, call>>
    BY <1>3 DEF ResolveCode, Goto
  <2>2. LocalOf("lock", call[r])
    BY <1>0, <1>3 DEF ResolveCode, LocalOf, AskedOf, JoinOf
  <2> QED
    BY <1>0, <2>1, <2>2, MoveKeeps DEF PCs, Locked
<1>4. CASE LockGroup(r) /\ ~Rollback(r)
  <2> DEFINE live == call[r].code # NoCode /\ Active(call[r].code)
             d == [call[r] EXCEPT !.liveAtLock = live]
             l == IF call[r].op = "join" THEN "recheck" ELSE "purge"
  <2>1. /\ pc' = [pc EXCEPT ![r] = l] /\ call' = [call EXCEPT ![r] = d]
        /\ groupLock' = r /\ UNCHANGED rows
    BY <1>4 DEF LockGroup, Goto
  <2>2. groupLock \in {NoRequest, r}
    BY <1>0, <1>1, <1>4 DEF LockGroup, Granted, Waits, TypeOK
  <2>3. live \in BOOLEAN
    OBVIOUS
  <2> HIDE DEF live
  <2>4. d \in Calls
    BY <1>0, <2>3 DEF Calls
  <2>5. LocalOf(l, d)
    <3>1. /\ d.code = call[r].code /\ d.op = call[r].op /\ d.user = call[r].user
          /\ d.liveAtLock = live
      BY <1>0 DEF Calls
    <3>2. AskedOf(l, d)
      BY <1>0, <1>4, <3>1 DEF LockGroup, LocalOf, AskedOf
    <3>3. JoinOf(l, d)
      BY <1>0, <1>4, <3>1, SentinelAssumption DEF LockGroup, LocalOf, AskedOf, JoinOf, live
    <3> QED
      BY <3>2, <3>3 DEF LocalOf
  <2>6. l \in PCs
    BY DEF PCs
  <2> HIDE DEF d, l
  <2> QED
    BY <2>1, <2>2, <2>4, <2>5, <2>6, MoveKeeps
<1>5. CASE RecheckCode(r) /\ ~Rollback(r)
  <2> DEFINE d == [call[r] EXCEPT !.uses = invite[call[r].code].uses]
  <2>1. /\ pc' = [pc EXCEPT ![r] = "enter"] /\ call' = [call EXCEPT ![r] = d]
        /\ UNCHANGED <<rows, groupLock>> /\ Active(call[r].code) /\ pc[r] = "recheck"
    BY <1>5 DEF RecheckCode, Goto
  <2>2. call[r].code \in Codes
    BY <1>0, <2>1 DEF LocalOf, AskedOf
  <2>3. d \in Calls
    <3>1. invite[call[r].code].uses \in Nat
      BY <1>0, <2>2 DEF Invites
    <3> QED
      BY <1>0, <3>1 DEF Calls
  <2>4. LocalOf("enter", d)
    BY <1>0, <2>1, <2>2 DEF LocalOf, AskedOf, JoinOf, Calls
  <2>5. groupLock' = r
    BY <1>0, <2>1 DEF Locked
  <2> HIDE DEF d
  <2> QED
    BY <2>1, <2>3, <2>4, <2>5, MoveKeeps DEF PCs
<1>6. CASE EnterGroup(r) /\ ~Rollback(r)
  <2> DEFINE c == call[r].code  u == call[r].user
  <2>1. /\ pc[r] = "enter" /\ Stored(c) /\ Close(r)
        /\ members' = members \union {u}
        /\ invite' = [invite EXCEPT ![c].uses = call[r].uses + 1]
        /\ admitted' = [admitted EXCEPT ![c] = @ + 1]
        /\ UNCHANGED <<group, owner, erased>>
    BY <1>6 DEF EnterGroup
  <2>2. /\ c \in Codes /\ u \in Users /\ groupLock = r
        /\ call[r].uses = invite[c].uses /\ call[r].uses = admitted[c] /\ call[r].uses \in Nat
    BY <1>0, <1>1, <2>1 DEF LocalOf, AskedOf, JoinOf, Locked, UsesAreCounted, Calls
  <2>3. /\ invite' \in [Codes -> Invites]
        /\ \A d \in Codes : /\ invite'[d].status = invite[d].status /\ invite'[d].creator = invite[d].creator
                            /\ invite'[d].uses = IF d = c THEN call[r].uses + 1 ELSE invite[d].uses
    BY <1>0, <2>1, <2>2 DEF Invites
  <2>4. /\ admitted' \in [Codes -> Nat]
        /\ \A d \in Codes : admitted'[d] = IF d = c THEN call[r].uses + 1 ELSE admitted[d]
    BY <1>0, <2>1, <2>2
  <2>5. Forward(r)
    BY <1>1, <2>2, <2>3 DEF Forward, TypeOK, Undrawn, Active, Stored
  <2>6. (CountInv /\ OneActiveCode /\ UsesAreCounted)'
    BY <1>1, <2>1, <2>3, <2>4 DEF CountInv, OneActiveCode, UsesAreCounted, Undrawn, Active, Stored
  <2> QED
    BY <1>1, <2>1, <2>2, <2>4, <2>5, <2>6, CommitKeeps DEF TypeOK
<1> QED
  BY <1>2, <1>3, <1>4, <1>5, <1>6

\* Rows of invites vanish with their group or their creator.
LEMMA DeletionKeeps ==
  ASSUME IInv, NEW r \in Requests, PurgeGroup(r) \/ EraseAccount(r)
  PROVE  IInv'
<1>0. /\ LocalOf(pc[r], call[r]) /\ invite \in [Codes -> Invites]
      /\ TypeOK /\ CountInv /\ OneActiveCode /\ UsesAreCounted
  BY Before DEF IInv
<1>1. /\ Granted(r) /\ Close(r) /\ UNCHANGED <<owner, admitted>>
      /\ group' \in {"present", "deleted"} /\ members' \subseteq Users /\ erased' \subseteq Users
  BY <1>0 DEF PurgeGroup, EraseAccount, LocalOf, AskedOf, TypeOK
<1>2. PICK gone \in SUBSET Codes :
        /\ invite' = [c \in Codes |-> IF c \in gone THEN [invite[c] EXCEPT !.status = "deleted"] ELSE invite[c]]
        /\ \A c \in gone : Stored(c) /\ \A q \in Requests \ {r} : ~HoldsRow(q, c)
  <2>1. CASE PurgeGroup(r)
    <3> DEFINE gone == {c \in Codes : Stored(c)}
    <3>1. \A c \in gone, q \in Requests \ {r} : ~HoldsRow(q, c)
      BY <1>1, <2>1 DEF PurgeGroup, Granted, Waits
    <3>2. invite' = [c \in Codes |-> IF c \in gone THEN [invite[c] EXCEPT !.status = "deleted"] ELSE invite[c]]
      BY <2>1 DEF PurgeGroup
    <3> QED
      BY <3>1, <3>2
  <2>2. CASE EraseAccount(r)
    <3> DEFINE gone == {c \in Codes : invite[c].creator = call[r].user /\ Stored(c)}
    <3>1. \A c \in gone, q \in Requests \ {r} : ~HoldsRow(q, c)
      BY <1>1, <2>2 DEF EraseAccount, Granted, Waits
    <3>2. invite' = [c \in Codes |-> IF c \in gone THEN [invite[c] EXCEPT !.status = "deleted"] ELSE invite[c]]
      BY <2>2 DEF EraseAccount
    <3> QED
      BY <3>1, <3>2
  <2> QED
    BY <2>1, <2>2
<1>3. /\ invite' \in [Codes -> Invites]
      /\ \A c \in Codes : /\ invite'[c].uses = invite[c].uses /\ invite'[c].creator = invite[c].creator
                          /\ invite'[c].status = IF c \in gone THEN "deleted" ELSE invite[c].status
  BY <1>0, <1>2 DEF Invites, Status
<1>4. Forward(r)
  BY <1>0, <1>2, <1>3 DEF Forward, TypeOK, Undrawn, Active, Stored
<1>5. (CountInv /\ OneActiveCode /\ UsesAreCounted)'
  BY <1>0, <1>1, <1>3 DEF CountInv, OneActiveCode, UsesAreCounted, Undrawn, Active, Stored
<1> QED
  BY <1>0, <1>1, <1>4, <1>5, CommitKeeps DEF TypeOK

LEMMA NextKeeps ==
  ASSUME IInv, [Next]_vars
  PROVE  IInv'
<1>1. ASSUME NEW r \in Requests, Begin(r) \/ Step(r) PROVE IInv'
  BY <1>1, BeginKeeps, IssuingKeeps, JoiningKeeps, DeletionKeeps, RollbackKeeps DEF Step, AbortDeadlocked
<1>2. CASE (\E u \in Users : LeaveGroup(u) \/ TransferGroupOwnership(u)) \/ UNCHANGED vars
  <2>1. /\ UNCHANGED <<group, erased, invite, groupLock, pc, call, admitted>>
        /\ owner' \in Users /\ members' \subseteq Users
    BY <1>2 DEF IInv, TypeOK, LeaveGroup, TransferGroupOwnership, vars
  <2> QED
    BY <2>1 DEF IInv, TypeOK, LockInv, CountInv, LocalOf, AskedOf, JoinOf, OneActiveCode, UsesAreCounted,
                Undrawn, Active, Stored
<1> QED
  BY <1>1, <1>2 DEF Next

THEOREM Invariance == Spec => []IInv
BY InitIInv, NextKeeps, PTL DEF Spec

\* However many requests issue, replace, revoke and join at once, the group
\* has one code that admits at most.
THEOREM OneCode == Spec => []WellFormed
<1>1. IInv => WellFormed
  BY DEF IInv, WellFormed
<1> QED
  BY <1>1, Invariance, PTL

\* The use count of a stored code is the number of joins committed with it.
THEOREM EveryUseCounts == Spec => []UsesAreCounted
<1>1. IInv => UsesAreCounted
  BY DEF IInv
<1> QED
  BY <1>1, Invariance, PTL

-----------------------------------------------------------------------------
(* What a step may never do.                                               *)

\* A step of one request moves no other, and those of the rest move none.
LEMMA OwnStep ==
  ASSUME IInv, NEW r \in Requests, Begin(r) \/ Step(r)
  PROVE  \A q \in Requests \ {r} : pc'[q] = pc[q]
<1>1. \E l \in PCs : pc' = [pc EXCEPT ![r] = l]
  BY DEF Begin, GenerateGroupInvite, RevokeGroupInvite, DeleteManagedGroup, BeginErase, JoinGroupWithInvite, Admit,
         Step, ReadActive, MarkRevoked, IssueInvite, ResolveCode, LockGroup, RecheckCode, EnterGroup, PurgeGroup,
         EraseAccount, AbortDeadlocked, Rollback, Close, Goto, PCs
<1> QED
  BY <1>1 DEF IInv, TypeOK

\* A join that admits somebody uses a code that was live when the join got
\* the lock of the group row.
THEOREM LiveCodesOnly == Spec => EntersOnLiveCode
<1>1. IInv => \A r \in Requests : pc[r] = "enter" => call[r].liveAtLock
  BY DEF IInv, LocalOf, JoinOf
<1>2. IInv /\ [Next]_vars =>
        [\A r \in Requests : call[r].op = "join" /\ members' # members /\ pc[r] = "enter" /\ pc'[r] = "idle"
            => call[r].liveAtLock]_vars
  BY <1>1
<1> QED
  BY <1>2, Invariance, PTL DEF Spec, EntersOnLiveCode

\* A request that replaces the code leaves the new one or the old one.
THEOREM ReplacementLeavesACode == Spec => ReplacementIsAtomic
<1>1. IInv /\ [Next]_vars =>
        [\A r \in Requests : pc[r] = "issue" /\ pc'[r] = "idle" /\ (\E c \in Codes : Active(c))
            => \E c \in Codes : Active(c)']_vars
  <2> SUFFICES ASSUME IInv, Next, NEW r \in Requests, pc[r] = "issue", pc'[r] = "idle", \E c \in Codes : Active(c)
               PROVE  \E c \in Codes : Active(c)'
    OBVIOUS
  <2>1. Begin(r) \/ Step(r)
    BY OwnStep DEF Next, LeaveGroup, TransferGroupOwnership
  <2>2. Rollback(r) \/ IssueInvite(r)
    BY <2>1 DEF Begin, GenerateGroupInvite, RevokeGroupInvite, DeleteManagedGroup, BeginErase, JoinGroupWithInvite,
                Admit, Step, ReadActive, MarkRevoked, ResolveCode, LockGroup, RecheckCode, EnterGroup, PurgeGroup,
                EraseAccount, AbortDeadlocked
  <2>3. CASE Rollback(r)
    BY <2>3 DEF Rollback, rows, Active
  <2>4. CASE IssueInvite(r) /\ ~Rollback(r)
    <3>1. PICK d \in Codes : invite' = [Replaced(r) EXCEPT ![d] = [status |-> "active", creator |-> call[r].user,
                                                                   uses |-> 0]]
      BY <2>4 DEF IssueInvite
    <3>2. invite'[d].status = "active"
      BY <3>1 DEF Replaced
    <3> QED
      BY <3>2 DEF Active
  <2> QED
    BY <2>2, <2>3, <2>4
<1> QED
  BY <1>1, Invariance, PTL DEF Spec, ReplacementIsAtomic

-----------------------------------------------------------------------------
(* The desk.                                                               *)

\* Who is about to enter is not a member: only the holder of the group lock
\* adds one, and that is the join itself.
NewcomerInv == \A r \in Requests : pc[r] = "enter" => call[r].user \notin members

\* What a step of r leaves to the others.
LEMMA OnlyOwn ==
  ASSUME IInv, NEW r \in Requests, Begin(r) \/ Step(r)
  PROVE  \A q \in Requests \ {r} : pc'[q] = pc[q] /\ call'[q] = call[q]
<1>1. /\ \E l \in PCs : pc' = [pc EXCEPT ![r] = l]
      /\ call' = call \/ \E c : call' = [call EXCEPT ![r] = c]
  BY DEF Begin, GenerateGroupInvite, RevokeGroupInvite, DeleteManagedGroup, BeginErase, JoinGroupWithInvite, Admit,
         Step, ReadActive, MarkRevoked, IssueInvite, ResolveCode, LockGroup, RecheckCode, EnterGroup, PurgeGroup,
         EraseAccount, AbortDeadlocked, Rollback, Close, Goto, PCs
<1> QED
  BY <1>1 DEF IInv, TypeOK

LEMMA NewcomerKeeps == IInv /\ NewcomerInv /\ [Next]_vars => NewcomerInv'
<1> SUFFICES ASSUME IInv, NewcomerInv, [Next]_vars, NEW r \in Requests, pc'[r] = "enter"
             PROVE  call'[r].user \notin members'
  BY DEF NewcomerInv
<1>0. pc \in [Requests -> PCs] /\ call \in [Requests -> Calls] /\ "idle" # "enter"
  BY DEF IInv, TypeOK
<1>1. CASE pc[r] = "enter" /\ call'[r] = call[r] /\ members' \subseteq members
  BY <1>1 DEF NewcomerInv
<1>2. CASE Begin(r) \/ Step(r)
  <2>1. RecheckCode(r) /\ ~Rollback(r)
    BY <1>0, <1>2 DEF Begin, GenerateGroupInvite, RevokeGroupInvite, DeleteManagedGroup, BeginErase,
                      JoinGroupWithInvite, Admit, Step, ReadActive, MarkRevoked, IssueInvite, ResolveCode, LockGroup,
                      RecheckCode, EnterGroup, PurgeGroup, EraseAccount, AbortDeadlocked, Rollback, Close, Goto
  <2> QED
    BY <1>0, <2>1 DEF RecheckCode, rows, Calls
<1>3. ASSUME NEW q \in Requests \ {r}, Begin(q) \/ Step(q)
      PROVE  pc[r] = "enter" /\ call'[r] = call[r] /\ members' \subseteq members
  <2>1. pc[r] = "enter" /\ call'[r] = call[r]
    BY <1>3, OnlyOwn
  <2>2. groupLock = r
    BY <2>1 DEF IInv, LockInv, Locked
  <2>3. pc[q] # "enter"
    BY <2>2 DEF IInv, LockInv, Locked
  <2>4. members' \subseteq members
    BY <1>3, <2>3 DEF Begin, GenerateGroupInvite, RevokeGroupInvite, DeleteManagedGroup, BeginErase,
                      JoinGroupWithInvite, Admit, Step, ReadActive, MarkRevoked, IssueInvite, ResolveCode, LockGroup,
                      RecheckCode, EnterGroup, PurgeGroup, EraseAccount, AbortDeadlocked, Rollback, rows
  <2> QED
    BY <2>1, <2>4
<1>4. CASE (\E u \in Users : LeaveGroup(u) \/ TransferGroupOwnership(u)) \/ UNCHANGED vars
  BY <1>1, <1>4 DEF LeaveGroup, TransferGroupOwnership, vars
<1> QED
  BY <1>1, <1>2, <1>3, <1>4 DEF Next

LEMMA NewcomerInvariance == Spec => [](IInv /\ NewcomerInv)
<1>1. Init => NewcomerInv
  BY DEF Init, NewcomerInv
<1> QED
  BY <1>1, NewcomerKeeps, Invariance, PTL DEF Spec

\* The join that may still enter is the one past its recheck: there is one.
LEMMA OneAdmitted ==
  ASSUME IInv, NEW r \in Requests, pc[r] \in Locked
  PROVE  Admitting = IF pc[r] = "enter" THEN {[user |-> call[r].user, code |-> call[r].code]} ELSE {}
<1>1. \A q \in Requests : pc[q] = "enter" => q = r
  BY DEF IInv, LockInv, Locked
<1> QED
  BY <1>1 DEF Admitting

\* A step of r lets nobody in and turns nobody away unless r was past its
\* recheck or is now.
LEMMA SameAdmitted ==
  ASSUME NEW r \in Requests, pc[r] # "enter", pc'[r] # "enter",
         \A q \in Requests \ {r} : pc'[q] = pc[q] /\ call'[q] = call[q]
  PROVE  Admitting' = Admitting
<1>1. \A q \in Requests : pc'[q] = "enter" <=> pc[q] = "enter"
  OBVIOUS
<1>2. \A q \in Requests : pc[q] = "enter" => call'[q] = call[q]
  OBVIOUS
<1>3. {q \in Requests : pc'[q] = "enter"} = {q \in Requests : pc[q] = "enter"}
  BY <1>1
<1> QED
  BY <1>2, <1>3 DEF Admitting

LEMMA SameCodes == ASSUME invite' = invite
                   PROVE  Valid' = Valid /\ Used' = Used /\ Count' = Count
BY DEF Valid, Used, Count, Active, Stored

LEMMA AdmittedElsewhere ==
  ASSUME IInv, NEW r \in Requests, Begin(r) \/ Step(r), pc[r] # "enter", pc'[r] # "enter"
  PROVE  Admitting' = Admitting
BY OnlyOwn, SameAdmitted

-----------------------------------------------------------------------------

\* A rollback is seen by nobody, except that an admitted join is turned away.
LEMMA RollbackAtDesk ==
  ASSUME IInv, NEW r \in Requests, Rollback(r), Begin(r) \/ Step(r)
  PROVE  Desk!TurnAway \/ UNCHANGED Desk!vars
<1>1. Valid' = Valid /\ Used' = Used /\ Count' = Count /\ members' = members
  BY SameCodes DEF Rollback, rows
<1>2. pc'[r] = "idle" /\ (\A q \in Requests \ {r} : pc'[q] = pc[q])
  BY OnlyOwn DEF Rollback, Close, IInv, TypeOK
<1>3. CASE pc[r] = "enter"
  <2>1. \A q \in Requests : pc'[q] # "enter"
    BY <1>2, <1>3 DEF IInv, LockInv, Locked
  <2>2. Admitting' = {}
    BY <2>1 DEF Admitting
  <2> QED
    BY <1>1, <2>2 DEF Desk!TurnAway
<1>4. CASE pc[r] # "enter"
  BY <1>1, <1>2, <1>4, AdmittedElsewhere DEF Desk!vars
<1> QED
  BY <1>3, <1>4

LEMMA RevocationAtDesk ==
  ASSUME IInv, NEW r \in Requests, MarkRevoked(r), ~Rollback(r), call[r].op = "revoke"
  PROVE  Desk!End \/ UNCHANGED Desk!vars
<1> DEFINE c == call[r].code
<1>1. /\ pc[r] = "mark" /\ c \in Codes /\ Stored(c)
      /\ invite' = [invite EXCEPT ![c].status = "revoked"]
      /\ Close(r) /\ members' = members
      /\ invite \in [Codes -> Invites]
  BY Before DEF MarkRevoked, LocalOf, AskedOf
<1>2. /\ \A d \in Codes : invite'[d].uses = invite[d].uses
      /\ \A d \in Codes : invite'[d].status = IF d = c THEN "revoked" ELSE invite[d].status
  BY <1>1 DEF Invites
<1>3. pc'[r] = "idle"
  BY <1>1 DEF Close, IInv, TypeOK
<1>4. Admitting' = Admitting
  BY <1>1, <1>3, AdmittedElsewhere DEF Step
<1>5. \A d \in Codes : /\ Stored(d)' <=> Stored(d)
                       /\ Undrawn(d)' <=> Undrawn(d)
                       /\ Active(d)' <=> Active(d) /\ d # c
  BY <1>1, <1>2 DEF Stored, Undrawn, Active
<1>6. Used' = Used /\ Count' = Count
  <2>1. {d \in Codes : Stored(d)}' = {d \in Codes : Stored(d)}
    BY <1>5
  <2> QED
    BY <1>2, <1>5, <2>1 DEF Used, Count, Undrawn
<1>7. CASE Active(c)
  <2>1. Valid' = {}
    BY <1>1, <1>5, <1>7 DEF Valid, IInv, OneActiveCode
  <2> QED
    BY <1>1, <1>4, <1>6, <2>1 DEF Desk!End
<1>8. CASE ~Active(c)
  <2>1. Valid' = Valid
    BY <1>5, <1>8 DEF Valid
  <2> QED
    BY <1>1, <1>4, <1>6, <2>1 DEF Desk!vars
<1> QED
  BY <1>7, <1>8

LEMMA IssueAtDesk ==
  ASSUME IInv, NEW r \in Requests, IssueInvite(r), ~Rollback(r)
  PROVE  \E d \in Codes : Desk!Issue(d)
<1>1. PICK d \in Codes : /\ Undrawn(d)
                         /\ invite' = [Replaced(r) EXCEPT ![d] = [status |-> "active", creator |-> call[r].user,
                                                                  uses |-> 0]]
  BY DEF IssueInvite, Undrawn
<1>2. /\ pc[r] = "issue" /\ IndexAllows(r) /\ Close(r) /\ members' = members
      /\ invite \in [Codes -> Invites]
      /\ call[r].code \in Codes => Stored(call[r].code)
  BY Before DEF IssueInvite, LocalOf, AskedOf
<1>3. /\ invite'[d].status = "active" /\ invite'[d].uses = 0
      /\ \A c \in Codes \ {d} :
           /\ invite'[c].uses = invite[c].uses
           /\ invite'[c].status = IF c = call[r].code THEN "revoked" ELSE invite[c].status
  BY <1>1, <1>2 DEF Replaced, Invites
<1>4. pc'[r] = "idle"
  BY <1>2 DEF Close, IInv, TypeOK
<1>5. Admitting' = Admitting
  BY <1>2, <1>4, AdmittedElsewhere DEF Step
<1>6. Valid' = {d}
  BY <1>2, <1>3 DEF Valid, Active, IndexAllows
<1>7. d \notin Used /\ Used' = Used \union {d}
  BY <1>1, <1>2, <1>3 DEF Used, Undrawn, Stored
<1>8. {c \in Codes : Stored(c)}' = {c \in Codes : Stored(c)} \union {d}
  BY <1>2, <1>3 DEF Stored
<1>9. Count' = [c \in DOMAIN Count \union {d} |-> IF c = d THEN 0 ELSE Count[c]]
  <2>1. \A c \in Codes : Stored(c)' /\ c # d => Stored(c)
    BY <1>8
  <2>2. DOMAIN Count = {c \in Codes : Stored(c)}
    BY DEF Count
  <2>3. Count' = [c \in {e \in Codes : Stored(e)}' |-> invite'[c].uses]
    BY DEF Count
  <2>4. \A c \in {e \in Codes : Stored(e)}' : invite'[c].uses = IF c = d THEN 0 ELSE Count[c]
    BY <1>3, <2>1 DEF Count
  <2> QED
    BY <1>8, <2>2, <2>3, <2>4
<1> QED
  BY <1>2, <1>5, <1>6, <1>7, <1>9 DEF Desk!Issue

LEMMA RecheckAtDesk ==
  ASSUME IInv, NEW r \in Requests, RecheckCode(r), ~Rollback(r)
  PROVE  Desk!Admit(call[r].user, call[r].code) /\ call[r].user \in Users /\ call[r].code \in Codes
<1> DEFINE c == call[r].code  u == call[r].user
<1>1. /\ pc[r] = "recheck" /\ Active(c) /\ u \notin members /\ u \in Users /\ c \in Codes
      /\ call \in [Requests -> Calls] /\ pc \in [Requests -> PCs]
      /\ call' = [call EXCEPT ![r].uses = invite[c].uses]
      /\ pc' = [pc EXCEPT ![r] = "enter"]
      /\ UNCHANGED <<rows, groupLock>>
  BY Before DEF RecheckCode, LocalOf, AskedOf, Goto
<1>2. Valid' = Valid /\ Used' = Used /\ Count' = Count /\ members' = members
  BY <1>1, SameCodes DEF rows
<1>3. \A q \in Requests : pc[q] # "enter"
  BY <1>1 DEF IInv, LockInv, Locked
<1>4. Admitting = {}
  BY <1>3 DEF Admitting
<1>5. /\ \A q \in Requests : pc'[q] = "enter" <=> q = r
      /\ call'[r].user = u /\ call'[r].code = c
  BY <1>1, <1>3 DEF Calls
<1>6. Admitting' = {[user |-> u, code |-> c]}
  BY <1>5 DEF Admitting
<1>7. c \in Valid
  BY <1>1 DEF Valid
<1> QED
  BY <1>1, <1>2, <1>4, <1>6, <1>7 DEF Desk!Admit

LEMMA EnterAtDesk ==
  ASSUME IInv, NewcomerInv, NEW r \in Requests, EnterGroup(r), ~Rollback(r)
  PROVE  \E a \in Admitting : Desk!Enter(a)
<1> DEFINE c == call[r].code  u == call[r].user  a == [user |-> u, code |-> c]
<1>1. /\ pc[r] = "enter" /\ Stored(c) /\ Close(r)
      /\ members' = members \union {u}
      /\ invite' = [invite EXCEPT ![c].uses = call[r].uses + 1]
  BY DEF EnterGroup
<1>2. c \in Codes /\ call[r].uses = invite[c].uses /\ invite \in [Codes -> Invites]
  BY <1>1, Before DEF LocalOf, AskedOf, JoinOf
<1>3. u \notin members
  BY <1>1 DEF NewcomerInv
<1>4. \A d \in Codes : /\ invite'[d].status = invite[d].status
                       /\ invite'[d].uses = IF d = c THEN invite[d].uses + 1 ELSE invite[d].uses
  BY <1>1, <1>2 DEF Invites
<1>5. Admitting = {a}
  BY <1>1, OneAdmitted DEF Locked
<1>6. \A q \in Requests : pc'[q] # "enter"
  BY <1>1 DEF IInv, TypeOK, LockInv, Locked, Close
<1>7. Admitting' = {}
  BY <1>6 DEF Admitting
<1>8. Valid' = Valid /\ Used' = Used /\ {d \in Codes : Stored(d)}' = {d \in Codes : Stored(d)}
  BY <1>4 DEF Valid, Used, Active, Stored
<1>9. c \in DOMAIN Count /\ Count' = [Count EXCEPT ![c] = @ + 1]
  <2>1. DOMAIN Count = {d \in Codes : Stored(d)} /\ \A d \in DOMAIN Count : Count[d] = invite[d].uses
    BY DEF Count
  <2>2. Count' = [d \in {e \in Codes : Stored(e)} |-> invite'[d].uses]
    BY <1>8 DEF Count
  <2> QED
    BY <1>1, <1>2, <1>4, <2>1, <2>2 DEF Count
<1>10. a.user = u /\ a.code = c
  OBVIOUS
<1> HIDE DEF a
<1>11. Desk!Enter(a)
  BY <1>1, <1>3, <1>5, <1>7, <1>8, <1>9, <1>10 DEF Desk!Enter
<1> QED
  BY <1>5, <1>11

\* Deleting rows of invites, whatever happens to the members.
LEMMA ForgetAtDesk ==
  ASSUME IInv, NEW gone \in SUBSET Codes, \A c \in gone : Stored(c),
         invite' = [c \in Codes |-> IF c \in gone THEN [invite[c] EXCEPT !.status = "deleted"] ELSE invite[c]]
  PROVE  /\ Valid' = Valid \ gone /\ Used' = Used
         /\ Count' = [c \in DOMAIN Count \ gone |-> Count[c]]
<1>1. \A c \in Codes : /\ invite'[c].status = IF c \in gone THEN "deleted" ELSE invite[c].status
                       /\ invite'[c].uses = invite[c].uses
  BY DEF IInv, TypeOK, Invites
<1>2. {c \in Codes : Stored(c)}' = {c \in Codes : Stored(c)} \ gone
  BY <1>1 DEF Stored
<1>3. Valid' = Valid \ gone /\ Used' = Used
  BY <1>1 DEF Valid, Used, Active, Stored
<1>4. DOMAIN Count = {c \in Codes : Stored(c)} /\ \A c \in DOMAIN Count : Count[c] = invite[c].uses
  BY DEF Count
<1>5. Count' = [c \in {e \in Codes : Stored(e)} \ gone |-> invite'[c].uses]
  BY <1>2 DEF Count
<1> QED
  BY <1>1, <1>3, <1>4, <1>5

LEMMA PurgeAtDesk ==
  ASSUME IInv, NEW r \in Requests, PurgeGroup(r)
  PROVE  Desk!Dissolve
<1> DEFINE gone == {c \in Codes : Stored(c)}
<1>1. /\ pc[r] = "purge" /\ Close(r) /\ members' = {}
      /\ invite' = [c \in Codes |-> IF c \in gone THEN [invite[c] EXCEPT !.status = "deleted"] ELSE invite[c]]
  BY DEF PurgeGroup
<1>2. DOMAIN Count = gone
  BY DEF Count
<1>3. Admitting = {}
  BY <1>1, OneAdmitted DEF Locked
<1>4. pc'[r] = "idle"
  BY <1>1 DEF Close, IInv, TypeOK
<1>5. Admitting' = Admitting
  BY <1>1, <1>4, AdmittedElsewhere DEF Step
<1>6. /\ Valid' = Valid \ gone /\ Used' = Used
      /\ Count' = [c \in DOMAIN Count \ gone |-> Count[c]]
  BY <1>1, ForgetAtDesk
<1> HIDE DEF gone
<1> QED
  BY <1>1, <1>2, <1>3, <1>5, <1>6 DEF Desk!Dissolve, Desk!Forget

LEMMA EraseAtDesk ==
  ASSUME IInv, NEW r \in Requests, EraseAccount(r)
  PROVE  \E u \in Users, C \in SUBSET Codes : Desk!Withdraw(u, C)
<1> DEFINE u == call[r].user
           gone == {c \in Codes : invite[c].creator = u /\ Stored(c)}
<1>1. /\ pc[r] = "erase" /\ Close(r) /\ members' = members \ {u} /\ u \in Users
      /\ invite' = [c \in Codes |-> IF c \in gone THEN [invite[c] EXCEPT !.status = "deleted"] ELSE invite[c]]
  BY Before DEF EraseAccount, LocalOf, AskedOf
<1>2. pc'[r] = "idle"
  BY <1>1 DEF Close, IInv, TypeOK
<1>3. Admitting' = Admitting
  BY <1>1, <1>2, AdmittedElsewhere DEF Step
<1>4. /\ Valid' = Valid \ gone /\ Used' = Used
      /\ Count' = [c \in DOMAIN Count \ gone |-> Count[c]]
  BY <1>1, ForgetAtDesk
<1>5. gone \in SUBSET Codes
  OBVIOUS
<1> HIDE DEF gone
<1> QED
  BY <1>1, <1>3, <1>4, <1>5 DEF Desk!Withdraw, Desk!Forget

LEMMA LeaveAtDesk ==
  ASSUME NEW u \in Users, LeaveGroup(u)
  PROVE  Desk!Withdraw(u, {})
<1>1. UNCHANGED <<invite, pc, call>> /\ members' = members \ {u}
  BY DEF LeaveGroup
<1>2. Valid' = Valid /\ Used' = Used /\ Count' = Count /\ Admitting' = Admitting
  BY <1>1, SameCodes DEF Admitting
<1>3. Count = [c \in DOMAIN Count \ {} |-> Count[c]]
  BY DEF Count
<1> QED
  BY <1>1, <1>2, <1>3 DEF Desk!Withdraw, Desk!Forget

LEMMA DeskStep == IInv /\ NewcomerInv /\ [Next]_vars => [Desk!Next]_Desk!vars
<1> SUFFICES ASSUME IInv, NewcomerInv, [Next]_vars PROVE Desk!Next \/ UNCHANGED Desk!vars
  OBVIOUS
<1>0. {} \in SUBSET Codes
  OBVIOUS
<1>1. ASSUME NEW r \in Requests, Begin(r) \/ Step(r) PROVE Desk!Next \/ UNCHANGED Desk!vars
  <2>1. CASE Rollback(r)
    BY <1>1, <2>1, RollbackAtDesk DEF Desk!Next
  <2>2. CASE MarkRevoked(r) /\ ~Rollback(r) /\ call[r].op = "revoke"
    BY <2>2, RevocationAtDesk DEF Desk!Next
  <2>3. CASE IssueInvite(r) /\ ~Rollback(r)
    BY <2>3, IssueAtDesk DEF Desk!Next
  <2>4. CASE RecheckCode(r) /\ ~Rollback(r)
    BY <2>4, RecheckAtDesk DEF Desk!Next
  <2>5. CASE EnterGroup(r) /\ ~Rollback(r)
    BY <2>5, EnterAtDesk DEF Desk!Next
  <2>6. CASE PurgeGroup(r)
    BY <2>6, PurgeAtDesk DEF Desk!Next
  <2>7. CASE EraseAccount(r)
    BY <2>7, EraseAtDesk DEF Desk!Next
  <2>8. CASE /\ ~Rollback(r)
             /\ ~(RecheckCode(r) \/ IssueInvite(r) \/ EnterGroup(r) \/ PurgeGroup(r) \/ EraseAccount(r))
             /\ ~(MarkRevoked(r) /\ call[r].op = "revoke")
    <3>1. UNCHANGED rows /\ pc[r] # "enter" /\ pc'[r] # "enter"
      <4>1. pc \in [Requests -> PCs]
        BY DEF IInv, TypeOK
      <4> QED
        BY <1>1, <2>8, <4>1 DEF Begin, GenerateGroupInvite, RevokeGroupInvite, DeleteManagedGroup, BeginErase,
                 JoinGroupWithInvite, Admit, Step, ReadActive, MarkRevoked, ResolveCode, LockGroup,
                 AbortDeadlocked, Goto
    <3>2. Admitting' = Admitting
      BY <1>1, <3>1, AdmittedElsewhere
    <3> QED
      BY <3>1, <3>2, SameCodes DEF rows, Desk!vars
  <2> QED
    BY <2>1, <2>2, <2>3, <2>4, <2>5, <2>6, <2>7, <2>8
<1>2. ASSUME NEW u \in Users, LeaveGroup(u) PROVE Desk!Next
  BY <1>0, <1>2, LeaveAtDesk DEF Desk!Next
<1>3. CASE (\E u \in Users : TransferGroupOwnership(u)) \/ UNCHANGED vars
  <2>1. UNCHANGED <<members, invite, pc, call>>
    BY <1>3 DEF TransferGroupOwnership, vars
  <2>2. Admitting' = Admitting
    BY <2>1 DEF Admitting
  <2> QED
    BY <2>1, <2>2, SameCodes DEF Desk!vars
<1> QED
  BY <1>1, <1>2, <1>3 DEF Next

\* Whatever overlaps, the invites behave as the desk of InviteDesk: one valid
\* code, one newcomer at a time, let in on a code that is valid then.
THEOREM DeskImplementation == Spec => ImplementsDesk
<1>1. Init => Desk!Init
  <2> SUFFICES ASSUME Init PROVE Desk!Init
    OBVIOUS
  <2>1. Valid = {} /\ Used = {} /\ Admitting = {}
    BY DEF Init, Valid, Used, Admitting, Active
  <2>2. {c \in Codes : Stored(c)} = {}
    BY DEF Init, Stored
  <2>3. Count = [c \in {} |-> 0]
    BY <2>2 DEF Count
  <2> QED
    BY <2>1, <2>3 DEF Init, Desk!Init
<1> QED
  BY <1>1, DeskStep, NewcomerInvariance, PTL DEF Spec, ImplementsDesk, Desk!Spec

-----------------------------------------------------------------------------
(* The roster.                                                             *)

\* A present group has its owner among the members, who is not being erased,
\* and is there while a request holds its row.
RosterInv == /\ group = "present" => owner \in members
             /\ group = "deleted" => members = {}
             /\ \A r \in Requests : pc[r] = "erase" => call[r].user # owner
             /\ \A r \in Requests : pc[r] \in Locked => group = "present"

\* What a step of a request does to the membership table.
LEMMA Memberships ==
  ASSUME IInv, NEW r \in Requests, Begin(r) \/ Step(r)
  PROVE  /\ owner' = owner
         /\ \/ UNCHANGED <<group, members>>
            \/ EnterGroup(r) /\ pc[r] = "enter" /\ members' = members \union {call[r].user} /\ group' = group
            \/ PurgeGroup(r) /\ pc[r] = "purge" /\ members' = {} /\ group' = "deleted"
            \/ EraseAccount(r) /\ pc[r] = "erase" /\ members' = members \ {call[r].user} /\ group' = group
<1>1. CASE Rollback(r)
  BY <1>1 DEF Rollback, rows
<1>2. CASE Begin(r)
  BY <1>2 DEF Begin, GenerateGroupInvite, RevokeGroupInvite, DeleteManagedGroup, BeginErase, JoinGroupWithInvite,
              Admit, rows
<1>3. CASE Step(r) /\ ~Rollback(r)
  BY <1>3 DEF Step, ReadActive, MarkRevoked, IssueInvite, ResolveCode, LockGroup, RecheckCode, EnterGroup,
              PurgeGroup, EraseAccount, AbortDeadlocked, rows
<1> QED
  BY <1>1, <1>2, <1>3

LEMMA RosterKeeps == IInv /\ RosterInv /\ [Next]_vars => RosterInv'
<1> SUFFICES ASSUME IInv, RosterInv, [Next]_vars PROVE RosterInv'
  OBVIOUS
<1>0. pc \in [Requests -> PCs] /\ call \in [Requests -> Calls]
  BY DEF IInv, TypeOK
<1>1. ASSUME NEW r \in Requests, Begin(r) \/ Step(r) PROVE RosterInv'
  <2>1. /\ owner' = owner
        /\ \/ UNCHANGED <<group, members>>
           \/ pc[r] = "enter" /\ members' = members \union {call[r].user} /\ group' = group
           \/ pc[r] = "purge" /\ members' = {} /\ group' = "deleted"
           \/ pc[r] = "erase" /\ members' = members \ {call[r].user} /\ group' = group
    BY <1>1, Memberships
  <2>2. \A q \in Requests \ {r} : pc'[q] = pc[q] /\ call'[q] = call[q]
    BY <1>1, OnlyOwn
  <2>3. /\ group' = "present" => owner' \in members'
        /\ group' = "deleted" => members' = {}
    BY <2>1 DEF RosterInv, Locked
  <2>4. pc'[r] = "erase" => call'[r].user # owner
    <3>1. CASE Begin(r)
      BY <1>0, <3>1 DEF Begin, GenerateGroupInvite, RevokeGroupInvite, DeleteManagedGroup, BeginErase,
                        JoinGroupWithInvite, Admit, Goto, NoCall
    <3>2. CASE Step(r)
      BY <1>0, <3>2 DEF Step, ReadActive, MarkRevoked, IssueInvite, ResolveCode, LockGroup, RecheckCode, EnterGroup,
                        PurgeGroup, EraseAccount, AbortDeadlocked, Rollback, Close, Goto
    <3> QED
      BY <1>1, <3>1, <3>2
  <2>5. \A q \in Requests : pc'[q] = "erase" => call'[q].user # owner'
    BY <2>1, <2>2, <2>4 DEF RosterInv
  <2>6. pc'[r] \in Locked => group' = "present"
    <3>1. CASE Begin(r)
      BY <1>0, <3>1 DEF Begin, GenerateGroupInvite, RevokeGroupInvite, DeleteManagedGroup, BeginErase,
                        JoinGroupWithInvite, Admit, Goto, Locked
    <3>2. CASE Rollback(r)
      BY <1>0, <3>2 DEF Rollback, Close, Locked
    <3>3. CASE Step(r) /\ ~Rollback(r) /\ pc'[r] \in Locked
      <4>1. LockGroup(r) \/ RecheckCode(r)
        BY <1>0, <3>3 DEF Step, ReadActive, MarkRevoked, IssueInvite, ResolveCode, EnterGroup,
                          PurgeGroup, EraseAccount, AbortDeadlocked, Close, Goto, Locked
      <4> QED
        BY <3>3, <4>1 DEF LockGroup, RecheckCode, RosterInv, Locked, IInv, TypeOK, rows
    <3> QED
      BY <1>1, <3>1, <3>2, <3>3
  <2>7. ASSUME NEW q \in Requests \ {r}, pc'[q] \in Locked PROVE group' = "present"
    <3>1. pc[q] \in Locked /\ groupLock = q /\ group = "present"
      BY <2>2, <2>7 DEF IInv, LockInv, RosterInv
    <3>2. pc[r] # "purge"
      BY <3>1 DEF IInv, LockInv, Locked
    <3> QED
      BY <2>1, <3>1, <3>2
  <2> QED
    BY <2>3, <2>5, <2>6, <2>7 DEF RosterInv
<1>2. CASE \E u \in Users : LeaveGroup(u)
  BY <1>2 DEF LeaveGroup, RosterInv
<1>3. CASE \E u \in Users : TransferGroupOwnership(u)
  BY <1>3 DEF TransferGroupOwnership, RosterInv, HoldsUser
<1>4. CASE UNCHANGED vars
  BY <1>4 DEF vars, RosterInv
<1> QED
  BY <1>1, <1>2, <1>3, <1>4 DEF Next

LEMMA RosterInvariance == Spec => [](IInv /\ NewcomerInv /\ RosterInv)
<1>1. Init => RosterInv
  BY DEF Init, RosterInv, Locked
<1> QED
  BY <1>1, RosterKeeps, NewcomerInvariance, PTL DEF Spec

LEMMA RosterStep == IInv /\ NewcomerInv /\ RosterInv /\ [Next]_vars => [Roster!Next]_Roster!vars
<1> SUFFICES ASSUME IInv, NewcomerInv, RosterInv, [Next]_vars PROVE Roster!Next \/ UNCHANGED Roster!vars
  OBVIOUS
<1> USE DEF Roster!Owner, Roster!Organizer, Roster!Member, Roster!NoRow
<1>0. owner \in Users /\ members \subseteq Users
  BY DEF IInv, TypeOK
<1>1. CASE UNCHANGED <<group, owner, members>>
  BY <1>1 DEF Roles, Roster!vars
<1>2. ASSUME NEW r \in Requests, EnterGroup(r), pc[r] = "enter", owner' = owner,
             members' = members \union {call[r].user}, group' = group
      PROVE  Roster!Next
  <2> DEFINE u == call[r].user
  <2>1. group = "present" /\ owner \in members
    BY <1>2 DEF RosterInv, Locked
  <2>2. u \in Users /\ u \notin members
    BY <1>2, Before DEF NewcomerInv, LocalOf, AskedOf
  <2>3. Roles[u] = "none" /\ Roles' = [Roles EXCEPT ![u] = "member"]
    BY <1>2, <2>1, <2>2 DEF Roles
  <2> QED
    BY <1>2, <2>1, <2>2, <2>3 DEF Roster!Enrol, Roster!Next
<1>3. ASSUME NEW r \in Requests, PurgeGroup(r), pc[r] = "purge", members' = {}, group' = "deleted"
      PROVE  Roster!Next
  <2>1. group = "present" /\ Roles' = [u \in Users |-> "none"]
    BY <1>3 DEF RosterInv, Locked, Roles
  <2> QED
    BY <1>3, <2>1 DEF Roster!Dissolve, Roster!Next
<1>4. ASSUME NEW u \in Users, u # owner, owner' = owner, members' = members \ {u}, group' = group
      PROVE  Roster!Next \/ UNCHANGED Roster!vars
  <2>1. CASE u \in members
    <3>1. Roles[u] = "member" /\ Roles' = [Roles EXCEPT ![u] = "none"]
      BY <1>4, <2>1 DEF Roles
    <3> QED
      BY <1>4, <3>1 DEF Roster!Withdraw, Roster!Next
  <2>2. CASE u \notin members
    BY <1>1, <1>4, <2>2
  <2> QED
    BY <2>1, <2>2
<1>5. ASSUME NEW u \in Users, TransferGroupOwnership(u) PROVE Roster!Next
  <2>1. u \in members \ {owner} /\ owner' = u /\ UNCHANGED <<group, members>>
    BY <1>5 DEF TransferGroupOwnership
  <2>2. owner \in members
    BY <2>1 DEF RosterInv, IInv, TypeOK
  <2>3. /\ Roles[owner] = "owner" /\ Roles[u] = "member"
        /\ \A w \in Users \ {owner} : Roles[w] # "owner"
        /\ Roles' = [Roles EXCEPT ![owner] = "member", ![u] = "owner"]
    BY <1>0, <2>1, <2>2 DEF Roles
  <2>4. Roster!HandOver(owner, u)
    BY <1>0, <2>1, <2>3 DEF Roster!HandOver
  <2> QED
    BY <1>0, <2>4 DEF Roster!Next
<1>6. ASSUME NEW r \in Requests, Begin(r) \/ Step(r) PROVE Roster!Next \/ UNCHANGED Roster!vars
  <2>1. pc[r] = "erase" => call[r].user \in Users \ {owner}
    BY Before DEF RosterInv, LocalOf, AskedOf
  <2> QED
    BY <1>1, <1>2, <1>3, <1>4, <1>6, <2>1, Memberships
<1>7. CASE \E u \in Users : LeaveGroup(u)
  BY <1>4, <1>7 DEF LeaveGroup
<1>8. CASE UNCHANGED vars
  BY <1>1, <1>8 DEF vars
<1> QED
  BY <1>5, <1>6, <1>7, <1>8 DEF Next

\* What joins, erasures and deletions do to the membership table is what the
\* roster of GroupTransactions allows.
THEOREM RosterKept == Spec => KeepsToRoster
BY RosterStep, RosterInvariance, PTL DEF Spec, KeepsToRoster
=============================================================================
