---------------------- MODULE AccountProvisioningProofs ----------------------
(***************************************************************************)
(* Proofs about AccountProvisioning for every set of subjects, accounts,   *)
(* profiles and requests.  The invariant says what an erasure relies on:   *)
(* while it holds the account row, nobody links another user to it.        *)
(***************************************************************************)
EXTENDS AccountProvisioning, TLAPS

RowsOK == /\ account \in [Accounts -> {"unused", "stored", "erased"}]
          /\ identity \in [Subjects -> Owners]
          /\ accepted \in [Accounts -> [version : Nat, writes : Nat]]
          /\ user \in [Profiles -> Users]
          /\ published \in 1..MaxVersion
          /\ \A p \in Profiles : user[p].state \in {"absent", "erased"} => user[p].account = NoAccount

VersionInv == \A a \in Accounts : accepted[a].version <= published

TablesInv == RowsOK /\ VersionInv /\ NoOrphanAccounts /\ OneProfilePerAccount /\ NoAbandonedProfile

AskedOf(l, c) == /\ l \in {"resolve", "provision", "reselect"} => c.subject \in Subjects
                 /\ l \in {"find", "create", "accept", "check", "link", "lock", "lock_user", "delete"}
                      => c.account \in Accounts
                 /\ l \in {"check", "link"} => c.profile \in Profiles

\* What was read or locked is still so.
HeldOf(r, l, c) == /\ l \in {"check", "link"} => user[c.profile].state # "absent"
                   /\ l \in {"lock_user", "delete"} => accountLock[c.account] = r
                   /\ l = "delete" => Linked(c.account) \subseteq {c.profile}

LocalOf(r, l, c) == AskedOf(l, c) /\ HeldOf(r, l, c)

IInv == /\ TypeOK /\ TablesInv
        /\ \A r \in Requests : LocalOf(r, pc[r], call[r])

LEMMA Constants == /\ NoCall \in Calls /\ "idle" \in PCs
                   /\ \A r \in Requests : LocalOf(r, "idle", NoCall)
BY DEF NoCall, Calls, Ops, Owners, PCs, LocalOf, AskedOf, HeldOf

LEMMA InitIInv == Init => IInv
<1> SUFFICES ASSUME Init PROVE IInv
  OBVIOUS
<1>1. RowsOK
  BY BoundAssumption DEF Init, RowsOK, Owners, Users
<1>2. TypeOK
  BY <1>1, Constants DEF Init, RowsOK, TypeOK
<1>3. VersionInv /\ NoOrphanAccounts /\ OneProfilePerAccount /\ NoAbandonedProfile
  BY DEF Init, VersionInv, NoOrphanAccounts, OneProfilePerAccount, NoAbandonedProfile
<1>4. \A r \in Requests : LocalOf(r, pc[r], call[r])
  BY Constants DEF Init
<1> QED
  BY <1>1, <1>2, <1>3, <1>4 DEF IInv, TablesInv

-----------------------------------------------------------------------------
(* A step of one request.                                                  *)

\* Locks change hands for the request only, and no account that another
\* request has locked gets a user.
RequestStep(r, l, c) ==
    /\ pc' = [pc EXCEPT ![r] = l]
    /\ call' = [call EXCEPT ![r] = c]
    /\ accountLock' \in [Accounts -> Requests \union {NoRequest}]
    /\ \A a \in Accounts : accountLock[a] \in Requests \ {r} => accountLock'[a] = accountLock[a]

Considerate(r) ==
    /\ \A p \in Profiles : user[p].state # "absent" => user'[p].state # "absent"
    /\ \A a \in Accounts, p \in Profiles :
          accountLock[a] \in Requests \ {r} /\ user'[p].account = a => user[p].account = a

LEMMA StepKeeps ==
  ASSUME IInv, NEW r \in Requests, NEW l \in PCs, NEW c \in Calls, RequestStep(r, l, c), Considerate(r),
         TablesInv', LocalOf(r, l, c)'
  PROVE  IInv'
<1>1. /\ pc'[r] = l /\ call'[r] = c
      /\ pc' \in [Requests -> PCs] /\ call' \in [Requests -> Calls]
  BY DEF IInv, TypeOK, RequestStep
<1>2. TypeOK'
  BY <1>1 DEF TypeOK, RequestStep, TablesInv, RowsOK
<1>3. ASSUME NEW q \in Requests, q # r PROVE LocalOf(q, pc[q], call[q])'
  <2>1. pc'[q] = pc[q] /\ call'[q] = call[q]
    BY <1>3 DEF IInv, TypeOK, RequestStep
  <2>2. LocalOf(q, pc[q], call[q])
    BY DEF IInv
  <2>3. HeldOf(q, pc[q], call[q])'
    <3>1. pc[q] \in {"check", "link"} => user'[call[q].profile].state # "absent"
      BY <2>2 DEF LocalOf, AskedOf, HeldOf, Considerate
    <3>2. pc[q] \in {"lock_user", "delete"} => accountLock'[call[q].account] = q
      BY <1>3, <2>2 DEF LocalOf, AskedOf, HeldOf, RequestStep
    <3>3. pc[q] = "delete" => Linked(call[q].account)' \subseteq {call[q].profile}
      BY <1>3, <2>1, <2>2 DEF LocalOf, AskedOf, HeldOf, Considerate, Linked
    <3> QED
      BY <2>1, <3>1, <3>2, <3>3 DEF HeldOf
  <2> QED
    BY <2>1, <2>2, <2>3 DEF LocalOf, AskedOf
<1>4. \A q \in Requests : LocalOf(q, pc[q], call[q])'
  <2> TAKE q \in Requests
  <2>1. CASE q = r
    BY <2>1, <1>1
  <2> QED
    BY <2>1, <1>3
<1> QED
  BY <1>2, <1>4 DEF IInv

LEMMA Before ==
  ASSUME IInv, NEW r \in Requests
  PROVE  /\ pc \in [Requests -> PCs] /\ call \in [Requests -> Calls] /\ call[r] \in Calls
         /\ call = [call EXCEPT ![r] = call[r]]
         /\ accountLock \in [Accounts -> Requests \union {NoRequest}]
         /\ LocalOf(r, pc[r], call[r]) /\ TablesInv
         /\ r # NoRequest
BY SentinelAssumption DEF IInv, TypeOK

LEMMA RowsStay ==
  ASSUME IInv, UNCHANGED rows, NEW r \in Requests
  PROVE  TablesInv' /\ Considerate(r)
BY DEF IInv, TablesInv, rows, RowsOK, VersionInv, NoOrphanAccounts, OneProfilePerAccount, NoAbandonedProfile,
       Considerate

\* A step that leaves rows and locks alone.
LEMMA MoveKeeps ==
  ASSUME IInv, NEW r \in Requests, NEW l \in PCs, NEW c \in Calls,
         pc' = [pc EXCEPT ![r] = l], call' = [call EXCEPT ![r] = c], UNCHANGED <<rows, accountLock>>,
         LocalOf(r, l, c)
  PROVE  IInv'
<1>1. RequestStep(r, l, c)
  BY Before DEF RequestStep
<1>2. LocalOf(r, l, c)'
  BY DEF LocalOf, AskedOf, HeldOf, Linked, rows
<1> QED
  BY <1>1, <1>2, RowsStay, StepKeeps

\* The end of a request.
LEMMA CloseKeeps ==
  ASSUME IInv, NEW r \in Requests, Close(r), Considerate(r), TablesInv'
  PROVE  IInv'
<1>1. RequestStep(r, "idle", NoCall)
  BY Before DEF RequestStep, Close, Goto
<1>2. LocalOf(r, "idle", NoCall)'
  BY DEF LocalOf, AskedOf, HeldOf
<1> QED
  BY <1>1, <1>2, Constants, StepKeeps

LEMMA EndKeeps ==
  ASSUME IInv, NEW r \in Requests, Close(r), UNCHANGED rows
  PROVE  IInv'
BY CloseKeeps, RowsStay

-----------------------------------------------------------------------------
(* Beginning.                                                              *)

LEMMA BeginKeeps ==
  ASSUME IInv, NEW r \in Requests,
         \/ \E s \in Subjects, op \in Ops : Authenticate(r, s, op)
         \/ \E a \in Accounts : DeleteAccountData(r, a) \/ \E p \in Profiles : BeginLink(r, a, p)
  PROVE  IInv'
<1>1. ASSUME NEW s \in Subjects, NEW op \in Ops, Authenticate(r, s, op) PROVE IInv'
  <2> DEFINE c == [NoCall EXCEPT !.op = op, !.subject = s]
  <2>1. c \in Calls /\ c.subject = s
    BY Constants DEF Calls, NoCall
  <2>2. pc' = [pc EXCEPT ![r] = "resolve"] /\ call' = [call EXCEPT ![r] = c] /\ UNCHANGED <<rows, accountLock>>
    BY <1>1 DEF Authenticate, Goto
  <2> HIDE DEF c
  <2>3. LocalOf(r, "resolve", c)
    BY <2>1 DEF LocalOf, AskedOf, HeldOf
  <2> QED
    BY <2>1, <2>2, <2>3, MoveKeeps DEF PCs
<1>2. ASSUME NEW a \in Accounts, NEW op \in Ops, NEW p \in Profiles \union {NoProfile}, NEW l \in {"lock", "check"},
             Command(r, op, a, p, l),
             l = "check" => p \in Profiles /\ user[p].state # "absent"
      PROVE  IInv'
  <2> DEFINE c == [NoCall EXCEPT !.op = op, !.account = a, !.profile = p]
  <2>1. c \in Calls /\ c.account = a /\ c.profile = p
    BY Constants DEF Calls, NoCall, Owners
  <2>2. pc' = [pc EXCEPT ![r] = l] /\ call' = [call EXCEPT ![r] = c] /\ UNCHANGED <<rows, accountLock>>
    BY <1>2 DEF Command, Goto
  <2> HIDE DEF c
  <2>3. LocalOf(r, l, c)
    BY <1>2, <2>1 DEF LocalOf, AskedOf, HeldOf
  <2> QED
    BY <2>1, <2>2, <2>3, MoveKeeps DEF PCs
<1>3. ASSUME NEW a \in Accounts, DeleteAccountData(r, a) PROVE IInv'
  BY <1>2, <1>3 DEF DeleteAccountData, Ops
<1>4. ASSUME NEW a \in Accounts, NEW p \in Profiles, BeginLink(r, a, p) PROVE IInv'
  BY <1>2, <1>4 DEF BeginLink, Ops
<1> QED
  BY <1>1, <1>3, <1>4

-----------------------------------------------------------------------------
(* Signing in.                                                             *)

\* Where the authenticated request goes on.
LEMMA ProceedKeeps ==
  ASSUME IInv, NEW r \in Requests, NEW a \in Accounts, NEW version \in Nat, Proceed(r, a, version),
         Considerate(r), TablesInv'
  PROVE  IInv'
<1>1. CASE Close(r)
  BY <1>1, CloseKeeps
<1>2. CASE ~Close(r)
  <2> DEFINE c == [call[r] EXCEPT !.account = a, !.version = version]
             l == IF call[r].op = "onboard" THEN "find" ELSE "accept"
  <2>1. c \in Calls /\ c.account = a /\ l \in PCs /\ l \in {"find", "accept"}
    BY Before DEF Calls, Owners, PCs
  <2>2. call' = [call EXCEPT ![r] = c] /\ pc' = [pc EXCEPT ![r] = l] /\ UNCHANGED accountLock
    <3>1. call' = [call EXCEPT ![r].account = a, ![r].version = version]
      BY <1>2 DEF Proceed
    <3>2. call' = [call EXCEPT ![r] = c]
      BY <3>1, Before DEF Calls
    <3> QED
      BY <1>2, <3>2 DEF Proceed, Goto
  <2> HIDE DEF c, l
  <2>3. PICK d \in Calls, m \in PCs : d = c /\ m = l
    BY <2>1
  <2>4. RequestStep(r, m, d)
    BY <2>2, <2>3, Before DEF RequestStep
  <2>5. LocalOf(r, m, d)'
    BY <2>1, <2>3 DEF LocalOf, AskedOf, HeldOf
  <2> QED
    BY <2>4, <2>5, StepKeeps
<1> QED
  BY <1>1, <1>2

LEMMA ResolveKeeps ==
  ASSUME IInv, NEW r \in Requests, ResolveAccount(r)
  PROVE  IInv'
<1> DEFINE a == identity[call[r].subject]
<1>0. pc[r] \in {"resolve", "reselect"} /\ UNCHANGED rows /\ LocalOf(r, pc[r], call[r]) /\ call[r] \in Calls
      /\ RowsOK
  BY Before DEF ResolveAccount, TablesInv
<1>1. a \in Owners /\ call[r].subject \in Subjects
  BY <1>0 DEF LocalOf, AskedOf, RowsOK
<1>2. CASE a # NoAccount /\ Proceed(r, a, accepted[a].version)
  <2>1. PICK b \in Accounts : b = a
    BY <1>1, <1>2 DEF Owners
  <2>2. PICK v \in Nat : v = accepted[b].version
    BY <1>0 DEF RowsOK
  <2>3. Proceed(r, b, v)
    BY <1>2, <2>1, <2>2
  <2> QED
    BY <1>0, <2>3, RowsStay, ProceedKeeps
<1>3. CASE Goto(r, "provision") /\ UNCHANGED <<call, accountLock>>
  <2>1. LocalOf(r, "provision", call[r])
    BY <1>1 DEF LocalOf, AskedOf, HeldOf
  <2> QED
    BY <1>0, <1>3, <2>1, Before, MoveKeeps DEF Goto, PCs
<1>4. CASE Close(r)
  BY <1>0, <1>4, EndKeeps
<1> QED
  BY <1>2, <1>3, <1>4 DEF ResolveAccount

\* The account and its identity are committed together.
LEMMA ProvisionKeeps ==
  ASSUME IInv, NEW r \in Requests, ProvisionAccount(r)
  PROVE  IInv'
<1>0. pc[r] = "provision" /\ UNCHANGED <<accepted, user, published>> /\ LocalOf(r, pc[r], call[r])
      /\ call[r] \in Calls /\ TablesInv /\ RowsOK
  BY Before DEF ProvisionAccount, TablesInv
<1>1. call[r].subject \in Subjects
  BY <1>0 DEF LocalOf, AskedOf
<1>2. CASE Goto(r, "reselect") /\ UNCHANGED <<account, identity, call, accountLock>>
  <2>1. LocalOf(r, "reselect", call[r])
    BY <1>1 DEF LocalOf, AskedOf, HeldOf
  <2> QED
    BY <1>0, <1>2, <2>1, Before, MoveKeeps DEF Goto, PCs, rows
<1>3. ASSUME NEW a \in Accounts, account[a] = "unused", identity[call[r].subject] = NoAccount,
             account' = [account EXCEPT ![a] = "stored"],
             identity' = [identity EXCEPT ![call[r].subject] = a],
             Proceed(r, a, 0)
      PROVE  IInv'
  <2>1. RowsOK'
    BY <1>0, <1>3 DEF RowsOK, Owners
  <2>2. NoOrphanAccounts'
    <3> SUFFICES ASSUME NEW b \in Accounts, account'[b] = "stored"
                 PROVE  \E s \in Subjects : identity'[s] = b
      BY DEF NoOrphanAccounts
    <3>1. CASE b = a
      BY <1>0, <1>1, <1>3, <3>1 DEF RowsOK
    <3>2. CASE b # a
      <4>1. PICK s \in Subjects : identity[s] = b
        BY <1>0, <1>3, <3>2 DEF RowsOK, TablesInv, NoOrphanAccounts
      <4>2. s # call[r].subject
        BY <1>3, <4>1, SentinelAssumption
      <4> QED
        BY <1>0, <1>3, <4>1, <4>2 DEF RowsOK
    <3> QED
      BY <3>1, <3>2
  <2>3. TablesInv'
    BY <1>0, <2>1, <2>2 DEF TablesInv, VersionInv, OneProfilePerAccount, NoAbandonedProfile
  <2>4. Considerate(r)
    BY <1>0 DEF Considerate
  <2> QED
    BY <1>3, <2>3, <2>4, ProceedKeeps
<1>4. CASE Close(r) /\ UNCHANGED <<account, identity>>
  BY <1>0, <1>4, EndKeeps DEF rows
<1> QED
  BY <1>2, <1>3, <1>4 DEF ProvisionAccount

-----------------------------------------------------------------------------
(* Onboarding, terms and links.                                            *)

LEMMA ChecksKeep ==
  ASSUME IInv, NEW r \in Requests, FindProfile(r) \/ CheckLink(r)
  PROVE  IInv'
<1>0. LocalOf(r, pc[r], call[r]) /\ call[r] \in Calls /\ UNCHANGED rows
  BY Before DEF FindProfile, CheckLink
<1>1. CASE Close(r)
  BY <1>0, <1>1, EndKeeps
<1>2. CASE ~Close(r)
  <2>1. PICK l \in {"create", "link"} : /\ Goto(r, l) /\ UNCHANGED <<call, accountLock>>
                                        /\ l = "create" => pc[r] = "find"
                                        /\ l = "link" => pc[r] = "check"
    BY <1>2 DEF FindProfile, CheckLink
  <2>2. LocalOf(r, l, call[r])
    <3>1. CASE l = "create"
      BY <1>0, <2>1, <3>1 DEF LocalOf, AskedOf, HeldOf
    <3>2. CASE l = "link"
      BY <1>0, <2>1, <3>2 DEF LocalOf, AskedOf, HeldOf
    <3> QED
      BY <3>1, <3>2
  <2>3. pc' = [pc EXCEPT ![r] = l] /\ call' = [call EXCEPT ![r] = call[r]] /\ l \in PCs
    BY <2>1, Before DEF Goto, PCs
  <2> QED
    BY <1>0, <2>1, <2>2, <2>3, MoveKeeps
<1> QED
  BY <1>1, <1>2

\* A user row gets an account that has none and that nobody has locked.
LEMMA LinkingKeeps ==
  ASSUME IInv, NEW r \in Requests, NEW p \in Profiles, NEW a \in Accounts, NEW state \in {"active", "tombstone"},
         IndexAllows(p, a), Free(a), user' = [user EXCEPT ![p] = [state |-> state, account |-> a]],
         UNCHANGED <<account, identity, accepted, published>>, Close(r)
  PROVE  IInv'
<1>0. RowsOK /\ TablesInv
  BY Before DEF TablesInv
<1>1. user'[p] = [state |-> state, account |-> a] /\ \A q \in Profiles : q # p => user'[q] = user[q]
  BY <1>0 DEF RowsOK
<1>2. RowsOK'
  BY <1>0, <1>1 DEF RowsOK, Users, Owners
<1>3. OneProfilePerAccount'
  BY <1>0, <1>1 DEF TablesInv, OneProfilePerAccount, IndexAllows, Linked
<1>4. NoAbandonedProfile'
  BY <1>0, <1>1, SentinelAssumption DEF TablesInv, NoAbandonedProfile
<1>5. TablesInv'
  BY <1>0, <1>2, <1>3, <1>4 DEF TablesInv, VersionInv, NoOrphanAccounts
<1>6. Considerate(r)
  BY <1>1, SentinelAssumption DEF Considerate, Free
<1> QED
  BY <1>5, <1>6, CloseKeeps

LEMMA CreateKeeps ==
  ASSUME IInv, NEW r \in Requests, CreateProfile(r)
  PROVE  IInv'
<1>0. call[r].account \in Accounts /\ Close(r) /\ Free(call[r].account)
      /\ UNCHANGED <<account, identity, accepted, published>>
  BY Before DEF CreateProfile, LocalOf, AskedOf
<1>1. CASE UNCHANGED user
  BY <1>0, <1>1, EndKeeps DEF rows
<1>2. ASSUME NEW p \in Profiles, IndexAllows(p, call[r].account),
             user' = [user EXCEPT ![p] = [state |-> "active", account |-> call[r].account]]
      PROVE  IInv'
  <2>1. PICK a \in Accounts : a = call[r].account
    BY <1>0
  <2> QED
    BY <1>0, <1>2, <2>1, LinkingKeeps
<1> QED
  BY <1>1, <1>2 DEF CreateProfile

LEMMA LinkKeeps ==
  ASSUME IInv, NEW r \in Requests, LinkAccountToUser(r)
  PROVE  IInv'
<1>0. /\ call[r].account \in Accounts /\ call[r].profile \in Profiles /\ user[call[r].profile].state # "absent"
      /\ Close(r) /\ Free(call[r].account) /\ UNCHANGED <<account, identity, accepted, published>>
      /\ user \in [Profiles -> Users]
  BY Before DEF LinkAccountToUser, LocalOf, AskedOf, HeldOf, TablesInv, RowsOK
<1>1. CASE UNCHANGED user
  BY <1>0, <1>1, EndKeeps DEF rows
<1>2. CASE ~UNCHANGED user
  <2>1. PICK a \in Accounts, p \in Profiles : a = call[r].account /\ p = call[r].profile
    BY <1>0
  <2>2. user[p].state # "erased" /\ IndexAllows(p, a) /\ user' = [user EXCEPT ![p].account = a]
    BY <1>2, <2>1 DEF LinkAccountToUser
  <2>3. PICK state \in {"active", "tombstone"} : state = user[p].state
    BY <1>0, <2>1, <2>2 DEF Users
  <2>4. user' = [user EXCEPT ![p] = [state |-> state, account |-> a]]
    <3>1. [user[p] EXCEPT !.account = a] = [state |-> state, account |-> a]
      BY <1>0, <2>3 DEF Users
    <3>2. user' = [user EXCEPT ![p] = [user[p] EXCEPT !.account = a]]
      BY <2>2
    <3> QED
      BY <3>1, <3>2
  <2> QED
    BY <1>0, <2>1, <2>2, <2>4, LinkingKeeps
<1> QED
  BY <1>1, <1>2

LEMMA AcceptFacts ==
  ASSUME IInv, NEW r \in Requests, AcceptTerms(r)
  PROVE  /\ call[r].account \in Accounts /\ Close(r) /\ UNCHANGED <<account, identity, user, published>>
         /\ \/ UNCHANGED accepted
            \/ /\ accepted[call[r].account].version # published
               /\ accepted' = [accepted EXCEPT ![call[r].account] =
                                  [version |-> published, writes |-> accepted[call[r].account].writes + 1]]
<1>1. call[r].account \in Accounts /\ accepted \in [Accounts -> [version : Nat, writes : Nat]]
  BY Before DEF AcceptTerms, LocalOf, AskedOf, TablesInv, RowsOK
<1> QED
  BY <1>1 DEF AcceptTerms, Accept

LEMMA AcceptKeeps ==
  ASSUME IInv, NEW r \in Requests, AcceptTerms(r)
  PROVE  IInv'
<1>0. RowsOK /\ TablesInv /\ Considerate(r)
  BY Before, AcceptFacts DEF TablesInv, Considerate
<1>1. CASE UNCHANGED accepted
  BY <1>1, AcceptFacts, EndKeeps DEF rows
<1>2. CASE ~UNCHANGED accepted
  <2>1. published \in Nat
    BY <1>0, BoundAssumption DEF RowsOK
  <2>2. PICK a \in Accounts, n \in Nat : accepted' = [accepted EXCEPT ![a] = [version |-> published, writes |-> n]]
    <3>1. PICK a \in Accounts : a = call[r].account
      BY AcceptFacts
    <3>2. accepted[a].writes \in Nat
      BY <1>0 DEF RowsOK
    <3>3. accepted[call[r].account].writes + 1 \in Nat
      BY <3>1, <3>2
    <3> QED
      BY <1>2, <3>3, AcceptFacts
  <2>3. RowsOK'
    BY <1>0, <2>1, <2>2, AcceptFacts DEF RowsOK
  <2>4. VersionInv'
    <3>1. published' = published /\ accepted \in [Accounts -> [version : Nat, writes : Nat]]
          /\ \A b \in Accounts : accepted[b].version <= published
      BY <1>0, AcceptFacts DEF TablesInv, RowsOK, VersionInv
    <3>2. \A b \in Accounts : accepted'[b].version \in {published, accepted[b].version}
      BY <2>2, <3>1
    <3> QED
      BY <2>1, <3>1, <3>2 DEF VersionInv
  <2>5. TablesInv'
    BY <1>0, <2>3, <2>4, AcceptFacts DEF TablesInv, NoOrphanAccounts, OneProfilePerAccount, NoAbandonedProfile
  <2> QED
    BY <1>0, <2>5, AcceptFacts, CloseKeeps
<1> QED
  BY <1>1, <1>2

LEMMA PublishKeeps ==
  ASSUME IInv, PublishTerms
  PROVE  IInv'
<1>0. TypeOK /\ TablesInv /\ RowsOK
  BY DEF IInv, TablesInv
<1>1. published + 1 \in 1..MaxVersion
  BY <1>0, BoundAssumption DEF RowsOK, PublishTerms
<1>2. RowsOK'
  BY <1>0, <1>1 DEF RowsOK, PublishTerms
<1>3. VersionInv'
  <2> SUFFICES ASSUME NEW a \in Accounts PROVE accepted[a].version <= published + 1
    BY DEF VersionInv, PublishTerms
  <2>1. accepted[a].version \in Nat /\ published \in Nat
    BY <1>0, BoundAssumption DEF RowsOK
  <2> QED
    BY <1>0, <2>1 DEF TablesInv, VersionInv
<1>4. TablesInv'
  BY <1>0, <1>2, <1>3 DEF TablesInv, NoOrphanAccounts, OneProfilePerAccount, NoAbandonedProfile, PublishTerms
<1>5. TypeOK'
  BY <1>0, <1>2 DEF TypeOK, RowsOK, PublishTerms
<1>6. \A r \in Requests : LocalOf(r, pc[r], call[r])'
  BY DEF IInv, LocalOf, AskedOf, HeldOf, Linked, PublishTerms
<1> QED
  BY <1>4, <1>5, <1>6 DEF IInv

-----------------------------------------------------------------------------
(* Erasure.                                                                *)

LEMMA LocksKeep ==
  ASSUME IInv, NEW r \in Requests, LockAccount(r) \/ LockUser(r)
  PROVE  IInv'
<1>0. /\ LocalOf(r, pc[r], call[r]) /\ call[r] \in Calls /\ call[r].account \in Accounts /\ UNCHANGED rows
      /\ TablesInv
  BY Before DEF LockAccount, LockUser, LocalOf, AskedOf
<1>1. CASE Close(r)
  BY <1>0, <1>1, EndKeeps
<1>2. CASE LockAccount(r) /\ ~Close(r)
  <2>1. PICK a \in Accounts : a = call[r].account
    BY <1>0
  <2>2. /\ accountLock[a] = NoRequest /\ accountLock' = [accountLock EXCEPT ![a] = r]
        /\ pc' = [pc EXCEPT ![r] = "lock_user"] /\ UNCHANGED call
    BY <1>2, <2>1 DEF LockAccount, Free, Goto
  <2>3. RequestStep(r, "lock_user", call[r])
    BY <2>2, Before, SentinelAssumption DEF RequestStep
  <2>4. PICK c \in Calls : c = call[r]
    BY <1>0
  <2>5. LocalOf(r, "lock_user", c)'
    BY <2>1, <2>2, <2>4, Before DEF LocalOf, AskedOf, HeldOf
  <2> QED
    BY <1>0, <2>3, <2>4, <2>5, RowsStay, StepKeeps DEF PCs
<1>3. CASE LockUser(r) /\ ~Close(r)
  <2> DEFINE a == call[r].account
             p == IF Linked(a) = {} THEN NoProfile ELSE CHOOSE q \in Linked(a) : TRUE
             c == [call[r] EXCEPT !.profile = p]
  <2>1. /\ pc[r] = "lock_user" /\ pc' = [pc EXCEPT ![r] = "delete"] /\ call' = [call EXCEPT ![r] = c]
        /\ UNCHANGED <<rows, accountLock>>
    BY <1>3 DEF LockUser, Goto
  <2>2. p \in Profiles \union {NoProfile} /\ Linked(a) \subseteq {p}
    <3>1. CASE Linked(a) = {}
      BY <3>1
    <3>2. CASE Linked(a) # {}
      <4>1. p \in Linked(a)
        BY <3>2
      <4>2. a # NoAccount
        BY <1>0, SentinelAssumption
      <4> HIDE DEF p
      <4> QED
        BY <1>0, <4>1, <4>2 DEF Linked, TablesInv, OneProfilePerAccount
    <3> QED
      BY <3>1, <3>2
  <2> HIDE DEF p
  <2>3. c \in Calls /\ c.account = a /\ c.profile = p
    BY <1>0, <2>2 DEF Calls
  <2> HIDE DEF c
  <2>4. LocalOf(r, "delete", c)
    BY <1>0, <2>1, <2>2, <2>3 DEF LocalOf, AskedOf, HeldOf
  <2> QED
    BY <2>1, <2>3, <2>4, MoveKeeps DEF PCs
<1> QED
  BY <1>1, <1>2, <1>3

LEMMA EraseKeeps ==
  ASSUME IInv, NEW r \in Requests, EraseAccount(r)
  PROVE  IInv'
<1>0. /\ call[r].account \in Accounts /\ Linked(call[r].account) \subseteq {call[r].profile}
      /\ RowsOK /\ TablesInv
  BY Before DEF EraseAccount, LocalOf, AskedOf, HeldOf, TablesInv
<1>1. PICK a \in Accounts : a = call[r].account
  BY <1>0
<1>2. PICK rest \in {"tombstone", "erased"} :
        user' = [p \in Profiles |-> IF p = call[r].profile
                                    THEN [state |-> rest, account |-> NoAccount]
                                    ELSE [user[p] EXCEPT !.account = IF @ = a THEN NoAccount ELSE @]]
  BY <1>1 DEF EraseAccount
<1>3. /\ account' = [account EXCEPT ![a] = "erased"]
      /\ identity' = [s \in Subjects |-> IF identity[s] = a THEN NoAccount ELSE identity[s]]
      /\ Close(r) /\ UNCHANGED <<accepted, published>>
  BY <1>1 DEF EraseAccount
<1>4. \A p \in Profiles : user'[p] = IF p = call[r].profile THEN [state |-> rest, account |-> NoAccount]
                                                            ELSE user[p]
  <2> SUFFICES ASSUME NEW p \in Profiles, p # call[r].profile PROVE user'[p] = user[p]
    BY <1>2
  <2>1. user[p].account # a /\ user[p] \in Users
    BY <1>0, <1>1 DEF Linked, RowsOK
  <2>2. user'[p] = [user[p] EXCEPT !.account = user[p].account]
    BY <1>2, <2>1
  <2> QED
    BY <2>1, <2>2 DEF Users
<1>5. user' \in [Profiles -> Users]
  <2>1. \A p \in Profiles : user'[p] \in Users
    BY <1>0, <1>4 DEF RowsOK, Users, Owners
  <2> QED
    BY <1>2, <2>1
<1>6. RowsOK'
  BY <1>0, <1>3, <1>4, <1>5 DEF RowsOK, Owners
<1>7. NoOrphanAccounts'
  <2> SUFFICES ASSUME NEW b \in Accounts, account'[b] = "stored"
               PROVE  \E s \in Subjects : identity'[s] = b
    BY DEF NoOrphanAccounts
  <2>1. b # a /\ account[b] = "stored"
    BY <1>0, <1>3 DEF RowsOK
  <2> QED
    BY <1>0, <1>3, <2>1 DEF TablesInv, NoOrphanAccounts
<1>8. OneProfilePerAccount' /\ NoAbandonedProfile'
  BY <1>0, <1>4 DEF TablesInv, OneProfilePerAccount, NoAbandonedProfile
<1>9. TablesInv'
  BY <1>0, <1>3, <1>6, <1>7, <1>8 DEF TablesInv, VersionInv
<1>10. Considerate(r)
  BY <1>4, SentinelAssumption DEF Considerate
<1> QED
  BY <1>3, <1>9, <1>10, CloseKeeps

-----------------------------------------------------------------------------
(* The theorems.                                                           *)

LEMMA NextKeeps == IInv /\ [Next]_vars => IInv'
<1> SUFFICES ASSUME IInv, [Next]_vars PROVE IInv'
  OBVIOUS
<1>1. CASE UNCHANGED vars
  BY <1>1 DEF vars, IInv, TypeOK, TablesInv, RowsOK, VersionInv, NoOrphanAccounts, OneProfilePerAccount,
              NoAbandonedProfile, LocalOf, AskedOf, HeldOf, Linked
<1>2. CASE PublishTerms
  BY <1>2, PublishKeeps
<1>3. ASSUME NEW r \in Requests, Step(r) PROVE IInv'
  BY <1>3, ResolveKeeps, ProvisionKeeps, ChecksKeep, CreateKeeps, AcceptKeeps, LinkKeeps, LocksKeep, EraseKeeps DEF Step
<1>4. ASSUME NEW r \in Requests,
             \/ \E s \in Subjects, op \in Ops : Authenticate(r, s, op)
             \/ \E a \in Accounts : DeleteAccountData(r, a) \/ \E p \in Profiles : BeginLink(r, a, p)
      PROVE  IInv'
  BY <1>4, BeginKeeps
<1> QED
  BY <1>1, <1>2, <1>3, <1>4 DEF Next

LEMMA Invariance == Spec => []IInv
BY InitIInv, NextKeeps, PTL DEF Spec

\* However many first requests of one person run at once, no account is
\* committed without the identity that leads to it.
THEOREM AccountsHaveIdentities == Spec => []WellFormed
<1>1. IInv => WellFormed
  BY DEF IInv, TablesInv, WellFormed
<1> QED
  BY <1>1, Invariance, PTL

\* Onboarding twice, or while operators link, gives an account one user.
THEOREM OneProfile == Spec => []OneProfilePerAccount
<1>1. IInv => OneProfilePerAccount
  BY DEF IInv, TablesInv
<1> QED
  BY <1>1, Invariance, PTL

\* An erasure takes along every profile its person could have created
\* meanwhile.
THEOREM ErasureFindsTheProfile == Spec => []NoAbandonedProfile
<1>1. IInv => NoAbandonedProfile
  BY DEF IInv, TablesInv
<1> QED
  BY <1>1, Invariance, PTL

LEMMA AcceptOnce ==
  ASSUME IInv, [Next]_vars, NEW a \in Accounts, accepted'[a].writes # accepted[a].writes
  PROVE  accepted'[a].version > accepted[a].version
<1>1. ASSUME NEW r \in Requests, AcceptTerms(r) PROVE accepted'[a].version > accepted[a].version
  <2>1. /\ accepted \in [Accounts -> [version : Nat, writes : Nat]] /\ published \in Nat
        /\ accepted[a].version <= published
    BY BoundAssumption DEF IInv, TablesInv, RowsOK, VersionInv
  <2>2. /\ a = call[r].account /\ accepted[a].version # published
        /\ accepted' = [accepted EXCEPT ![a] = [version |-> published, writes |-> accepted[a].writes + 1]]
    BY <1>1, <2>1, AcceptFacts
  <2>3. accepted'[a].version = published /\ accepted[a].version \in Nat
    BY <2>1, <2>2
  <2> QED
    BY <2>1, <2>2, <2>3
<1>2. CASE UNCHANGED vars \/ PublishTerms
  BY <1>2 DEF vars, PublishTerms
<1>3. ASSUME NEW r \in Requests, Step(r), ~AcceptTerms(r) PROVE FALSE
  BY <1>3 DEF Step, ResolveAccount, ProvisionAccount, FindProfile, CreateProfile, CheckLink, LinkAccountToUser,
              LockAccount, LockUser, EraseAccount, rows
<1>4. ASSUME NEW r \in Requests,
             \/ \E s \in Subjects, op \in Ops : Authenticate(r, s, op)
             \/ \E b \in Accounts : DeleteAccountData(r, b) \/ \E p \in Profiles : BeginLink(r, b, p)
      PROVE  FALSE
  BY <1>4 DEF Authenticate, DeleteAccountData, BeginLink, Command, rows
<1> QED
  BY <1>1, <1>2, <1>3, <1>4 DEF Next

\* The time of an acceptance stands: a version is recorded once, however
\* often and at once it is accepted.
THEOREM AcceptancesStand == Spec => FirstAcceptanceStands
<1>1. IInv /\ [Next]_vars =>
        [\A a \in Accounts : accepted'[a].writes # accepted[a].writes
            => accepted'[a].version > accepted[a].version]_vars
  BY AcceptOnce
<1> QED
  BY <1>1, Invariance, PTL DEF Spec, FirstAcceptanceStands

-----------------------------------------------------------------------------
(* The refinement of AccountDirectory.  A request acts on what it has read  *)
(* earlier; the invariant says which of it is still so.                    *)

PromiseOf(l, c) ==
    /\ l \in {"find", "create"} => accepted[c.account].version = published
    /\ l \in {"check", "link"} => account[c.account] # "unused"
    /\ l \in {"lock_user", "delete"} => account[c.account] = "stored"
    /\ l = "delete" => c.profile = NoProfile \/ user[c.profile].account = c.account

DirectoryInv == IInv /\ \A r \in Requests : PromiseOf(pc[r], call[r])

\* What a step may do to the rows.
Registers(s, a) == /\ identity[s] = NoAccount /\ account[a] = "unused"
                   /\ account' = [account EXCEPT ![a] = "stored"]
                   /\ identity' = [identity EXCEPT ![s] = a]
                   /\ UNCHANGED <<accepted, user, published>>

Agrees(a) == /\ account[a] = "stored" /\ accepted[a].version # published
             /\ accepted' = [accepted EXCEPT ![a] = [version |-> published, writes |-> @.writes + 1]]
             /\ UNCHANGED <<account, identity, user, published>>

SignsUp(a, p) == /\ account[a] = "stored" /\ accepted[a].version = published /\ Linked(a) = {}
                 /\ user[p].state = "absent"
                 /\ user' = [user EXCEPT ![p] = [state |-> "active", account |-> a]]
                 /\ UNCHANGED <<account, identity, accepted, published>>

Links(a, p) == /\ account[a] = "stored" /\ Linked(a) \subseteq {p}
               /\ user[p].state \in {"active", "tombstone"} /\ UserFree(p)
               /\ user' = [user EXCEPT ![p] = [state |-> user[p].state, account |-> a]]
               /\ UNCHANGED <<account, identity, accepted, published>>

Erases(r, a, rest) ==
    /\ account[a] = "stored" /\ accountLock[a] = r
    /\ account' = [account EXCEPT ![a] = "erased"]
    /\ identity' = [s \in Subjects |-> IF identity[s] = a THEN NoAccount ELSE identity[s]]
    /\ user' = [p \in Profiles |-> IF user[p].account = a THEN [state |-> rest, account |-> NoAccount] ELSE user[p]]
    /\ UNCHANGED <<accepted, published>>

WritesOf(r) == \/ UNCHANGED rows
               \/ \E a \in Accounts :
                     \/ Agrees(a)
                     \/ \E s \in Subjects : Registers(s, a)
                     \/ \E p \in Profiles : SignsUp(a, p) \/ Links(a, p)
                     \/ \E rest \in {"tombstone", "erased"} : Erases(r, a, rest)

\* Each of them is an operation of the directory.
LEMMA WritesAreOperations ==
  ASSUME IInv, NEW r \in Requests, WritesOf(r)
  PROVE  [Directory!Next]_(Directory!vars)
<1>0. /\ account \in [Accounts -> {"unused", "stored", "erased"}] /\ identity \in [Subjects -> Owners]
      /\ user \in [Profiles -> Users] /\ accepted \in [Accounts -> [version : Nat, writes : Nat]] /\ published \in Nat
      /\ \A a \in Accounts : accepted[a].version <= published
      /\ Status = [p \in Profiles |-> user[p].state] /\ Owner = [p \in Profiles |-> user[p].account]
  BY BoundAssumption DEF IInv, TablesInv, RowsOK, VersionInv, Status, Owner
<1>1. \A a \in Accounts : Directory!ProfilesOf(a) = Linked(a)
  BY DEF Directory!ProfilesOf, Linked, Owner
<1>2. CASE UNCHANGED rows
  BY <1>2 DEF rows, Directory!vars, Registered, Gone, Status, Owner
<1>3. ASSUME NEW a \in Accounts, Agrees(a) PROVE Directory!Agree(a)
  <2>1. UNCHANGED <<Registered, Gone, Status, Owner>> /\ a \in Registered
    BY <1>3 DEF Agrees, Registered, Gone, Status, Owner
  <2>2. accepted[a].version < published
    BY <1>0, <1>3 DEF Agrees
  <2> QED
    BY <1>3, <2>1, <2>2 DEF Agrees, Directory!Agree
<1>4. ASSUME NEW a \in Accounts, NEW s \in Subjects, Registers(s, a) PROVE Directory!Register(s, a)
  <2>1. /\ Registered' = Registered \union {a} /\ Gone' = Gone /\ a \notin Registered \union Gone
        /\ UNCHANGED <<Status, Owner>>
    BY <1>0, <1>4 DEF Registers, Registered, Gone, Status, Owner
  <2> QED
    BY <1>4, <2>1 DEF Registers, Directory!Register
<1>5. ASSUME NEW p \in Profiles, NEW state, NEW b,
             user' = [user EXCEPT ![p] = [state |-> state, account |-> b]]
      PROVE  Status' = [Status EXCEPT ![p] = state] /\ Owner' = [Owner EXCEPT ![p] = b]
  BY <1>0, <1>5 DEF Status, Owner
<1>6. ASSUME NEW a \in Accounts, NEW p \in Profiles, SignsUp(a, p) PROVE Directory!SignUp(a, p)
  <2>1. UNCHANGED <<Registered, Gone>> /\ a \in Registered
    BY <1>6 DEF SignsUp, Registered, Gone
  <2>2. Status' = [Status EXCEPT ![p] = "active"] /\ Owner' = [Owner EXCEPT ![p] = a]
    BY <1>5, <1>6 DEF SignsUp
  <2> QED
    BY <1>0, <1>1, <1>6, <2>1, <2>2 DEF SignsUp, Directory!SignUp
<1>7. ASSUME NEW a \in Accounts, NEW p \in Profiles, Links(a, p) PROVE Directory!Link(a, p)
  <2>1. UNCHANGED <<Registered, Gone>> /\ a \in Registered
    BY <1>7 DEF Links, Registered, Gone
  <2>2. Status' = [Status EXCEPT ![p] = user[p].state] /\ Owner' = [Owner EXCEPT ![p] = a]
    BY <1>5, <1>7 DEF Links
  <2>3. Status' = Status /\ Status[p] \in {"active", "tombstone"}
    BY <1>0, <1>7, <2>2 DEF Links
  <2> QED
    BY <1>0, <1>1, <1>7, <2>1, <2>2, <2>3 DEF Links, Directory!Link
<1>8. ASSUME NEW a \in Accounts, NEW rest \in {"tombstone", "erased"}, Erases(r, a, rest)
      PROVE  Directory!Erase(a, rest)
  <2>1. Registered' = Registered \ {a} /\ Gone' = Gone \union {a} /\ a \in Registered
    BY <1>0, <1>8 DEF Erases, Registered, Gone
  <2>2. /\ Status' = [p \in Profiles |-> IF Owner[p] = a THEN rest ELSE Status[p]]
        /\ Owner' = [p \in Profiles |-> IF Owner[p] = a THEN NoAccount ELSE Owner[p]]
    BY <1>0, <1>8 DEF Erases, Status, Owner
  <2> QED
    BY <1>8, <2>1, <2>2 DEF Erases, Directory!Erase
<1> QED
  BY <1>2, <1>3, <1>4, <1>6, <1>7, <1>8 DEF WritesOf, Directory!Next

\* What the others rely on survives each of them.
LEMMA PromisesStay ==
  ASSUME DirectoryInv, NEW r \in Requests, WritesOf(r),
         NEW q \in Requests, q # r, pc'[q] = pc[q], call'[q] = call[q]
  PROVE  PromiseOf(pc[q], call[q])'
<1> DEFINE l == pc[q]  c == call[q]
<1>0. /\ account \in [Accounts -> {"unused", "stored", "erased"}]
      /\ user \in [Profiles -> Users] /\ accepted \in [Accounts -> [version : Nat, writes : Nat]]
      /\ \A p \in Profiles : user[p].state = "absent" => user[p].account = NoAccount
      /\ LocalOf(q, l, c) /\ PromiseOf(l, c) /\ c.profile \in Profiles \union {NoProfile}
      /\ l = "delete" => c.account # NoAccount
  BY SentinelAssumption DEF DirectoryInv, IInv, TypeOK, TablesInv, RowsOK, Calls, LocalOf, AskedOf
<1>1. published' = published
  BY DEF WritesOf, rows, Agrees, Registers, SignsUp, Links, Erases
<1>2. \A a \in Accounts : accepted[a].version = published => accepted'[a].version = published
  BY <1>0 DEF WritesOf, rows, Agrees, Registers, SignsUp, Links, Erases
<1>3. l \in {"lock_user", "delete"} => account'[c.account] = "stored"
  <2>1. l \in {"lock_user", "delete"} => /\ c.account \in Accounts /\ account[c.account] = "stored"
                                         /\ accountLock[c.account] = q
    BY <1>0 DEF LocalOf, AskedOf, HeldOf, PromiseOf
  <2> QED
    BY <1>0, <2>1 DEF WritesOf, rows, Agrees, Registers, SignsUp, Links, Erases
<1>4. ASSUME l = "delete", c.profile \in Profiles PROVE user'[c.profile].account = c.account
  <2>1. /\ user[c.profile].account = c.account /\ c.account \in Accounts /\ accountLock[c.account] = q
        /\ c.account # NoAccount /\ c.profile # NoProfile
    BY <1>0, <1>4, SentinelAssumption DEF LocalOf, AskedOf, HeldOf, PromiseOf
  <2>2. ASSUME NEW a \in Accounts, NEW p \in Profiles, SignsUp(a, p) PROVE user'[c.profile] = user[c.profile]
    BY <1>0, <2>1, <2>2 DEF SignsUp
  <2>3. ASSUME NEW a \in Accounts, NEW p \in Profiles, Links(a, p) PROVE user'[c.profile] = user[c.profile]
    BY <1>0, <1>4, <2>3 DEF Links, UserFree
  <2>4. ASSUME NEW a \in Accounts, NEW rest, Erases(r, a, rest) PROVE user'[c.profile] = user[c.profile]
    BY <1>4, <2>1, <2>4 DEF Erases
  <2>5. user'[c.profile] = user[c.profile]
    BY <2>2, <2>3, <2>4 DEF WritesOf, rows, Agrees, Registers
  <2> QED
    BY <2>1, <2>5
<1>5. l \in {"find", "create"} => accepted'[c.account].version = published'
  BY <1>0, <1>1, <1>2 DEF LocalOf, AskedOf, PromiseOf
<1>6. l = "delete" => c.profile = NoProfile \/ user'[c.profile].account = c.account
  BY <1>0, <1>4
<1>7. l \in {"check", "link"} => account'[c.account] # "unused"
  <2>1. l \in {"check", "link"} => c.account \in Accounts /\ account[c.account] # "unused"
    BY <1>0 DEF LocalOf, AskedOf, PromiseOf
  <2> QED
    BY <1>0, <2>1 DEF WritesOf, rows, Agrees, Registers, SignsUp, Links, Erases
<1> QED
  BY <1>3, <1>5, <1>6, <1>7 DEF PromiseOf

-----------------------------------------------------------------------------
(* The requests keep their own promises.                                   *)

LEMMA PromisesKept ==
  ASSUME DirectoryInv, NEW r \in Requests, NEW l, NEW c, IInv', WritesOf(r),
         pc' = [pc EXCEPT ![r] = l], call' = [call EXCEPT ![r] = c], PromiseOf(l, c)'
  PROVE  DirectoryInv' /\ [Directory!Next]_(Directory!vars)
<1>1. pc \in [Requests -> PCs] /\ call \in [Requests -> Calls]
  BY DEF DirectoryInv, IInv, TypeOK
<1>2. ASSUME NEW q \in Requests PROVE PromiseOf(pc[q], call[q])'
  <2>1. CASE q = r
    BY <1>1, <2>1
  <2>2. CASE q # r
    BY <1>1, <2>2, PromisesStay
  <2> QED
    BY <2>1, <2>2
<1> QED
  BY <1>2, WritesAreOperations DEF DirectoryInv

LEMMA ClosedImplements ==
  ASSUME DirectoryInv, NEW r \in Requests, IInv', WritesOf(r), Close(r)
  PROVE  DirectoryInv' /\ [Directory!Next]_(Directory!vars)
<1>1. PromiseOf("idle", NoCall)'
  BY DEF PromiseOf
<1> QED
  BY <1>1, PromisesKept DEF Close, Goto

\* A step that writes nothing and goes to a statement that promises nothing.
LEMMA NothingPromised ==
  ASSUME DirectoryInv, NEW r \in Requests, NEW l, NEW c, IInv', WritesOf(r),
         pc' = [pc EXCEPT ![r] = l], call' = [call EXCEPT ![r] = c],
         l \notin {"find", "create", "check", "link", "lock_user", "delete"}
  PROVE  DirectoryInv' /\ [Directory!Next]_(Directory!vars)
<1>1. PromiseOf(l, c)'
  BY DEF PromiseOf
<1> QED
  BY <1>1, PromisesKept

LEMMA ProceedImplements ==
  ASSUME DirectoryInv, NEW r \in Requests, NEW a, NEW version, IInv', WritesOf(r), UNCHANGED published,
         Proceed(r, a, version), version = published => accepted'[a].version = published
  PROVE  DirectoryInv' /\ [Directory!Next]_(Directory!vars)
<1>1. CASE Close(r)
  BY <1>1, ClosedImplements
<1>2. CASE ~Close(r)
  <2> DEFINE c == [call[r] EXCEPT !.account = a, !.version = version]
             l == IF call[r].op = "onboard" THEN "find" ELSE "accept"
  <2>1. call[r] \in Calls /\ call \in [Requests -> Calls]
    BY Before DEF DirectoryInv
  <2>2. c.account = a
    BY <2>1 DEF Calls
  <2>3. call' = [call EXCEPT ![r] = c] /\ pc' = [pc EXCEPT ![r] = l]
    <3>1. call' = [call EXCEPT ![r].account = a, ![r].version = version]
      BY <1>2 DEF Proceed
    <3>2. call' = [call EXCEPT ![r] = c]
      BY <2>1, <3>1 DEF Calls
    <3> QED
      BY <1>2, <3>2 DEF Proceed, Goto
  <2>4. l = "find" => version = published
    BY <1>2 DEF Proceed
  <2> HIDE DEF c
  <2>5. PICK d, m : d = c /\ m = l
    OBVIOUS
  <2>6. PromiseOf(m, d)'
    BY <2>2, <2>4, <2>5 DEF PromiseOf
  <2> QED
    BY <2>3, <2>5, <2>6, PromisesKept
<1> QED
  BY <1>1, <1>2

LEMMA SigningInImplements ==
  ASSUME DirectoryInv, NEW r \in Requests, IInv', ResolveAccount(r) \/ ProvisionAccount(r)
  PROVE  DirectoryInv' /\ [Directory!Next]_(Directory!vars)
<1>0. /\ LocalOf(r, pc[r], call[r]) /\ RowsOK /\ call = [call EXCEPT ![r] = call[r]]
      /\ published \in Nat /\ published # 0
  <2>1. RowsOK
    BY DEF DirectoryInv, IInv, TablesInv
  <2> QED
    BY <2>1, Before, BoundAssumption DEF DirectoryInv, RowsOK
<1>1. CASE ResolveAccount(r)
  <2> DEFINE a == identity[call[r].subject]
  <2>1. UNCHANGED rows /\ WritesOf(r)
    BY <1>1 DEF ResolveAccount, WritesOf
  <2>2. CASE Proceed(r, a, accepted[a].version)
    BY <2>1, <2>2, ProceedImplements DEF rows
  <2>3. CASE Goto(r, "provision") /\ UNCHANGED <<call, accountLock>>
    BY <1>0, <2>1, <2>3, NothingPromised DEF Goto
  <2>4. CASE Close(r)
    BY <2>1, <2>4, ClosedImplements
  <2> QED
    BY <1>1, <2>2, <2>3, <2>4 DEF ResolveAccount
<1>2. CASE ProvisionAccount(r)
  <2>0. call[r].subject \in Subjects /\ UNCHANGED <<accepted, user, published>>
    BY <1>0, <1>2 DEF ProvisionAccount, LocalOf, AskedOf
  <2>1. CASE Goto(r, "reselect") /\ UNCHANGED <<account, identity, call, accountLock>>
    <3>1. WritesOf(r)
      BY <2>0, <2>1 DEF WritesOf, rows
    <3> QED
      BY <1>0, <2>1, <3>1, NothingPromised DEF Goto
  <2>2. ASSUME NEW a \in Accounts, account[a] = "unused", identity[call[r].subject] = NoAccount,
               account' = [account EXCEPT ![a] = "stored"],
               identity' = [identity EXCEPT ![call[r].subject] = a],
               Proceed(r, a, 0)
        PROVE  DirectoryInv' /\ [Directory!Next]_(Directory!vars)
    <3>1. WritesOf(r)
      BY <2>0, <2>2 DEF WritesOf, Registers
    <3> QED
      BY <1>0, <2>0, <2>2, <3>1, ProceedImplements
  <2>3. CASE Close(r) /\ UNCHANGED <<account, identity>>
    <3>1. WritesOf(r)
      BY <2>0, <2>3 DEF WritesOf, rows
    <3> QED
      BY <2>3, <3>1, ClosedImplements
  <2> QED
    BY <1>2, <2>1, <2>2, <2>3 DEF ProvisionAccount
<1> QED
  BY <1>1, <1>2

LEMMA OnboardingImplements ==
  ASSUME DirectoryInv, NEW r \in Requests, IInv', FindProfile(r) \/ CreateProfile(r) \/ AcceptTerms(r)
  PROVE  DirectoryInv' /\ [Directory!Next]_(Directory!vars)
<1>0. /\ LocalOf(r, pc[r], call[r]) /\ PromiseOf(pc[r], call[r]) /\ call = [call EXCEPT ![r] = call[r]]
      /\ call[r].account \in Accounts /\ RowsOK
  <2>1. LocalOf(r, pc[r], call[r]) /\ PromiseOf(pc[r], call[r]) /\ call = [call EXCEPT ![r] = call[r]] /\ RowsOK
    BY Before DEF DirectoryInv, TablesInv
  <2> QED
    BY <2>1 DEF FindProfile, CreateProfile, AcceptTerms, LocalOf, AskedOf
<1>1. CASE FindProfile(r)
  <2>1. UNCHANGED rows /\ WritesOf(r) /\ pc[r] = "find"
    BY <1>1 DEF FindProfile, WritesOf
  <2>2. CASE Close(r)
    BY <2>1, <2>2, ClosedImplements
  <2>3. CASE ~Close(r)
    <3>1. pc' = [pc EXCEPT ![r] = "create"] /\ UNCHANGED call
      BY <1>1, <2>3 DEF FindProfile, Goto
    <3>2. PromiseOf("create", call[r])'
      BY <1>0, <2>1, <3>1 DEF PromiseOf, rows
    <3> QED
      BY <1>0, <2>1, <3>1, <3>2, PromisesKept
  <2> QED
    BY <2>2, <2>3
<1>2. CASE CreateProfile(r)
  <2>1. PICK a \in Accounts : a = call[r].account
    BY <1>0
  <2>2. Close(r) /\ accepted[a].version = published /\ UNCHANGED <<account, identity, accepted, published>>
    BY <1>0, <1>2, <2>1 DEF CreateProfile, PromiseOf
  <2>3. ASSUME NEW p \in Profiles, user[p].state = "absent", IndexAllows(p, a), account[a] = "stored",
               user' = [user EXCEPT ![p] = [state |-> "active", account |-> a]]
        PROVE  WritesOf(r)
    <3>1. user[p].account # a
      BY <1>0, <2>3, SentinelAssumption DEF RowsOK
    <3>2. Linked(a) = {}
      BY <2>3, <3>1 DEF IndexAllows, Linked
    <3>3. SignsUp(a, p)
      BY <2>2, <2>3, <3>2 DEF SignsUp
    <3> QED
      BY <3>3 DEF WritesOf
  <2>4. WritesOf(r)
    <3>1. CASE UNCHANGED user
      BY <2>2, <3>1 DEF WritesOf, rows
    <3> QED
      BY <1>2, <2>1, <2>3, <3>1 DEF CreateProfile
  <2> QED
    BY <2>2, <2>4, ClosedImplements
<1>3. CASE AcceptTerms(r)
  <2>1. PICK a \in Accounts : a = call[r].account
    BY <1>0
  <2>2. Close(r) /\ UNCHANGED <<account, identity, user, published>>
    BY <1>3 DEF AcceptTerms
  <2>3. WritesOf(r)
    <3>1. CASE UNCHANGED accepted
      BY <2>2, <3>1 DEF WritesOf, rows
    <3>2. CASE ~UNCHANGED accepted
      <4>1. Agrees(a)
        BY <1>0, <1>3, <2>1, <2>2, <3>2 DEF AcceptTerms, Accept, Agrees
      <4> QED
        BY <4>1 DEF WritesOf
    <3> QED
      BY <3>1, <3>2
  <2> QED
    BY <2>2, <2>3, ClosedImplements
<1> QED
  BY <1>1, <1>2, <1>3

LEMMA LinkingImplements ==
  ASSUME DirectoryInv, NEW r \in Requests, IInv', CheckLink(r) \/ LinkAccountToUser(r)
  PROVE  DirectoryInv' /\ [Directory!Next]_(Directory!vars)
<1>0. /\ LocalOf(r, pc[r], call[r]) /\ PromiseOf(pc[r], call[r]) /\ call = [call EXCEPT ![r] = call[r]]
      /\ RowsOK
  BY Before DEF DirectoryInv, TablesInv
<1>1. CASE CheckLink(r)
  <2>1. WritesOf(r) /\ UNCHANGED rows /\ pc[r] = "check"
    BY <1>1 DEF CheckLink, WritesOf
  <2>2. CASE Close(r)
    BY <2>1, <2>2, ClosedImplements
  <2>3. CASE ~Close(r)
    <3>1. pc' = [pc EXCEPT ![r] = "link"] /\ UNCHANGED call
      BY <1>1, <2>3 DEF CheckLink, Goto
    <3>2. PromiseOf("link", call[r])'
      BY <1>0, <2>1, <3>1 DEF PromiseOf, rows
    <3> QED
      BY <1>0, <2>1, <3>1, <3>2, PromisesKept
  <2> QED
    BY <2>2, <2>3
<1>2. CASE LinkAccountToUser(r)
  <2>1. /\ call[r].account \in Accounts /\ call[r].profile \in Profiles
        /\ user[call[r].profile].state # "absent"
    BY <1>0, <1>2 DEF LinkAccountToUser, LocalOf, AskedOf, HeldOf
  <2>2. PICK a \in Accounts, p \in Profiles : a = call[r].account /\ p = call[r].profile
    BY <2>1
  <2>3. Close(r) /\ UserFree(p) /\ UNCHANGED <<account, identity, accepted, published>>
    BY <1>2, <2>2 DEF LinkAccountToUser
  <2>4. CASE UNCHANGED user
    <3>1. WritesOf(r)
      BY <2>3, <2>4 DEF WritesOf, rows
    <3> QED
      BY <2>3, <3>1, ClosedImplements
  <2>5. CASE ~UNCHANGED user
    <3>1. /\ user[p].state # "erased" /\ account[a] # "erased" /\ IndexAllows(p, a)
          /\ user' = [user EXCEPT ![p].account = a]
      BY <1>2, <2>2, <2>5 DEF LinkAccountToUser
    <3>2. user[p] \in Users /\ user[p].state \in {"active", "tombstone"}
      BY <1>0, <2>1, <2>2, <3>1 DEF RowsOK, Users
    <3>3. user' = [user EXCEPT ![p] = [state |-> user[p].state, account |-> a]]
      <4>1. [user[p] EXCEPT !.account = a] = [state |-> user[p].state, account |-> a]
        BY <3>2 DEF Users
      <4>2. user' = [user EXCEPT ![p] = [user[p] EXCEPT !.account = a]]
        BY <3>1
      <4> QED
        BY <4>1, <4>2
    <3>4. account[a] = "stored"
      <4>1. pc[r] = "link"
        BY <1>2 DEF LinkAccountToUser
      <4> QED
        BY <1>0, <2>2, <3>1, <4>1 DEF PromiseOf, RowsOK
    <3>5. Links(a, p)
      BY <2>3, <3>1, <3>2, <3>3, <3>4 DEF Links, IndexAllows
    <3>6. WritesOf(r)
      BY <3>5 DEF WritesOf
    <3> QED
      BY <2>3, <3>6, ClosedImplements
  <2> QED
    BY <2>4, <2>5
<1> QED
  BY <1>1, <1>2

LEMMA BeginningImplements ==
  ASSUME DirectoryInv, NEW r \in Requests, IInv',
         \/ \E s \in Subjects, op \in Ops : Authenticate(r, s, op)
         \/ \E a \in Accounts : DeleteAccountData(r, a) \/ \E p \in Profiles : BeginLink(r, a, p)
  PROVE  DirectoryInv' /\ [Directory!Next]_(Directory!vars)
<1>1. UNCHANGED rows /\ WritesOf(r)
  BY DEF Authenticate, DeleteAccountData, BeginLink, Command, WritesOf
<1>2. ASSUME NEW s \in Subjects, NEW op \in Ops, Authenticate(r, s, op)
      PROVE  DirectoryInv' /\ [Directory!Next]_(Directory!vars)
  <2>1. /\ pc' = [pc EXCEPT ![r] = "resolve"]
        /\ call' = [call EXCEPT ![r] = [NoCall EXCEPT !.op = op, !.subject = s]]
    BY <1>2 DEF Authenticate, Goto
  <2> QED
    BY <1>1, <2>1, NothingPromised
<1>3. ASSUME NEW a \in Accounts, NEW op, NEW p, NEW l \in {"check", "lock"}, Command(r, op, a, p, l)
      PROVE  DirectoryInv' /\ [Directory!Next]_(Directory!vars)
  <2> DEFINE c == [NoCall EXCEPT !.op = op, !.account = a, !.profile = p]
  <2>1. pc' = [pc EXCEPT ![r] = l] /\ call' = [call EXCEPT ![r] = c] /\ account[a] = "stored"
    BY <1>3 DEF Command, Goto
  <2>2. c.account = a
    BY DEF NoCall
  <2> HIDE DEF c
  <2>3. PromiseOf(l, c)'
    BY <1>1, <2>1, <2>2 DEF PromiseOf, rows
  <2> QED
    BY <1>1, <2>1, <2>3, PromisesKept
<1>4. ASSUME NEW a \in Accounts, DeleteAccountData(r, a)
      PROVE  DirectoryInv' /\ [Directory!Next]_(Directory!vars)
  BY <1>3, <1>4 DEF DeleteAccountData
<1>5. ASSUME NEW a \in Accounts, NEW p \in Profiles, BeginLink(r, a, p)
      PROVE  DirectoryInv' /\ [Directory!Next]_(Directory!vars)
  BY <1>3, <1>5 DEF BeginLink
<1> QED
  BY <1>2, <1>4, <1>5

LEMMA ErasureImplements ==
  ASSUME DirectoryInv, NEW r \in Requests, IInv', LockAccount(r) \/ LockUser(r) \/ EraseAccount(r)
  PROVE  DirectoryInv' /\ [Directory!Next]_(Directory!vars)
<1>0. /\ LocalOf(r, pc[r], call[r]) /\ PromiseOf(pc[r], call[r]) /\ call = [call EXCEPT ![r] = call[r]]
      /\ call[r] \in Calls /\ call[r].account \in Accounts /\ RowsOK
  <2>1. /\ LocalOf(r, pc[r], call[r]) /\ PromiseOf(pc[r], call[r]) /\ call = [call EXCEPT ![r] = call[r]]
        /\ call[r] \in Calls /\ RowsOK
    BY Before DEF DirectoryInv, TablesInv
  <2> QED
    BY <2>1 DEF LockAccount, LockUser, EraseAccount, LocalOf, AskedOf
<1>1. CASE Close(r) /\ (LockAccount(r) \/ LockUser(r))
  <2>1. WritesOf(r)
    BY <1>1 DEF LockAccount, LockUser, WritesOf
  <2> QED
    BY <1>1, <2>1, ClosedImplements
<1>2. CASE LockAccount(r) /\ ~Close(r)
  <2>1. /\ pc' = [pc EXCEPT ![r] = "lock_user"] /\ UNCHANGED <<call, rows>>
        /\ account[call[r].account] = "stored"
    BY <1>2 DEF LockAccount, Goto
  <2>2. WritesOf(r) /\ PromiseOf("lock_user", call[r])'
    BY <2>1 DEF WritesOf, PromiseOf, rows
  <2> QED
    BY <1>0, <2>1, <2>2, PromisesKept
<1>3. CASE LockUser(r) /\ ~Close(r)
  <2> DEFINE a == call[r].account
             p == IF Linked(a) = {} THEN NoProfile ELSE CHOOSE q \in Linked(a) : TRUE
             c == [call[r] EXCEPT !.profile = p]
  <2>1. /\ pc[r] = "lock_user" /\ pc' = [pc EXCEPT ![r] = "delete"] /\ call' = [call EXCEPT ![r] = c]
        /\ UNCHANGED rows
    BY <1>3 DEF LockUser, Goto
  <2>2. p = NoProfile \/ user[p].account = a
    BY DEF Linked
  <2> HIDE DEF p
  <2>3. c.account = a /\ c.profile = p
    BY <1>0 DEF Calls
  <2> HIDE DEF c
  <2>4. account[a] = "stored"
    BY <1>0, <2>1 DEF PromiseOf
  <2>5. PICK d : d = c
    OBVIOUS
  <2>6. WritesOf(r) /\ PromiseOf("delete", d)'
    BY <2>1, <2>2, <2>3, <2>4, <2>5 DEF WritesOf, PromiseOf, rows
  <2> QED
    BY <2>1, <2>5, <2>6, PromisesKept
<1>4. CASE EraseAccount(r)
  <2>1. PICK a \in Accounts : a = call[r].account
    BY <1>0
  <2>2. PICK rest \in {"tombstone", "erased"} :
          user' = [p \in Profiles |-> IF p = call[r].profile
                                      THEN [state |-> rest, account |-> NoAccount]
                                      ELSE [user[p] EXCEPT !.account = IF @ = a THEN NoAccount ELSE @]]
    BY <1>4, <2>1 DEF EraseAccount
  <2>3. /\ pc[r] = "delete" /\ Close(r)
        /\ account' = [account EXCEPT ![a] = "erased"]
        /\ identity' = [s \in Subjects |-> IF identity[s] = a THEN NoAccount ELSE identity[s]]
        /\ UNCHANGED <<accepted, published>>
    BY <1>4, <2>1 DEF EraseAccount
  <2>4. /\ account[a] = "stored" /\ accountLock[a] = r /\ Linked(a) \subseteq {call[r].profile}
        /\ call[r].profile = NoProfile \/ user[call[r].profile].account = a
    BY <1>0, <2>1, <2>3 DEF PromiseOf, LocalOf, HeldOf
  <2>5. \A p \in Profiles : user'[p] = IF user[p].account = a THEN [state |-> rest, account |-> NoAccount]
                                                               ELSE user[p]
    <3> SUFFICES ASSUME NEW p \in Profiles
                 PROVE  user'[p] = IF user[p].account = a THEN [state |-> rest, account |-> NoAccount] ELSE user[p]
      OBVIOUS
    <3>1. p = call[r].profile <=> user[p].account = a
      BY <2>4, SentinelAssumption DEF Linked
    <3>2. CASE user[p].account = a
      BY <2>2, <3>1, <3>2
    <3>3. CASE user[p].account # a
      <4>1. user'[p] = [user[p] EXCEPT !.account = user[p].account] /\ user[p] \in Users
        BY <1>0, <2>2, <3>1, <3>3 DEF RowsOK
      <4> QED
        BY <3>3, <4>1 DEF Users
    <3> QED
      BY <3>2, <3>3
  <2>6. user' = [p \in Profiles |-> IF user[p].account = a THEN [state |-> rest, account |-> NoAccount] ELSE user[p]]
    BY <2>2, <2>5
  <2>7. Erases(r, a, rest)
    BY <2>3, <2>4, <2>6 DEF Erases
  <2>8. WritesOf(r)
    BY <2>7 DEF WritesOf
  <2> QED
    BY <2>3, <2>8, ClosedImplements
<1> QED
  BY <1>1, <1>2, <1>3, <1>4

LEMMA PublicationImplements ==
  ASSUME DirectoryInv, IInv', PublishTerms
  PROVE  DirectoryInv' /\ [Directory!Next]_(Directory!vars)
<1>1. \A r \in Requests : pc'[r] = "idle"
  BY DEF PublishTerms
<1>2. \A r \in Requests : PromiseOf(pc[r], call[r])'
  BY <1>1 DEF PromiseOf
<1>3. Directory!Publish
  BY DEF PublishTerms, Directory!Publish, Registered, Gone, Status, Owner
<1> QED
  BY <1>2, <1>3 DEF DirectoryInv, Directory!Next

LEMMA DirectorySteps ==
  ASSUME DirectoryInv, [Next]_vars
  PROVE  DirectoryInv' /\ [Directory!Next]_(Directory!vars)
<1>0. IInv'
  BY NextKeeps DEF DirectoryInv
<1>1. CASE UNCHANGED vars
  <2>1. \A r \in Requests : PromiseOf(pc[r], call[r])'
    BY <1>1 DEF vars, DirectoryInv, PromiseOf
  <2>2. UNCHANGED Directory!vars
    BY <1>1 DEF vars, Directory!vars, Registered, Gone, Status, Owner
  <2> QED
    BY <1>0, <2>1, <2>2 DEF DirectoryInv
<1>2. CASE PublishTerms
  BY <1>0, <1>2, PublicationImplements
<1>3. ASSUME NEW r \in Requests, Step(r) PROVE DirectoryInv' /\ [Directory!Next]_(Directory!vars)
  BY <1>0, <1>3, SigningInImplements, OnboardingImplements, LinkingImplements, ErasureImplements DEF Step
<1>4. ASSUME NEW r \in Requests,
             \/ \E s \in Subjects, op \in Ops : Authenticate(r, s, op)
             \/ \E a \in Accounts : DeleteAccountData(r, a) \/ \E p \in Profiles : BeginLink(r, a, p)
      PROVE  DirectoryInv' /\ [Directory!Next]_(Directory!vars)
  BY <1>0, <1>4, BeginningImplements
<1> QED
  BY <1>1, <1>2, <1>3, <1>4 DEF Next

LEMMA InitDirectory == Init => DirectoryInv /\ Directory!Init
<1> SUFFICES ASSUME Init PROVE DirectoryInv /\ Directory!Init
  OBVIOUS
<1>1. \A r \in Requests : PromiseOf(pc[r], call[r])
  BY DEF Init, PromiseOf
<1>2. Directory!Init
  BY DEF Init, Directory!Init, Registered, Gone, Status, Owner
<1> QED
  BY <1>1, <1>2, InitIInv DEF DirectoryInv

\* Requests and commands, however they overlap, implement the directory: each
\* commit is one whole operation on what is so at that moment.
THEOREM DirectoryImplementation == Spec => ImplementsDirectory
<1>1. Init => DirectoryInv /\ Directory!Init
  BY InitDirectory
<1>2. DirectoryInv /\ [Next]_vars => DirectoryInv' /\ [Directory!Next]_(Directory!vars)
  BY DirectorySteps
<1> QED
  BY <1>1, <1>2, PTL DEF Spec, ImplementsDirectory, Directory!Spec
=============================================================================
