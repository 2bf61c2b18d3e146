-------------------------- MODULE ProfileSyncProofs --------------------------
(***************************************************************************)
(* Proofs about ProfileSync for every set of accounts, requests, addresses *)
(* and user records.  The invariant says what an UPDATE that is not        *)
(* committed may count on: the row is locked, and the address it has put   *)
(* into the unique index stays free for it.                                *)
(***************************************************************************)
EXTENDS ProfileSync, TLAPS, SequenceTheorems, NaturalsInduction, WellFoundedInduction

-----------------------------------------------------------------------------
(* What is taken from the provider's record.                               *)

LEMMA SmallestOf ==
  ASSUME NEW S \in SUBSET Nat, S # {}
  PROVE  \E m \in S : \A n \in S : m <= n
<1> DEFINE Less == {p \in Nat \X Nat : p[1] < p[2]}
<1>1. IsWellFoundedOn(Less, Nat)
  BY NatLessThanWellFounded DEF OpToRel
<1>2. PICK m \in S : \A n \in S : ~(<<n, m>> \in Less)
  <2> HIDE DEF Less
  <2> QED
    BY <1>1, WFMin
<1>3. ASSUME NEW n \in S PROVE m <= n
  <2>1. <<n, m>> \in Nat \X Nat /\ <<n, m>>[1] = n /\ <<n, m>>[2] = m
    OBVIOUS
  <2>2. n < m => <<n, m>> \in Less
    BY <2>1
  <2> HIDE DEF Less
  <2> QED
    BY <1>2, <2>2
<1> QED
  BY <1>3

\* What the sort of the names by their provider puts first: it is stable, and
\* every list of accounts with a name has such a name.
LEMMA FirstExternal ==
  ASSUME NEW X \in Seq([provider : Nat, username : MaybeName, verified : BOOLEAN]),
         NEW ok \in SUBSET (1..Len(X)), ok # {}
  PROVE  \E i \in ok : \A j \in ok : \/ X[i].provider < X[j].provider
                                     \/ X[i].provider = X[j].provider /\ i <= j
<1>1. \A i \in ok : X[i] \in [provider : Nat, username : MaybeName, verified : BOOLEAN]
  <2> DEFINE R == [provider : Nat, username : MaybeName, verified : BOOLEAN]
  <2> SUFFICES ASSUME NEW i \in ok PROVE X[i] \in R
    OBVIOUS
  <2>1. X \in Seq(R) /\ i \in 1..Len(X)
    OBVIOUS
  <2> HIDE DEF R
  <2> QED
    BY <2>1, ElementOfSeq
<1>2. \A i \in ok : X[i].provider \in Nat /\ i \in Nat
  BY <1>1
<1> DEFINE P == {X[i].provider : i \in ok}
<1>3. PICK m \in P : \A n \in P : m <= n
  <2>1. P \in SUBSET Nat /\ P # {}
    BY <1>2
  <2> HIDE DEF P
  <2> QED
    BY <2>1, SmallestOf
<1> DEFINE Q == {i \in ok : X[i].provider = m}
<1>4. PICK i \in Q : \A j \in Q : i <= j
  <2>1. Q \in SUBSET Nat /\ Q # {}
    BY <1>2, <1>3
  <2> HIDE DEF Q, P
  <2> QED
    BY <2>1, SmallestOf
<1>5. ASSUME NEW j \in ok
      PROVE  X[i].provider < X[j].provider \/ (X[i].provider = X[j].provider /\ i <= j)
  <2>1. m <= X[j].provider /\ X[i].provider = m
    BY <1>3, <1>4
  <2>2. X[j].provider = m => i <= j
    BY <1>4
  <2> QED
    BY <1>2, <2>1, <2>2
<1> QED
  BY <1>4, <1>5

LEMMA ExternalUsernameType ==
  ASSUME NEW u \in Records
  PROVE  ExternalUsername(u) \in MaybeName
<1> DEFINE X == u.externals
           ok == {i \in 1..Len(X) : X[i].verified /\ X[i].username # NoName}
           First(i) == \A j \in ok : \/ X[i].provider < X[j].provider
                                     \/ X[i].provider = X[j].provider /\ i <= j
<1>1. X \in Seq([provider : Nat, username : MaybeName, verified : BOOLEAN])
  BY DEF Records
<1>2. CASE ok = {}
  BY <1>2 DEF ExternalUsername, MaybeName
<1>3. CASE ok # {}
  <2>1. \E i \in ok : First(i)
    <3>1. ok \in SUBSET (1..Len(X))
      OBVIOUS
    <3> HIDE DEF X, ok
    <3> QED
      BY <3>1, <1>1, <1>3, FirstExternal
  <2>2. (CHOOSE i \in ok : First(i)) \in ok
    <3> HIDE DEF First, ok
    <3> QED
      BY <2>1
  <2>3. ExternalUsername(u) = X[CHOOSE i \in ok : First(i)].username
    BY <1>3 DEF ExternalUsername
  <2>4. \A i \in ok : X[i].username \in MaybeName
    <3> DEFINE R == [provider : Nat, username : MaybeName, verified : BOOLEAN]
    <3>1. \A x \in R : x.username \in MaybeName
      OBVIOUS
    <3>2. X \in Seq(R)
      BY <1>1
    <3>3. \A i \in ok : i \in 1..Len(X)
      OBVIOUS
    <3> HIDE DEF R, X, ok
    <3> QED
      BY <3>1, <3>2, <3>3, ElementOfSeq
  <2> HIDE DEF First, ok, X
  <2> QED
    BY <2>2, <2>3, <2>4
<1> QED
  BY <1>2, <1>3

LEMMA PresentType ==
  ASSUME NEW n \in MaybeName
  PROVE  Present(n) \in Seq(Names)
BY DEF Present, MaybeName

\* A profile has values of its kind, and no address but a verified primary one.
LEMMA Extracted ==
  ASSUME NEW u \in Records
  PROVE  /\ ExtractClerkProfile(u) \in Profiles
         /\ ExtractClerkProfile(u).email \in Verified(u) \union {NoEmail}
<1> DEFINE username == IF u.username # NoName THEN u.username ELSE ExternalUsername(u)
           parts    == IF u.full # NoName THEN <<u.full>> ELSE Present(u.first) \o Present(u.last)
           display  == IF parts = <<>> THEN Present(username) ELSE parts
<1>1. username \in MaybeName
  BY ExternalUsernameType DEF Records
<1>2. parts \in Seq(Names)
  <2>1. u.full # NoName => <<u.full>> \in Seq(Names)
    BY DEF Records, MaybeName
  <2>2. Present(u.first) \o Present(u.last) \in Seq(Names)
    BY PresentType, ConcatProperties DEF Records
  <2> QED
    BY <2>1, <2>2
<1>3. display \in Seq(Names)
  BY <1>1, <1>2, PresentType
<1>4. PrimaryVerifiedEmail(u) \in Verified(u) \union {NoEmail} /\ PrimaryVerifiedEmail(u) \in MaybeEmail
  BY DEF PrimaryVerifiedEmail, Verified, Records, MaybeEmail
<1>5. ExtractClerkProfile(u) = [email |-> PrimaryVerifiedEmail(u), username |-> username, display |-> display]
  BY DEF ExtractClerkProfile
<1> HIDE DEF username, parts, display
<1> QED
  BY <1>1, <1>3, <1>4, <1>5 DEF Profiles

-----------------------------------------------------------------------------
(* The invariant.                                                          *)

Writing == {"check", "email", "save"}

\* What the provider calls verified has been verified.
ProvenInv == \A a \in Accounts : Verified(clerk[a]) \subseteq proven[a]

TablesInv == /\ row \in [Accounts -> [state : {"stored", "erased"}, profile : Profiles]]
             /\ synced \in [Accounts -> BOOLEAN]
             /\ EmailsAreUnique /\ EmailsWereVerified

\* The entry of a request in the unique index that is not committed yet.
Entered(c) == "email" \in c.wrote

\* What a request has read is an address its person had verified.
ReadOf(l, c) == l \notin {"idle", "refused"} =>
                   /\ c.account \in Accounts
                   /\ c.read.email \in proven[c.account] \union {NoEmail}
                   /\ c.profile.email \in proven[c.account] \union {NoEmail}

\* An UPDATE locks the row, and an address entered is not committed elsewhere.
HeldOf(r, l, c) == /\ c.wrote # {} => rowLock[c.account] = r /\ l \in Writing
                   /\ l = "email" => c.profile.email # NoEmail
                   /\ l = "save" /\ c.profile.email \notin {NoEmail, c.read.email} => Entered(c)
                   /\ c.restore => l = "save" /\ c.profile.email = c.read.email
                   /\ Entered(c) => /\ l = "save" /\ c.profile.email # NoEmail
                                    /\ ~OwnedByAnother(c.account, c.profile.email)

LocalOf(r, l, c) == ReadOf(l, c) /\ HeldOf(r, l, c)

\* Two accounts never have the same address entered.
EntriesInv == \A q, r \in Requests :
    Entered(call[q]) /\ Entered(call[r]) /\ call[q].account # call[r].account
        => call[q].profile.email # call[r].profile.email

IInv == /\ TypeOK /\ TablesInv /\ ProvenInv /\ EntriesInv
        /\ \A r \in Requests : LocalOf(r, pc[r], call[r])

LEMMA Constants == /\ Blank \in Profiles /\ NoCall \in Calls /\ "idle" \in PCs
                   /\ NoCall.wrote = {} /\ ~NoCall.restore /\ Blank.email = NoEmail
                   /\ \A r \in Requests, l \in {"idle", "refused"} : LocalOf(r, l, NoCall)
<1>1. Blank \in Profiles
  BY DEF Blank, Profiles, MaybeEmail, MaybeName
<1>2. NoCall \in Calls
  BY <1>1 DEF NoCall, Calls
<1> QED
  BY <1>1, <1>2 DEF NoCall, Blank, PCs, LocalOf, ReadOf, HeldOf, Entered

\* What the provider holds verified is an address.
LEMMA VerifiedType ==
  ASSUME NEW u \in ClerkUsers
  PROVE  u \in Records /\ Verified(u) \in SUBSET Emails
BY ClerkUsersAssumption DEF Records, Verified

LEMMA InitIInv == Init => IInv
<1> SUFFICES ASSUME Init PROVE IInv
  OBVIOUS
<1>1. row \in [Accounts -> [state : {"stored", "erased"}, profile : Profiles]]
      /\ \A a \in Accounts : row[a].profile.email = NoEmail
  BY Constants DEF Init
<1>2. clerk \in [Accounts -> ClerkUsers]
  BY ClerkUsersAssumption DEF Init
<1>3. proven \in [Accounts -> SUBSET Emails] /\ ProvenInv
  BY <1>2, VerifiedType DEF Init, ProvenInv
<1>4. TypeOK
  BY <1>1, <1>2, <1>3, Constants, BoundAssumption DEF Init, TypeOK
<1>5. TablesInv
  BY <1>1, <1>4 DEF Init, TypeOK, TablesInv, EmailsAreUnique, EmailsWereVerified
<1>6. EntriesInv
  BY Constants DEF Init, EntriesInv, Entered
<1> QED
  BY <1>3, <1>4, <1>5, <1>6, Constants DEF Init, IInv

-----------------------------------------------------------------------------
(* A step of one request.                                                  *)

\* Locks change hands for the request only, and only on its row.
RequestStep(r, l, c) ==
    /\ pc' = [pc EXCEPT ![r] = l]
    /\ call' = [call EXCEPT ![r] = c]
    /\ UNCHANGED outside
    /\ rowLock' \in [Accounts -> Requests \union {NoRequest}]
    /\ \A a \in Accounts : /\ rowLock[a] \in Requests \ {r} => rowLock'[a] = rowLock[a]
                           /\ rowLock'[a] \in {rowLock[a], r, NoRequest}
                           /\ rowLock'[a] = r => c.account = a /\ l \in Writing

\* No address that another request has entered is committed.
Considerate(r) == \A q \in Requests \ {r} :
    Entered(call[q]) => \A b \in Accounts \ {call[q].account} : row'[b].profile.email # call[q].profile.email

\* No address is entered that another request has entered.
Distinct(r, c) == \A q \in Requests \ {r} :
    Entered(c) /\ Entered(call[q]) /\ c.account # call[q].account => c.profile.email # call[q].profile.email

LEMMA StepKeeps ==
  ASSUME IInv, NEW r \in Requests, NEW l \in PCs, NEW c \in Calls, RequestStep(r, l, c), Considerate(r),
         Distinct(r, c), TablesInv', LocalOf(r, l, c)'
  PROVE  IInv'
<1>1. /\ pc'[r] = l /\ call'[r] = c
      /\ pc' \in [Requests -> PCs] /\ call' \in [Requests -> Calls]
      /\ \A q \in Requests \ {r} : pc'[q] = pc[q] /\ call'[q] = call[q]
  BY DEF IInv, TypeOK, RequestStep
<1>2. \A a \in Accounts : rowLock'[a] # NoRequest
         => call'[rowLock'[a]].account = a /\ pc'[rowLock'[a]] \in Writing
  <2> TAKE a \in Accounts
  <2>1. CASE rowLock'[a] = r
    BY <2>1, <1>1 DEF RequestStep
  <2>2. CASE rowLock'[a] # r /\ rowLock'[a] # NoRequest
    <3>1. rowLock'[a] = rowLock[a] /\ rowLock[a] \in Requests \ {r}
      BY <2>2 DEF RequestStep, IInv, TypeOK
    <3> QED
      BY <2>2, <3>1, <1>1 DEF IInv, TypeOK, Writing
  <2> QED
    BY <2>1, <2>2
<1>3. TypeOK'
  BY <1>1, <1>2 DEF IInv, TypeOK, RequestStep, TablesInv, outside, Writing
<1>4. ProvenInv'
  BY DEF IInv, ProvenInv, RequestStep, outside
<1>5. ASSUME NEW q \in Requests, q # r PROVE LocalOf(q, pc[q], call[q])'
  <2>1. pc'[q] = pc[q] /\ call'[q] = call[q] /\ proven' = proven
    BY <1>5, <1>1 DEF RequestStep, outside
  <2>2. LocalOf(q, pc[q], call[q])
    BY DEF IInv
  <2>3. call[q].wrote # {} => rowLock'[call[q].account] = q
    <3> SUFFICES ASSUME call[q].wrote # {} PROVE rowLock'[call[q].account] = q
      OBVIOUS
    <3>1. rowLock[call[q].account] = q /\ pc[q] # "idle" /\ call[q].account \in Accounts
      BY <2>2 DEF LocalOf, HeldOf, ReadOf, Writing
    <3> QED
      BY <1>5, <3>1 DEF RequestStep
  <2> QED
    BY <1>5, <2>1, <2>2, <2>3 DEF LocalOf, ReadOf, HeldOf, Considerate, OwnedByAnother
<1>6. \A q \in Requests : LocalOf(q, pc[q], call[q])'
  <2> TAKE q \in Requests
  <2>1. CASE q = r
    BY <2>1, <1>1
  <2> QED
    BY <2>1, <1>5
<1>7. EntriesInv'
  <2> SUFFICES ASSUME NEW q \in Requests, NEW p \in Requests,
                      Entered(call'[q]), Entered(call'[p]), call'[q].account # call'[p].account
               PROVE  call'[q].profile.email # call'[p].profile.email
    BY DEF EntriesInv, Entered
  <2>1. CASE q # r /\ p # r
    BY <2>1, <1>1 DEF IInv, EntriesInv
  <2>2. CASE q = r \/ p = r
    BY <2>2, <1>1 DEF Distinct
  <2> QED
    BY <2>1, <2>2
<1> QED
  BY <1>3, <1>4, <1>6, <1>7 DEF IInv

LEMMA Before ==
  ASSUME IInv, NEW r \in Requests
  PROVE  /\ pc \in [Requests -> PCs] /\ call \in [Requests -> Calls] /\ call[r] \in Calls
         /\ call = [call EXCEPT ![r] = call[r]]
         /\ rowLock \in [Accounts -> Requests \union {NoRequest}]
         /\ \A a \in Accounts : rowLock[a] = r => call[r].account = a /\ pc[r] \in Writing
         /\ LocalOf(r, pc[r], call[r]) /\ TablesInv
         /\ r # NoRequest
BY SentinelAssumption DEF IInv, TypeOK, Writing

LEMMA RowsStay ==
  ASSUME IInv, UNCHANGED <<rows, outside>>, NEW r \in Requests
  PROVE  TablesInv' /\ Considerate(r)
<1>1. row' = row /\ synced' = synced /\ proven' = proven
  BY DEF rows, outside
<1>2. TablesInv'
  BY <1>1 DEF IInv, TablesInv, EmailsAreUnique, EmailsWereVerified
<1>3. Considerate(r)
  BY <1>1 DEF IInv, LocalOf, HeldOf, Considerate, OwnedByAnother
<1> QED
  BY <1>2, <1>3

\* A step that leaves the tables alone, and locks the row at most.
LEMMA MoveKeeps ==
  ASSUME IInv, NEW r \in Requests, NEW l \in PCs, NEW c \in Calls,
         pc' = [pc EXCEPT ![r] = l], call' = [call EXCEPT ![r] = c], UNCHANGED <<rows, outside>>,
         pc[r] \in Writing => l \in Writing,
         pc[r] = "idle" \/ c.account = call[r].account,
         \/ UNCHANGED rowLock
         \/ l \in Writing /\ CanLock(r, c.account) /\ rowLock' = [rowLock EXCEPT ![c.account] = r],
         ReadOf(l, c), HeldOf(r, l, c)', Distinct(r, c)
  PROVE  IInv'
<1>1. RequestStep(r, l, c)
  <2>1. rowLock' \in [Accounts -> Requests \union {NoRequest}]
    BY Before
  <2>2. ASSUME NEW a \in Accounts
        PROVE  /\ rowLock[a] \in Requests \ {r} => rowLock'[a] = rowLock[a]
               /\ rowLock'[a] \in {rowLock[a], r, NoRequest}
               /\ rowLock'[a] = r => c.account = a /\ l \in Writing
    <3>1. CASE UNCHANGED rowLock
      BY <3>1, Before DEF Writing
    <3>2. CASE l \in Writing /\ CanLock(r, c.account) /\ rowLock' = [rowLock EXCEPT ![c.account] = r]
      BY <3>2, Before DEF CanLock, Writing
    <3> QED
      BY <3>1, <3>2
  <2> QED
    BY <2>1, <2>2 DEF RequestStep
<1>2. LocalOf(r, l, c)'
  BY DEF LocalOf, ReadOf, outside
<1> QED
  BY <1>1, <1>2, RowsStay, StepKeeps

\* The end of a transaction.
LEMMA LeaveKeeps ==
  ASSUME IInv, NEW r \in Requests, NEW l \in {"idle", "refused"}, Leave(r, l),
         UNCHANGED outside, Considerate(r), TablesInv'
  PROVE  IInv'
<1>1. RequestStep(r, l, NoCall)
  BY Before DEF RequestStep, Leave, Goto
<1>2. LocalOf(r, l, NoCall)'
  BY Constants DEF LocalOf, ReadOf, HeldOf, Entered
<1>3. Distinct(r, NoCall)
  BY Constants DEF Distinct, Entered
<1> QED
  BY <1>1, <1>2, <1>3, Constants, StepKeeps DEF PCs

LEMMA CloseKeeps ==
  ASSUME IInv, NEW r \in Requests, Close(r), UNCHANGED outside, Considerate(r), TablesInv'
  PROVE  IInv'
BY LeaveKeeps DEF Close

LEMMA RefuseKeeps ==
  ASSUME IInv, NEW r \in Requests, Refuse(r), UNCHANGED <<rows, outside>>
  PROVE  IInv'
<1>1. UNCHANGED outside /\ Leave(r, "refused")
  BY DEF Refuse
<1> QED
  BY <1>1, RowsStay, LeaveKeeps

LEMMA RollbackKeeps ==
  ASSUME IInv, NEW r \in Requests, Rollback(r)
  PROVE  IInv'
<1>1. Close(r) /\ UNCHANGED <<rows, outside>>
  BY DEF Rollback
<1>2. UNCHANGED outside
  BY <1>1
<1> QED
  BY <1>1, <1>2, RowsStay, CloseKeeps

-----------------------------------------------------------------------------
(* Reading.                                                                *)

LEMMA AuthenticateKeeps ==
  ASSUME IInv, NEW r \in Requests, NEW a \in Accounts, Authenticate(r, a)
  PROVE  IInv'
<1>1. PICK c \in Calls : c = [NoCall EXCEPT !.account = a]
  BY Constants DEF Calls, NoCall
<1>2. c.account = a /\ c.wrote = {} /\ ~c.restore /\ c.read.email = NoEmail /\ c.profile.email = NoEmail
  BY <1>1 DEF NoCall, Blank
<1>3. /\ pc[r] = "idle" /\ pc' = [pc EXCEPT ![r] = "read"] /\ call' = [call EXCEPT ![r] = c]
      /\ UNCHANGED <<rows, outside>> /\ UNCHANGED rowLock
  BY <1>1 DEF Authenticate, Goto
<1>4. ReadOf("read", c) /\ HeldOf(r, "read", c)' /\ Distinct(r, c)
  BY <1>2 DEF ReadOf, HeldOf, Distinct, Entered
<1> QED
  BY <1>3, <1>4, MoveKeeps DEF PCs, Writing

LEMMA ReadAccountKeeps ==
  ASSUME IInv, NEW r \in Requests, ReadAccount(r)
  PROVE  IInv'
<1> DEFINE a == call[r].account
<1>1. pc[r] = "read" /\ UNCHANGED <<rows, outside>> /\ UNCHANGED outside
  BY DEF ReadAccount
<1>2. CASE Close(r)
  BY <1>1, <1>2, RowsStay, CloseKeeps
<1>3. CASE ~Close(r)
  <2>1. /\ a \in Accounts /\ call[r].wrote = {} /\ ~call[r].restore
        /\ call[r].profile.email \in proven[a] \union {NoEmail}
    BY <1>1, Before DEF LocalOf, ReadOf, HeldOf, Writing
  <2>2. row[a].profile \in Profiles /\ row[a].profile.email \in proven[a] \union {NoEmail}
    BY <2>1 DEF IInv, TablesInv, EmailsWereVerified
  <2>3. PICK c \in Calls : c = [call[r] EXCEPT !.read = row[a].profile]
    BY <2>2, Before DEF Calls
  <2>4. c.account = a /\ c.wrote = {} /\ ~c.restore /\ c.read = row[a].profile /\ c.profile = call[r].profile
    BY <2>1, <2>3, Before DEF Calls
  <2>5. pc' = [pc EXCEPT ![r] = "fetch"] /\ call' = [call EXCEPT ![r] = c] /\ UNCHANGED rowLock
    BY <1>3, <2>3, Before DEF ReadAccount, Goto
  <2>6. ReadOf("fetch", c) /\ HeldOf(r, "fetch", c)' /\ Distinct(r, c)
    BY <2>1, <2>2, <2>4 DEF ReadOf, HeldOf, Distinct, Entered
  <2> QED
    BY <1>1, <2>4, <2>5, <2>6, MoveKeeps DEF PCs, Writing
<1> QED
  BY <1>2, <1>3

LEMMA FetchProfileKeeps ==
  ASSUME IInv, NEW r \in Requests, FetchProfile(r)
  PROVE  IInv'
<1> DEFINE a == call[r].account
           p == ExtractClerkProfile(clerk[a])
<1>1. pc[r] = "fetch" /\ UNCHANGED <<rows, outside>> /\ UNCHANGED rowLock
  BY DEF FetchProfile
<1>2. a \in Accounts /\ call[r].wrote = {} /\ ~call[r].restore /\ call[r].read.email \in proven[a] \union {NoEmail}
  BY <1>1, Before DEF LocalOf, ReadOf, HeldOf, Writing
<1>3. p \in Profiles /\ p.email \in proven[a] \union {NoEmail}
  <2>1. clerk[a] \in ClerkUsers /\ Verified(clerk[a]) \subseteq proven[a]
    BY <1>2 DEF IInv, TypeOK, ProvenInv
  <2> QED
    BY <2>1, VerifiedType, Extracted
<1>4. PICK c \in Calls : c = [call[r] EXCEPT !.profile = p]
  BY <1>3, Before DEF Calls
<1>5. c.account = a /\ c.wrote = {} /\ ~c.restore /\ c.read = call[r].read /\ c.profile = p
  BY <1>2, <1>4, Before DEF Calls
<1>6. pc' = [pc EXCEPT ![r] = "names"] /\ call' = [call EXCEPT ![r] = c]
  BY <1>4, Before DEF FetchProfile, Goto
<1> HIDE DEF p
<1>7. ReadOf("names", c) /\ HeldOf(r, "names", c)' /\ Distinct(r, c)
  BY <1>2, <1>3, <1>5 DEF ReadOf, HeldOf, Distinct, Entered
<1> QED
  BY <1>1, <1>5, <1>6, <1>7, MoveKeeps DEF PCs, Writing

-----------------------------------------------------------------------------
(* Writing.                                                                *)

\* What a request that writes has read, and what its UPDATEs hold.
LEMMA WriterHas ==
  ASSUME IInv, NEW r \in Requests, pc[r] \notin {"idle", "refused"}
  PROVE  /\ call[r].account \in Accounts
         /\ call[r].read.email \in proven[call[r].account] \union {NoEmail}
         /\ call[r].profile.email \in proven[call[r].account] \union {NoEmail}
         /\ call[r].read \in Profiles /\ call[r].profile \in Profiles
         /\ call[r].wrote # {} => rowLock[call[r].account] = r /\ pc[r] \in Writing
         /\ pc[r] # "save" => ~Entered(call[r]) /\ ~call[r].restore
BY Before DEF LocalOf, ReadOf, HeldOf, Calls

LEMMA WriteNamesKeeps ==
  ASSUME IInv, NEW r \in Requests, WriteNames(r)
  PROVE  IInv'
<1>0. CASE Refuse(r)
  BY <1>0, RefuseKeeps DEF WriteNames
<1> SUFFICES ASSUME ~Refuse(r) PROVE IInv'
  BY <1>0
<1>1. pc[r] = "names" /\ UNCHANGED <<rows, outside>> /\ pc' = [pc EXCEPT ![r] = "check"]
  BY DEF WriteNames, Goto
<1>2. call[r].wrote = {}
  BY <1>1, WriterHas DEF Writing
<1>3. CASE UNCHANGED <<call, rowLock>>
  <2>1. call' = [call EXCEPT ![r] = call[r]] /\ UNCHANGED rowLock
    BY <1>3, Before
  <2>2. ReadOf("check", call[r]) /\ HeldOf(r, "check", call[r])' /\ Distinct(r, call[r])
    BY <1>1, <1>2, <1>3, Before DEF LocalOf, ReadOf, HeldOf, Distinct, Entered
  <2> QED
    BY <1>1, <2>1, <2>2, Before, MoveKeeps DEF PCs, Writing
<1>4. CASE ~UNCHANGED <<call, rowLock>>
  <2>1. PICK c \in Calls : c = [call[r] EXCEPT !.wrote = {"names"}]
    BY Before DEF Calls
  <2>2. /\ c.account = call[r].account /\ c.wrote = {"names"} /\ c.restore = call[r].restore
        /\ c.read = call[r].read /\ c.profile = call[r].profile
    BY <2>1, Before DEF Calls
  <2>3. /\ call' = [call EXCEPT ![r] = c] /\ CanLock(r, c.account)
        /\ rowLock' = [rowLock EXCEPT ![c.account] = r]
    BY <1>4, <2>1, <2>2, Before DEF WriteNames
  <2>4. c.account \in Accounts
    BY <1>1, <2>2, WriterHas
  <2>5. ReadOf("check", c) /\ HeldOf(r, "check", c)' /\ Distinct(r, c)
    BY <1>1, <2>2, <2>3, <2>4, WriterHas, Before DEF ReadOf, HeldOf, Distinct, Entered, Writing
  <2> QED
    BY <1>1, <2>2, <2>3, <2>5, MoveKeeps DEF PCs, Writing
<1> QED
  BY <1>3, <1>4

\* d is c with another address to write.
WithEmail(c, d, f) == /\ d.account = c.account /\ d.wrote = c.wrote /\ d.read = c.read /\ d.profile.email = f

LEMMA EmailReplaced ==
  ASSUME NEW c \in Calls, NEW f \in MaybeEmail
  PROVE  /\ \E d \in Calls : d = [c EXCEPT !.profile.email = f] /\ WithEmail(c, d, f) /\ d.restore = c.restore
         /\ \E d \in Calls : d = [c EXCEPT !.profile.email = f, !.restore = TRUE] /\ WithEmail(c, d, f)
<1>1. c.profile \in Profiles
  BY DEF Calls
<1>2. [c.profile EXCEPT !.email = f] \in Profiles /\ [c.profile EXCEPT !.email = f].email = f
  BY <1>1 DEF Profiles
<1>3. ASSUME NEW q \in Profiles, q.email = f
      PROVE  /\ \A d \in {[c EXCEPT !.profile = q], [c EXCEPT !.profile = q, !.restore = TRUE]} :
                   d \in Calls /\ WithEmail(c, d, f)
             /\ [c EXCEPT !.profile = q].restore = c.restore
  BY <1>3 DEF Calls, WithEmail
<1> QED
  BY <1>2, <1>3

LEMMA CheckEmailKeeps ==
  ASSUME IInv, NEW r \in Requests, CheckEmail(r)
  PROVE  IInv'
<1> DEFINE e == call[r].profile.email
           f == IF e = NoEmail THEN e ELSE call[r].read.email
<1>1. pc[r] = "check" /\ UNCHANGED <<rows, outside>> /\ UNCHANGED rowLock
  BY DEF CheckEmail
<1>2. CASE e = NoEmail \/ OwnedByAnother(call[r].account, e)
  <2>0. f \in MaybeEmail
    BY <1>1, WriterHas DEF Profiles
  <2>1. PICK c \in Calls : /\ c = [call[r] EXCEPT !.profile.email = f] /\ WithEmail(call[r], c, f)
                          /\ c.restore = call[r].restore
    BY <2>0, EmailReplaced, Before
  <2>2. /\ c.account = call[r].account /\ c.wrote = call[r].wrote /\ c.restore = call[r].restore
        /\ c.read = call[r].read /\ c.profile.email = f
    BY <2>1 DEF WithEmail
  <2>3. pc' = [pc EXCEPT ![r] = "save"] /\ call' = [call EXCEPT ![r] = c]
    BY <1>2, <2>1, Before DEF CheckEmail, Goto
  <2>4. ReadOf("save", c) /\ HeldOf(r, "save", c)' /\ Distinct(r, c)
    BY <1>1, <2>2, WriterHas DEF ReadOf, HeldOf, Distinct, Entered, Writing
  <2> QED
    BY <1>1, <2>2, <2>3, <2>4, MoveKeeps DEF PCs, Writing
<1>3. CASE ~(e = NoEmail \/ OwnedByAnother(call[r].account, e))
  <2>1. pc' = [pc EXCEPT ![r] = "email"] /\ call' = [call EXCEPT ![r] = call[r]] /\ UNCHANGED call
    BY <1>3, Before DEF CheckEmail, Goto
  <2>2. ReadOf("email", call[r]) /\ HeldOf(r, "email", call[r])' /\ Distinct(r, call[r])
    BY <1>1, <1>3, <2>1, WriterHas DEF ReadOf, HeldOf, Distinct, Entered, Writing
  <2> QED
    BY <1>1, <2>1, <2>2, Before, MoveKeeps DEF PCs, Writing
<1> QED
  BY <1>2, <1>3

LEMMA WriteEmailKeeps ==
  ASSUME IInv, NEW r \in Requests, WriteEmail(r)
  PROVE  IInv'
<1> DEFINE a == call[r].account
           e == call[r].profile.email
           f == call[r].read.email
<1>0. CASE Refuse(r)
  BY <1>0, RefuseKeeps DEF WriteEmail
<1> SUFFICES ASSUME ~Refuse(r) PROVE IInv'
  BY <1>0
<1>1. pc[r] = "email" /\ UNCHANGED <<rows, outside>> /\ pc' = [pc EXCEPT ![r] = "save"] /\ UNCHANGED row
  BY DEF WriteEmail, Goto, rows
<1>2. e # NoEmail /\ ~Entered(call[r]) /\ ~call[r].restore /\ a \in Accounts
  BY <1>1, WriterHas, Before DEF LocalOf, HeldOf
<1>3. CASE e = f
  <2>1. call' = [call EXCEPT ![r] = call[r]] /\ UNCHANGED <<call, rowLock>>
    BY <1>3, Before DEF WriteEmail
  <2>2. ReadOf("save", call[r]) /\ HeldOf(r, "save", call[r])' /\ Distinct(r, call[r])
    BY <1>1, <1>2, <1>3, <2>1, WriterHas DEF ReadOf, HeldOf, Distinct, Entered, Writing
  <2> QED
    BY <1>1, <2>1, <2>2, Before, MoveKeeps DEF PCs, Writing
<1>4. CASE e # f /\ IndexRefuses(a, e)
  <2>0. f \in MaybeEmail
    BY <1>1, WriterHas DEF Profiles
  <2>1. PICK c \in Calls : /\ c = [call[r] EXCEPT !.profile.email = f, !.restore = TRUE]
                          /\ WithEmail(call[r], c, f)
    BY <2>0, EmailReplaced, Before
  <2>2. c.account = a /\ c.wrote = call[r].wrote /\ c.read = call[r].read /\ c.profile.email = f
    BY <2>1 DEF WithEmail
  <2>3. call' = [call EXCEPT ![r] = c] /\ UNCHANGED rowLock
    BY <1>4, <2>1, Before DEF WriteEmail
  <2>4. ReadOf("save", c) /\ HeldOf(r, "save", c)' /\ Distinct(r, c)
    BY <1>1, <1>2, <2>2, <2>3, WriterHas DEF ReadOf, HeldOf, Distinct, Entered, Writing
  <2> QED
    BY <1>1, <2>2, <2>3, <2>4, MoveKeeps DEF PCs, Writing
<1>5. CASE e # f /\ ~IndexRefuses(a, e)
  <2>1. PICK c \in Calls : c = [call[r] EXCEPT !.wrote = @ \union {"email"}]
    BY Before DEF Calls
  <2>2. /\ c.account = a /\ c.restore = call[r].restore /\ Entered(c)
        /\ c.read = call[r].read /\ c.profile = call[r].profile
    BY <2>1, Before DEF Calls, Entered
  <2>3. /\ call' = [call EXCEPT ![r] = c] /\ CanLock(r, c.account) /\ ~EntryPending(r, e)
        /\ rowLock' = [rowLock EXCEPT ![c.account] = r]
    BY <1>5, <2>1, <2>2, Before DEF WriteEmail
  <2>4. rowLock'[a] = r
    BY <1>2, <2>2, <2>3, Before
  <2>5. \A b \in Accounts \ {a} : row'[b].profile.email # e
    BY <1>1, <1>5 DEF IndexRefuses, OwnedByAnother
  <2>6. ReadOf("save", c)
    BY <1>1, <2>2, WriterHas DEF ReadOf
  <2>7. HeldOf(r, "save", c)'
    BY <1>2, <2>2, <2>4, <2>5 DEF HeldOf, OwnedByAnother, Writing
  <2>8. Distinct(r, c)
    BY <2>2, <2>3 DEF Distinct, EntryPending, Entered
  <2> QED
    BY <1>1, <2>2, <2>3, <2>6, <2>7, <2>8, MoveKeeps DEF PCs, Writing
<1> QED
  BY <1>3, <1>4, <1>5

LEMMA SaveKeeps ==
  ASSUME IInv, NEW r \in Requests, Save(r)
  PROVE  IInv'
<1> DEFINE c == call[r]
           a == c.account
           e == c.profile.email
           q == Columns(c, row[a].profile)
<1>0. CASE Refuse(r) /\ UNCHANGED rows
  BY <1>0, RefuseKeeps DEF Save
<1> SUFFICES ASSUME ~(Refuse(r) /\ UNCHANGED rows) PROVE IInv'
  BY <1>0
<1>1. /\ pc[r] = "save" /\ Close(r) /\ UNCHANGED outside
      /\ e # NoEmail /\ WritesEmail(c) => ~IndexRefuses(a, e) /\ ~EntryPending(r, e)
      /\ synced' = [synced EXCEPT ![a] = TRUE]
  BY DEF Save
<1>2. a \in Accounts /\ c.read \in Profiles /\ c.profile \in Profiles /\ e \in proven[a] \union {NoEmail}
  BY <1>1, WriterHas
<1>3. row' = [row EXCEPT ![a] = [@ EXCEPT !.profile = q]]
  <2>1. row' = [row EXCEPT ![a].profile = q]
    BY DEF Save
  <2> QED
    BY <2>1
<1>4. q \in Profiles /\ q.email = IF WritesEmail(c) THEN e ELSE row[a].profile.email
  <2>1. row[a].profile \in Profiles
    BY <1>2 DEF IInv, TablesInv
  <2> QED
    BY <1>2, <2>1 DEF Columns, Profiles
<1> HIDE DEF q
<1>5. /\ row' \in [Accounts -> [state : {"stored", "erased"}, profile : Profiles]]
      /\ row'[a].profile = q /\ \A b \in Accounts \ {a} : row'[b] = row[b]
  BY <1>2, <1>3, <1>4 DEF IInv, TablesInv
<1>6. q.email # NoEmail => \A b \in Accounts \ {a} : row[b].profile.email # q.email
  BY <1>1, <1>2, <1>4 DEF IndexRefuses, OwnedByAnother, IInv, TablesInv, EmailsAreUnique
<1>7. EmailsAreUnique'
  BY <1>5, <1>6 DEF IInv, TablesInv, EmailsAreUnique
<1>8. EmailsWereVerified'
  BY <1>1, <1>2, <1>4, <1>5 DEF IInv, TablesInv, EmailsWereVerified, outside
<1>9. TablesInv'
  BY <1>1, <1>5, <1>7, <1>8 DEF IInv, TablesInv
<1>10. Considerate(r)
  <2> SUFFICES ASSUME NEW p \in Requests \ {r}, Entered(call[p]),
                      NEW b \in Accounts \ {call[p].account}
               PROVE  row'[b].profile.email # call[p].profile.email
    BY DEF Considerate
  <2>1. call[p].profile.email # NoEmail /\ row[b].profile.email # call[p].profile.email
    BY DEF IInv, LocalOf, HeldOf, OwnedByAnother
  <2>2. b = a /\ WritesEmail(c) => e # call[p].profile.email
    BY <1>1, <2>1 DEF EntryPending, Entered
  <2> QED
    BY <1>4, <1>5, <2>1, <2>2
<1> QED
  BY <1>1, <1>9, <1>10, CloseKeeps

LEMMA StepIInv ==
  ASSUME IInv, NEW r \in Requests, Step(r)
  PROVE  IInv'
<1>1. CASE FetchFails(r) \/ PersistFails(r)
  BY <1>1, RollbackKeeps DEF FetchFails, PersistFails
<1>2. CASE ~(FetchFails(r) \/ PersistFails(r))
  BY <1>2, ReadAccountKeeps, FetchProfileKeeps, WriteNamesKeeps, CheckEmailKeeps, WriteEmailKeeps, SaveKeeps
     DEF Step, Write
<1> QED
  BY <1>1, <1>2

-----------------------------------------------------------------------------
(* The world around the requests.                                          *)

\* A step of nobody's request keeps what the requests rely on.
LEMMA WorldKeeps ==
  ASSUME IInv, UNCHANGED <<rowLock, pc, call>>, TablesInv', ProvenInv',
         clerk' \in [Accounts -> ClerkUsers], changes' \in 0..MaxChanges, proven' \in [Accounts -> SUBSET Emails],
         \A a \in Accounts : proven[a] \subseteq proven'[a],
         \A a \in Accounts : row'[a].profile.email \in {row[a].profile.email, NoEmail}
  PROVE  IInv'
<1>1. TypeOK'
  BY DEF IInv, TypeOK, TablesInv
<1>2. ASSUME NEW r \in Requests PROVE LocalOf(r, pc[r], call[r])'
  <2>1. LocalOf(r, pc[r], call[r]) /\ (pc[r] \notin {"idle", "refused"} => call[r].account \in Accounts)
    BY DEF IInv, LocalOf, ReadOf
  <2>2. ReadOf(pc[r], call[r])'
    BY <2>1 DEF LocalOf, ReadOf
  <2>3. HeldOf(r, pc[r], call[r])'
    BY <2>1 DEF LocalOf, HeldOf, Entered, OwnedByAnother
  <2> QED
    BY <2>2, <2>3 DEF LocalOf
<1>3. EntriesInv'
  BY DEF IInv, EntriesInv, Entered
<1> QED
  BY <1>1, <1>2, <1>3 DEF IInv

LEMMA ClerkChangesKeeps ==
  ASSUME IInv, NEW a \in Accounts, NEW u \in ClerkUsers, ClerkChanges(a, u)
  PROVE  IInv'
<1>1. /\ UNCHANGED <<rowLock, pc, call>> /\ row' = row /\ synced' = synced
      /\ clerk' = [clerk EXCEPT ![a] = u] /\ proven' = [proven EXCEPT ![a] = @ \union Verified(u)]
      /\ changes < MaxChanges /\ changes' = changes + 1
  BY DEF ClerkChanges, rows
<1>2. /\ clerk' \in [Accounts -> ClerkUsers] /\ proven' \in [Accounts -> SUBSET Emails]
      /\ changes' \in 0..MaxChanges /\ \A b \in Accounts : proven[b] \subseteq proven'[b]
  BY <1>1, VerifiedType, BoundAssumption DEF IInv, TypeOK
<1>3. ProvenInv'
  BY <1>1 DEF IInv, TypeOK, ProvenInv
<1>4. TablesInv'
  BY <1>1, <1>2 DEF IInv, TablesInv, EmailsAreUnique, EmailsWereVerified
<1> QED
  BY <1>1, <1>2, <1>3, <1>4, WorldKeeps

LEMMA IntervalPassesKeeps ==
  ASSUME IInv, NEW a \in Accounts, IntervalPasses(a)
  PROVE  IInv'
<1>1. /\ UNCHANGED <<rowLock, pc, call>> /\ row' = row
      /\ synced' = [synced EXCEPT ![a] = FALSE]
      /\ clerk' = clerk /\ proven' = proven /\ changes' = changes
  BY DEF IntervalPasses, outside
<1>2. TablesInv' /\ ProvenInv'
  BY <1>1 DEF IInv, TablesInv, EmailsAreUnique, EmailsWereVerified, ProvenInv
<1> QED
  BY <1>1, <1>2, WorldKeeps DEF IInv, TypeOK

LEMMA EraseAccountKeeps ==
  ASSUME IInv, NEW a \in Accounts, EraseAccount(a)
  PROVE  IInv'
<1>1. /\ UNCHANGED <<rowLock, pc, call>> /\ synced' = synced
      /\ row' = [row EXCEPT ![a] = [state |-> "erased", profile |-> Blank]]
      /\ clerk' = clerk /\ proven' = proven /\ changes' = changes
  BY DEF EraseAccount, outside
<1>2. /\ row' \in [Accounts -> [state : {"stored", "erased"}, profile : Profiles]]
      /\ row'[a].profile.email = NoEmail /\ \A b \in Accounts \ {a} : row'[b] = row[b]
  BY <1>1, Constants DEF IInv, TablesInv
<1>3. EmailsAreUnique' /\ EmailsWereVerified'
  BY <1>1, <1>2 DEF IInv, TablesInv, EmailsAreUnique, EmailsWereVerified
<1>4. TablesInv' /\ ProvenInv'
  BY <1>1, <1>2, <1>3 DEF IInv, TablesInv, ProvenInv
<1>5. \A b \in Accounts : row'[b].profile.email \in {row[b].profile.email, NoEmail}
  BY <1>2
<1> QED
  BY <1>1, <1>4, <1>5, WorldKeeps DEF IInv, TypeOK

LEMMA NextKeeps == IInv /\ [Next]_vars => IInv'
<1> SUFFICES ASSUME IInv, [Next]_vars PROVE IInv'
  OBVIOUS
<1>1. CASE UNCHANGED vars
  BY <1>1 DEF vars, IInv, TypeOK, TablesInv, ProvenInv, EntriesInv, LocalOf, ReadOf, HeldOf, Entered,
              OwnedByAnother, EmailsAreUnique, EmailsWereVerified
<1>2. CASE Next
  BY <1>2, StepIInv, AuthenticateKeeps, IntervalPassesKeeps, EraseAccountKeeps, ClerkChangesKeeps DEF Next
<1> QED
  BY <1>1, <1>2

LEMMA Invariance == Spec => []IInv
<1> QED
  BY InitIInv, NextKeeps, PTL DEF Spec

-----------------------------------------------------------------------------
(* Theorems.                                                               *)

\* The state invariant of the profiles: two accounts never show one address,
\* and an account shows no address but one its person had verified, however
\* many requests apply whatever the provider answered them.
THEOREM UniqueAndVerified == Spec => []WellFormed
<1>1. IInv => WellFormed
  BY DEF IInv, TablesInv, WellFormed
<1> QED
  BY <1>1, Invariance, PTL

\* Where a statement is refused there is no account any more, or the request
\* writes back an address that has gone to another account since it was read.
THEOREM NamesOutliveTheAddress == Spec => OnlyTheAddressIsLost
<1> DEFINE Excused(r) == \/ ~Stored(r)
                         \/ call[r].restore /\ OwnedByAnother(call[r].account, call[r].read.email)
           Excusable == \A r \in Requests : pc[r] # "refused" /\ pc'[r] = "refused" => Excused(r)
<1>1. ASSUME IInv, [Next]_vars PROVE [Excusable]_vars
  <2>1. CASE UNCHANGED vars
    BY <2>1
  <2>2. CASE Next
    <3> SUFFICES ASSUME NEW r \in Requests, pc[r] # "refused", pc'[r] = "refused"
                 PROVE  Excused(r)
      OBVIOUS
    <3>1. pc \in [Requests -> PCs]
      BY <1>1 DEF IInv, TypeOK
    <3>2. WriteNames(r) \/ WriteEmail(r) \/ Save(r)
      <4>1. ASSUME NEW q \in Requests, NEW a \in Accounts, Authenticate(q, a) PROVE FALSE
        BY <3>1, <4>1 DEF Authenticate, Goto
      <4>2. ASSUME NEW a \in Accounts,
                   IntervalPasses(a) \/ EraseAccount(a) \/ \E u \in ClerkUsers : ClerkChanges(a, u)
            PROVE  FALSE
        BY <4>2 DEF IntervalPasses, EraseAccount, ClerkChanges
      <4>3. PICK q \in Requests : Step(q)
        BY <2>2, <4>1, <4>2 DEF Next
      <4>4. \E l \in PCs : pc' = [pc EXCEPT ![q] = l]
        BY <4>3 DEF Step, Write, ReadAccount, FetchProfile, FetchFails, WriteNames, CheckEmail, WriteEmail, Save,
                    PersistFails, Rollback, Close, Refuse, Leave, Goto, PCs
      <4>5. q = r
        BY <3>1, <4>4
      <4> QED
        BY <3>1, <4>3, <4>5 DEF Step, Write, ReadAccount, FetchProfile, FetchFails, CheckEmail, PersistFails,
                                Rollback, Close, Leave, Goto
    <3>3. CASE WriteNames(r)
      BY <3>1, <3>3 DEF WriteNames, Goto
    <3>4. CASE WriteEmail(r)
      BY <3>1, <3>4 DEF WriteEmail, Goto
    <3>5. CASE Save(r)
      <4> DEFINE c == call[r]
                 a == c.account
                 e == c.profile.email
      <4> SUFFICES ASSUME Stored(r) PROVE c.restore /\ OwnedByAnother(a, c.read.email)
        OBVIOUS
      <4>1. pc[r] = "save" /\ e # NoEmail /\ WritesEmail(c) /\ OwnedByAnother(a, e)
        BY <3>1, <3>5 DEF Save, Close, Leave, Goto, IndexRefuses
      <4>2. HeldOf(r, "save", c)
        BY <1>1, <4>1 DEF IInv, LocalOf
      <4>3. ~Entered(c) /\ e = c.read.email
        BY <4>1, <4>2 DEF HeldOf
      <4> QED
        BY <4>1, <4>3 DEF WritesEmail, Entered
    <3> HIDE DEF Excused
    <3> QED
      BY <3>2, <3>3, <3>4, <3>5
  <2> QED
    BY <1>1, <2>1, <2>2
<1> QED
  BY <1>1, Invariance, PTL DEF Spec, OnlyTheAddressIsLost

\* A request that waits for the provider has locked no account.
NothingHeldForClerk == \A r \in Requests, a \in Accounts : pc[r] = "fetch" => rowLock[a] # r

\* Whatever the provider's delay, nobody waits for a row lock meanwhile.
THEOREM ClerkHoldsNoLock == Spec => []NothingHeldForClerk
<1>1. IInv => NothingHeldForClerk
  BY SentinelAssumption DEF IInv, TypeOK, NothingHeldForClerk
<1> QED
  BY <1>1, Invariance, PTL

\* The SELECT before it and the savepoint around it leave nothing to chance:
\* an address entered behind the savepoint is refused to nobody but others.
EnteredIsFree == \A r \in Requests : Entered(call[r])
    => ~IndexRefuses(call[r].account, call[r].profile.email) /\ ~EntryPending(r, call[r].profile.email)

\* The commit of an address that was entered does not fail for the address.
THEOREM EntriesCommit == Spec => []EnteredIsFree
<1>1. IInv => EnteredIsFree
  BY DEF IInv, LocalOf, HeldOf, EntriesInv, EnteredIsFree, IndexRefuses, EntryPending, Entered
<1> QED
  BY <1>1, Invariance, PTL
=============================================================================
