------------------------- MODULE AccountProvisioning -------------------------
(***************************************************************************)
(* How a signed-in person gets an account, accepts the terms and gets a    *)
(* user row (auth.py, terms.py, main.py), how an operator links an account *)
(* to an imported user (link_account.py), and the erasure of the account   *)
(* (account_data.py).  Every operation runs in a READ COMMITTED            *)
(* transaction of its own; what protects it is a unique index, a foreign   *)
(* key, or SELECT ... FOR UPDATE on the account (acceptance and erasure).  *)
(***************************************************************************)
EXTENDS Naturals

CONSTANTS Subjects,      \* verified subjects of the identity provider
          Accounts,      \* primary keys of accounts, each drawn once
          Profiles,      \* primary keys of users
          Imported,      \* the users the legacy import created
          Requests, NoAccount, NoProfile, NoSubject, NoRequest,
          MaxVersion     \* bounds the published versions of the terms

ASSUME SentinelAssumption == /\ NoAccount \notin Accounts
                             /\ NoProfile \notin Profiles
                             /\ NoSubject \notin Subjects
                             /\ NoRequest \notin Requests
ASSUME ImportAssumption == Imported \subseteq Profiles
ASSUME BoundAssumption == MaxVersion \in Nat \ {0}

VARIABLES
    account,      \* the rows of accounts
    identity,     \* account_identities: the account of a subject
    accepted,     \* terms_version, and history: how often it was written
    user,         \* the rows of users
    published,    \* CURRENT_TERMS_VERSION of the running process
    accountLock,  \* the request holding FOR UPDATE on an account row
    pc,           \* the statement a request executes next
    call          \* what a request was asked and has read

vars == <<account, identity, accepted, user, published, accountLock, pc, call>>

Owners == Accounts \union {NoAccount}
Users  == [state : {"absent", "active", "tombstone", "erased"}, account : Owners]
Ops    == {"idle", "visit", "onboard", "accept", "link", "erase"}
PCs    == {"idle", "resolve", "provision", "reselect", "find", "create", "accept",
           "check", "link", "lock", "lock_user", "delete"}
Calls  == [op : Ops, subject : Subjects \union {NoSubject}, account : Owners,
           profile : Profiles \union {NoProfile}, version : Nat]

NoCall == [op |-> "idle", subject |-> NoSubject, account |-> NoAccount,
           profile |-> NoProfile, version |-> 0]

\* Every row and request holds values of its kind; what was erased is linked
\* to nothing.
TypeOK == /\ account \in [Accounts -> {"unused", "stored", "erased"}]
          /\ identity \in [Subjects -> Owners]
          /\ accepted \in [Accounts -> [version : Nat, writes : Nat]]
          /\ user \in [Profiles -> Users]
          /\ published \in 1..MaxVersion
          /\ accountLock \in [Accounts -> Requests \union {NoRequest}]
          /\ pc \in [Requests -> PCs]
          /\ call \in [Requests -> Calls]
          /\ \A p \in Profiles : user[p].state \in {"absent", "erased"} => user[p].account = NoAccount

Init == /\ account = [a \in Accounts |-> "unused"]
        /\ identity = [s \in Subjects |-> NoAccount]
        /\ accepted = [a \in Accounts |-> [version |-> 0, writes |-> 0]]
        /\ user = [p \in Profiles |-> [state |-> IF p \in Imported THEN "active" ELSE "absent",
                                       account |-> NoAccount]]
        /\ published = 1
        /\ accountLock = [a \in Accounts |-> NoRequest]
        /\ pc = [r \in Requests |-> "idle"]
        /\ call = [r \in Requests |-> NoCall]

-----------------------------------------------------------------------------
rows == <<account, identity, accepted, user, published>>

Free(a) == accountLock[a] = NoRequest
Linked(a) == {p \in Profiles : user[p].account = a}

\* The erasure holds FOR UPDATE on the user row it found.
UserFree(p) == \A q \in Requests : ~(pc[q] = "delete" /\ call[q].profile = p)

Goto(r, l) == pc' = [pc EXCEPT ![r] = l]

Close(r) == /\ Goto(r, "idle")
            /\ call' = [call EXCEPT ![r] = NoCall]
            /\ accountLock' = [a \in Accounts |-> IF accountLock[a] = r THEN NoRequest ELSE accountLock[a]]

Rollback(r) == Close(r) /\ UNCHANGED rows

-----------------------------------------------------------------------------
(* Signing in.                                                             *)

Authenticate(r, s, op) == /\ pc[r] = "idle"
                          /\ op \in {"visit", "onboard", "accept"}
                          /\ Goto(r, "resolve")
                          /\ call' = [call EXCEPT ![r] = [NoCall EXCEPT !.op = op, !.subject = s]]
                          /\ UNCHANGED <<rows, accountLock>>

\* The route behind the authentication starts with the account as it was
\* read; get_terms_accepted_account turns away who has not accepted.
Proceed(r, a, version) ==
    IF call[r].op = "visit" \/ (call[r].op = "onboard" /\ version # published)
    THEN Close(r)
    ELSE /\ call' = [call EXCEPT ![r].account = a, ![r].version = version]
         /\ Goto(r, IF call[r].op = "onboard" THEN "find" ELSE "accept")
         /\ UNCHANGED accountLock

\* SELECT the account of the subject, before and after a lost race.
ResolveAccount(r) ==
    LET a == identity[call[r].subject] IN
    /\ pc[r] \in {"resolve", "reselect"}
    /\ \/ a # NoAccount /\ Proceed(r, a, accepted[a].version)
       \/ a = NoAccount /\ pc[r] = "resolve" /\ Goto(r, "provision") /\ UNCHANGED <<call, accountLock>>
       \/ a = NoAccount /\ pc[r] = "reselect" /\ Close(r)
    /\ UNCHANGED rows

\* Mutant: the account is committed before its identity is inserted.
ProvisionInTwoCommits(r) ==
    /\ pc[r] = "provision"
    /\ \/ \E a \in {b \in Accounts : account[b] = "unused"} :
             /\ account' = [account EXCEPT ![a] = "stored"]
             /\ IF identity[call[r].subject] = NoAccount
                THEN identity' = [identity EXCEPT ![call[r].subject] = a] /\ Proceed(r, a, 0)
                ELSE Goto(r, "reselect") /\ UNCHANGED <<identity, call, accountLock>>
       \/ (\A a \in Accounts : account[a] # "unused") /\ Close(r) /\ UNCHANGED <<account, identity>>
    /\ UNCHANGED <<accepted, user, published>>

\* INSERT the account and its identity behind a savepoint, and commit.  When
\* another request was first, the savepoint takes both back.
ProvisionAccount(r) ==
    /\ pc[r] = "provision"
    /\ \/ /\ identity[call[r].subject] # NoAccount
          /\ Goto(r, "reselect")
          /\ UNCHANGED <<account, identity, call, accountLock>>
       \/ /\ identity[call[r].subject] = NoAccount
          /\ \E a \in {b \in Accounts : account[b] = "unused"} :
                /\ account' = [account EXCEPT ![a] = "stored"]
                /\ identity' = [identity EXCEPT ![call[r].subject] = a]
                /\ Proceed(r, a, 0)
       \/ /\ \A a \in Accounts : account[a] # "unused"       \* bound: no key left
          /\ Close(r)
          /\ UNCHANGED <<account, identity>>
    /\ UNCHANGED <<accepted, user, published>>

-----------------------------------------------------------------------------
(* Onboarding and terms.                                                   *)

FindProfile(r) == /\ pc[r] = "find"
                  /\ IF Linked(call[r].account) # {}
                     THEN Close(r)
                     ELSE Goto(r, "create") /\ UNCHANGED <<call, accountLock>>
                  /\ UNCHANGED rows

\* uq_users_account_id, asked before a user row p gets the account a.
IndexAllows(p, a) == Linked(a) \subseteq {p}

\* INSERT and commit; the foreign key waits for an erasure and then refuses.
CreateProfile(r) ==
    LET a == call[r].account IN
    /\ pc[r] = "create"
    /\ Free(a)
    /\ \/ /\ account[a] = "stored"
          /\ \E p \in {q \in Profiles : user[q].state = "absent" /\ IndexAllows(q, a)} :
                user' = [user EXCEPT ![p] = [state |-> "active", account |-> a]]
       \/ /\ account[a] = "erased" \/ \A p \in Profiles : user[p].state = "absent" => ~IndexAllows(p, a)
          /\ UNCHANGED user
    /\ Close(r)
    /\ UNCHANGED <<account, identity, accepted, published>>

Accept(r) == accepted' = [accepted EXCEPT ![call[r].account] = [version |-> published, writes |-> @.writes + 1]]

\* Mutant: the account is not read again under the lock.
AcceptAsRead(r) == /\ pc[r] = "accept"
                   /\ Free(call[r].account)
                   /\ IF account[call[r].account] = "stored" /\ call[r].version # published
                      THEN Accept(r)
                      ELSE UNCHANGED accepted
                   /\ Close(r)
                   /\ UNCHANGED <<account, identity, user, published>>

\* SELECT ... FOR UPDATE with populate_existing, UPDATE, commit.
AcceptTerms(r) == /\ pc[r] = "accept"
                  /\ Free(call[r].account)
                  /\ IF account[call[r].account] = "stored" /\ accepted[call[r].account].version # published
                     THEN Accept(r)
                     ELSE UNCHANGED accepted
                  /\ Close(r)
                  /\ UNCHANGED <<account, identity, user, published>>

\* A deployment with new terms starts a new process when the old one is gone.
PublishTerms == /\ published < MaxVersion
                /\ \A r \in Requests : pc[r] = "idle"
                /\ published' = published + 1
                /\ UNCHANGED <<account, identity, accepted, user, accountLock, pc, call>>

-----------------------------------------------------------------------------
(* The operator's commands.                                                *)

Command(r, op, a, p, l) == /\ pc[r] = "idle"
                           /\ account[a] = "stored"
                           /\ Goto(r, l)
                           /\ call' = [call EXCEPT ![r] = [NoCall EXCEPT !.op = op, !.account = a, !.profile = p]]
                           /\ UNCHANGED <<rows, accountLock>>

\* The user row is read here; one that is linked, to this account or another,
\* ends the command.
BeginLink(r, a, p) == /\ user[p].state \in {"active", "tombstone"}
                      /\ user[p].account = NoAccount
                      /\ Command(r, "link", a, p, "check")

CheckLink(r) == /\ pc[r] = "check"
                /\ IF Linked(call[r].account) # {}
                   THEN Close(r)
                   ELSE Goto(r, "link") /\ UNCHANGED <<call, accountLock>>
                /\ UNCHANGED rows

\* Mutant: no unique index on users.account_id.
LinkWithoutIndex(r) ==
    LET a == call[r].account  p == call[r].profile IN
    /\ pc[r] = "link"
    /\ Free(a) /\ UserFree(p)
    /\ IF user[p].state = "erased" \/ account[a] = "erased"
       THEN UNCHANGED user
       ELSE user' = [user EXCEPT ![p].account = a]
    /\ Close(r)
    /\ UNCHANGED <<account, identity, accepted, published>>

\* UPDATE users SET account_id by primary key, and commit.
LinkAccountToUser(r) ==
    LET a == call[r].account  p == call[r].profile IN
    /\ pc[r] = "link"
    /\ Free(a) /\ UserFree(p)
    /\ IF user[p].state = "erased" \/ account[a] = "erased" \/ ~IndexAllows(p, a)
       THEN UNCHANGED user
       ELSE user' = [user EXCEPT ![p].account = a]
    /\ Close(r)
    /\ UNCHANGED <<account, identity, accepted, published>>

DeleteAccountData(r, a) == Command(r, "erase", a, NoProfile, "lock")

\* Mutant: the account row is read without FOR UPDATE.
ReadAccountToErase(r) == /\ pc[r] = "lock"
                         /\ Goto(r, "lock_user")
                         /\ UNCHANGED <<rows, accountLock, call>>

LockAccount(r) == LET a == call[r].account IN
                  /\ pc[r] = "lock"
                  /\ Free(a)
                  /\ IF account[a] = "stored"
                     THEN /\ accountLock' = [accountLock EXCEPT ![a] = r]
                          /\ Goto(r, "lock_user")
                          /\ UNCHANGED call
                     ELSE Close(r)
                  /\ UNCHANGED rows

\* SELECT the user of the account FOR UPDATE.  An owner of a group is refused.
LockUser(r) == LET a == call[r].account IN
               /\ pc[r] = "lock_user"
               /\ \/ Close(r)
                  \/ /\ \A p \in Linked(a) : UserFree(p)
                     /\ call' = [call EXCEPT ![r].profile = IF Linked(a) = {} THEN NoProfile
                                                            ELSE CHOOSE p \in Linked(a) : TRUE]
                     /\ Goto(r, "delete")
                     /\ UNCHANGED accountLock
               /\ UNCHANGED rows

\* DELETE the identities, the user row or all but its anonymous rest, and the
\* account; ON DELETE SET NULL unlinks what was not found.
EraseAccount(r) ==
    LET a == call[r].account IN
    /\ pc[r] = "delete"
    /\ account' = [account EXCEPT ![a] = "erased"]
    /\ identity' = [s \in Subjects |-> IF identity[s] = a THEN NoAccount ELSE identity[s]]
    /\ \E rest \in {"tombstone", "erased"} :
          user' = [p \in Profiles |-> IF p = call[r].profile
                                      THEN [state |-> rest, account |-> NoAccount]
                                      ELSE [user[p] EXCEPT !.account = IF @ = a THEN NoAccount ELSE @]]
    /\ Close(r)
    /\ UNCHANGED <<accepted, published>>

Step(r) == \/ ResolveAccount(r)
           \/ ProvisionAccount(r)
           \/ FindProfile(r)
           \/ CreateProfile(r)
           \/ AcceptTerms(r)
           \/ CheckLink(r)
           \/ LinkAccountToUser(r)
           \/ LockAccount(r)
           \/ LockUser(r)
           \/ EraseAccount(r)

Next == \/ PublishTerms
        \/ \E r \in Requests :
              \/ Step(r)
              \/ \E s \in Subjects, op \in Ops : Authenticate(r, s, op)
              \/ \E a \in Accounts : DeleteAccountData(r, a) \/ \E p \in Profiles : BeginLink(r, a, p)

Spec == Init /\ [][Next]_vars

-----------------------------------------------------------------------------
(* Properties.                                                             *)

\* Requests that sign the same person in at once leave one account: none is
\* committed that no identity leads to.
NoOrphanAccounts == \A a \in Accounts : account[a] = "stored" => \E s \in Subjects : identity[s] = a

\* The state invariant of the accounts: rows and calls of their kind, and an
\* identity for every account.
WellFormed == TypeOK /\ NoOrphanAccounts

\* Onboarding twice, or while an operator links, gives an account one user.
OneProfilePerAccount ==
    \A p, q \in Profiles : user[p].account # NoAccount /\ user[p].account = user[q].account => p = q

\* An erasure takes the user row along that an onboarding creates meanwhile:
\* no profile is left that its person cannot reach any more.
NoAbandonedProfile ==
    \A p \in Profiles \ Imported : user[p].state = "active" => user[p].account # NoAccount

\* The time of an acceptance stands: it is written once for each version,
\* however often and at once a person accepts.
FirstAcceptanceStands ==
    [][\A a \in Accounts : accepted'[a].writes # accepted[a].writes
            => accepted'[a].version > accepted[a].version]_vars

-----------------------------------------------------------------------------
(* What requests and commands amount to (AccountDirectory).                *)

Registered == {a \in Accounts : account[a] = "stored"}
Gone       == {a \in Accounts : account[a] = "erased"}
Status     == [p \in Profiles |-> user[p].state]
Owner      == [p \in Profiles |-> user[p].account]

Directory == INSTANCE AccountDirectory WITH registered <- Registered, gone <- Gone, login <- identity,
                                            agreed <- accepted, terms <- published, status <- Status, owner <- Owner

\* Every commit is one whole operation on what is so at that moment, although
\* the request decided on what it read before: nobody gets a profile without
\* the terms in force, and an erasure takes the profile of its own account
\* and no other.
ImplementsDirectory == Directory!Spec
=============================================================================
