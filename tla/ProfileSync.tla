----------------------------- MODULE ProfileSync -----------------------------
(***************************************************************************)
(* The profile of an account (e-mail, user name, display name) as it is    *)
(* copied from the identity provider on an authenticated request           *)
(* (clerk_profile.py, called by auth.get_current_account).  The account is *)
(* read, the provider is asked while the transaction stays open, and what  *)
(* it answered is written by up to three UPDATEs, the e-mail behind a      *)
(* savepoint because it is unique among the accounts.  The ORM writes a    *)
(* column only when it differs from the row as it was READ.                *)
(***************************************************************************)
EXTENDS Naturals, Sequences

CONSTANTS Accounts, Requests, Emails, Names,
          ClerkUsers,     \* the user records the provider may hold
          NewUsers,       \* those a person may begin with
          NoEmail, NoName, NoAccount, NoRequest,
          MaxChanges      \* bounds the changes at the provider

VARIABLES
    row,       \* the rows of accounts
    synced,    \* profile_synced_at is less than 24 hours old
    clerk,     \* the provider's record of the account's identity
    changes,   \* how often one of them has changed
    rowLock,   \* the transaction holding the account row
    pc, call,  \* a request's next statement and what it has read and written
    proven     \* history: the e-mails the person has had verified as primary

vars == <<row, synced, clerk, changes, rowLock, pc, call, proven>>

MaybeEmail == Emails \union {NoEmail}
MaybeName  == Names \union {NoName}

\* A user as the provider returns it.  An external account has a provider,
\* which is a number in the order of the names and 0 for Discord.
Records == [primary : MaybeEmail, addresses : SUBSET Emails, verified : SUBSET Emails,
            username : MaybeName, externals : Seq([provider : Nat, username : MaybeName, verified : BOOLEAN]),
            full : MaybeName, first : MaybeName, last : MaybeName]

ASSUME ClerkUsersAssumption == ClerkUsers \subseteq Records /\ NewUsers \subseteq ClerkUsers
ASSUME SentinelAssumption == /\ NoEmail \notin Emails
                             /\ NoName \notin Names
                             /\ NoAccount \notin Accounts
                             /\ NoRequest \notin Requests
ASSUME BoundAssumption == MaxChanges \in Nat

\* A display name may be put together from two names.
Profiles == [email : MaybeEmail, username : MaybeName, display : Seq(Names)]
Blank    == [email |-> NoEmail, username |-> NoName, display |-> <<>>]
Calls    == [account : Accounts \union {NoAccount}, read : Profiles, profile : Profiles,
             wrote : SUBSET {"names", "email"}, restore : BOOLEAN]
NoCall   == [account |-> NoAccount, read |-> Blank, profile |-> Blank, wrote |-> {}, restore |-> FALSE]

PCs      == {"idle", "read", "fetch", "names", "check", "email", "save", "refused"}

\* Every row and request holds values of its kind, and a row lock is held by
\* a request that is writing that row.
TypeOK == /\ row \in [Accounts -> [state : {"stored", "erased"}, profile : Profiles]]
          /\ synced \in [Accounts -> BOOLEAN]
          /\ clerk \in [Accounts -> ClerkUsers]
          /\ changes \in 0..MaxChanges
          /\ rowLock \in [Accounts -> Requests \union {NoRequest}]
          /\ \A a \in Accounts : rowLock[a] # NoRequest
                => call[rowLock[a]].account = a /\ pc[rowLock[a]] \in {"check", "email", "save"}
          /\ pc \in [Requests -> PCs]
          /\ call \in [Requests -> Calls]
          /\ proven \in [Accounts -> SUBSET Emails]

-----------------------------------------------------------------------------
(* What is taken from the provider's record.                               *)

\* The primary address, when it is among the addresses and verified.
PrimaryVerifiedEmail(u) ==
    IF u.primary \in u.addresses \intersect u.verified THEN u.primary ELSE NoEmail

\* The first Discord name, or else the first name in the providers' order.
ExternalUsername(u) ==
    LET ok == {i \in 1..Len(u.externals) : u.externals[i].verified /\ u.externals[i].username # NoName}
        First(s) == CHOOSE i \in s : \A j \in s :
            \/ u.externals[i].provider < u.externals[j].provider
            \/ u.externals[i].provider = u.externals[j].provider /\ i <= j
    IN IF ok = {} THEN NoName ELSE u.externals[First(ok)].username

Present(name) == IF name = NoName THEN <<>> ELSE <<name>>

ExtractClerkProfile(u) ==
    LET username == IF u.username # NoName THEN u.username ELSE ExternalUsername(u)
        parts    == IF u.full # NoName THEN <<u.full>> ELSE Present(u.first) \o Present(u.last)
    IN [email    |-> PrimaryVerifiedEmail(u),
        username |-> username,
        display  |-> IF parts = <<>> THEN Present(username) ELSE parts]

\* History only: what the person has verified.
Verified(u) == {u.primary} \intersect u.addresses \intersect u.verified

\* A new account has no profile yet.
Init == /\ row = [a \in Accounts |-> [state |-> "stored", profile |-> Blank]]
        /\ synced = [a \in Accounts |-> FALSE]
        /\ clerk \in [Accounts -> NewUsers]
        /\ changes = 0
        /\ rowLock = [a \in Accounts |-> NoRequest]
        /\ pc = [r \in Requests |-> "idle"]
        /\ call = [r \in Requests |-> NoCall]
        /\ proven = [a \in Accounts |-> Verified(clerk[a])]

-----------------------------------------------------------------------------
outside == <<clerk, changes, proven>>
rows    == <<row, synced>>

Goto(r, l) == pc' = [pc EXCEPT ![r] = l]
CanLock(r, a) == rowLock[a] \in {NoRequest, r}
Stored(r) == row[call[r].account].state = "stored"

Leave(r, l) == /\ Goto(r, l)
               /\ call' = [call EXCEPT ![r] = NoCall]
               /\ rowLock' = [a \in Accounts |-> IF rowLock[a] = r THEN NoRequest ELSE rowLock[a]]

Close(r) == Leave(r, "idle")

\* The database refuses a statement, or an UPDATE finds no row: what the
\* transaction has written and locked is void, its rollback is still to come.
Refuse(r) == Leave(r, "refused")

\* The exception is logged, the request goes on with the account as it is.
Rollback(r) == Close(r) /\ UNCHANGED <<rows, outside>>

\* An authenticated request finds its account.
Authenticate(r, a) == /\ pc[r] = "idle"
                      /\ row[a].state = "stored"
                      /\ call' = [call EXCEPT ![r] = [NoCall EXCEPT !.account = a]]
                      /\ Goto(r, "read")
                      /\ UNCHANGED <<rows, outside, rowLock>>

\* Mutant: the account is read FOR UPDATE before the provider is asked.
ReadLocked(r) ==
    LET a == call[r].account IN
    /\ pc[r] = "read"
    /\ CanLock(r, a)
    /\ IF Stored(r) /\ ~synced[a]
       THEN /\ rowLock' = [rowLock EXCEPT ![a] = r]
            /\ call' = [call EXCEPT ![r].read = row[a].profile]
            /\ Goto(r, "fetch")
       ELSE Close(r)
    /\ UNCHANGED <<rows, outside>>

\* Reads the account; profile_sync_is_due.
ReadAccount(r) ==
    LET a == call[r].account IN
    /\ pc[r] = "read"
    /\ IF Stored(r) /\ ~synced[a]
       THEN /\ call' = [call EXCEPT ![r].read = row[a].profile]
            /\ Goto(r, "fetch")
            /\ UNCHANGED rowLock
       ELSE Close(r)
    /\ UNCHANGED <<rows, outside>>

FetchProfile(r) ==
    /\ pc[r] = "fetch"
    /\ call' = [call EXCEPT ![r].profile = ExtractClerkProfile(clerk[call[r].account])]
    /\ Goto(r, "names")
    /\ UNCHANGED <<rows, outside, rowLock>>

FetchFails(r) == pc[r] = "fetch" /\ Rollback(r)

\* UPDATE the names that changed, and keep the row locked.
WriteNames(r) ==
    LET c == call[r]  a == c.account IN
    /\ pc[r] = "names"
    /\ \/ /\ c.profile.username = c.read.username /\ c.profile.display = c.read.display
          /\ Goto(r, "check")
          /\ UNCHANGED <<call, rowLock>>
       \/ /\ c.profile.username # c.read.username \/ c.profile.display # c.read.display
          /\ CanLock(r, a)
          /\ IF Stored(r)
             THEN /\ rowLock' = [rowLock EXCEPT ![a] = r]
                  /\ call' = [call EXCEPT ![r].wrote = {"names"}]
                  /\ Goto(r, "check")
             ELSE Refuse(r)
    /\ UNCHANGED <<rows, outside>>

\* SELECT: only what is committed is seen.
OwnedByAnother(a, e) == \E b \in Accounts \ {a} : row[b].profile.email = e

\* A missing address is written with the last UPDATE, a taken one never.
CheckEmail(r) ==
    LET c == call[r]  e == c.profile.email IN
    /\ pc[r] = "check"
    /\ IF e = NoEmail \/ OwnedByAnother(c.account, e)
       THEN /\ Goto(r, "save")
            /\ call' = [call EXCEPT ![r].profile.email = IF e = NoEmail THEN e ELSE c.read.email]
       ELSE Goto(r, "email") /\ UNCHANGED call
    /\ UNCHANGED <<rows, outside, rowLock>>

\* Mutant: no unique index, the SELECT decides alone.
NoIndex(a, e) == FALSE

\* uq_accounts_email_normalized: a committed entry of another account refuses
\* a writer, an uncommitted one makes it wait.
IndexRefuses(a, e) == OwnedByAnother(a, e)

EntryPending(r, e) == \E q \in Requests \ {r} : /\ "email" \in call[q].wrote
                                               /\ call[q].profile.email = e
                                               /\ call[q].account # call[r].account

\* Mutant: no savepoint, the refused e-mail takes the whole profile with it.
WriteEmailWithoutSavepoint(r) ==
    LET c == call[r]  a == c.account  e == c.profile.email IN
    /\ pc[r] = "email"
    /\ \/ e = c.read.email /\ Goto(r, "save") /\ UNCHANGED <<call, rowLock>>
       \/ /\ e # c.read.email /\ CanLock(r, a)
          /\ \/ (~Stored(r) \/ IndexRefuses(a, e)) /\ Refuse(r)
             \/ /\ Stored(r) /\ ~EntryPending(r, e) /\ ~IndexRefuses(a, e)
                /\ rowLock' = [rowLock EXCEPT ![a] = r]
                /\ call' = [call EXCEPT ![r].wrote = @ \union {"email"}]
                /\ Goto(r, "save")
    /\ UNCHANGED <<rows, outside>>

\* UPDATE the e-mail behind the savepoint.  Rolled back to it, the row lock it
\* took is given back, and the e-mail as READ is written with the last UPDATE.
WriteEmail(r) ==
    LET c == call[r]  a == c.account  e == c.profile.email IN
    /\ pc[r] = "email"
    /\ \/ e = c.read.email /\ UNCHANGED <<call, rowLock>> /\ Goto(r, "save")
       \/ /\ e # c.read.email /\ CanLock(r, a) /\ Stored(r) /\ ~EntryPending(r, e)
          /\ IF IndexRefuses(a, e)
             THEN /\ call' = [call EXCEPT ![r].profile.email = c.read.email, ![r].restore = TRUE]
                  /\ UNCHANGED rowLock
             ELSE /\ rowLock' = [rowLock EXCEPT ![a] = r]
                  /\ call' = [call EXCEPT ![r].wrote = @ \union {"email"}]
          /\ Goto(r, "save")
       \/ e # c.read.email /\ CanLock(r, a) /\ ~Stored(r) /\ Refuse(r)
    /\ UNCHANGED <<rows, outside>>

\* The columns of the row once the request's UPDATEs are committed.
WritesEmail(c) == "email" \in c.wrote \/ c.restore \/ c.profile.email # c.read.email
Columns(c, p) == [email    |-> IF WritesEmail(c) THEN c.profile.email ELSE p.email,
                  username |-> IF c.profile.username # c.read.username THEN c.profile.username ELSE p.username,
                  display  |-> IF c.profile.display # c.read.display THEN c.profile.display ELSE p.display]

\* UPDATE profile_synced_at and the e-mail that is left to write; commit.
Save(r) ==
    LET c == call[r]  a == c.account  e == c.profile.email
        writes == e # NoEmail /\ WritesEmail(c) IN
    /\ pc[r] = "save"
    /\ CanLock(r, a)
    /\ \/ /\ ~Stored(r) \/ (writes /\ IndexRefuses(a, e))
          /\ Refuse(r)
          /\ UNCHANGED rows
       \/ /\ Stored(r)
          /\ writes => ~IndexRefuses(a, e) /\ ~EntryPending(r, e)
          /\ row' = [row EXCEPT ![a].profile = Columns(c, @)]
          /\ synced' = [synced EXCEPT ![a] = TRUE]
          /\ Close(r)
    /\ UNCHANGED outside

\* The handler of a refused statement, or of any other fault: a name that is
\* longer than its column, a connection that is lost.
PersistFails(r) == pc[r] \in {"names", "check", "email", "save", "refused"} /\ Rollback(r)

-----------------------------------------------------------------------------
(* The world around the requests.                                          *)

ClerkChanges(a, u) == /\ changes < MaxChanges /\ u # clerk[a]
                      /\ changes' = changes + 1
                      /\ clerk' = [clerk EXCEPT ![a] = u]
                      /\ proven' = [proven EXCEPT ![a] = @ \union Verified(u)]
                      /\ UNCHANGED <<rows, rowLock, pc, call>>

\* 24 hours pass; no request lasts that long.
IntervalPasses(a) == /\ synced[a]
                     /\ \A r \in Requests : call[r].account # a
                     /\ synced' = [synced EXCEPT ![a] = FALSE]
                     /\ UNCHANGED <<row, outside, rowLock, pc, call>>

\* delete_account_data, under its lock on the account row.
EraseAccount(a) == /\ row[a].state = "stored" /\ rowLock[a] = NoRequest
                   /\ row' = [row EXCEPT ![a] = [state |-> "erased", profile |-> Blank]]
                   /\ UNCHANGED <<synced, outside, rowLock, pc, call>>

Write(r) == WriteNames(r) \/ CheckEmail(r) \/ WriteEmail(r) \/ Save(r) \/ PersistFails(r)

Step(r) == ReadAccount(r) \/ FetchProfile(r) \/ FetchFails(r) \/ Write(r)

Next == \/ \E r \in Requests : Step(r) \/ \E a \in Accounts : Authenticate(r, a)
        \/ \E a \in Accounts : \/ IntervalPasses(a)
                               \/ EraseAccount(a)
                               \/ \E u \in ClerkUsers : ClerkChanges(a, u)

Spec == Init /\ [][Next]_vars

\* The database grants a lock that comes free again and again.  Nothing is
\* assumed of the provider: it may never answer.  No fault is assumed to
\* happen, but a refused statement is rolled back.
Progress(r) == \/ ReadAccount(r) \/ WriteNames(r) \/ CheckEmail(r) \/ WriteEmail(r) \/ Save(r)
               \/ pc[r] = "refused" /\ PersistFails(r)

FairSpec == Spec /\ \A r \in Requests : SF_vars(Progress(r))

-----------------------------------------------------------------------------
(* Properties.                                                             *)

\* Two accounts never hold the same e-mail, even when both are synchronised
\* at once and each finds it free (the README: accounts are never merged).
EmailsAreUnique == \A a, b \in Accounts :
    a # b /\ row[a].profile.email # NoEmail => row[a].profile.email # row[b].profile.email

\* Whatever the order of answers and commits, and whichever e-mail a refused
\* write restores, an account only shows one its person had verified.
EmailsWereVerified == \A a \in Accounts : row[a].profile.email \in proven[a] \union {NoEmail}

\* The state invariant of the profiles: rows and locks of their kind, with
\* addresses that are unique and verified.
WellFormed == TypeOK /\ EmailsAreUnique /\ EmailsWereVerified

\* An address that is taken costs an account that address only, whoever takes
\* it between which statements: the names and the 24-hour mark are committed
\* all the same.  A statement of the synchronisation is only refused once the
\* account is erased, or when a request writes back the address it has read
\* and another account has taken that one too since.
OnlyTheAddressIsLost ==
    [][\A r \in Requests : pc[r] # "refused" /\ pc'[r] = "refused" =>
          \/ ~Stored(r)
          \/ call[r].restore /\ OwnedByAnother(call[r].account, call[r].read.email)]_vars

\* A provider that does not answer holds up nobody but the request that asked:
\* every other request ends.
NobodyWaitsForClerk == \A r \in Requests : pc[r] # "idle" ~> pc[r] \in {"idle", "fetch"}
=============================================================================
