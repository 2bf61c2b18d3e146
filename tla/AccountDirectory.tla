--------------------------- MODULE AccountDirectory ---------------------------
(***************************************************************************)
(* What accounts amount to (auth.py, terms.py, link_account.py,            *)
(* account_data.py): a directory whose entries change by whole operations, *)
(* each on what is so at that moment.  No requests under way, no rows read *)
(* earlier, no locks, no refused inserts: AccountProvisioning implements   *)
(* this.                                                                   *)
(***************************************************************************)
EXTENDS Naturals

CONSTANTS Subjects, Accounts, Profiles, Imported, NoAccount, MaxVersion

VARIABLES
    registered,  \* the accounts there are
    gone,        \* the accounts there were
    login,       \* the account of a subject
    agreed,      \* the version an account has agreed to, and how often it did
    terms,       \* the version in force
    status,      \* of a profile
    owner        \* the account of a profile

vars == <<registered, gone, login, agreed, terms, status, owner>>

Init == /\ registered = {} /\ gone = {}
        /\ login = [s \in Subjects |-> NoAccount]
        /\ agreed = [a \in Accounts |-> [version |-> 0, writes |-> 0]]
        /\ terms = 1
        /\ status = [p \in Profiles |-> IF p \in Imported THEN "active" ELSE "absent"]
        /\ owner = [p \in Profiles |-> NoAccount]

ProfilesOf(a) == {p \in Profiles : owner[p] = a}

Register(s, a) == /\ login[s] = NoAccount
                  /\ a \notin registered \union gone
                  /\ registered' = registered \union {a}
                  /\ login' = [login EXCEPT ![s] = a]
                  /\ UNCHANGED <<gone, agreed, terms, status, owner>>

\* An agreement is to newer terms than the one before.
Agree(a) == /\ a \in registered
            /\ agreed[a].version < terms
            /\ agreed' = [agreed EXCEPT ![a] = [version |-> terms, writes |-> @.writes + 1]]
            /\ UNCHANGED <<registered, gone, login, terms, status, owner>>

\* Nobody gets a profile who has not agreed to the terms in force.
SignUp(a, p) == /\ a \in registered
                /\ agreed[a].version = terms
                /\ ProfilesOf(a) = {}
                /\ status[p] = "absent"
                /\ status' = [status EXCEPT ![p] = "active"]
                /\ owner' = [owner EXCEPT ![p] = a]
                /\ UNCHANGED <<registered, gone, login, agreed, terms>>

\* The profile may come from another account, which then has none.
Link(a, p) == /\ a \in registered
              /\ ProfilesOf(a) \subseteq {p}
              /\ status[p] \in {"active", "tombstone"}
              /\ owner' = [owner EXCEPT ![p] = a]
              /\ UNCHANGED <<registered, gone, login, agreed, terms, status>>

\* The account, its logins and its profile go together, and nobody else's.
Erase(a, rest) ==
    /\ a \in registered
    /\ registered' = registered \ {a}
    /\ gone' = gone \union {a}
    /\ login' = [s \in Subjects |-> IF login[s] = a THEN NoAccount ELSE login[s]]
    /\ status' = [p \in Profiles |-> IF owner[p] = a THEN rest ELSE status[p]]
    /\ owner' = [p \in Profiles |-> IF owner[p] = a THEN NoAccount ELSE owner[p]]
    /\ UNCHANGED <<agreed, terms>>

Publish == /\ terms < MaxVersion
           /\ terms' = terms + 1
           /\ UNCHANGED <<registered, gone, login, agreed, status, owner>>

Next == \/ Publish
        \/ \E a \in Accounts : \/ Agree(a)
                               \/ \E s \in Subjects : Register(s, a)
                               \/ \E p \in Profiles : SignUp(a, p) \/ Link(a, p)
                               \/ \E rest \in {"tombstone", "erased"} : Erase(a, rest)

Spec == Init /\ [][Next]_vars
=============================================================================
