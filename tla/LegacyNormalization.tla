------------------------- MODULE LegacyNormalization -------------------------
(***************************************************************************)
(* The availability table of the former program and what the importer      *)
(* makes of it.  The former program (database.py) keeps one row for a      *)
(* group NAME, user NAME and day, and copies every answer of a user to all *)
(* groups of that user.  The importer (import_legacy_sqlite.py) reduces    *)
(* the rows to one fact for a user and day under a normalization policy,   *)
(* which ignores groups and replaces outdated names by canonical ones.     *)
(***************************************************************************)
EXTENDS LegacyContract

CONSTANTS Groups,                 \* the canonical groups of legacy_contract.py
          Members,                \* GROUPS: the members of each group
          OtherGroups, OtherUsers,  \* outdated or unknown names
          Malformed,              \* stands for a status or date that is not well formed
          NoRow,
          Documents,              \* the normalization policies offered
          MaxRows                 \* bounds the rows of the table

GroupNames == Groups \union OtherGroups
UserNames  == Users \union OtherUsers
Cells      == GroupNames \X UserNames \X Days
Values     == Statuses \union {Malformed}

ASSUME NamesAssumption == /\ Groups \intersect OtherGroups = {}
                          /\ Users \intersect OtherUsers = {}
ASSUME ContractAssumption == Members \in [Groups -> SUBSET Users]
ASSUME ValuesAssumption == /\ Malformed \notin Statuses
                           /\ NoRow \notin Values
ASSUME RowsBound == MaxRows \in Nat

VARIABLE table   \* the status in the row of a group name, user name and day

TableInit == table = [k \in Cells |-> NoRow]

-----------------------------------------------------------------------------
(* The former program.                                                     *)

GetUserGroups(u) == {g \in Groups : u \in Members[g]}

\* Mutant: the answer is written in the group it was given in only.
SetInOneGroup(g, u, d, s) == table' = [table EXCEPT ![<<g, u, d>>] = s]

\* INSERT OR REPLACE, or DELETE, in the named group and all groups of the user.
SetUserAvailability(g, u, d, s) ==
    table' = [k \in Cells |-> IF k[1] \in {g} \union GetUserGroups(u) /\ k[2] = u /\ k[3] = d
                              THEN s ELSE table[k]]

TableNext == \E g \in GroupNames, u \in UserNames, d \in Days, s \in Values \union {NoRow} :
                 /\ SetUserAvailability(g, u, d, s)
                 /\ Cardinality({k \in Cells : table'[k] # NoRow}) <= MaxRows

TableSpec == TableInit /\ [][TableNext]_table

Row == [group : GroupNames, user : UserNames, day : Days, status : Values]
Rows == {[group |-> k[1], user |-> k[2], day |-> k[3], status |-> table[k]] :
            k \in {l \in Cells : table[l] # NoRow}}

\* expand_availability_rows: a row shows in all groups of its user, unless the
\* group has a row of its own; among several others the first one read shows.
Shows(g, r) == /\ r.user \in Members[g]
               /\ r.group = g \/ table[<<g, r.user, r.day>>] = NoRow

-----------------------------------------------------------------------------
(* The policy.                                                             *)

\* Mutant: an alias may stand for a canonical name.
AliasToCanonical(alias, canonical) == \A x \in DOMAIN alias : alias[x] \in canonical /\ alias[x] # x

\* Every alias leads from an outdated name to a canonical one.
ValidAlias(alias, canonical) == \A x \in DOMAIN alias : x \notin canonical /\ alias[x] \in canonical

ValidPolicy(p) == /\ p.ignored \intersect Groups = {}
                  /\ ValidAlias(p.groups, Groups)
                  /\ ValidAlias(p.users, Users)
                  /\ p.ignored \intersect DOMAIN p.groups = {}

Policies == {p \in Documents : ValidPolicy(p)}

-----------------------------------------------------------------------------
(* One fact for a user and a day.                                          *)

Canonical(alias, name) == IF name \in DOMAIN alias THEN alias[name] ELSE name

Ignored(p, r) == r.group \in p.ignored

UnknownGroup(p, r) == ~Ignored(p, r) /\ Canonical(p.groups, r.group) \notin Groups
UnknownUser(p, r)  == ~Ignored(p, r) /\ Canonical(p.users, r.user) \notin Users
NotAMember(p, r)   == /\ ~Ignored(p, r) /\ ~UnknownUser(p, r) /\ ~UnknownGroup(p, r)
                      /\ Canonical(p.users, r.user) \notin Members[Canonical(p.groups, r.group)]
BadData(r)         == r.status = Malformed

\* A row of an ignored group has to be well formed all the same.
Invalid(p, r) == UnknownGroup(p, r) \/ UnknownUser(p, r) \/ NotAMember(p, r) \/ BadData(r)

LogicalRows(p, u, d) ==
    {r \in Rows : ~Ignored(p, r) /\ ~Invalid(p, r) /\ Canonical(p.users, r.user) = u /\ r.day = d}

\* Mutant: an outdated name of the user wins.
PreferAliasUser(R, u) == LET outdated == {r \in R : r.user # u} IN IF outdated = {} THEN R ELSE outdated

\* Rows under the canonical name of the user override those under others.
PreferUser(R, u) == LET exact == {r \in R : r.user = u} IN IF exact = {} THEN R ELSE exact

\* Within one group, rows under its canonical name override those under others.
PreferGroup(p, R) == {r \in R : r.group \in Groups \/ ~\E q \in R : q.group = Canonical(p.groups, r.group)}

Working(p, u, d) == LET R == LogicalRows(p, u, d)
                    IN IF p.prefer THEN PreferGroup(p, PreferUser(R, u)) ELSE R

StatusesOf(R) == {r.status : r \in R}
OneStatus(R)  == \E s \in Statuses : StatusesOf(R) = {s}

Conflicts(p) == {c \in Users \X Days : Cardinality(StatusesOf(Working(p, c[1], c[2]))) > 1}
Facts(p) == {[user |-> c[1], day |-> c[2], status |-> CHOOSE s \in Statuses : s \in StatusesOf(Working(p, c[1], c[2]))] :
                c \in {x \in Users \X Days : OneStatus(Working(p, x[1], x[2]))}}

\* _raise_for_source_problems.
Accepted(p) == Conflicts(p) = {} /\ \A r \in Rows : ~Invalid(p, r)

-----------------------------------------------------------------------------
(* Without a policy only canonical names are accepted.                     *)

InvalidWithoutPolicy(r) == \/ r.group \notin Groups
                           \/ r.user \notin Users
                           \/ r.group \in Groups /\ r.user \notin Members[r.group]
                           \/ BadData(r)

LogicalWithoutPolicy(u, d) == {r \in Rows : ~InvalidWithoutPolicy(r) /\ r.user = u /\ r.day = d}

FactsWithoutPolicy ==
    {[user |-> c[1], day |-> c[2], status |-> CHOOSE s \in Statuses : s \in StatusesOf(LogicalWithoutPolicy(c[1], c[2]))] :
        c \in {x \in Users \X Days : OneStatus(LogicalWithoutPolicy(x[1], x[2]))}}

AcceptedWithoutPolicy ==
    /\ \A r \in Rows : ~InvalidWithoutPolicy(r)
    /\ \A u \in Users, d \in Days : Cardinality(StatusesOf(LogicalWithoutPolicy(u, d))) <= 1

-----------------------------------------------------------------------------
(* What the imported facts show in each group.                             *)

\* _compatibility_projections.
Projections(facts) ==
    {[group |-> x[1], user |-> x[2].user, day |-> x[2].day, status |-> x[2].status] :
        x \in {y \in Groups \X facts : y[2].user \in Members[y[1]]}}

-----------------------------------------------------------------------------
(* Properties.                                                             *)

\* What the former program showed in a group is what an accepted import shows
\* there, whatever the policy does to outdated names: only the rows of groups
\* that the policy ignores are left behind.
ShownIsImported ==
    \A p \in Policies : Accepted(p) =>
        \A g \in Groups, r \in Rows :
            Shows(g, r) /\ ~Ignored(p, r) => [group |-> g, user |-> r.user, day |-> r.day, status |-> r.status]
                                  \in Projections(Facts(p))

\* A user who answered under the canonical name gets that answer: outdated
\* rows of the same day never turn it into a conflict.
CanonicalAnswerSettlesIt ==
    \A p \in {q \in Policies : q.prefer} : \A g \in Groups : \A u \in Members[g], d \in Days :
        table[<<g, u, d>>] \in Statuses
            => [user |-> u, day |-> d, status |-> table[<<g, u, d>>]] \in Facts(p)

\* A table that needs no policy gives the same facts under any: the path with
\* a policy and the path without one agree.
PolicyIsConservative ==
    AcceptedWithoutPolicy => \A p \in Policies : Accepted(p) /\ Facts(p) = FactsWithoutPolicy
=============================================================================
