----------------------------- MODULE GroupRoster -----------------------------
(***************************************************************************)
(* What a group's membership table promises to everyone who reads it: one  *)
(* committed roster that changes by whole operations.  No locks, no        *)
(* in-flight requests, no uncommitted rows.  GroupTransactions implements  *)
(* this specification; the service code it abstracts is group_service.py   *)
(* and the group endpoints of main.py.                                     *)
(***************************************************************************)
CONSTANT Users

VARIABLES group,   \* "absent", "present" or "deleted": the row of groups
          role     \* the membership rows: a role, or "none" without a row

vars == <<group, role>>

Owner     == "owner"
Organizer == "organizer"
Member    == "member"
NoRow     == "none"

Roles == {Owner, Organizer, Member}

TypeOK == /\ group \in {"absent", "present", "deleted"}
          /\ role \in [Users -> Roles \union {NoRow}]

Init == /\ group = "absent"
        /\ role = [u \in Users |-> NoRow]

-----------------------------------------------------------------------------
Found(u) == /\ group = "absent"
            /\ group' = "present"
            /\ role' = [v \in Users |-> IF v = u THEN Owner ELSE NoRow]

Enrol(u) == /\ group = "present"
            /\ role[u] = NoRow
            /\ role' = [role EXCEPT ![u] = Member]
            /\ UNCHANGED group

\* Leaving, being removed, or the erasure of the member's account.
Withdraw(u) == /\ role[u] \in {Organizer, Member}
               /\ role' = [role EXCEPT ![u] = NoRow]
               /\ UNCHANGED group

\* The role endpoint takes no lock, so its write may land on any row, the
\* owner's included.
Appoint(u, g) == /\ role[u] # NoRow
                 /\ role' = [role EXCEPT ![u] = g]
                 /\ UNCHANGED group

\* The owner u, or any member of a group a stale role write left without an
\* owner, hands over to v in one step.
HandOver(u, v) == /\ u # v
                  /\ role[u] # NoRow
                  /\ \A w \in Users \ {u} : role[w] # Owner
                  /\ role[v] \in {Organizer, Member}
                  /\ role' = [role EXCEPT ![u] = Member, ![v] = Owner]
                  /\ UNCHANGED group

Dissolve == /\ group = "present"
            /\ group' = "deleted"
            /\ role' = [u \in Users |-> NoRow]

Next == \/ Dissolve
        \/ \E u \in Users :
              \/ Found(u)
              \/ Enrol(u)
              \/ Withdraw(u)
              \/ \E g \in {Organizer, Member} : Appoint(u, g)
              \/ \E v \in Users : HandOver(u, v)

Spec == Init /\ [][Next]_vars

AtMostOneOwner == \A u, v \in Users : role[u] = Owner /\ role[v] = Owner => u = v
=============================================================================
