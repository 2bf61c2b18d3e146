------------------------------ MODULE InviteDesk ------------------------------
(***************************************************************************)
(* What the invite codes of a group promise (invites.py, main.py): a desk  *)
(* where one code at a time is valid, one newcomer at a time is let in,    *)
(* and every code has a record of how many came with it.  No locks, no     *)
(* requests under way, no transactions: GroupInvites implements this.      *)
(***************************************************************************)
EXTENDS Naturals

CONSTANTS Users, Codes

VARIABLES members,
          valid,      \* the code that lets people in, if there is one
          used,       \* the codes ever issued
          count,      \* the newcomers by code, for the codes on record
          admitting   \* the newcomer who was let in and has not entered yet

vars == <<members, valid, used, count, admitting>>

Init == /\ \E u \in Users : members = {u}
        /\ valid = {}
        /\ used = {}
        /\ count = [c \in {} |-> 0]
        /\ admitting = {}

\* A new code takes the place of the valid one, whose record stays.
Issue(c) == /\ c \notin used
            /\ valid' = {c}
            /\ used' = used \union {c}
            /\ count' = [d \in DOMAIN count \union {c} |-> IF d = c THEN 0 ELSE count[d]]
            /\ UNCHANGED <<members, admitting>>

End == valid' = {} /\ UNCHANGED <<members, used, count, admitting>>

\* The code has to be valid when the newcomer is let in, not when it was read.
Admit(u, c) == /\ admitting = {}
               /\ u \notin members
               /\ c \in valid
               /\ admitting' = {[user |-> u, code |-> c]}
               /\ UNCHANGED <<members, valid, used, count>>

\* Nobody enters twice, and who enters is counted in the same step.
Enter(a) == /\ a \in admitting
            /\ a.user \notin members
            /\ a.code \in DOMAIN count
            /\ members' = members \union {a.user}
            /\ count' = [count EXCEPT ![a.code] = @ + 1]
            /\ admitting' = {}
            /\ UNCHANGED <<valid, used>>

TurnAway == admitting' = {} /\ UNCHANGED <<members, valid, used, count>>

Forget(C) == /\ valid' = valid \ C
             /\ count' = [c \in DOMAIN count \ C |-> count[c]]
             /\ UNCHANGED <<used, admitting>>

\* Leaving, or the erasure of an account with the codes it has issued.
Withdraw(u, C) == members' = members \ {u} /\ Forget(C)

\* The group is deleted, when nobody is being let in.
Dissolve == admitting = {} /\ members' = {} /\ Forget(DOMAIN count)

Next == \/ End \/ TurnAway \/ Dissolve
        \/ \E c \in Codes : Issue(c)
        \/ \E u \in Users, c \in Codes : Admit(u, c)
        \/ \E a \in admitting : Enter(a)
        \/ \E u \in Users, C \in SUBSET Codes : Withdraw(u, C)

Spec == Init /\ [][Next]_vars
=============================================================================
