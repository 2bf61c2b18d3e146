---------------------------- MODULE MCProfileSync ----------------------------
(* Finite instances of ProfileSync for TLC.                                *)
EXTENDS ProfileSync, TLC

CONSTANTS e1, e2, n1, n2

Base == [primary |-> NoEmail, addresses |-> {}, verified |-> {}, username |-> NoName, externals |-> <<>>,
         full |-> NoName, first |-> NoName, last |-> NoName]

\* People with a verified primary address, and one whose primary address is
\* unverified beside a verified one and who has a name at Discord and another
\* at a second provider.
MCClerkUsers ==
    {[Base EXCEPT !.primary = e1, !.addresses = {e1}, !.verified = {e1}],
     [Base EXCEPT !.primary = e2, !.addresses = {e2}, !.verified = {e2}],
     [Base EXCEPT !.primary = e2, !.addresses = {e1, e2}, !.verified = {e1},
                  !.externals = <<[provider |-> 2, username |-> n2, verified |-> TRUE],
                                  [provider |-> 0, username |-> n1, verified |-> TRUE]>>]}

MCNewUsers == {u \in MCClerkUsers : u.verified = {u.primary}}
=============================================================================
