------------------------------ MODULE EventFeed ------------------------------
(***************************************************************************)
(* What a member may expect of the important session emails: per recipient *)
(* and session, the news of committed changes in their order, each of them *)
(* possibly more than once (at-least-once delivery), some dropped when the *)
(* member cannot be mailed.  No workers, requests or transactions.         *)
(* SessionOutbox implements this specification.                            *)
(***************************************************************************)
EXTENDS Naturals

CONSTANTS Recipients, Days,
          Stamps    \* positive integers

VARIABLES news,    \* stamps of every committed event, per recipient and day
          queue,   \* those still to be settled
          heard    \* the last one mailed, 0 before the first

vars == <<news, queue, heard>>

Channels == Recipients \X Days

TypeOK == /\ news \in [Channels -> SUBSET Stamps]
          /\ \A c \in Channels : queue[c] \subseteq news[c]
          /\ heard \in [Channels -> Stamps \union {0}]

Init == /\ news = [c \in Channels |-> {}]
        /\ queue = [c \in Channels |-> {}]
        /\ heard = [c \in Channels |-> 0]

\* One commit announces one event to some recipients of one session.
Announce(d, S, n) ==
    /\ \A c \in S \X {d} : (\A k \in news[c] : k < n) /\ heard[c] < n
    /\ news'  = [c \in Channels |-> IF c \in S \X {d} THEN news[c] \union {n} ELSE news[c]]
    /\ queue' = [c \in Channels |-> IF c \in S \X {d} THEN queue[c] \union {n} ELSE queue[c]]
    /\ UNCHANGED heard

\* The oldest unsettled event is mailed, for the first time or again.  An
\* event settled from elsewhere (the group or the account was deleted) while
\* it was in the worker's hands may still arrive, and no newer one did.
Mail(c, n) == /\ n \in news[c]
              /\ heard[c] <= n
              /\ \A k \in queue[c] : n <= k
              /\ heard' = [heard EXCEPT ![c] = n]
              /\ UNCHANGED <<news, queue>>

\* Recorded as delivered, or discarded: the oldest one only.
Settle(c) == /\ \E n \in queue[c] : /\ \A k \in queue[c] : n <= k
                                    /\ queue' = [queue EXCEPT ![c] = @ \ {n}]
             /\ UNCHANGED <<news, heard>>

\* The group or an account is deleted with everything queued.
Clear(S) == /\ queue' = [c \in Channels |-> IF c \in S THEN {} ELSE queue[c]]
            /\ UNCHANGED <<news, heard>>

Next == \/ \E d \in Days, S \in SUBSET Recipients, n \in Stamps : Announce(d, S, n)
        \/ \E c \in Channels : Settle(c) \/ \E n \in Stamps : Mail(c, n)
        \/ \E u \in Recipients : Clear({u} \X Days)
        \/ Clear(Channels)

Spec == Init /\ [][Next]_vars

\* Members hear of the changes in order.
InOrder == [][\A c \in Channels : heard[c] <= heard'[c]]_vars
=============================================================================
