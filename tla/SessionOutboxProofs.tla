------------------------- MODULE SessionOutboxProofs -------------------------
(***************************************************************************)
(* Proofs about SessionOutbox for every number of recipients, days,        *)
(* requests, workers and events and every batch size.  IInv says what a    *)
(* request may rely on while it holds the group row and what a worker may  *)
(* rely on while it has a mail in hand and everybody else deletes rows.    *)
(***************************************************************************)
EXTENDS SessionOutbox, TLAPS

Channel(m, n) == m.to = n.to /\ m.day = n.day

\* The statements of the worker between two commits.
HandPCs == {"check", "send", "record", "retry", "discard"}

LockInv == \A r \in Requests :
    req[r].pc \in {"write", "commit"} => groupLock = r /\ group

\* The lock file admits one worker.
FlockInv == \A v, w \in Workers : run[v].pc # "idle" /\ run[w].pc # "idle" => v = w

StampInv == /\ \A m \in announced : m.at <= stamp
            /\ \A u \in Recipients, d \in Days : heard[u][d] <= stamp

\* Nothing older than the rows of an open request is still to be announced.
CommitInv == \A r \in Requests : req[r].pc = "commit" =>
    /\ \A m \in req[r].rows : m.day = req[r].day /\ m.at = stamp
    /\ \A m \in announced : m.at < stamp
    /\ \A u \in Recipients, d \in Days : heard[u][d] < stamp

RowInv == /\ outbox \subseteq announced /\ recorded \subseteq announced
          /\ mailed \subseteq announced
          /\ outbox \intersect recorded = {}
          /\ \A n \in outbox : heard[n.to][n.day] <= n.at

\* The mail in hand stays first in its channel, though its row may be gone.
Hand(w) == LET m == run[w].mail IN
    /\ m \in announced \ recorded
    /\ heard[m.to][m.day] <= m.at
    /\ \A n \in outbox : Channel(m, n) => m.at <= n.at
    /\ run[w].pc = "record" => m \in mailed
    /\ run[w].pc = "discard" => m.to \notin steady \/ ~group

HandInv == \A w \in Workers : run[w].pc \in HandPCs => Hand(w)

SteadyInv == \A u \in steady : inbox[u] = "on"

IInv == /\ TypeOK /\ LockInv /\ FlockInv /\ StampInv /\ CommitInv /\ RowInv
        /\ HandInv /\ SteadyInv /\ NothingLost /\ StillNews

-----------------------------------------------------------------------------
LEMMA InitIInv == Init => IInv
<1> SUFFICES ASSUME Init PROVE IInv
  OBVIOUS
<1>1. Idle \in Reqs
  BY OutboxAssumption DEF Idle, Reqs, Ops, Kinds
<1>2. NoRun \in Runs
  BY DEF NoRun, Runs
<1>3. TypeOK
  BY <1>1, <1>2, OutboxAssumption DEF Init, TypeOK, NoRun
<1> QED
  BY <1>3 DEF Init, IInv, LockInv, FlockInv, StampInv, CommitInv, RowInv, HandInv, HandPCs,
              SteadyInv, NothingLost, StillNews, NoRun, Idle

\* Two mails of one channel with the same stamp are the same mail.
LEMMA MailsDiffer ==
  ASSUME NEW m \in Mails, NEW n \in Mails, Channel(m, n), m.at = n.at
  PROVE  m = n
  BY DEF Mails, Channel

\* The endpoints before COMMIT touch nothing but their request.
LEMMA RequestFrame ==
  ASSUME TypeOK, UNCHANGED <<store, history, inbox, run>>,
         req' \in [Requests -> Reqs], groupLock' \in Requests \union {NoRequest},
         stamp' \in 0..MaxEvents
  PROVE  TypeOK'
  BY DEF TypeOK, store, history

LEMMA RequestType ==
  ASSUME TypeOK, NEW r \in Requests,
         \/ Rollback(r) \/ LockSessionGroup(r)
         \/ \E op \in Ops, a \in Actors, d \in Days : Begin(r, op, a, d)
         \/ \E kind \in Kinds : Enqueue(r, kind)
  PROVE  TypeOK'
<1>0. /\ Idle \in Reqs /\ req[r] \in Reqs /\ req \in [Requests -> Reqs]
      /\ groupLock \in Requests \union {NoRequest} /\ stamp \in 0..MaxEvents
  BY OutboxAssumption DEF Idle, Reqs, Ops, Kinds, TypeOK
<1>1. CASE Rollback(r)
  BY <1>0, <1>1, RequestFrame DEF Rollback, Close
<1>2. CASE LockSessionGroup(r)
  <2>1. CASE Rollback(r)
    BY <1>1, <2>1
  <2>2. CASE ~Rollback(r)
    <3>1. [req[r] EXCEPT !.pc = "write"] \in Reqs
      BY <1>0 DEF Reqs
    <3>2. req' = [req EXCEPT ![r] = [req[r] EXCEPT !.pc = "write"]]
      BY <1>0, <1>2, <2>2 DEF LockSessionGroup
    <3> QED
      BY <1>0, <1>2, <2>2, <3>1, <3>2, RequestFrame DEF LockSessionGroup
  <2> QED
    BY <2>1, <2>2
<1>3. ASSUME NEW op \in Ops, NEW a \in Actors, NEW d \in Days, Begin(r, op, a, d)
      PROVE  TypeOK'
  <2>1. [Idle EXCEPT !.pc = "lock", !.op = op, !.actor = a, !.day = d] \in Reqs
    BY <1>0 DEF Reqs
  <2> QED
    BY <1>0, <1>3, <2>1, RequestFrame DEF Begin
<1>4. ASSUME NEW kind \in Kinds, Enqueue(r, kind) PROVE TypeOK'
  <2> DEFINE audience == {u \in Recipients \ {req[r].actor} : Eligible(u)}
             rows == [day : {req[r].day}, to : audience, at : {stamp'}]
             open == [req[r] EXCEPT !.pc = "commit", !.kind = kind, !.rows = rows]
  <2>0. /\ stamp < MaxEvents /\ stamp' = stamp + 1
        /\ UNCHANGED <<store, history, inbox, run, groupLock>>
    BY <1>4 DEF Enqueue
  <2>1. stamp' \in 1..MaxEvents
    BY <1>0, <2>0, OutboxAssumption
  <2>2. rows \in SUBSET Mails
    BY <1>0, <2>1 DEF Mails, Reqs
  <2>3. open \in Reqs
    <3> HIDE DEF rows
    <3> QED
      BY <1>0, <2>2 DEF Reqs
  <2>4. req' = [req EXCEPT ![r] = open]
    BY <1>0, <1>4 DEF Enqueue
  <2> HIDE DEF open
  <2>5. req' \in [Requests -> Reqs]
    BY <1>0, <2>3, <2>4
  <2> QED
    BY <1>0, <2>0, <2>1, <2>5, RequestFrame
<1> QED
  BY <1>1, <1>2, <1>3, <1>4

LEMMA CommitType ==
  ASSUME TypeOK, NEW r \in Requests, Commit(r)
  PROVE  TypeOK'
<1>0. Idle \in Reqs /\ req[r] \in Reqs /\ req[r].day \in Days /\ req[r].rows \subseteq Mails
  BY OutboxAssumption DEF Idle, Reqs, Ops, Kinds, TypeOK
<1>1. CASE Rollback(r)
  BY <1>1, RequestType
<1>2. CASE ~Rollback(r)
  <2>1. /\ req' \in [Requests -> Reqs] /\ groupLock' \in Requests \union {NoRequest}
    BY <1>0, <1>2 DEF Commit, TypeOK, Close
  <2>2. sessions' \in [Days -> {"none", "confirmed", "cancelled"}]
    BY <1>0, <1>2 DEF Commit, TypeOK, After
  <2>3. outbox' \subseteq Mails /\ announced' \subseteq Mails
    BY <1>0, <1>2 DEF Commit, TypeOK
  <2> QED
    BY <1>2, <2>1, <2>2, <2>3 DEF Commit, TypeOK
<1> QED
  BY <1>1, <1>2

\* The worker touches its run, the rows of the outbox and the deliveries.
LEMMA WorkerFrame ==
  ASSUME TypeOK, UNCHANGED <<group, sessions, requests, inbox, announced, steady>>,
         outbox' \subseteq outbox, resting' \subseteq resting \union Mails,
         recorded' \subseteq recorded \union Mails, mailed' \subseteq mailed \union Mails,
         heard' \in [Recipients -> [Days -> 0..MaxEvents]],
         NEW w \in Workers, NEW now \in Runs, run' = [run EXCEPT ![w] = now],
         now.pc \notin {"idle", "pick"} => now.mail \in Mails
  PROVE  TypeOK'
  BY DEF TypeOK, requests

LEMMA WorkerType ==
  ASSUME TypeOK, NEW w \in Workers, Work(w) \/ Kill(w)
  PROVE  TypeOK'
<1> USE DEF store, history, requests
<1>0. /\ run[w] \in Runs /\ NoRun \in Runs
      /\ run[w].pc \notin {"idle", "pick"} => run[w].mail \in Mails
  BY DEF TypeOK, Runs, NoRun
\* What each kind of step makes of the run.
<1>1. /\ \A l \in {"send", "record", "retry", "discard"} :
            [run[w] EXCEPT !.pc = l] \in Runs /\ [run[w] EXCEPT !.pc = l].mail = run[w].mail
      /\ [run[w] EXCEPT !.pc = "pick", !.mail = NoMail] \in Runs
      /\ [run[w] EXCEPT !.pc = "pick", !.mail = NoMail].pc = "pick"
  BY <1>0 DEF Runs
<1>2. heard \in [Recipients -> [Days -> 0..MaxEvents]]
  BY DEF TypeOK
<1>3. ASSUME NextRow(w) PROVE run' = [run EXCEPT ![w] = [run[w] EXCEPT !.pc = "pick", !.mail = NoMail]]
  BY <1>3 DEF NextRow
<1>4. ASSUME NEW l, Continue(w, l) PROVE run' = [run EXCEPT ![w] = [run[w] EXCEPT !.pc = l]]
  BY <1>4 DEF Continue
<1>5. NoRun.pc = "idle"
  BY DEF NoRun
<1>6. CASE StartRun(w)
  <2>1. PICK S \in Batches(outbox \ resting) :
             run' = [run EXCEPT ![w] = [NoRun EXCEPT !.pc = "pick", !.batch = S]]
    BY <1>6 DEF StartRun
  <2>2. S \subseteq Mails
    BY DEF Batches, TypeOK
  <2>3. [NoRun EXCEPT !.pc = "pick", !.batch = S] \in Runs
        /\ [NoRun EXCEPT !.pc = "pick", !.batch = S].pc = "pick"
    BY <2>2 DEF Runs, NoRun
  <2> QED
    BY <1>2, <1>6, <2>1, <2>3, WorkerFrame DEF StartRun
<1>7. CASE EndRun(w) \/ Kill(w)
  BY <1>0, <1>2, <1>5, <1>7, WorkerFrame DEF EndRun, Kill, Die
<1>8. ASSUME NEW m \in Mails, Pick(w, m) PROVE TypeOK'
  <2> DEFINE took == [pc |-> "check", batch |-> run[w].batch \ {m}, mail |-> m]
             left == [run[w] EXCEPT !.batch = @ \ {m}]
  <2>1. took \in Runs /\ took.mail \in Mails
    BY <1>0 DEF Runs
  <2>2. left \in Runs /\ left.pc = run[w].pc
    BY <1>0 DEF Runs
  <2>3. run' = [run EXCEPT ![w] = took] \/ run' = [run EXCEPT ![w] = left]
    BY <1>8 DEF Pick, Skip
  <2>4. run[w].pc = "pick" /\ UNCHANGED <<store, history, requests, inbox>>
    BY <1>8 DEF Pick
  <2> HIDE DEF took, left
  <2> QED
    BY <1>2, <2>1, <2>2, <2>3, <2>4, WorkerFrame
<1>9. CASE Check(w)
  BY <1>0, <1>1, <1>2, <1>4, <1>9, WorkerFrame DEF Check
<1>10. CASE Discard(w)
  BY <1>0, <1>1, <1>2, <1>3, <1>10, WorkerFrame DEF Discard
<1>11. CASE Accept(w)
  <2>1. heard' \in [Recipients -> [Days -> 0..MaxEvents]]
    BY <1>0, <1>2, <1>11, OutboxAssumption DEF Accept, Mails
  <2> QED
    BY <1>0, <1>1, <1>4, <1>11, <2>1, WorkerFrame DEF Accept
<1>12. CASE Refuse(w)
  BY <1>0, <1>1, <1>2, <1>4, <1>12, WorkerFrame DEF Refuse
<1>13. CASE Record(w)
  BY <1>0, <1>1, <1>2, <1>3, <1>5, <1>13, WorkerFrame DEF Record, Die
<1>14. CASE Retry(w)
  BY <1>0, <1>1, <1>2, <1>3, <1>5, <1>14, WorkerFrame DEF Retry, Die
<1> QED
  BY <1>6, <1>7, <1>8, <1>9, <1>10, <1>11, <1>12, <1>13, <1>14 DEF Work

\* What happens around the outbox.
Outside == \/ \E u \in Restless : \/ \E s \in {"on", "blind", "off"} : ChangeInbox(u, s)
                                 \/ \E s \in {"tombstone", "erased"} : EraseAccount(u, s)
           \/ DeleteGroup
           \/ \E m \in Mails : Elapse(m)

LEMMA OutsideType == ASSUME TypeOK, Outside PROVE TypeOK'
<1> USE OutboxAssumption DEF TypeOK, store, history, requests
<1>1. ASSUME NEW u \in Restless, NEW s \in {"on", "blind", "off"}, ChangeInbox(u, s) PROVE TypeOK'
  BY <1>1 DEF ChangeInbox
<1>2. ASSUME NEW u \in Restless, NEW s \in {"tombstone", "erased"}, EraseAccount(u, s) PROVE TypeOK'
  BY <1>2 DEF EraseAccount
<1>3. CASE DeleteGroup
  BY <1>3 DEF DeleteGroup
<1>4. ASSUME NEW m \in Mails, Elapse(m) PROVE TypeOK'
  BY <1>4 DEF Elapse
<1> QED
  BY <1>1, <1>2, <1>3, <1>4 DEF Outside

-----------------------------------------------------------------------------
\* Only the holder of the group row is past the lock.
LEMMA OneHolder ==
  ASSUME LockInv, NEW r \in Requests, NEW q \in Requests,
         req[r].pc \in {"write", "commit"}, req[q].pc \in {"write", "commit"}
  PROVE  q = r
  BY DEF LockInv

LEMMA NoHolder ==
  ASSUME LockInv, groupLock = NoRequest, NEW q \in Requests
  PROVE  req[q].pc \notin {"write", "commit"}
  BY OutboxAssumption DEF LockInv

\* Of the invariant, a request before COMMIT concerns these parts only.
LEMMA RequestInvFrame ==
  ASSUME IInv, TypeOK', UNCHANGED <<store, history, inbox, run>>,
         LockInv', StampInv', CommitInv', StillNews'
  PROVE  IInv'
<1> USE DEF store, history
<1>1. FlockInv'
  BY DEF IInv, FlockInv
<1>2. RowInv'
  BY DEF IInv, RowInv
<1>3. HandInv'
  BY DEF IInv, HandInv, Hand
<1>4. SteadyInv' /\ NothingLost'
  BY DEF IInv, SteadyInv, NothingLost
<1> QED
  BY <1>1, <1>2, <1>3, <1>4 DEF IInv

LEMMA RollbackInv ==
  ASSUME IInv, NEW r \in Requests, Rollback(r)
  PROVE  IInv'
<1> USE DEF store, history, IInv
<1>1. /\ req' = [req EXCEPT ![r] = Idle]
      /\ groupLock' = IF groupLock = r THEN NoRequest ELSE groupLock
      /\ UNCHANGED <<store, history, inbox, run, stamp>>
  BY DEF Rollback, Close
<1>2. \A q \in Requests : q # r => req'[q] = req[q]
  BY <1>1 DEF TypeOK
<1>3. req'[r].pc = "idle"
  BY <1>1 DEF TypeOK, Idle
<1>4. LockInv'
  BY <1>1, <1>2, <1>3 DEF LockInv
<1>5. StampInv'
  BY <1>1 DEF StampInv
<1>6. CommitInv'
  BY <1>1, <1>2, <1>3 DEF CommitInv
<1>7. StillNews'
  BY <1>1, <1>2, <1>3 DEF StillNews
<1>8. TypeOK'
  BY RequestType
<1> QED
  BY <1>1, <1>4, <1>5, <1>6, <1>7, <1>8, RequestInvFrame

LEMMA BeginInv ==
  ASSUME IInv, NEW r \in Requests, NEW op \in Ops, NEW a \in Actors, NEW d \in Days,
         Begin(r, op, a, d)
  PROVE  IInv'
<1> USE DEF store, history, IInv
<1>1. \A q \in Requests : q # r => req'[q] = req[q]
  BY DEF Begin, TypeOK
<1>2. req'[r].pc = "lock"
  BY DEF Begin, TypeOK, Idle
<1>3. UNCHANGED <<store, history, inbox, run, groupLock, stamp>>
  BY DEF Begin
<1>4. LockInv' /\ StampInv' /\ CommitInv' /\ StillNews'
  BY <1>1, <1>2, <1>3 DEF LockInv, StampInv, CommitInv, StillNews
<1>5. TypeOK'
  BY RequestType
<1> QED
  BY <1>3, <1>4, <1>5, RequestInvFrame

LEMMA LockSessionGroupInv ==
  ASSUME IInv, NEW r \in Requests, LockSessionGroup(r)
  PROVE  IInv'
<1> USE DEF store, history, IInv
<1>1. CASE Rollback(r)
  BY <1>1, RollbackInv
<1>2. CASE ~Rollback(r)
  <2>1. /\ group /\ groupLock = NoRequest /\ groupLock' = r
        /\ req' = [req EXCEPT ![r].pc = "write"]
        /\ UNCHANGED <<store, history, inbox, run, stamp>>
    BY <1>2 DEF LockSessionGroup
  <2>2. \A q \in Requests : req[q].pc \notin {"write", "commit"}
    BY <2>1, NoHolder
  <2>3. \A q \in Requests : q # r => req'[q] = req[q]
    BY <2>1 DEF TypeOK
  <2>4. req'[r].pc = "write"
    BY <2>1 DEF TypeOK, Reqs
  <2>5. LockInv' /\ StampInv' /\ CommitInv' /\ StillNews'
    BY <2>1, <2>2, <2>3, <2>4 DEF LockInv, StampInv, CommitInv, StillNews
  <2>6. TypeOK'
    BY RequestType
  <2> QED
    BY <2>1, <2>5, <2>6, RequestInvFrame
<1> QED
  BY <1>1, <1>2

LEMMA EnqueueInv ==
  ASSUME IInv, NEW r \in Requests, NEW kind \in Kinds, Enqueue(r, kind),
         req[r].pc = "write", kind = "scheduled" <=> sessions[req[r].day] # "confirmed"
  PROVE  IInv'
<1> USE DEF IInv
<1> DEFINE rows == [day : {req[r].day}, to : {u \in Recipients \ {req[r].actor} : Eligible(u)},
                    at : {stamp'}]
           open == [req[r] EXCEPT !.pc = "commit", !.kind = kind, !.rows = rows]
<1>1. /\ stamp' = stamp + 1
      /\ UNCHANGED <<store, history, inbox, run, groupLock>>
      /\ req' = [req EXCEPT ![r].pc = "commit", ![r].kind = kind, ![r].rows = rows]
  BY DEF Enqueue
<1>2. TypeOK'
  BY RequestType
<1>3. \A m \in rows : m.day = req[r].day /\ m.at = stamp'
  OBVIOUS
<1>4. \A q \in Requests : q # r => req'[q] = req[q]
  BY <1>1 DEF TypeOK
<1>5. req' = [req EXCEPT ![r] = open] /\ req[r] \in Reqs
  BY <1>1 DEF TypeOK
<1> HIDE DEF rows
<1>6. /\ req'[r].pc = "commit" /\ req'[r].kind = kind
      /\ req'[r].day = req[r].day /\ req'[r].rows = rows
  BY <1>5 DEF TypeOK, Reqs
<1>7. \A q \in Requests : q # r => req[q].pc \notin {"write", "commit"}
  BY OneHolder
<1>8. groupLock = r /\ group
  BY DEF LockInv
<1>9. /\ \A m \in announced : m.at < stamp'
      /\ \A u \in Recipients, d \in Days : heard[u][d] < stamp'
  <2>1. \A m \in announced : m.at \in Nat
    BY DEF TypeOK, Mails
  <2>2. stamp \in Nat
    BY OutboxAssumption DEF TypeOK
  <2>3. \A u \in Recipients, d \in Days : heard[u][d] \in Nat
    BY OutboxAssumption DEF TypeOK
  <2> QED
    BY <1>1, <2>1, <2>2, <2>3 DEF StampInv
<1>10. LockInv'
  BY <1>1, <1>4, <1>6, <1>7, <1>8 DEF LockInv, store
<1>11. StampInv'
  <2>1. announced' = announced /\ heard' = heard
    BY <1>1 DEF history
  <2> QED
    BY <1>9, <2>1, <1>2, OutboxAssumption DEF StampInv, TypeOK, Mails
<1>12. CommitInv'
  BY <1>1, <1>3, <1>4, <1>6, <1>7, <1>9 DEF CommitInv, history
<1>13. StillNews'
  BY <1>1, <1>4, <1>6, <1>7 DEF StillNews, store
<1> QED
  BY <1>1, <1>2, <1>10, <1>11, <1>12, <1>13, RequestInvFrame

\* A request decides under the lock what it announces.
LEMMA DecideInv ==
  ASSUME IInv, NEW r \in Requests,
         ConfirmGroupSession(r) \/ UpdateGroupSession(r) \/ CancelGroupSession(r)
  PROVE  IInv'
<1>1. CASE Rollback(r)
  BY <1>1, RollbackInv
<1>2. CASE ~Rollback(r)
  <2>1. PICK kind \in Kinds : /\ Enqueue(r, kind) /\ req[r].pc = "write"
                              /\ kind = "scheduled" <=> sessions[req[r].day] # "confirmed"
    BY <1>2 DEF ConfirmGroupSession, UpdateGroupSession, CancelGroupSession, Kinds
  <2> QED
    BY <2>1, EnqueueInv
<1> QED
  BY <1>1, <1>2

LEMMA CommitStepInv ==
  ASSUME IInv, NEW r \in Requests, Commit(r)
  PROVE  IInv'
<1> USE DEF IInv
<1>0. CASE Rollback(r)
  BY <1>0, RollbackInv
<1>1. CASE ~Rollback(r)
  <2> DEFINE rows == req[r].rows
  <2>1. /\ req[r].pc = "commit"
        /\ sessions' = [sessions EXCEPT ![req[r].day] = After(req[r].kind)]
        /\ outbox' = outbox \union rows
        /\ announced' = announced \union rows
        /\ req' = [req EXCEPT ![r] = Idle]
        /\ groupLock' = IF groupLock = r THEN NoRequest ELSE groupLock
        /\ UNCHANGED <<group, resting, recorded, mailed, heard, steady, inbox, run, stamp>>
    BY <1>1 DEF Commit, Close
  <2>2. \A m \in rows : m \in Mails /\ m.at = stamp
    BY <2>1 DEF CommitInv, TypeOK, Reqs
  <2>3. /\ \A m \in announced : m.at < stamp
        /\ \A u \in Recipients, d \in Days : heard[u][d] < stamp
    BY <2>1 DEF CommitInv
  <2>4. \A q \in Requests : q # r => req'[q] = req[q] /\ req[q].pc \notin {"write", "commit"}
    BY <2>1, OneHolder DEF TypeOK
  <2>5. req'[r].pc = "idle"
    BY <2>1 DEF TypeOK, Idle
  <2>6. /\ stamp \in Nat /\ \A m \in Mails : m.at \in Nat /\ m.to \in Recipients /\ m.day \in Days
        /\ \A u \in Recipients, d \in Days : heard[u][d] \in Nat
    BY OutboxAssumption DEF TypeOK, Mails
  <2> HIDE DEF rows
  <2>7. TypeOK'
    BY CommitType
  <2>8. LockInv' /\ CommitInv' /\ StillNews'
    BY <2>4, <2>5 DEF LockInv, CommitInv, StillNews
  <2>9. FlockInv' /\ SteadyInv'
    BY <2>1 DEF FlockInv, SteadyInv
  <2>10. StampInv'
    BY <2>1, <2>2, <2>6 DEF StampInv
  <2>11. rows \intersect announced = {}
    BY <2>2, <2>3, <2>6
  <2>12. RowInv'
    <3>1. \A n \in rows : heard[n.to][n.day] <= n.at
      BY <2>2, <2>3, <2>6
    <3> QED
      BY <2>1, <2>11, <3>1 DEF RowInv
  <2>13. HandInv'
    <3> SUFFICES ASSUME NEW w \in Workers, run[w].pc \in HandPCs PROVE Hand(w)'
      BY <2>1 DEF HandInv
    <3>1. Hand(w)
      BY DEF HandInv
    <3>2. run[w].mail \in Mails /\ run[w].mail.at < stamp
      BY <2>3, <3>1 DEF Hand, TypeOK
    <3>3. \A n \in rows : run[w].mail.at <= n.at
      BY <2>2, <2>6, <3>2
    <3> QED
      BY <2>1, <3>1, <3>3 DEF Hand
  <2>14. NothingLost'
    BY <2>1 DEF NothingLost
  <2> QED
    BY <2>7, <2>8, <2>9, <2>10, <2>12, <2>13, <2>14
<1> QED
  BY <1>0, <1>1

-----------------------------------------------------------------------------
\* The worker leaves everybody else's part of the invariant alone, unless the
\* provider has accepted a mail.
LEMMA WorkerInvFrame ==
  ASSUME IInv, TypeOK', UNCHANGED <<group, sessions, requests, inbox, announced, steady>>,
         UNCHANGED heard, FlockInv', RowInv', HandInv', NothingLost'
  PROVE  IInv'
<1> USE DEF requests, IInv
<1>1. LockInv' /\ SteadyInv' /\ StillNews'
  BY DEF LockInv, SteadyInv, StillNews
<1>2. StampInv' /\ CommitInv'
  BY DEF StampInv, CommitInv
<1> QED
  BY <1>1, <1>2

\* While w works, the others are idle.
LEMMA OthersIdle ==
  ASSUME IInv, NEW w \in Workers, run[w].pc # "idle", NEW now, run' = [run EXCEPT ![w] = now]
  PROVE  /\ run'[w] = now
         /\ \A v \in Workers : v # w => run'[v].pc = "idle"
         /\ FlockInv'
<1>1. \A v \in Workers : v # w => run[v].pc = "idle"
  BY DEF IInv, FlockInv
<1>2. run \in [Workers -> Runs]
  BY DEF IInv, TypeOK
<1>3. run'[w] = now /\ \A v \in Workers : v # w => run'[v].pc = "idle"
  BY <1>1, <1>2
<1> QED
  BY <1>3 DEF FlockInv

LEMMA StartRunInv ==
  ASSUME IInv, NEW w \in Workers, StartRun(w)
  PROVE  IInv'
<1> USE DEF store, history, requests, IInv
<1>1. PICK S : run' = [run EXCEPT ![w] = [NoRun EXCEPT !.pc = "pick", !.batch = S]]
  BY DEF StartRun
<1>2. \A v \in Workers : run[v].pc = "idle"
  BY DEF StartRun
<1>3. \A v \in Workers : IF v = w THEN run'[v].pc = "pick" ELSE run'[v].pc = "idle"
  BY <1>1, <1>2 DEF TypeOK, NoRun
<1>4. UNCHANGED <<store, history, requests, inbox>>
  BY DEF StartRun
<1>5. FlockInv' /\ HandInv'
  BY <1>3 DEF FlockInv, HandInv, HandPCs
<1>6. RowInv' /\ NothingLost'
  BY <1>4 DEF RowInv, NothingLost
<1>7. TypeOK'
  BY WorkerType DEF Work
<1> QED
  BY <1>4, <1>5, <1>6, <1>7, WorkerInvFrame

LEMMA EndRunInv ==
  ASSUME IInv, NEW w \in Workers, EndRun(w) \/ Kill(w)
  PROVE  IInv'
<1> USE DEF store, history, requests, IInv
<1>1. /\ UNCHANGED <<store, history, requests, inbox>>
      /\ run[w].pc # "idle" /\ run' = [run EXCEPT ![w] = NoRun]
  BY DEF EndRun, Kill, Die
<1>2. FlockInv' /\ \A v \in Workers : run'[v].pc = "idle"
  <2>1. run'[w] = NoRun /\ FlockInv' /\ \A v \in Workers : v # w => run'[v].pc = "idle"
    BY <1>1, OthersIdle
  <2> QED
    BY <2>1 DEF NoRun
<1>3. HandInv'
  BY <1>2 DEF HandInv, HandPCs
<1>4. RowInv' /\ NothingLost'
  BY <1>1 DEF RowInv, NothingLost
<1>5. TypeOK'
  BY WorkerType DEF Work
<1> QED
  BY <1>1, <1>2, <1>3, <1>4, <1>5, WorkerInvFrame

\* The mail picked is the oldest of its channel.
LEMMA PickInv ==
  ASSUME IInv, NEW w \in Workers, NEW m \in Mails, Pick(w, m)
  PROVE  IInv'
<1> USE DEF store, history, requests, IInv
<1> DEFINE took == [pc |-> "check", batch |-> run[w].batch \ {m}, mail |-> m]
           left == [run[w] EXCEPT !.batch = @ \ {m}]
           earlier == {n \in outbox : n.to = m.to /\ n.day = m.day /\ n.at < m.at}
<1>1. run[w].pc = "pick" /\ UNCHANGED <<store, history, requests, inbox>>
  BY DEF Pick
<1>2. RowInv' /\ NothingLost'
  BY <1>1 DEF RowInv, NothingLost
<1>3. TypeOK'
  BY WorkerType DEF Work
<1>4. FlockInv' /\ HandInv'
  <2>1. CASE m \in outbox /\ earlier = {}
    <3>1. run' = [run EXCEPT ![w] = took]
      BY <2>1 DEF Pick
    <3>2. run'[w] = took /\ (\A v \in Workers : v # w => run'[v].pc = "idle") /\ FlockInv'
      BY <1>1, <3>1, OthersIdle
    <3>3. \A n \in outbox : Channel(m, n) => m.at <= n.at
      BY <2>1, OutboxAssumption DEF Channel, TypeOK, Mails
    <3>4. m \in announced \ recorded /\ heard[m.to][m.day] <= m.at
      BY <2>1 DEF RowInv
    <3>5. run'[w].pc = "check" /\ run'[w].mail = m
      BY <3>2
    <3>6. Hand(w)'
      BY <1>1, <3>3, <3>4, <3>5 DEF Hand
    <3> QED
      BY <3>2, <3>6 DEF HandInv, HandPCs
  <2>2. CASE ~(m \in outbox /\ earlier = {})
    <3>1. run' = [run EXCEPT ![w] = left]
      BY <2>2 DEF Pick, Skip
    <3>2. run'[w] = left /\ (\A v \in Workers : v # w => run'[v].pc = "idle") /\ FlockInv'
      BY <1>1, <3>1, OthersIdle
    <3>3. run'[w].pc = "pick"
      BY <1>1, <3>2 DEF TypeOK, Runs
    <3> QED
      BY <3>2, <3>3 DEF HandInv, HandPCs
  <2> QED
    BY <2>1, <2>2
<1> QED
  BY <1>1, <1>2, <1>3, <1>4, WorkerInvFrame

\* The statements that leave the tables as they are.
LEMMA KeepInv ==
  ASSUME IInv, NEW w \in Workers, run[w].pc \in HandPCs,
         UNCHANGED <<store, history, requests, inbox>>,
         NEW l \in HandPCs, Continue(w, l), TypeOK',
         l # "record", l = "discard" => run[w].mail.to \notin steady \/ ~group
  PROVE  IInv'
<1> USE DEF store, history, requests, IInv
<1>1. run' = [run EXCEPT ![w] = [run[w] EXCEPT !.pc = l]]
  BY DEF Continue
<1>2. /\ run'[w] = [run[w] EXCEPT !.pc = l] /\ FlockInv'
      /\ \A v \in Workers : v # w => run'[v].pc = "idle"
  BY <1>1, OthersIdle DEF HandPCs
<1>3. run'[w].pc = l /\ run'[w].mail = run[w].mail
  BY <1>2 DEF TypeOK, Runs
<1>4. Hand(w)'
  BY <1>3 DEF HandInv, Hand
<1>5. HandInv'
  BY <1>2, <1>4 DEF HandInv, HandPCs
<1>6. RowInv' /\ NothingLost'
  BY DEF RowInv, NothingLost
<1> QED
  BY <1>2, <1>5, <1>6, WorkerInvFrame

LEMMA CheckInv ==
  ASSUME IInv, NEW w \in Workers, Check(w) \/ Refuse(w)
  PROVE  IInv'
<1>0. TypeOK'
  BY WorkerType DEF Work, IInv
<1>1. CASE Refuse(w)
  BY <1>0, <1>1, KeepInv DEF Refuse, HandPCs
<1>2. CASE Check(w)
  <2>1. PICK l \in {"send", "discard"} :
             /\ Continue(w, l)
             /\ l = "discard" => inbox[run[w].mail.to] # "on" \/ ~group
    BY <1>2 DEF Check
  <2>2. l = "discard" => run[w].mail.to \notin steady \/ ~group
    BY <2>1 DEF IInv, SteadyInv
  <2> QED
    BY <1>0, <1>2, <2>1, <2>2, KeepInv DEF Check, HandPCs
<1> QED
  BY <1>1, <1>2

\* After these the worker has nothing in hand.
LEMMA EmptyHand ==
  ASSUME IInv, NEW w \in Workers, run[w].pc \in HandPCs, NextRow(w) \/ Die(w)
  PROVE  FlockInv' /\ HandInv'
<1>1. PICK now : run' = [run EXCEPT ![w] = now] /\ now.pc \in {"pick", "idle"}
  <2>1. [run[w] EXCEPT !.pc = "pick", !.mail = NoMail].pc = "pick"
    BY DEF IInv, TypeOK, Runs
  <2>2. NoRun.pc = "idle"
    BY DEF NoRun
  <2>3. CASE Die(w)
    BY <2>2, <2>3 DEF Die
  <2>4. CASE NextRow(w)
    <3>1. run' = [run EXCEPT ![w] = [run[w] EXCEPT !.pc = "pick", !.mail = NoMail]]
      BY <2>4 DEF NextRow
    <3> QED
      BY <2>1, <3>1
  <2> QED
    BY <2>3, <2>4
<1>2. run'[w].pc \in {"pick", "idle"} /\ FlockInv' /\ \A v \in Workers : v # w => run'[v].pc = "idle"
  BY <1>1, OthersIdle DEF HandPCs
<1> QED
  BY <1>2 DEF HandInv, HandPCs

\* A row leaves the outbox as delivered or as undeliverable.
LEMMA SettleInv ==
  ASSUME IInv, NEW w \in Workers, Discard(w) \/ Record(w) \/ Retry(w)
  PROVE  IInv'
<1> USE DEF store, history, requests, IInv
<1> DEFINE m == run[w].mail
<1>1. /\ run[w].pc \in HandPCs /\ (NextRow(w) \/ Die(w))
      /\ UNCHANGED <<group, sessions, history, requests, inbox>>
      /\ outbox' \in {outbox, outbox \ {m}}
  BY DEF Discard, Record, Retry, HandPCs
<1>2. TypeOK'
  BY WorkerType DEF Work
<1>3. FlockInv' /\ HandInv'
  BY <1>1, EmptyHand
<1>4. Hand(w)
  BY <1>1 DEF HandInv
<1>5. recorded' = recorded \/ (recorded' = recorded \union {m} /\ outbox' = outbox \ {m})
  BY DEF Discard, Record, Retry
<1>6. RowInv'
  BY <1>1, <1>4, <1>5 DEF RowInv, Hand
<1>7. NothingLost'
  <2>1. outbox' # outbox => m \in mailed \/ m.to \notin steady \/ ~group
    BY <1>4 DEF Discard, Record, Retry, Hand
  <2> QED
    BY <1>1, <2>1 DEF NothingLost
<1> QED
  BY <1>1, <1>2, <1>3, <1>6, <1>7, WorkerInvFrame

\* A mail that is accepted is no older than the last one of its channel and no
\* newer than the rows that wait.
LEMMA AcceptInv ==
  ASSUME IInv, NEW w \in Workers, Accept(w)
  PROVE  IInv' /\ \A u \in Recipients, d \in Days : heard[u][d] <= heard'[u][d]
<1> USE DEF store, history, requests, IInv
<1> DEFINE m == run[w].mail
<1>1. /\ run[w].pc = "send" /\ mailed' = mailed \union {m}
      /\ heard' = [heard EXCEPT ![m.to][m.day] = m.at]
      /\ run' = [run EXCEPT ![w] = [run[w] EXCEPT !.pc = "record"]]
      /\ UNCHANGED <<store, requests, inbox, announced, steady>>
  BY DEF Accept, Continue
<1>2. TypeOK'
  BY WorkerType DEF Work
<1>3. /\ run'[w] = [run[w] EXCEPT !.pc = "record"] /\ FlockInv'
      /\ \A v \in Workers : v # w => run'[v].pc = "idle"
  BY <1>1, OthersIdle
<1>4. run'[w].pc = "record" /\ run'[w].mail = m
  BY <1>3 DEF TypeOK, Runs
<1>5. Hand(w)
  BY <1>1 DEF HandInv, HandPCs
<1>6. m \in Mails /\ m.to \in Recipients /\ m.day \in Days /\ m.at \in Nat
  BY <1>1, OutboxAssumption DEF TypeOK, Mails
<1>7. \A u \in Recipients, d \in Days :
          /\ heard[u][d] \in Nat
          /\ heard'[u][d] = IF u = m.to /\ d = m.day THEN m.at ELSE heard[u][d]
  BY <1>1, <1>6, OutboxAssumption DEF TypeOK
<1>8. \A u \in Recipients, d \in Days : heard[u][d] <= heard'[u][d]
  BY <1>5, <1>6, <1>7 DEF Hand
<1>9. Hand(w)'
  BY <1>1, <1>4, <1>5, <1>6, <1>7 DEF Hand
<1>10. HandInv'
  BY <1>3, <1>9 DEF HandInv, HandPCs
<1>11. RowInv'
  <2>1. \A n \in outbox : n \in Mails /\ n.to \in Recipients /\ n.day \in Days /\ n.at \in Nat
    BY OutboxAssumption DEF TypeOK, Mails
  <2>2. \A n \in outbox : heard'[n.to][n.day] <= n.at
    BY <1>5, <1>7, <2>1 DEF RowInv, Hand, Channel
  <2> QED
    BY <1>1, <1>5, <2>2 DEF RowInv, Hand
<1>12. NothingLost'
  BY <1>1 DEF NothingLost
<1>13. LockInv' /\ SteadyInv' /\ StillNews'
  BY <1>1 DEF LockInv, SteadyInv, StillNews
<1>14. StampInv'
  BY <1>1, <1>5, <1>7 DEF StampInv, Hand
<1>15. CommitInv'
  BY <1>1, <1>5, <1>7 DEF CommitInv, Hand
<1> QED
  BY <1>2, <1>3, <1>8, <1>10, <1>11, <1>12, <1>13, <1>14, <1>15

-----------------------------------------------------------------------------
\* Rows deleted by others only relieve the worker and the requests.
LEMMA OutsideInv ==
  ASSUME IInv, Outside
  PROVE  IInv'
<1> USE DEF store, history, requests, IInv
<1>0. TypeOK'
  BY OutsideType
\* Nothing but rows went, and with them those of members no longer steady.
<1>1. ASSUME UNCHANGED <<requests, run, mailed, heard, announced>>,
             outbox' \subseteq outbox, recorded' \subseteq recorded, steady' \subseteq steady,
             group' => group /\ \A n \in outbox \ outbox' : n.to \notin steady',
             group => group' \/ groupLock = NoRequest,
             UNCHANGED sessions \/ groupLock = NoRequest, SteadyInv'
      PROVE  IInv'
  <2>1. LockInv' /\ StillNews'
    BY <1>1, NoHolder DEF LockInv, StillNews
  <2>2. FlockInv' /\ StampInv' /\ CommitInv'
    BY <1>1 DEF FlockInv, StampInv, CommitInv
  <2>3. RowInv'
    BY <1>1 DEF RowInv
  <2>4. HandInv'
    BY <1>1 DEF HandInv, Hand
  <2>5. NothingLost'
    BY <1>1 DEF NothingLost
  <2> QED
    BY <1>0, <1>1, <2>1, <2>2, <2>3, <2>4, <2>5
<1>2. ASSUME NEW u \in Restless, NEW s \in {"on", "blind", "off"}, ChangeInbox(u, s) PROVE IInv'
  <2>1. SteadyInv'
    BY <1>2, OutboxAssumption DEF ChangeInbox, SteadyInv, TypeOK
  <2> QED
    BY <1>1, <1>2, <2>1 DEF ChangeInbox
<1>3. ASSUME NEW u \in Restless, NEW s \in {"tombstone", "erased"}, EraseAccount(u, s) PROVE IInv'
  <2>1. SteadyInv'
    BY <1>3, OutboxAssumption DEF EraseAccount, SteadyInv, TypeOK
  <2>2. \A n \in outbox \ outbox' : n.to \notin steady'
    BY <1>3 DEF EraseAccount, To, TypeOK
  <2> QED
    BY <1>1, <1>3, <2>1, <2>2 DEF EraseAccount
<1>4. CASE DeleteGroup
  BY <1>1, <1>4 DEF DeleteGroup, SteadyInv
<1>5. ASSUME NEW m \in Mails, Elapse(m) PROVE IInv'
  BY <1>1, <1>5 DEF Elapse, SteadyInv
<1> QED
  BY <1>2, <1>3, <1>4, <1>5 DEF Outside

LEMMA NextCases ==
  ASSUME Next
  PROVE  \/ Outside
         \/ \E r \in Requests :
               \/ LockSessionGroup(r) \/ Commit(r) \/ Rollback(r)
               \/ ConfirmGroupSession(r) \/ UpdateGroupSession(r) \/ CancelGroupSession(r)
               \/ \E op \in Ops, a \in Actors, d \in Days : Begin(r, op, a, d)
         \/ \E w \in Workers : Work(w) \/ Kill(w)
  BY DEF Next, Outside, Serve, Fail

LEMMA NextIInv == IInv /\ [Next]_vars => IInv'
<1> SUFFICES ASSUME IInv, [Next]_vars PROVE IInv'
  OBVIOUS
<1>1. CASE UNCHANGED vars
  BY <1>1 DEF vars, store, history, requests, IInv, TypeOK, LockInv, FlockInv, StampInv, CommitInv,
              RowInv, HandInv, Hand, SteadyInv, NothingLost, StillNews
<1>2. CASE Outside
  BY <1>2, OutsideInv
<1>3. ASSUME NEW r \in Requests,
             \/ LockSessionGroup(r) \/ Commit(r) \/ Rollback(r)
             \/ ConfirmGroupSession(r) \/ UpdateGroupSession(r) \/ CancelGroupSession(r)
             \/ \E op \in Ops, a \in Actors, d \in Days : Begin(r, op, a, d)
      PROVE  IInv'
  BY <1>3, LockSessionGroupInv, CommitStepInv, RollbackInv, DecideInv, BeginInv
<1>4. ASSUME NEW w \in Workers, Work(w) \/ Kill(w) PROVE IInv'
  BY <1>4, StartRunInv, EndRunInv, PickInv, CheckInv, SettleInv, AcceptInv DEF Work
<1> QED
  BY <1>1, <1>2, <1>3, <1>4, NextCases

THEOREM Invariance == Spec => []IInv
<1>1. Init => IInv
  BY InitIInv
<1>2. IInv /\ [Next]_vars => IInv'
  BY NextIInv
<1> QED
  BY <1>1, <1>2, PTL DEF Spec

\* Every variable and every statement of a worker keeps its type.
THEOREM Typing == Spec => []TypeOK
<1>1. IInv => TypeOK
  BY DEF IInv
<1> QED
  BY <1>1, Invariance, PTL

\* Nobody hears of a session change that was rolled back.
THEOREM CommittedNewsOnly == Spec => []OnlyCommittedNews
<1>1. IInv => OnlyCommittedNews
  BY DEF IInv, RowInv, OnlyCommittedNews
<1> QED
  BY <1>1, Invariance, PTL

\* A member who could be reached all along loses no email, whatever dies.
THEOREM NoMailLost == Spec => []NothingLost
<1>1. IInv => NothingLost
  BY DEF IInv
<1> QED
  BY <1>1, Invariance, PTL

\* Overlapping requests never announce the same change of a session twice.
THEOREM NoDoubleNews == Spec => []StillNews
<1>1. IInv => StillNews
  BY DEF IInv
<1> QED
  BY <1>1, Invariance, PTL

\* A mail with a delivery row is not sent again.
THEOREM NoRepeatOnceRecorded == Spec => RecordedOnce
<1>1. IInv /\ [Next]_vars => [\A w \in Workers : Accept(w) => run[w].mail \notin recorded]_vars
  <2>1. ASSUME IInv, NEW w \in Workers, Accept(w) PROVE run[w].mail \notin recorded
    BY <2>1 DEF IInv, HandInv, HandPCs, Hand, Accept
  <2> QED
    BY <2>1
<1> QED
  BY <1>1, Invariance, PTL DEF Spec, RecordedOnce

\* Only a mail the provider accepts is heard.
LEMMA HeardByAccept ==
  ASSUME IInv, [Next]_vars
  PROVE  UNCHANGED heard \/ \E w \in Workers : Accept(w)
<1> USE DEF store, history, requests
<1>1. ASSUME NEW r \in Requests,
             \/ LockSessionGroup(r) \/ Commit(r) \/ Rollback(r)
             \/ ConfirmGroupSession(r) \/ UpdateGroupSession(r) \/ CancelGroupSession(r)
             \/ \E op \in Ops, a \in Actors, d \in Days : Begin(r, op, a, d)
      PROVE  UNCHANGED heard
  BY <1>1 DEF LockSessionGroup, Commit, Rollback, ConfirmGroupSession, UpdateGroupSession,
              CancelGroupSession, Begin, Enqueue
<1>2. ASSUME NEW w \in Workers, Work(w) \/ Kill(w), ~Accept(w) PROVE UNCHANGED heard
  BY <1>2 DEF Work, StartRun, EndRun, Pick, Check, Discard, Refuse, Record, Retry, Kill
<1>3. CASE Outside
  BY <1>3 DEF Outside, ChangeInbox, EraseAccount, DeleteGroup, Elapse
<1>4. CASE UNCHANGED vars
  BY <1>4 DEF vars
<1> QED
  BY <1>1, <1>2, <1>3, <1>4, NextCases

\* Emails of one session reach a member in the order of its changes.
THEOREM NoOvertaking == Spec => NeverOutOfOrder
<1>1. IInv /\ [Next]_vars
        => [\A u \in Recipients, d \in Days : heard[u][d] <= heard'[u][d]]_vars
  <2> SUFFICES ASSUME IInv, [Next]_vars
               PROVE  \A u \in Recipients, d \in Days : heard[u][d] <= heard'[u][d]
    OBVIOUS
  <2>1. CASE UNCHANGED heard
    BY <2>1, OutboxAssumption DEF IInv, TypeOK
  <2>2. ASSUME NEW w \in Workers, Accept(w)
        PROVE  \A u \in Recipients, d \in Days : heard[u][d] <= heard'[u][d]
    BY <2>2, AcceptInv
  <2> QED
    BY <2>1, <2>2, HeardByAccept
<1> QED
  BY <1>1, Invariance, PTL DEF Spec, NeverOutOfOrder

-----------------------------------------------------------------------------
(* The mails of SessionOutbox are an EventFeed.                            *)

Channels == Recipients \X Days
InChannel(T, c) == {m \in T : m.to = c[1] /\ m.day = c[2]}

\* The variables of EventFeed.
At(T, c)  == {m.at : m \in InChannel(T, c)}
Stamps(T) == [c \in Channels |-> At(T, c)]
News  == Stamps(announced)
Queue == Stamps(outbox)
Heard == [c \in Channels |-> heard[c[1]][c[2]]]

\* The steps of EventFeed in these terms.
LEMMA FeedVars ==
  /\ UNCHANGED Feed!vars <=> News' = News /\ Queue' = Queue /\ Heard' = Heard
  /\ Feed!Init <=> /\ News = [c \in Channels |-> {}] /\ Queue = [c \in Channels |-> {}]
                   /\ Heard = [c \in Channels |-> 0]
  BY DEF Feed!Channels, Feed!vars, Feed!Init, Channels, InChannel, At, Stamps, News, Queue, Heard

LEMMA AnnounceStep ==
  ASSUME NEW d \in Days, NEW S \in SUBSET Recipients, NEW n \in 1..MaxEvents,
         \A c \in S \X {d} : (\A k \in News[c] : k < n) /\ Heard[c] < n,
         News' = [c \in Channels |-> IF c \in S \X {d} THEN News[c] \union {n} ELSE News[c]],
         Queue' = [c \in Channels |-> IF c \in S \X {d} THEN Queue[c] \union {n} ELSE Queue[c]],
         Heard' = Heard
  PROVE  [Feed!Next]_Feed!vars
<1>1. Feed!Announce(d, S, n)
  BY DEF Feed!Announce, Feed!Channels, Channels, InChannel, At, Stamps, News, Queue, Heard
<1> QED
  BY <1>1 DEF Feed!Next

LEMMA MailStep ==
  ASSUME NEW c \in Channels, NEW n \in 1..MaxEvents,
         n \in News[c], Heard[c] <= n, \A k \in Queue[c] : n <= k,
         Heard' = [Heard EXCEPT ![c] = n], News' = News, Queue' = Queue
  PROVE  [Feed!Next]_Feed!vars
<1>1. Feed!Mail(c, n)
  BY DEF Feed!Mail, Feed!Channels, Channels, InChannel, At, Stamps, News, Queue, Heard
<1> QED
  BY <1>1 DEF Feed!Next, Feed!Channels, Channels

LEMMA SettleStep ==
  ASSUME NEW c \in Channels, NEW n,
         n \in Queue[c], \A k \in Queue[c] : n <= k,
         Queue' = [Queue EXCEPT ![c] = @ \ {n}], News' = News, Heard' = Heard
  PROVE  [Feed!Next]_Feed!vars
<1>1. Feed!Settle(c)
  BY DEF Feed!Settle, Feed!Channels, Channels, InChannel, At, Stamps, News, Queue, Heard
<1> QED
  BY <1>1 DEF Feed!Next, Feed!Channels, Channels

LEMMA ClearStep ==
  ASSUME NEW S, S = Channels \/ \E u \in Recipients : S = {u} \X Days,
         Queue' = [c \in Channels |-> IF c \in S THEN {} ELSE Queue[c]],
         News' = News, Heard' = Heard
  PROVE  [Feed!Next]_Feed!vars
<1>1. Feed!Clear(S)
  BY DEF Feed!Clear, Feed!Channels, Channels, InChannel, At, Stamps, News, Queue, Heard
<1> QED
  BY <1>1 DEF Feed!Next, Feed!Channels, Channels

LEMMA FeedNext ==
  /\ News = Stamps(announced) /\ Queue = Stamps(outbox)
  /\ News' = Stamps(announced') /\ Queue' = Stamps(outbox')
  /\ heard' = heard => Heard' = Heard
  BY DEF News, Queue, Heard, Stamps, At, InChannel

\* Stamps of a channel: its members, after rows are added, after one is removed.
LEMMA AtIs ==
  ASSUME NEW T, NEW c, NEW k
  PROVE  k \in At(T, c) <=> \E m \in T : m.to = c[1] /\ m.day = c[2] /\ m.at = k
  BY DEF At, InChannel

LEMMA AtAdded ==
  ASSUME NEW T, NEW rows, NEW c
  PROVE  At(T \union rows, c) = At(T, c) \union At(rows, c)
  BY DEF At, InChannel

LEMMA AtRemoved ==
  ASSUME NEW T \in SUBSET Mails, NEW m \in T, NEW c \in Channels
  PROVE  At(T \ {m}, c) = IF c = <<m.to, m.day>> THEN At(T, c) \ {m.at} ELSE At(T, c)
<1>1. \A n \in T : n.to = m.to /\ n.day = m.day /\ n.at = m.at => n = m
  BY MailsDiffer DEF Channel
<1>2. c = <<m.to, m.day>> <=> c[1] = m.to /\ c[2] = m.day
  BY DEF Channels
<1> QED
  BY <1>1, <1>2 DEF At, InChannel

LEMMA InitFeed == Init => Feed!Init
<1> SUFFICES ASSUME Init PROVE Feed!Init
  OBVIOUS
<1>1. Stamps({}) = [c \in Channels |-> {}]
  BY DEF Stamps, At, InChannel
<1>2. Heard = [c \in Channels |-> 0]
  BY DEF Init, Heard, Channels
<1> QED
  BY <1>1, <1>2, FeedVars DEF Init, News, Queue

LEMMA StutterFeed ==
  ASSUME UNCHANGED <<announced, outbox, heard>>
  PROVE  [Feed!Next]_Feed!vars
<1>1. News' = News /\ Queue' = Queue /\ Heard' = Heard
  BY FeedNext
<1> QED
  BY <1>1, FeedVars

\* COMMIT announces one event to the recipients of its rows.
LEMMA CommitFeed ==
  ASSUME IInv, NEW r \in Requests, Commit(r)
  PROVE  [Feed!Next]_Feed!vars
<1> USE DEF IInv
<1>1. CASE Rollback(r) \/ req[r].rows = {}
  <2>1. UNCHANGED <<announced, outbox, heard>>
    BY <1>1 DEF Commit, Rollback, store, history
  <2> QED
    BY <2>1, StutterFeed
<1>2. CASE ~Rollback(r) /\ req[r].rows # {}
  <2> DEFINE rows == req[r].rows
             d == req[r].day
             S == {m.to : m \in rows}
  <2>1. /\ req[r].pc = "commit" /\ outbox' = outbox \union rows
        /\ announced' = announced \union rows /\ heard' = heard
    BY <1>2 DEF Commit
  <2>2. \A m \in rows : m \in Mails /\ m.day = d /\ m.at = stamp
    BY <2>1 DEF CommitInv, TypeOK, Reqs
  <2>3. /\ \A m \in announced : m.at < stamp
        /\ \A u \in Recipients, e \in Days : heard[u][e] < stamp
    BY <2>1 DEF CommitInv
  <2> HIDE DEF rows, d
  <2>4. stamp \in 1..MaxEvents /\ d \in Days /\ S \subseteq Recipients
    BY <1>2, <2>1, <2>2 DEF Mails, rows, d
  <2>5. ASSUME NEW c \in Channels
        PROVE  At(rows, c) = IF c \in S \X {d} THEN {stamp} ELSE {}
    <3>1. c \in S \X {d} <=> \E m \in rows : m.to = c[1] /\ m.day = c[2]
      BY <2>2 DEF Channels
    <3> QED
      BY <2>2, <3>1 DEF At, InChannel
  <2>6. ASSUME NEW T
        PROVE  Stamps(T \union rows) = [c \in Channels |-> IF c \in S \X {d} THEN Stamps(T)[c] \union {stamp}
                                                                            ELSE Stamps(T)[c]]
    <3>1. ASSUME NEW c \in Channels
          PROVE  At(T \union rows, c) = IF c \in S \X {d} THEN At(T, c) \union {stamp} ELSE At(T, c)
      <4>1. At(T \union rows, c) = At(T, c) \union At(rows, c)
        BY AtAdded
      <4> HIDE DEF S
      <4> QED
        BY <2>5, <4>1
    <3> QED
      BY <3>1 DEF Stamps
  <2>7. /\ News' = [c \in Channels |-> IF c \in S \X {d} THEN News[c] \union {stamp} ELSE News[c]]
        /\ Queue' = [c \in Channels |-> IF c \in S \X {d} THEN Queue[c] \union {stamp} ELSE Queue[c]]
    BY <2>1, <2>6, FeedNext
  <2>8. Heard' = Heard
    BY <2>1, FeedNext
  <2>9. \A c \in S \X {d} : (\A k \in News[c] : k < stamp) /\ Heard[c] < stamp
    <3> SUFFICES ASSUME NEW c \in S \X {d} PROVE (\A k \in News[c] : k < stamp) /\ Heard[c] < stamp
      OBVIOUS
    <3>1. c \in Channels /\ c[1] \in Recipients /\ c[2] \in Days
      BY <2>4 DEF Channels
    <3> QED
      BY <2>3, <3>1, AtIs, FeedNext DEF Stamps, Heard
  <2> QED
    BY <2>4, <2>7, <2>8, <2>9, AnnounceStep
<1> QED
  BY <1>1, <1>2

LEMMA AcceptFeed ==
  ASSUME IInv, NEW w \in Workers, Accept(w)
  PROVE  [Feed!Next]_Feed!vars
<1> DEFINE m == run[w].mail
           c == <<m.to, m.day>>
<1>1. run[w].pc = "send" /\ heard' = [heard EXCEPT ![m.to][m.day] = m.at]
      /\ announced' = announced /\ outbox' = outbox
  BY DEF Accept, store
<1>2. Hand(w) /\ m \in Mails
  BY <1>1 DEF IInv, HandInv, HandPCs, TypeOK
<1>3. c \in Channels /\ m.at \in 1..MaxEvents
  BY <1>2 DEF Mails, Channels
<1>4. m.at \in News[c] /\ Heard[c] <= m.at /\ \A k \in Queue[c] : m.at <= k
  <2>1. At(announced, c) = News[c] /\ At(outbox, c) = Queue[c]
    BY <1>3, FeedNext DEF Stamps
  <2>2. m.at \in At(announced, c) /\ \A k \in At(outbox, c) : m.at <= k
    BY <1>2, AtIs DEF Hand, Channel
  <2> QED
    BY <1>2, <1>3, <2>1, <2>2 DEF Hand, Heard
<1>5. Heard' = [Heard EXCEPT ![c] = m.at]
  <2> SUFFICES ASSUME NEW e \in Channels
               PROVE  heard'[e[1]][e[2]] = IF e = c THEN m.at ELSE heard[e[1]][e[2]]
    BY <1>3 DEF Heard
  <2>1. e[1] \in Recipients /\ e[2] \in Days /\ e = <<e[1], e[2]>>
    BY DEF Channels
  <2>2. heard \in [Recipients -> [Days -> 0..MaxEvents]]
    BY DEF IInv, TypeOK
  <2> QED
    BY <1>1, <2>1, <2>2
<1>6. News' = News /\ Queue' = Queue
  BY <1>1, FeedNext
<1> QED
  BY <1>3, <1>4, <1>5, <1>6, MailStep

\* A row settled is the oldest of its channel; a row that is gone settles nothing.
LEMMA SettleFeed ==
  ASSUME IInv, NEW w \in Workers, Discard(w) \/ Record(w) \/ Retry(w)
  PROVE  [Feed!Next]_Feed!vars
<1> DEFINE m == run[w].mail
           c == <<m.to, m.day>>
<1>1. run[w].pc \in HandPCs /\ announced' = announced /\ heard' = heard
  BY DEF Discard, Record, Retry, HandPCs, history
<1>2. CASE outbox' = outbox
  BY <1>1, <1>2, StutterFeed
<1>3. CASE outbox' # outbox
  <2>1. outbox' = outbox \ {m} /\ m \in outbox
    BY <1>3 DEF Discard, Record, Retry, store
  <2>2. Hand(w) /\ m \in Mails /\ outbox \in SUBSET Mails
    BY <1>1, <2>1 DEF IInv, HandInv, TypeOK
  <2>3. c \in Channels
    BY <2>2 DEF Mails, Channels
  <2>4. m.at \in Queue[c] /\ \A k \in Queue[c] : m.at <= k
    <3>1. At(outbox, c) = Queue[c]
      BY <2>3, FeedNext DEF Stamps
    <3> QED
      BY <2>1, <2>2, <3>1, AtIs DEF Hand, Channel
  <2>5. Queue' = [Queue EXCEPT ![c] = @ \ {m.at}]
    <3>1. \A e \in Channels : At(outbox \ {m}, e) = IF e = c THEN At(outbox, e) \ {m.at} ELSE At(outbox, e)
      BY <2>1, <2>2, AtRemoved
    <3>2. Stamps(outbox \ {m}) = [Stamps(outbox) EXCEPT ![c] = @ \ {m.at}]
      BY <2>3, <3>1 DEF Stamps
    <3> QED
      BY <2>1, <3>2, FeedNext
  <2>6. News' = News /\ Heard' = Heard
    BY <1>1, FeedNext
  <2> QED
    BY <2>3, <2>4, <2>5, <2>6, SettleStep
<1> QED
  BY <1>2, <1>3

LEMMA OutsideFeed ==
  ASSUME IInv, Outside
  PROVE  [Feed!Next]_Feed!vars
<1>1. ASSUME NEW u \in Restless, NEW s, EraseAccount(u, s) PROVE [Feed!Next]_Feed!vars
  <2>1. outbox' = outbox \ To(u) /\ announced' = announced /\ heard' = heard
    BY <1>1 DEF EraseAccount
  <2>2. ASSUME NEW c \in Channels
        PROVE  At(outbox \ To(u), c) = IF c \in {u} \X Days THEN {} ELSE At(outbox, c)
    <3>1. c \in {u} \X Days <=> c[1] = u
      BY DEF Channels
    <3>2. \A m \in outbox : m \in To(u) <=> m.to = u
      BY DEF To, IInv, TypeOK
    <3> QED
      BY <3>1, <3>2 DEF At, InChannel
  <2>3. Stamps(outbox \ To(u)) = [c \in Channels |-> IF c \in {u} \X Days THEN {} ELSE Stamps(outbox)[c]]
    BY <2>2 DEF Stamps
  <2> QED
    BY <2>1, <2>3, FeedNext, ClearStep, OutboxAssumption
<1>2. CASE DeleteGroup
  <2>1. outbox' = {} /\ announced' = announced /\ heard' = heard
    BY <1>2 DEF DeleteGroup, history
  <2>2. Stamps({}) = [c \in Channels |-> IF c \in Channels THEN {} ELSE Stamps(outbox)[c]]
    BY DEF Stamps, At, InChannel
  <2> QED
    BY <2>1, <2>2, FeedNext, ClearStep
<1>3. ASSUME NEW u \in Restless, NEW s, ChangeInbox(u, s) PROVE UNCHANGED <<announced, outbox, heard>>
  BY <1>3 DEF ChangeInbox, store
<1>4. ASSUME NEW m \in Mails, Elapse(m) PROVE UNCHANGED <<announced, outbox, heard>>
  BY <1>4 DEF Elapse, history
<1> QED
  BY <1>1, <1>2, <1>3, <1>4, StutterFeed DEF Outside

LEMMA StepFeed == IInv /\ [Next]_vars => [Feed!Next]_Feed!vars
<1> SUFFICES ASSUME IInv, [Next]_vars PROVE [Feed!Next]_Feed!vars
  OBVIOUS
<1> USE DEF store, history, requests
<1>1. CASE UNCHANGED vars
  BY <1>1, StutterFeed DEF vars
<1>2. ASSUME NEW r \in Requests,
             \/ LockSessionGroup(r) \/ Rollback(r)
             \/ ConfirmGroupSession(r) \/ UpdateGroupSession(r) \/ CancelGroupSession(r)
             \/ \E op \in Ops, a \in Actors, d \in Days : Begin(r, op, a, d)
      PROVE  UNCHANGED <<announced, outbox, heard>>
  BY <1>2 DEF LockSessionGroup, Rollback, ConfirmGroupSession, UpdateGroupSession,
              CancelGroupSession, Begin, Enqueue
<1>3. ASSUME NEW w \in Workers, \/ StartRun(w) \/ EndRun(w) \/ Kill(w) \/ Check(w) \/ Refuse(w)
                                \/ \E m \in Mails : Pick(w, m)
      PROVE  UNCHANGED <<announced, outbox, heard>>
  BY <1>3 DEF StartRun, EndRun, Kill, Check, Refuse, Pick
<1> QED
  BY <1>1, <1>2, <1>3, StutterFeed, CommitFeed, AcceptFeed, SettleFeed, OutsideFeed, NextCases
     DEF Work

\* What members receive is an EventFeed: in order, repeated at most, never
\* invented and never settled out of turn.
THEOREM Implementation == Spec => ImplementsFeed
<1>1. Init => Feed!Init
  BY InitFeed
<1>2. IInv /\ [Next]_vars => [Feed!Next]_Feed!vars
  BY StepFeed
<1> QED
  BY <1>1, <1>2, Invariance, PTL DEF Spec, ImplementsFeed, Feed!Spec
=============================================================================
