---------------------------- MODULE SessionOutbox ----------------------------
(***************************************************************************)
(* Important session emails of one group, from the organizer's request to  *)
(* the mail provider.  The session endpoints of main.py serialize on the   *)
(* group row and put their emails into session_event_email_outbox in the   *)
(* transaction that changes the session; process_session_event_emails, run *)
(* by a timer once a minute, takes them out again.  Requests fail and roll *)
(* back, runs are killed, accounts are erased and the group is deleted at  *)
(* any point in between.                                                   *)
(*                                                                         *)
(* A mail is one outbox row: the session (the group's day), the recipient  *)
(* and created_at.  Mails of one event share created_at, which is a stamp  *)
(* counted in events here.  An actor need not be a recipient: an organizer *)
(* may keep the emails switched off.                                       *)
(***************************************************************************)
EXTENDS Naturals, FiniteSets

CONSTANTS Recipients, Days, Requests, Workers, NoRequest, NoMail,
          Actors,       \* owners and organizers who make requests
          Unreachable,  \* recipients whose address the provider always refuses
          Restless,     \* bound: recipients whose account and membership change
          BatchSize,    \* process_session_event_emails: 50
          MaxEvents     \* bound: events that get a stamp

Mails == [day : Days, to : Recipients, at : 1..MaxEvents]

ASSUME OutboxAssumption ==
    /\ NoRequest \notin Requests /\ NoMail \notin Mails
    /\ Actors # {} /\ Days # {}
    /\ Unreachable \subseteq Recipients /\ Restless \subseteq Recipients
    /\ BatchSize \in Nat \ {0} /\ MaxEvents \in Nat

VARIABLES
    group,      \* TRUE while the group row exists
    sessions,   \* confirmed_sessions: "none", "confirmed" or "cancelled" per day
    groupLock,  \* the request holding the group row
    req,        \* the open requests
    stamp,      \* the latest created_at handed out
    outbox,     \* committed rows of session_event_email_outbox
    resting,    \* those whose next_attempt_at is still ahead
    inbox,      \* what the user, account and membership rows say of a recipient
    run,        \* the workers
    recorded,   \* session_notification_deliveries of the mails
    mailed,     \* history: mails the provider accepted at least once
    heard,      \* history: the stamp of the last mail accepted, per recipient and day
    announced,  \* history: mails that were committed
    steady      \* history: recipients that were eligible all the time

store    == <<group, sessions, outbox, resting, recorded>>
history  == <<mailed, heard, announced, steady>>
requests == <<groupLock, req, stamp>>
vars     == <<store, history, requests, inbox, run>>

Ops   == {"idle", "confirm", "edit", "cancel"}
Kinds == {"none", "scheduled", "changed", "cancelled"}

Reqs == [pc : {"idle", "lock", "write", "commit"}, op : Ops, actor : Actors,
         day : Days, kind : Kinds, rows : SUBSET Mails]

Runs == [pc : {"idle", "pick", "check", "send", "record", "retry", "discard"},
         batch : SUBSET Mails, mail : Mails \union {NoMail}]

NoRun == [pc |-> "idle", batch |-> {}, mail |-> NoMail]
Idle  == [pc |-> "idle", op |-> "idle", actor |-> CHOOSE a \in Actors : TRUE,
          day |-> CHOOSE d \in Days : TRUE, kind |-> "none", rows |-> {}]

\* "on": member, linked account, usable address, switch on.  "blind": no usable
\* address.  "off": left the group, unlinked or switched off.
Eligible(u) == inbox[u] \in {"on", "blind"}

\* Every table holds rows of its kind, and a worker past "pick" has a mail.
TypeOK == /\ group \in BOOLEAN
          /\ sessions \in [Days -> {"none", "confirmed", "cancelled"}]
          /\ groupLock \in Requests \union {NoRequest}
          /\ req \in [Requests -> Reqs]
          /\ stamp \in 0..MaxEvents
          /\ outbox \subseteq Mails /\ resting \subseteq Mails
          /\ inbox \in [Recipients -> {"on", "blind", "off", "tombstone", "erased"}]
          /\ run \in [Workers -> Runs]
          /\ \A w \in Workers : run[w].pc \notin {"idle", "pick"} => run[w].mail \in Mails
          /\ recorded \subseteq Mails /\ mailed \subseteq Mails /\ announced \subseteq Mails
          /\ heard \in [Recipients -> [Days -> 0..MaxEvents]]
          /\ steady \subseteq Recipients

Init == /\ group = TRUE
        /\ sessions = [d \in Days |-> "none"]
        /\ groupLock = NoRequest
        /\ req = [r \in Requests |-> Idle]
        /\ stamp = 0
        /\ outbox = {} /\ resting = {} /\ recorded = {}
        /\ inbox = [u \in Recipients |-> "on"]
        /\ run = [w \in Workers |-> NoRun]
        /\ mailed = {} /\ announced = {}
        /\ heard = [u \in Recipients |-> [d \in Days |-> 0]]
        /\ steady = Recipients

-----------------------------------------------------------------------------
(* The session endpoints.                                                  *)

\* The request is authorized: its role check is not repeated under the lock.
Begin(r, op, a, d) == /\ req[r].pc = "idle"
                      /\ group
                      /\ req' = [req EXCEPT ![r] = [Idle EXCEPT !.pc = "lock", !.op = op,
                                                                !.actor = a, !.day = d]]
                      /\ UNCHANGED <<store, history, inbox, run, groupLock, stamp>>

\* The transaction of r is over, committed or not.
Close(r) == /\ req' = [req EXCEPT ![r] = Idle]
            /\ groupLock' = IF groupLock = r THEN NoRequest ELSE groupLock

Rollback(r) == Close(r) /\ UNCHANGED <<store, history, inbox, run, stamp>>

\* Mutant: the group row is read without FOR UPDATE.
ReadSessionGroup(r) ==
    /\ req[r].pc = "lock"
    /\ \/ ~group /\ Rollback(r)
       \/ /\ group
          /\ groupLock' = r
          /\ req' = [req EXCEPT ![r].pc = "write"]
          /\ UNCHANGED <<store, history, inbox, run, stamp>>

\* _lock_session_group: refresh FOR UPDATE; a deleted group is an error.
LockSessionGroup(r) ==
    /\ req[r].pc = "lock"
    /\ groupLock = NoRequest
    /\ \/ ~group /\ Rollback(r)
       \/ /\ group
          /\ groupLock' = r
          /\ req' = [req EXCEPT ![r].pc = "write"]
          /\ UNCHANGED <<store, history, inbox, run, stamp>>

\* Mutant: the rows are committed before the session change is.
EnqueueAtOnce(r, kind) ==
    LET c == req[r]
        audience == {u \in Recipients \ {c.actor} : Eligible(u)}
        rows == [day : {c.day}, to : audience, at : {stamp + 1}]
    IN  /\ stamp < MaxEvents
        /\ stamp' = stamp + 1
        /\ req' = [req EXCEPT ![r].pc = "commit", ![r].kind = kind, ![r].rows = rows]
        /\ outbox' = outbox \union rows
        /\ UNCHANGED <<group, sessions, resting, recorded, history, inbox, run, groupLock>>

\* enqueue_session_event_emails: the rows r will insert when it commits.
Enqueue(r, kind) ==
    LET c == req[r]
        audience == {u \in Recipients \ {c.actor} : Eligible(u)}
    IN  /\ stamp < MaxEvents
        /\ stamp' = stamp + 1
        /\ req' = [req EXCEPT ![r].pc = "commit", ![r].kind = kind,
                              ![r].rows = [day : {c.day}, to : audience, at : {stamp'}]]
        /\ UNCHANGED <<store, history, inbox, run, groupLock>>

\* confirm_group_session: a cancelled session is confirmed again, a confirmed
\* one is left as it is.
ConfirmGroupSession(r) ==
    /\ req[r].pc = "write" /\ req[r].op = "confirm"
    /\ IF sessions[req[r].day] = "confirmed" THEN Rollback(r) ELSE Enqueue(r, "scheduled")

\* update_group_session: 404, 409, an edit of the notes alone, or a change of
\* the title, time or duration.
UpdateGroupSession(r) ==
    /\ req[r].pc = "write" /\ req[r].op = "edit"
    /\ \/ Rollback(r)
       \/ sessions[req[r].day] = "confirmed" /\ Enqueue(r, "changed")

CancelGroupSession(r) ==
    /\ req[r].pc = "write" /\ req[r].op = "cancel"
    /\ IF sessions[req[r].day] = "confirmed" THEN Enqueue(r, "cancelled") ELSE Rollback(r)

After(kind) == IF kind = "cancelled" THEN "cancelled" ELSE "confirmed"

\* The flush at COMMIT inserts the rows: a recipient erased since the SELECT
\* violates the foreign key and takes the session change down with it.
Commit(r) ==
    LET c == req[r] IN
    /\ req[r].pc = "commit"
    /\ \/ /\ \E m \in c.rows : inbox[m.to] = "erased"
          /\ Rollback(r)
       \/ /\ \A m \in c.rows : inbox[m.to] # "erased"
          /\ sessions' = [sessions EXCEPT ![c.day] = After(c.kind)]
          /\ outbox' = outbox \union c.rows
          /\ announced' = announced \union c.rows
          /\ Close(r)
          /\ UNCHANGED <<group, resting, recorded, mailed, heard, steady, inbox, run, stamp>>

Fail(r) == req[r].pc # "idle" /\ Rollback(r)

-----------------------------------------------------------------------------
(* The rest of the application, seen from the outbox.                      *)

\* The member leaves or returns, turns the switch, loses or mends the address.
ChangeInbox(u, state) ==
    /\ inbox[u] \in {"on", "blind", "off"}
    /\ inbox' = [inbox EXCEPT ![u] = state]
    /\ steady' = IF state = "on" THEN steady ELSE steady \ {u}
    /\ UNCHANGED <<store, requests, run, mailed, heard, announced>>

To(u) == {m \in Mails : m.to = u}

\* delete_account_data.
EraseAccount(u, left) ==
    /\ inbox[u] \in {"on", "blind", "off"}
    /\ inbox' = [inbox EXCEPT ![u] = left]
    /\ outbox' = outbox \ To(u)
    /\ resting' = resting \ To(u)
    /\ recorded' = recorded \ To(u)
    /\ steady' = steady \ {u}
    /\ UNCHANGED <<group, sessions, requests, run, mailed, heard, announced>>

\* delete_group takes the group row like every session write.
DeleteGroup == /\ group /\ groupLock = NoRequest
               /\ group' = FALSE
               /\ sessions' = [d \in Days |-> "none"]
               /\ outbox' = {} /\ resting' = {} /\ recorded' = {}
               /\ UNCHANGED <<history, requests, inbox, run>>

-----------------------------------------------------------------------------
(* process_session_event_emails.                                           *)

Oldest(S) == {m \in S : \A n \in S : m.at <= n.at}

\* The first BatchSize rows of the due ones by created_at, then by their id.
Batches(due) == {S \in SUBSET due : /\ Cardinality(S) <= BatchSize
                                    /\ S = due \/ Cardinality(S) = BatchSize
                                    /\ \A m \in S, n \in due \ S : m.at <= n.at}

\* Mutant: the timer starts a run beside one that still goes on.
StartRunUnlocked(w) == /\ run[w].pc = "idle"
                       /\ outbox \ resting # {}
                       /\ \E S \in Batches(outbox \ resting) :
                             run' = [run EXCEPT ![w] = [NoRun EXCEPT !.pc = "pick", !.batch = S]]
                       /\ UNCHANGED <<store, history, requests, inbox>>

\* Mutant: a failed mail is due again at once.
StartRunUndelayed(w) == /\ \A v \in Workers : run[v].pc = "idle"
                        /\ outbox # {}
                        /\ \E S \in Batches(outbox) :
                              run' = [run EXCEPT ![w] = [NoRun EXCEPT !.pc = "pick", !.batch = S]]
                        /\ UNCHANGED <<store, history, requests, inbox>>

\* flock -n: nothing starts while another worker holds the lock file.
StartRun(w) == /\ \A v \in Workers : run[v].pc = "idle"
               /\ outbox \ resting # {}
               /\ \E S \in Batches(outbox \ resting) :
                     run' = [run EXCEPT ![w] = [NoRun EXCEPT !.pc = "pick", !.batch = S]]
               /\ UNCHANGED <<store, history, requests, inbox>>

Skip(w, m) == run' = [run EXCEPT ![w].batch = @ \ {m}]

\* Mutant: a row that waits for its retry does not hold back the later ones.
PickAnyDue(w, m) ==
    /\ run[w].pc = "pick"
    /\ m \in Oldest(run[w].batch)
    /\ IF m \in outbox
       THEN run' = [run EXCEPT ![w] = [pc |-> "check", batch |-> @.batch \ {m}, mail |-> m]]
       ELSE Skip(w, m)
    /\ UNCHANGED <<store, history, requests, inbox>>

\* The worker turns to the next row: gone, behind an older one for the same
\* recipient and session, or its work now.  It asks for the row and for older
\* ones in two statements, but no older row can be committed in between.
Pick(w, m) ==
    LET earlier == {n \in outbox : n.to = m.to /\ n.day = m.day /\ n.at < m.at} IN
    /\ run[w].pc = "pick"
    /\ m \in Oldest(run[w].batch)
    /\ IF m \in outbox /\ earlier = {}
       THEN run' = [run EXCEPT ![w] = [pc |-> "check", batch |-> @.batch \ {m}, mail |-> m]]
       ELSE Skip(w, m)
    /\ UNCHANGED <<store, history, requests, inbox>>

Continue(w, l) == run' = [run EXCEPT ![w].pc = l]
NextRow(w)     == run' = [run EXCEPT ![w].pc = "pick", ![w].mail = NoMail]
Die(w)         == run' = [run EXCEPT ![w] = NoRun]

\* The recipient is looked up again.
Check(w) == LET m == run[w].mail IN
            /\ run[w].pc = "check"
            /\ Continue(w, IF inbox[m.to] = "on" /\ group THEN "send" ELSE "discard")
            /\ UNCHANGED <<store, history, requests, inbox>>

\* A row that is gone by now is only a warning.
Discard(w) == LET m == run[w].mail IN
              /\ run[w].pc = "discard"
              /\ outbox' = outbox \ {m}
              /\ resting' = resting \ {m}
              /\ NextRow(w)
              /\ UNCHANGED <<group, sessions, recorded, history, requests, inbox>>

\* sender.send: the provider takes the mail ...
Accept(w) == LET m == run[w].mail IN
             /\ run[w].pc = "send"
             /\ m.to \notin Unreachable
             /\ mailed' = mailed \union {m}
             /\ heard' = [heard EXCEPT ![m.to][m.day] = m.at]
             /\ Continue(w, "record")
             /\ UNCHANGED <<store, requests, inbox, announced, steady>>

\* Mutant: a mail the provider refuses is given up.
RefuseForGood(w) == /\ run[w].pc = "send"
                    /\ Continue(w, "discard")
                    /\ UNCHANGED <<store, history, requests, inbox>>

\* ... or the call fails in any way.
Refuse(w) == /\ run[w].pc = "send"
             /\ Continue(w, "retry")
             /\ UNCHANGED <<store, history, requests, inbox>>

\* The delivery row and the deletion, in one commit.  The foreign keys refuse
\* a session or a user that is gone, and the run ends with the exception.
Record(w) ==
    LET m == run[w].mail IN
    /\ run[w].pc = "record"
    /\ IF ~group \/ inbox[m.to] = "erased"
       THEN Die(w) /\ UNCHANGED store
       ELSE /\ recorded' = recorded \union {m}
            /\ outbox' = outbox \ {m}
            /\ resting' = resting \ {m}
            /\ NextRow(w)
            /\ UNCHANGED <<group, sessions>>
    /\ UNCHANGED <<history, requests, inbox>>

\* attempt_count and next_attempt_at: an UPDATE that must find its row.
Retry(w) == LET m == run[w].mail IN
            /\ run[w].pc = "retry"
            /\ IF m \in outbox THEN resting' = resting \union {m} /\ NextRow(w)
                               ELSE Die(w) /\ UNCHANGED resting
            /\ UNCHANGED <<group, sessions, outbox, recorded, history, requests, inbox>>

EndRun(w) == /\ run[w].pc = "pick" /\ run[w].batch = {}
             /\ Die(w)
             /\ UNCHANGED <<store, history, requests, inbox>>

\* The timeout of 270 s, a restart, a lost database connection.
Kill(w) == /\ run[w].pc # "idle"
           /\ Die(w)
           /\ UNCHANGED <<store, history, requests, inbox>>

\* The retry delay of _retry_delay is over.
Elapse(m) == /\ m \in resting
             /\ resting' = resting \ {m}
             /\ UNCHANGED <<group, sessions, outbox, recorded, history, requests, inbox, run>>

-----------------------------------------------------------------------------
Serve(r) == \/ LockSessionGroup(r) \/ Commit(r) \/ Fail(r)
            \/ ConfirmGroupSession(r) \/ UpdateGroupSession(r) \/ CancelGroupSession(r)

Work(w) == \/ StartRun(w) \/ EndRun(w)
           \/ (\E m \in Mails : Pick(w, m))
           \/ Check(w) \/ Discard(w) \/ Accept(w) \/ Refuse(w) \/ Record(w) \/ Retry(w)

Next == \/ \E r \in Requests : \/ Serve(r)
                               \/ \E op \in Ops \ {"idle"}, a \in Actors, d \in Days :
                                     Begin(r, op, a, d)
        \/ \E w \in Workers : Work(w) \/ Kill(w)
        \/ \E u \in Restless : \/ \E s \in {"on", "blind", "off"} : ChangeInbox(u, s)
                               \/ \E s \in {"tombstone", "erased"} : EraseAccount(u, s)
        \/ DeleteGroup
        \/ \E m \in Mails : Elapse(m)

Spec == Init /\ [][Next]_vars

\* The timer starts runs for ever and a run goes on; retry delays pass; the
\* provider does not refuse a good address for ever.  A mail that keeps being
\* refused comes to rest for 15 and then 60 minutes, longer than a run of 270 s
\* and the minute to the next one: runs start while it rests.  Kills become
\* rare enough for runs to end.  The safety properties need none of this.
Fairness ==
    /\ WF_vars(\E w \in Workers : Work(w))
    /\ \A m \in Mails : WF_vars(Elapse(m))
    /\ \A m \in [day : Days, to : Recipients \ Unreachable, at : 1..MaxEvents] :
          SF_vars(\E w \in Workers : run[w].mail = m /\ Accept(w))
    /\ \A m \in [day : Days, to : Unreachable, at : 1..MaxEvents] :
          SF_vars(\E w \in Workers : m \in resting /\ StartRun(w))
    /\ <>[][\A m \in Mails : Elapse(m) => \A w \in Workers : run[w].pc = "idle"]_vars
    /\ <>[][\A w \in Workers : Kill(w) => Work(w)]_vars

FairSpec == Spec /\ Fairness

-----------------------------------------------------------------------------
(* Properties.                                                             *)

\* The emails about one session reach a member in the order of its changes,
\* repeats included: no mail overtakes an older one, no repeat follows a newer.
NeverOutOfOrder ==
    [][\A u \in Recipients, d \in Days : heard[u][d] <= heard'[u][d]]_vars

\* Nobody hears of a change that was rolled back.
OnlyCommittedNews == mailed \subseteq announced

\* A member who could be reached all along loses no email of a group that
\* still exists: each waits in the outbox or was accepted, whatever died.
NothingLost == group => \A m \in announced : m.to \in steady => m \in outbox \union mailed

\* Once the delivery row of a mail is there, the mail is not sent again.  Only
\* a run that dies between the provider's answer and the commit repeats one.
RecordedOnce == [][\A w \in Workers : Accept(w) => run[w].mail \notin recorded]_vars

\* What a request is about to announce stays true until it commits: of two
\* requests that overlap, never do both announce the same confirmation or
\* cancellation, and nobody announces an edit of a cancelled session.
StillNews == \A r \in Requests : req[r].pc = "commit" =>
    (req[r].kind = "scheduled" <=> sessions[req[r].day] # "confirmed")

\* A due row behind an older one of its channel takes a place in the batch and
\* is passed over; so many of them, none newer than m, leave no place for m.
Blocked    == {n \in outbox \ resting : \E k \in outbox : k.to = n.to /\ k.day = n.day /\ k.at < n.at}
Crowded(m) == Cardinality({n \in Blocked : n.at <= m.at}) >= BatchSize

\* An unreachable address delays nobody else's mail for ever, as long as the
\* rows that wait behind it do not fill the batch: a mail that stays in the
\* outbox is crowded out again and again.
EveryMailSettles ==
    \A m \in Mails : m.to \notin Unreachable => (m \in outbox ~> m \notin outbox \/ Crowded(m))

Feed == INSTANCE EventFeed WITH
    Stamps <- 1..MaxEvents,
    news  <- [c \in Recipients \X Days |-> {m.at : m \in {n \in announced : n.to = c[1] /\ n.day = c[2]}}],
    queue <- [c \in Recipients \X Days |-> {m.at : m \in {n \in outbox : n.to = c[1] /\ n.day = c[2]}}],
    heard <- [c \in Recipients \X Days |-> heard[c[1]][c[2]]]

\* Members see an ordered feed that may repeat and drop, but never invents,
\* reorders or settles out of turn.
ImplementsFeed == Feed!Spec
=============================================================================
