------------------------- MODULE LegacyReconciliation -------------------------
(***************************************************************************)
(* Correcting the availability of the imported users after the cutover     *)
(* (reconcile_legacy_availability.py) while the application writes.  A dry *)
(* run prints counts, an operator passes them to an apply, which is one    *)
(* READ COMMITTED transaction: it locks the users, locks and reads their   *)
(* answers, compares the counts, writes and reads again.  Nothing but the  *)
(* lock on the users keeps new answers out: an INSERT has to share-lock    *)
(* the row its foreign key names.                                          *)
(***************************************************************************)
EXTENDS LegacyContract

CONSTANTS Expected,              \* the answers of the validated source, by key
          Reconcilers, Writers,  \* runs of the tool, requests that set or clear an answer
          None, NoCounts,
          MaxErasures            \* bounds the accounts erased

ASSUME NoneAssumption == None \notin Statuses
ASSUME ExpectedAssumption == Expected \in [Keys -> Statuses \union {None}]
ASSUME ErasureBound == MaxErasures \in Nat

VARIABLES
    exists,       \* the users with their imported id and name
    answers,      \* the availability table
    printed,      \* the counts of the last dry run
    stage, task,  \* a run's next step; what it was approved, holds, has read
    wpc, write    \* a request's next step and the answer it sets, or None

reconcileVars == <<exists, answers, printed, stage, task, wpc, write>>

Entry  == Statuses \union {None}
Counts == [insert : 0..Cardinality(Keys), update : 0..Cardinality(Keys), unchanged : 0..Cardinality(Keys)]
Tasks  == [approved : Counts \union {NoCounts}, users : SUBSET Users, todo : SUBSET Keys, rows : SUBSET Keys,
           seen : [Keys -> Entry]]
Empty  == [k \in Keys |-> None]
NoTask == [approved |-> NoCounts, users |-> {}, todo |-> {}, rows |-> {}, seen |-> Empty]
Writes == [key : Keys, status : Entry, new : BOOLEAN]

\* Every table and process holds values of its kind, and a run that is not in
\* a transaction holds no lock.
ReconcileTypeOK == /\ exists \subseteq Users
                   /\ answers \in [Keys -> Entry]
                   /\ \A k \in Keys : answers[k] # None => k[1] \in exists
                   /\ printed \in Counts \union {NoCounts}
                   /\ stage \in [Reconcilers -> {"idle", "dry", "users", "snapshot", "rows", "classify",
                                                 "write", "verify", "commit"}]
                   /\ task \in [Reconcilers -> Tasks]
                   /\ \A r \in Reconcilers : stage[r] \in {"idle", "dry"} => task[r] = NoTask
                   /\ wpc \in [Writers -> {"idle", "lock", "commit"}]
                   /\ write \in [Writers -> Writes \union {None}]

ReconcileInit == /\ exists = Users
                 /\ answers \in [Keys -> Entry]
                 /\ printed = NoCounts
                 /\ stage = [r \in Reconcilers |-> "idle"]
                 /\ task = [r \in Reconcilers |-> NoTask]
                 /\ wpc = [w \in Writers |-> "idle"]
                 /\ write = [w \in Writers |-> None]

-----------------------------------------------------------------------------
tables == <<exists, answers>>
writers == <<wpc, write>>

Proceed(r, l) == stage' = [stage EXCEPT ![r] = l]

\* Commit or rollback: the locks are released.
End(r) == /\ Proceed(r, "idle")
          /\ task' = [task EXCEPT ![r] = NoTask]

Wanted      == {k \in Keys : Expected[k] # None}
Missing(s)  == {k \in Wanted : s[k] = None}
Updated(s)  == {k \in Wanted \ Missing(s) : s[k] # Expected[k]}
CountsOf(s) == [insert |-> Cardinality(Missing(s)), update |-> Cardinality(Updated(s)),
                unchanged |-> Cardinality(Wanted) - Cardinality(Missing(s)) - Cardinality(Updated(s))]

\* Answers only the application knows: they are never deleted.
Unexpected(s) == {k \in Keys \ Wanted : s[k] # None}

\* The request holds the share lock its new answer takes on the user.
Sharing(w, u) == wpc[w] = "commit" /\ write[w].new /\ write[w].key[1] = u
RowHeld(w, k) == wpc[w] = "commit" /\ write[w].key = k

-----------------------------------------------------------------------------
(* The command line tool.                                                  *)

\* The source is read with its policy and has to have the expected hash: it
\* says what Expected says, or the run ends.
StartRun(r, apply) == /\ stage[r] = "idle"
                      /\ apply => printed # NoCounts
                      /\ IF apply
                         THEN /\ task' = [task EXCEPT ![r].approved = printed]
                              /\ Proceed(r, "users")
                         ELSE Proceed(r, "dry") /\ UNCHANGED task
                      /\ UNCHANGED <<tables, printed, writers>>

\* The users and their answers are read without a lock and counted.
DryRun(r) == /\ stage[r] = "dry"
             /\ printed' = IF exists = Users /\ Unexpected(answers) = {} THEN CountsOf(answers) ELSE NoCounts
             /\ End(r)
             /\ UNCHANGED <<tables, writers>>

\* Mutant: the users are read without FOR UPDATE.
ReadUser(r, u) == /\ stage[r] = "users"
                  /\ u \in exists
                  /\ Proceed(r, "snapshot")
                  /\ UNCHANGED <<tables, printed, task, writers>>

\* SELECT users ... FOR UPDATE, in no particular order; each row is waited for.
LockUser(r, u) == /\ stage[r] = "users"
                  /\ u \in exists \ task[r].users
                  /\ \A q \in Reconcilers \ {r} : u \notin task[q].users
                  /\ \A w \in Writers : ~Sharing(w, u)
                  /\ task' = [task EXCEPT ![r].users = @ \union {u}]
                  /\ Proceed(r, IF task'[r].users = Users THEN "snapshot" ELSE "users")
                  /\ UNCHANGED <<tables, printed, writers>>

UserMissing(r) == /\ stage[r] = "users"
                  /\ exists # Users
                  /\ End(r)
                  /\ UNCHANGED <<tables, printed, writers>>

\* SELECT availability ... FOR UPDATE sees the answers committed by now ...
SnapshotRows(r) == /\ stage[r] = "snapshot"
                   /\ task' = [task EXCEPT ![r].todo = {k \in Keys : answers[k] # None}]
                   /\ Proceed(r, "rows")
                   /\ UNCHANGED <<tables, printed, writers>>

\* Mutant: the answers are read without FOR UPDATE.
ReadRow(r, k) == /\ stage[r] = "rows"
                 /\ k \in task[r].todo
                 /\ task' = [task EXCEPT ![r].todo = @ \ {k}, ![r].seen[k] = answers[k]]
                 /\ UNCHANGED <<tables, printed, stage, writers>>

\* ... and reads each again when it has its lock: one that was cleared by then
\* is not returned.
LockRow(r, k) == /\ stage[r] = "rows"
                 /\ k \in task[r].todo
                 /\ \A q \in Reconcilers \ {r} : k \notin task[q].rows
                 /\ \A w \in Writers : ~RowHeld(w, k)
                 /\ task' = [task EXCEPT ![r].todo = @ \ {k}, ![r].seen[k] = answers[k],
                                         ![r].rows = IF answers[k] = None THEN @ ELSE @ \union {k}]
                 /\ UNCHANGED <<tables, printed, stage, writers>>

RowsRead(r) == /\ stage[r] = "rows"
               /\ task[r].todo = {}
               /\ Proceed(r, "classify")
               /\ UNCHANGED <<tables, printed, task, writers>>

Refused(r) == Unexpected(task[r].seen) # {} \/ CountsOf(task[r].seen) # task[r].approved

Classify(r) == /\ stage[r] = "classify"
               /\ IF Refused(r) THEN End(r) ELSE Proceed(r, "write") /\ UNCHANGED task
               /\ UNCHANGED <<tables, printed, writers>>

\* A missing key that someone else has filled by now refuses the INSERT, one
\* that someone has cleared fails the UPDATE.
Write(r) == /\ stage[r] = "write"
            /\ IF \/ \E k \in Missing(task[r].seen) : answers[k] # None
                  \/ \E k \in Updated(task[r].seen) : answers[k] = None
               THEN End(r)
               ELSE Proceed(r, "verify") /\ UNCHANGED task
            /\ UNCHANGED <<tables, printed, writers>>

\* The answers are read once more: exactly the expected keys.
Verify(r) == /\ stage[r] = "verify"
             /\ IF \/ \E k \in Keys \ Wanted : answers[k] # None
                   \/ \E k \in Wanted \ Missing(task[r].seen) : answers[k] = None
                THEN End(r)
                ELSE Proceed(r, "commit") /\ UNCHANGED task
             /\ UNCHANGED <<tables, printed, writers>>

CommitRun(r) == /\ stage[r] = "commit"
                /\ answers' = [k \in Keys |-> IF k \in Missing(task[r].seen) \union Updated(task[r].seen)
                                              THEN Expected[k] ELSE answers[k]]
                /\ End(r)
                /\ UNCHANGED <<exists, printed, writers>>

\* Any statement or the process may fail.
Fail(r) == /\ stage[r] # "idle"
           /\ End(r)
           /\ UNCHANGED <<tables, printed, writers>>

\* Two applies that have locked users in different orders wait for each
\* other; PostgreSQL aborts one.
WaitsFor(r, q) == LET rest == exists \ task[r].users IN
                  stage[r] = "users" /\ rest # {} /\ rest \subseteq task[q].users

AbortDeadlocked(r) == /\ \E q \in Reconcilers \ {r} : WaitsFor(r, q) /\ WaitsFor(q, r)
                      /\ End(r)
                      /\ UNCHANGED <<tables, printed, writers>>

-----------------------------------------------------------------------------
(* The application: setting or clearing one answer of a user's own         *)
(* calendar, and erasing an account.                                       *)

\* The row is looked up: the answer will be an INSERT or an UPDATE, or is not
\* written because it is there.  Clearing it is a DELETE in any case.
BeginWrite(w, k, s) ==
    /\ wpc[w] = "idle"
    /\ k[1] \in exists
    /\ s # answers[k] \/ s = None
    /\ write' = [write EXCEPT ![w] = [key |-> k, status |-> s, new |-> s # None /\ answers[k] = None]]
    /\ wpc' = [wpc EXCEPT ![w] = "lock"]
    /\ UNCHANGED <<tables, printed, stage, task>>

EndWrite(w) == /\ wpc' = [wpc EXCEPT ![w] = "idle"]
               /\ write' = [write EXCEPT ![w] = None]

\* The INSERT waits for the user's row and for whoever writes its key.  The
\* UPDATE and the DELETE wait for the answer's row only, which they do not see
\* before its INSERT is committed; if it is gone, the UPDATE fails and the
\* DELETE has nothing to do.
LockAnswer(w) ==
    LET k == write[w].key IN
    /\ wpc[w] = "lock"
    /\ \A v \in Writers : RowHeld(v, k) => write[v].new /\ ~write[w].new
    /\ \A r \in Reconcilers : IF write[w].new THEN k[1] \notin task[r].users ELSE k \notin task[r].rows
    /\ IF k[1] \in exists /\ write[w].new = (answers[k] = None)
       THEN wpc' = [wpc EXCEPT ![w] = "commit"] /\ UNCHANGED write
       ELSE EndWrite(w)
    /\ UNCHANGED <<tables, printed, stage, task>>

CommitAnswer(w) == /\ wpc[w] = "commit"
                   /\ answers' = [answers EXCEPT ![write[w].key] = write[w].status]
                   /\ EndWrite(w)
                   /\ UNCHANGED <<exists, printed, stage, task>>

\* The erasure holds the user's row before it deletes the answers.
EraseAccount(u) == /\ u \in exists
                   /\ Cardinality(Users \ exists) < MaxErasures
                   /\ \A r \in Reconcilers : u \notin task[r].users
                   /\ \A w \in Writers : ~(wpc[w] = "commit" /\ write[w].key[1] = u)
                   /\ exists' = exists \ {u}
                   /\ answers' = [k \in Keys |-> IF k[1] = u THEN None ELSE answers[k]]
                   /\ UNCHANGED <<printed, stage, task, writers>>

TaskStep(r) == \/ DryRun(r) \/ UserMissing(r) \/ SnapshotRows(r) \/ RowsRead(r) \/ Classify(r)
              \/ Write(r) \/ Verify(r) \/ CommitRun(r) \/ AbortDeadlocked(r)
              \/ \E u \in Users : LockUser(r, u)
              \/ \E k \in Keys : LockRow(r, k)

ReconcileNext == \/ \E r \in Reconcilers : TaskStep(r) \/ Fail(r) \/ \E apply \in BOOLEAN : StartRun(r, apply)
                 \/ \E w \in Writers : \/ LockAnswer(w) \/ CommitAnswer(w)
                                       \/ \E k \in Keys, s \in Entry : BeginWrite(w, k, s)
                 \/ \E u \in Users : EraseAccount(u)

ReconcileSpec == ReconcileInit /\ [][ReconcileNext]_reconcileVars

-----------------------------------------------------------------------------
(* Properties.                                                             *)

Applies(r) == stage[r] = "commit" /\ answers' # answers /\ stage'[r] = "idle"

\* When an apply commits, the imported users have the validated answers and no
\* others, although answers are given, changed and cleared until it has locked
\* them: a request that clears one is kept out by no lock on its user.
CommitIsExact == [][\A r \in Reconcilers : Applies(r) => answers' = Expected]_reconcileVars

\* A commit changes as many answers as were approved, measured against what
\* the application had committed by then: no answer is overwritten uncounted.
OnlyApprovedChanges ==
    [][\A r \in Reconcilers : Applies(r) => CountsOf(answers) = task[r].approved]_reconcileVars
=============================================================================
