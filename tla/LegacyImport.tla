---------------------------- MODULE LegacyImport ----------------------------
(***************************************************************************)
(* The runs of the legacy importer (import_legacy_sqlite.py): plan, apply  *)
(* and verify as processes that an operator starts, with the files they    *)
(* read and publish and the destination they write.  A plan fixes every    *)
(* row including its timestamp, so that two plans never agree on a row but *)
(* always on its primary key.  An apply is one SERIALIZABLE transaction:   *)
(* its snapshot is taken by its first query, which reads the revision.     *)
(* Runs may be killed at any point; nothing they hold survives them.       *)
(***************************************************************************)
EXTENDS Naturals, Sequences

CONSTANTS Runs, Plans,
          Tables,         \* the domain tables in the order of the inserts
          AppRow,         \* stands for what the application adds or changes
          NoRun, NoPlan,
          MaxWrites       \* bounds the writes to the source and by the application

ASSUME SentinelAssumption == /\ NoRun \notin Runs
                             /\ NoPlan \notin Plans
                             /\ AppRow \notin Plans
ASSUME TablesAssumption == Len(Tables) \in Nat \ {0}
ASSUME BoundAssumption == MaxWrites \in Nat

VARIABLES
    source,     \* the version of the SQLite file the former program writes
    backup,     \* the version the frozen backup was taken of
    files,      \* for each plan, the published files and what they say
    dest,       \* what each domain table holds: rows of a plan, AppRow
    appWrites,  \* how often the application wrote
    advisory,   \* the run holding the importer's advisory lock
    pc, call,   \* a run's next step, and what it has read
    exit,       \* the exit code and the report of the last run of a slot
    exact       \* history: the destination was exactly the plan during the verification

vars == <<source, backup, files, dest, appWrites, advisory, pc, call, exit, exact>>

Codes    == {"none", "0", "2", "4", "5", "6"}
Reports  == {"none", "dry_run", "applied", "already_applied", "rolled_back", "transaction_failed",
             "unsafe_nonempty", "verification_failed", "verified"}
Contents == [1..Len(Tables) -> SUBSET (Plans \union {AppRow})]
Versions == 0..MaxWrites
PCs      == {"idle", "read", "close", "load", "tables", "mapping", "plan", "publish", "begin", "lock", "classify", "insert",
             "commit", "check", "compare", "report", "refuse", "fail"}
Calls    == [op : {"none", "plan", "apply", "verify"}, plan : Plans \union {NoPlan}, mapping : Plans \union {NoPlan},
             sha : Versions, rows : Versions, seen : Contents, next : 1..(Len(Tables) + 1),
             outcome : Reports, committed : BOOLEAN]

Nothing == [i \in 1..Len(Tables) |-> {}]
Only(p) == [i \in 1..Len(Tables) |-> {p}]
NoCall  == [op |-> "none", plan |-> NoPlan, mapping |-> NoPlan, sha |-> 0, rows |-> 0, seen |-> Nothing,
            next |-> 1, outcome |-> "none", committed |-> FALSE]

\* Every file, table and run holds values of its kind; a published plan has
\* its mapping beside it, and the lock belongs to a run inside its transaction.
TypeOK == /\ source \in Versions /\ backup \in Versions
          /\ files \in [Plans -> [state : {"free", "mapped", "published"},
                                  sha : Versions, rows : Versions]]
          /\ dest \in Contents
          /\ appWrites \in 0..MaxWrites
          /\ advisory \in Runs \union {NoRun}
          /\ advisory # NoRun => pc[advisory] \in {"classify", "insert", "commit"}
          /\ pc \in [Runs -> PCs]
          /\ call \in [Runs -> Calls]
          /\ exit \in [Runs -> [code : Codes, report : Reports]]
          /\ exact \in [Runs -> BOOLEAN]

Init == /\ source = 0 /\ backup = 0
        /\ files = [p \in Plans |-> [state |-> "free", sha |-> 0, rows |-> 0]]
        /\ dest = Nothing
        /\ appWrites = 0
        /\ advisory = NoRun
        /\ pc = [r \in Runs |-> "idle"]
        /\ call = [r \in Runs |-> NoCall]
        /\ exit = [r \in Runs |-> [code |-> "none", report |-> "none"]]
        /\ exact = [r \in Runs |-> FALSE]

-----------------------------------------------------------------------------
world == <<source, backup, dest, appWrites>>

Goto(r, l) == pc' = [pc EXCEPT ![r] = l]

Unlock(r) == advisory' = IF advisory = r THEN NoRun ELSE advisory

\* The process ends with an exit code and the report it has published, if any.
Finish(r, code, report) == /\ exit' = [exit EXCEPT ![r] = [code |-> code, report |-> report]]
                           /\ call' = [call EXCEPT ![r] = NoCall]
                           /\ Goto(r, "idle")

\* Remembers for every run whether the destination was exactly its plan since
\* its verification began: its own commit comes before that.
Witness(now) == exact' = [r \in Runs |-> /\ pc'[r] \in {"compare", "report"}
                                         /\ exact[r] \/ now = Only(call'[r].plan)]

\* What the destination is after a step that does not write it.
Unchanged == Witness(dest) /\ UNCHANGED world

-----------------------------------------------------------------------------
(* Inspecting the source: hash, read, hash again.                          *)

\* The outputs must not exist and the inputs must, or the run ends at once.
Preflight(op, p, m) == IF op = "plan" THEN files[p].state = "free" /\ m = p
                       ELSE files[p].state = "published" /\ files[m].state # "free"

Start(r, op, p, m) ==
    /\ pc[r] = "idle"
    /\ IF Preflight(op, p, m)
       THEN /\ call' = [call EXCEPT ![r] = [NoCall EXCEPT !.op = op, !.plan = p, !.mapping = m, !.sha = source]]
            /\ exit' = [exit EXCEPT ![r] = [code |-> "none", report |-> "none"]]
            /\ Goto(r, "read")
       ELSE Finish(r, "2", "none")
    /\ UNCHANGED <<files, advisory>>
    /\ Unchanged

ReadSource(r) == /\ pc[r] = "read"
                 /\ call' = [call EXCEPT ![r].rows = source]
                 /\ Goto(r, "close")
                 /\ UNCHANGED <<files, advisory, exit>>
                 /\ Unchanged

\* Mutant: the file is not hashed again after it was read.
CloseSourceOnce(r) == /\ pc[r] = "close"
                      /\ Goto(r, "load")
                      /\ UNCHANGED <<files, advisory, exit, call>>
                      /\ Unchanged

CloseSource(r) == /\ pc[r] = "close"
                  /\ IF source # call[r].sha
                     THEN Finish(r, "2", "none")
                     ELSE Goto(r, "load") /\ UNCHANGED <<call, exit>>
                  /\ UNCHANGED <<files, advisory>>
                  /\ Unchanged

\* The source has to be the frozen backup; a verification takes no backup.
FrozenBackup(c) == c.op = "verify" \/ backup = c.sha

\* The approved artifacts are a pair, of this source, and say what it says.
ArtifactsMatch(c) == c.mapping = c.plan /\ files[c.plan].sha = c.sha
ContractHolds(c)  == files[c.plan].rows = c.rows

LoadInputs(r) ==
    LET c == call[r] IN
    /\ pc[r] = "load"
    /\ IF FrozenBackup(c) /\ (c.op # "plan" => ArtifactsMatch(c) /\ ContractHolds(c))
       THEN /\ Goto(r, CASE c.op = "plan" -> "tables" [] c.op = "apply" -> "begin" [] OTHER -> "check")
            /\ UNCHANGED <<call, exit>>
       ELSE Finish(r, "2", "none")
    /\ UNCHANGED <<files, advisory>>
    /\ Unchanged

-----------------------------------------------------------------------------
(* plan                                                                    *)

\* READ COMMITTED: each table is read as it is by then.
ReadTable(r) ==
    LET i == call[r].next IN
    /\ pc[r] = "tables"
    /\ call' = [call EXCEPT ![r].seen[i] = dest[i], ![r].next = i + 1]
    /\ Goto(r, IF i = Len(Tables) THEN "mapping" ELSE "tables")
    /\ UNCHANGED <<files, advisory, exit>>
    /\ Unchanged

\* A plan of its own timestamp never finds itself imported.
ClassifyForPlan(r) == /\ pc[r] = "mapping"
                      /\ call[r].seen # Nothing
                      /\ Finish(r, "4", "unsafe_nonempty") \/ Finish(r, "2", "none")
                      /\ UNCHANGED <<files, advisory>>
                      /\ Unchanged

\* Each file is linked into place complete, and never over another one.
PublishMapping(r) == LET p == call[r].plan IN
                     /\ pc[r] = "mapping"
                     /\ call[r].seen = Nothing
                     /\ IF files[p].state = "free"
                        THEN /\ files' = [files EXCEPT ![p].state = "mapped"]
                             /\ Goto(r, "plan")
                             /\ UNCHANGED <<call, exit>>
                        ELSE Finish(r, "2", "none") /\ UNCHANGED files
                     /\ UNCHANGED advisory
                     /\ Unchanged

PublishPlan(r) == LET c == call[r] IN
                  /\ pc[r] = "plan"
                  /\ files' = [files EXCEPT ![c.plan] = [state |-> "published", sha |-> c.sha, rows |-> c.rows]]
                  /\ Goto(r, "publish")
                  /\ UNCHANGED <<advisory, call, exit>>
                  /\ Unchanged

PublishReport(r) == /\ pc[r] = "publish"
                    /\ Finish(r, "0", "dry_run")
                    /\ UNCHANGED <<files, advisory>>
                    /\ Unchanged

PublicationFails(r) == /\ pc[r] \in {"mapping", "plan", "publish"}
                       /\ Finish(r, "2", "none")
                       /\ UNCHANGED <<files, advisory>>
                       /\ Unchanged

-----------------------------------------------------------------------------
(* apply                                                                   *)

\* The revision is read first: the snapshot of the transaction is taken.
Begin(r) == /\ pc[r] = "begin"
            /\ call' = [call EXCEPT ![r].seen = dest]
            /\ Goto(r, "lock")
            /\ UNCHANGED <<files, advisory, exit>>
            /\ Unchanged

\* pg_advisory_xact_lock waits for another import.
AcquireAdvisoryLock(r) == /\ pc[r] = "lock"
                          /\ advisory = NoRun
                          /\ advisory' = r
                          /\ Goto(r, "classify")
                          /\ UNCHANGED <<files, call, exit>>
                          /\ Unchanged

ClassifyDestination(r) ==
    LET c == call[r] IN
    /\ pc[r] = "classify"
    /\ CASE c.seen = Nothing     -> Goto(r, "insert") /\ UNCHANGED <<call, advisory>>
         [] c.seen = Only(c.plan) -> /\ call' = [call EXCEPT ![r].outcome = "already_applied"]
                                     /\ Goto(r, "check")
                                     /\ Unlock(r)
         [] OTHER                -> Goto(r, "refuse") /\ UNCHANGED call /\ Unlock(r)
    /\ UNCHANGED <<files, exit>>
    /\ Unchanged

\* The keys are derived from the names: rows of an earlier import refuse
\* those of another, seen or not.
KeysTaken(i) == dest[i] \intersect Plans # {}

RollBack(r, report) == /\ call' = [call EXCEPT ![r].outcome = report]
                       /\ Goto(r, "fail")
                       /\ Unlock(r)

\* Mutant: every table is committed when it is flushed.
InsertAndCommitTable(r) ==
    LET c == call[r] IN
    /\ pc[r] = "insert"
    /\ IF KeysTaken(c.next)
       THEN RollBack(r, "rolled_back") /\ UNCHANGED dest
       ELSE /\ dest' = [dest EXCEPT ![c.next] = @ \union {c.plan}]
            /\ call' = [call EXCEPT ![r].next = @ + 1]
            /\ Goto(r, IF c.next = Len(Tables) THEN "commit" ELSE "insert")
            /\ UNCHANGED advisory
    /\ UNCHANGED <<files, exit, source, backup, appWrites>>
    /\ Witness(dest')

InsertTable(r) ==
    LET c == call[r] IN
    /\ pc[r] = "insert"
    /\ IF KeysTaken(c.next)
       THEN RollBack(r, "rolled_back")
       ELSE /\ call' = [call EXCEPT ![r].next = @ + 1]
            /\ Goto(r, IF c.next = Len(Tables) THEN "commit" ELSE "insert")
            /\ UNCHANGED advisory
    /\ UNCHANGED <<files, exit>>
    /\ Unchanged

Applied(p) == [i \in 1..Len(Tables) |-> dest[i] \union {p}]

Commit(r) == /\ pc[r] = "commit"
             /\ dest' = Applied(call[r].plan)
             /\ call' = [call EXCEPT ![r].outcome = "applied", ![r].committed = TRUE]
             /\ Goto(r, "check")
             /\ Unlock(r)
             /\ UNCHANGED <<files, exit, source, backup, appWrites>>
             /\ Witness(dest')

\* Mutant: a commit without an answer counts as rolled back.
CommitUnanswered(r) ==
    /\ pc[r] = "commit"
    /\ \E done \in BOOLEAN : /\ dest' = IF done THEN Applied(call[r].plan) ELSE dest
                             /\ call' = [call EXCEPT ![r].outcome = "rolled_back", ![r].committed = done]
    /\ Goto(r, "fail")
    /\ Unlock(r)
    /\ UNCHANGED <<files, exit, source, backup, appWrites>>
    /\ Witness(dest')

\* The connection is lost while the commit is answered: it may have happened.
CommitFails(r) ==
    /\ pc[r] = "commit"
    /\ \E done \in BOOLEAN : /\ dest' = IF done THEN Applied(call[r].plan) ELSE dest
                             /\ call' = [call EXCEPT ![r].outcome = "transaction_failed", ![r].committed = done]
    /\ Goto(r, "fail")
    /\ Unlock(r)
    /\ UNCHANGED <<files, exit, source, backup, appWrites>>
    /\ Witness(dest')

\* Any statement of the transaction may fail, and the rollback after it.
StatementFails(r) == /\ pc[r] \in {"begin", "lock", "classify", "insert"}
                     /\ RollBack(r, "rolled_back") \/ RollBack(r, "transaction_failed")
                     /\ UNCHANGED <<files, exit>>
                     /\ Unchanged

\* The report of a failed or refused transaction is published or not.  A check
\* of the importer's own exits with 2, an error of the database with 5.
ReportFailure(r) == /\ pc[r] = "fail"
                    /\ \E report \in {call[r].outcome, "none"},
                          code \in IF call[r].next > Len(Tables) THEN {"5"} ELSE {"2", "5"} : Finish(r, code, report)
                    /\ UNCHANGED <<files, advisory>>
                    /\ Unchanged

ReportRefusal(r) == /\ pc[r] = "refuse"
                    /\ Finish(r, "4", "unsafe_nonempty") \/ Finish(r, "2", "none")
                    /\ UNCHANGED <<files, advisory>>
                    /\ Unchanged

-----------------------------------------------------------------------------
(* The independent verification, of an apply and of verify.                *)

\* Mutant: an apply trusts its own transaction.
VerifyOnlyVerify(r) == /\ pc[r] = "check"
                       /\ call' = [call EXCEPT ![r].seen = dest]
                       /\ Goto(r, IF call[r].op = "apply" THEN "report" ELSE "compare")
                       /\ UNCHANGED <<files, advisory, exit>>
                       /\ Unchanged

\* REPEATABLE READ, READ ONLY: the revision is read first, and all tables are
\* as of that moment, later than the end of the run's own transaction.
OpenVerification(r) == /\ pc[r] = "check"
                       /\ call' = [call EXCEPT ![r].seen = dest]
                       /\ Goto(r, "compare")
                       /\ UNCHANGED <<files, advisory, exit>>
                       /\ Unchanged

VerifyDestination(r) ==
    LET c == call[r] IN
    /\ pc[r] = "compare"
    /\ IF c.seen = Only(c.plan)
       THEN /\ call' = [call EXCEPT ![r].outcome = IF c.op = "verify" THEN "verified" ELSE @]
            /\ Goto(r, "report")
            /\ UNCHANGED exit
       ELSE \/ Finish(r, "6", "verification_failed")
            \/ Finish(r, "2", "none")                   \* its report cannot be published
    /\ UNCHANGED <<files, advisory>>
    /\ Unchanged

VerificationFails(r) == /\ pc[r] \in {"check", "compare"}
                        /\ IF call[r].op = "apply"
                           THEN \E report \in {"none", "verification_failed"} : Finish(r, "6", report)
                           ELSE \E code \in {"2", "6"} : Finish(r, code, "none")
                        /\ UNCHANGED <<files, advisory>>
                        /\ Unchanged

ReportSuccess(r) == /\ pc[r] = "report"
                    /\ \/ Finish(r, "0", call[r].outcome)
                       \/ Finish(r, IF call[r].committed THEN "6" ELSE "2", "none")
                    /\ UNCHANGED <<files, advisory>>
                    /\ Unchanged

\* SIGKILL or a reboot: the transaction is rolled back, no report is left.
Kill(r) == /\ pc[r] # "idle"
           /\ Finish(r, "none", "none")
           /\ Unlock(r)
           /\ UNCHANGED files
           /\ Unchanged

-----------------------------------------------------------------------------
(* The world: the former program writes its file, the operator copies it,  *)
(* the application writes the destination.                                 *)

LegacyWrite == /\ source < MaxWrites
               /\ source' = source + 1
               /\ UNCHANGED <<backup, files, dest, appWrites, advisory, pc, call, exit, exact>>

TakeBackup == /\ backup # source
              /\ backup' = source
              /\ UNCHANGED <<source, files, dest, appWrites, advisory, pc, call, exit, exact>>

AppWrite(i) == /\ appWrites < MaxWrites
               /\ appWrites' = appWrites + 1
               /\ dest' = [dest EXCEPT ![i] = @ \union {AppRow}]
               /\ UNCHANGED <<source, backup, files, advisory, pc, call, exit, exact>>

Work(r) == \/ ReadSource(r) \/ CloseSource(r) \/ LoadInputs(r)
           \/ ReadTable(r) \/ ClassifyForPlan(r) \/ PublishMapping(r) \/ PublishPlan(r) \/ PublishReport(r)
           \/ Begin(r) \/ AcquireAdvisoryLock(r) \/ ClassifyDestination(r) \/ InsertTable(r) \/ Commit(r)
           \/ OpenVerification(r) \/ VerifyDestination(r) \/ ReportSuccess(r) \/ ReportFailure(r) \/ ReportRefusal(r)

Fault(r) == PublicationFails(r) \/ CommitFails(r) \/ StatementFails(r) \/ VerificationFails(r) \/ Kill(r)

Next == \/ LegacyWrite \/ TakeBackup
        \/ \E i \in 1..Len(Tables) : AppWrite(i)
        \/ \E r \in Runs : \/ Work(r)
                           \/ Fault(r)
                           \/ \E op \in {"plan", "apply", "verify"}, p, m \in Plans : Start(r, op, p, m)

Spec == Init /\ [][Next]_vars

-----------------------------------------------------------------------------
(* Properties.                                                             *)

\* A crash, an error or a second run never leaves part of an import behind.
AllOrNothing == \A p \in Plans, i, j \in 1..Len(Tables) : p \in dest[i] => p \in dest[j]

\* Two imports never both reach the destination, even when the second took
\* its snapshot before the first committed.
OneImportOnly == \A p, q \in Plans, i, j \in 1..Len(Tables) : p \in dest[i] /\ q \in dest[j] => p = q

\* The state invariant of the importer: files, tables and locks of their kind,
\* and in the destination one whole import or none.
WellFormed == TypeOK /\ AllOrNothing /\ OneImportOnly

\* A plan says what the file with its hash says, although the former program
\* may write the file while it is read.
PlansMatchTheirHash == \A p \in Plans : files[p].rows = files[p].sha

\* A run that exits with 0 has not missed what was written between its commit
\* and its verification: the destination was exactly the plan at a moment of
\* the verification, which the commit itself does not make true.
SuccessIsProven ==
    [][\A r \in Runs : exit'[r].code = "0" /\ exit[r].code # "0" /\ exit'[r].report # "dry_run" => exact[r]]_vars

\* A report tells what has become of the transaction: who reads "rolled_back"
\* may repeat the apply, who reads "applied" must not.
ReportsAreTrue ==
    [][\A r \in Runs : pc[r] # "idle" /\ pc'[r] = "idle" =>
          /\ exit'[r].report \in {"rolled_back", "already_applied", "unsafe_nonempty"} => ~call[r].committed
          /\ exit'[r].report = "applied" => call[r].committed]_vars

-----------------------------------------------------------------------------
(* What the importer amounts to (ImportOnce).                              *)

Imported == {p \in Plans : \A i \in 1..Len(Tables) : p \in dest[i]}
Grown    == {i \in 1..Len(Tables) : AppRow \in dest[i]}
Asked    == [r \in Runs |-> call[r].plan]
Opened   == {r \in Runs : pc[r] \in {"lock", "classify", "insert", "commit"} /\ call[r].seen = Nothing}
Done     == {r \in Runs : call[r].committed}
Told     == [r \in Runs |-> exit[r].report]

Once == INSTANCE ImportOnce WITH Places <- 1..Len(Tables), imported <- Imported, grown <- Grown, asked <- Asked,
                                 open <- Opened, done <- Done, told <- Told

\* Transactions that write table by table behind a lock and an older snapshot,
\* that die or lose their answer, implement one import in one step; and a
\* report of success means that this plan is the one in the destination.
ImplementsOnce == Once!Spec
=============================================================================
