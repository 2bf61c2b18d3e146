----------------------------- MODULE LegacyProofs -----------------------------
(***************************************************************************)
(* Proofs about the way out of the former program: the normalization of    *)
(* its table (LegacyNormalization), the import (LegacyImport), the         *)
(* correction of the answers after the cutover (LegacyReconciliation), and *)
(* what the first and the last of them add up to.                          *)
(***************************************************************************)
EXTENDS LegacyImport, LegacyNormalization, LegacyReconciliation, FiniteSetTheorems, TLAPS

-----------------------------------------------------------------------------
(* The import.  The invariant says what the advisory lock buys a run        *)
(* between two of its inserts, and what its outcome says of the commit.     *)

Steps   == 1..Len(Tables)
Holding == {"classify", "insert", "commit"}
Free(i) == dest[i] \intersect Plans = {}

\* A run knows its plan and its operation; its counter is at a table.
CallOf(p, c) == /\ p # "idle" => c.plan \in Plans /\ c.op \in {"plan", "apply", "verify"}
                /\ p \in {"read", "close", "load", "begin", "lock", "classify"} => c.next = 1
                /\ p \in {"tables", "insert"} => c.next \in Steps

\* What was read is not older than the hash, and no newer once both agree.
SourceOf(p, c) == /\ p = "read" => c.sha <= source
                  /\ p = "close" => c.sha <= c.rows /\ c.rows <= source
                  /\ p \in {"load", "tables", "mapping", "plan"} => c.rows = c.sha

\* No import is in the tables a transaction has written so far.
FreshOf(p, c) == /\ p = "insert" => \A i \in Steps : i < c.next => Free(i)
                 /\ p = "commit" => \A i \in Steps : Free(i)

\* What a run will report is what has become of its transaction.
OutcomeOf(p, c, e) ==
    /\ p \notin {"idle", "fail", "check", "compare", "report"} => c.outcome = "none" /\ ~c.committed
    /\ p = "fail" => c.outcome = "transaction_failed" \/ (c.outcome = "rolled_back" /\ ~c.committed)
    /\ p \in {"check", "compare"} => \/ c.outcome = "applied" /\ c.committed
                                     \/ c.outcome = "already_applied" /\ ~c.committed
                                     \/ c.outcome = "none" /\ c.op = "verify"
    /\ p = "compare" => (c.seen = Only(c.plan) => e)
    /\ p = "report" => /\ e
                       /\ \/ c.outcome = "applied" /\ c.committed
                          \/ c.outcome = "already_applied" /\ ~c.committed
                          \/ c.outcome = "verified"

LocalOf(p, c, e) == CallOf(p, c) /\ SourceOf(p, c) /\ FreshOf(p, c) /\ OutcomeOf(p, c, e)

LockInv == \A r \in Runs : pc[r] \in Holding => advisory = r

IInv == /\ TypeOK /\ LockInv
        /\ \A r \in Runs : LocalOf(pc[r], call[r], exact[r])
        /\ AllOrNothing /\ OneImportOnly /\ PlansMatchTheirHash

-----------------------------------------------------------------------------
(* Types.                                                                  *)

LEMMA EmptyCall == NoCall \in Calls /\ Nothing \in Contents
<1>1. Nothing \in Contents
  BY DEF Nothing, Contents
<1>2. 0 \in Versions /\ 1 \in 1..(Len(Tables) + 1)
  BY TablesAssumption, BoundAssumption DEF Versions
<1> HIDE DEF Nothing, Contents, Versions
<1> QED
  BY <1>1, <1>2 DEF NoCall, Calls, Reports

LEMMA InitIInv == Init => IInv
<1> SUFFICES ASSUME Init PROVE IInv
  OBVIOUS
<1>1. 0 \in Versions
  BY BoundAssumption DEF Versions
<1>2. TypeOK
  BY <1>1, EmptyCall, BoundAssumption DEF Init, TypeOK, PCs, Codes, Reports
<1>3. \A r \in Runs : pc[r] = "idle"
  BY DEF Init
<1>4. \A r \in Runs : LocalOf(pc[r], call[r], exact[r])
  BY <1>3 DEF LocalOf, CallOf, SourceOf, FreshOf, OutcomeOf
<1>5. AllOrNothing /\ OneImportOnly /\ PlansMatchTheirHash
  BY DEF Init, Nothing, AllOrNothing, OneImportOnly, PlansMatchTheirHash
<1> QED
  BY <1>2, <1>3, <1>4, <1>5 DEF IInv, LockInv, Holding

-----------------------------------------------------------------------------
(* A step of one run.                                                      *)

\* What every step of a run does: its own statement and call change, nobody
\* else's, and the tables change only under the advisory lock.
RunStep(r, l, c) ==
    /\ pc' = [pc EXCEPT ![r] = l]
    /\ call' = [call EXCEPT ![r] = c]
    /\ \/ advisory' = advisory
       \/ advisory = NoRun /\ advisory' = r
       \/ advisory = r /\ advisory' = NoRun
    /\ l \in Holding <=> advisory' = r
    /\ dest' = dest \/ advisory = r
    /\ UNCHANGED <<source, backup, appWrites>>
    /\ Witness(dest')

LEMMA OthersUndisturbed ==
  ASSUME IInv, NEW r \in Runs, NEW l \in PCs, NEW c \in Calls, RunStep(r, l, c),
         NEW q \in Runs \ {r}
  PROVE  LocalOf(pc[q], call[q], exact[q])' /\ (pc'[q] \in Holding => advisory' = q)
<1>1. pc'[q] = pc[q] /\ call'[q] = call[q]
  BY DEF IInv, TypeOK, RunStep
<1>2. pc[q] \in Holding => advisory = q /\ advisory' = q /\ dest' = dest
  BY SentinelAssumption DEF IInv, LockInv, RunStep
<1>3. exact[q] /\ pc[q] \in {"compare", "report"} => exact'[q]
  BY <1>1 DEF RunStep, Witness
<1>4. source' = source
  BY DEF RunStep
<1>5. LocalOf(pc[q], call[q], exact[q])
  BY DEF IInv
<1>6. CallOf(pc[q], call[q])' /\ SourceOf(pc[q], call[q])'
  BY <1>1, <1>4, <1>5 DEF LocalOf, CallOf, SourceOf
<1>7. FreshOf(pc[q], call[q])'
  BY <1>1, <1>2, <1>5 DEF LocalOf, FreshOf, Free, Holding
<1>8. OutcomeOf(pc[q], call[q], exact[q])'
  BY <1>1, <1>3, <1>5 DEF LocalOf, OutcomeOf
<1> QED
  BY <1>1, <1>2, <1>6, <1>7, <1>8 DEF LocalOf

LEMMA StepKeeps ==
  ASSUME IInv, NEW r \in Runs, NEW l \in PCs, NEW c \in Calls, RunStep(r, l, c),
         exit' \in [Runs -> [code : Codes, report : Reports]],
         files' \in [Plans -> [state : {"free", "mapped", "published"}, sha : Versions, rows : Versions]],
         dest' \in Contents,
         LocalOf(l, c, exact[r])',
         (AllOrNothing /\ OneImportOnly /\ PlansMatchTheirHash)'
  PROVE  IInv'
<1>1. pc'[r] = l /\ call'[r] = c
  BY DEF IInv, TypeOK, RunStep
<1>2. \A q \in Runs \ {r} : pc'[q] = pc[q]
  BY DEF IInv, TypeOK, RunStep
<1>3. pc' \in [Runs -> PCs] /\ call' \in [Runs -> Calls]
  BY DEF IInv, TypeOK, RunStep
<1>4. exact' \in [Runs -> BOOLEAN]
  <2>1. \A q \in Runs : exact[q] \in BOOLEAN
    BY DEF IInv, TypeOK
  <2> QED
    BY <2>1 DEF RunStep, Witness
<1>5. advisory' \in Runs \union {NoRun}
  BY DEF IInv, TypeOK, RunStep
<1>6. advisory' # NoRun => pc'[advisory'] \in Holding
  BY <1>1, <1>2 DEF IInv, TypeOK, RunStep, Holding
<1>7. TypeOK'
  BY <1>3, <1>4, <1>5, <1>6 DEF IInv, TypeOK, RunStep, Holding
<1>8. LockInv'
  BY <1>1, OthersUndisturbed DEF LockInv, RunStep
<1>9. \A q \in Runs : LocalOf(pc[q], call[q], exact[q])'
  <2> TAKE q \in Runs
  <2>1. CASE q = r
    BY <2>1, <1>1
  <2> QED
    BY <2>1, OthersUndisturbed
<1> QED
  BY <1>7, <1>8, <1>9 DEF IInv

FilesFit == /\ files \in [Plans -> [state : {"free", "mapped", "published"}, sha : Versions, rows : Versions]]
            /\ PlansMatchTheirHash

ExitsFit == exit \in [Runs -> [code : Codes, report : Reports]]

\* A step to another statement that leaves tables, files and answers alone.
LEMMA MoveAndStoreKeeps ==
  ASSUME IInv, NEW r \in Runs, NEW l \in PCs, NEW c \in Calls,
         pc' = [pc EXCEPT ![r] = l], call' = [call EXCEPT ![r] = c], Unchanged, FilesFit', ExitsFit',
         \/ advisory' = advisory
         \/ advisory = NoRun /\ advisory' = r
         \/ advisory = r /\ advisory' = NoRun,
         l \in Holding <=> advisory' = r,
         LocalOf(l, c, exact'[r])
  PROVE  IInv'
<1>1. RunStep(r, l, c)
  BY DEF RunStep, Unchanged, world
<1>2. LocalOf(l, c, exact[r])'
  BY DEF LocalOf, CallOf, SourceOf, FreshOf, OutcomeOf, Free, Unchanged, world
<1>3. (AllOrNothing /\ OneImportOnly /\ PlansMatchTheirHash)'
  BY DEF IInv, AllOrNothing, OneImportOnly, FilesFit, Unchanged, world
<1>4. dest' \in Contents
  BY DEF IInv, TypeOK, Unchanged, world
<1> QED
  BY <1>1, <1>2, <1>3, <1>4, StepKeeps DEF FilesFit, ExitsFit

LEMMA MoveKeeps ==
  ASSUME IInv, NEW r \in Runs, NEW l \in PCs, NEW c \in Calls,
         pc' = [pc EXCEPT ![r] = l], call' = [call EXCEPT ![r] = c], Unchanged, UNCHANGED <<files, exit>>,
         \/ advisory' = advisory
         \/ advisory = NoRun /\ advisory' = r
         \/ advisory = r /\ advisory' = NoRun,
         l \in Holding <=> advisory' = r,
         LocalOf(l, c, exact'[r])
  PROVE  IInv'
<1>1. FilesFit' /\ ExitsFit'
  BY DEF IInv, TypeOK, FilesFit, ExitsFit, PlansMatchTheirHash
<1> QED
  BY <1>1, MoveAndStoreKeeps

\* The end of a process.
LEMMA FinishKeeps ==
  ASSUME IInv, NEW r \in Runs, NEW code \in Codes, NEW report \in Reports, Finish(r, code, report),
         Unchanged, UNCHANGED files,
         Unlock(r) \/ (advisory' = advisory /\ pc[r] \notin Holding)
  PROVE  IInv'
<1>1. "idle" \in PCs /\ NoCall \in Calls
  BY EmptyCall DEF PCs
<1>2. advisory # r => advisory' = advisory
  BY DEF Unlock
<1>3. advisory = r => advisory' = NoRun
  BY SentinelAssumption DEF Unlock, IInv, TypeOK, Holding
<1>4. RunStep(r, "idle", NoCall)
  BY <1>2, <1>3, SentinelAssumption DEF RunStep, Finish, Goto, Unchanged, world, Holding
<1>5. LocalOf("idle", NoCall, exact[r])'
  BY DEF LocalOf, CallOf, SourceOf, FreshOf, OutcomeOf
<1>6. (AllOrNothing /\ OneImportOnly /\ PlansMatchTheirHash)'
  BY DEF IInv, AllOrNothing, OneImportOnly, PlansMatchTheirHash, Unchanged, world
<1>7. dest' \in Contents
  BY DEF IInv, TypeOK, Unchanged, world
<1>8. /\ exit' \in [Runs -> [code : Codes, report : Reports]]
      /\ files' \in [Plans -> [state : {"free", "mapped", "published"}, sha : Versions, rows : Versions]]
  BY DEF IInv, TypeOK, Finish
<1> QED
  BY <1>1, <1>4, <1>5, <1>6, <1>7, <1>8, StepKeeps

\* What a run of the invariant knows before its step.
LEMMA Before ==
  ASSUME IInv, NEW r \in Runs
  PROVE  /\ pc \in [Runs -> PCs] /\ call \in [Runs -> Calls] /\ dest \in Contents
         /\ source \in Versions /\ call[r] \in Calls
         /\ LocalOf(pc[r], call[r], exact[r])
         /\ pc[r] \in Holding <=> advisory = r
         /\ pc = [pc EXCEPT ![r] = pc[r]] /\ call = [call EXCEPT ![r] = call[r]]
         /\ pc[r] # "idle" => call[r].plan \in Plans
<1>1. pc[r] \in Holding <=> advisory = r
  BY SentinelAssumption DEF IInv, TypeOK, LockInv, Holding
<1> QED
  BY <1>1 DEF IInv, TypeOK, LocalOf, CallOf

-----------------------------------------------------------------------------
(* The steps of a run.                                                     *)

LEMMA InspectionKeeps ==
  ASSUME IInv, NEW r \in Runs,
         \/ \E op \in {"plan", "apply", "verify"}, p, m \in Plans : Start(r, op, p, m)
         \/ ReadSource(r) \/ CloseSource(r) \/ LoadInputs(r)
  PROVE  IInv'
<1>0. /\ pc[r] \notin Holding => advisory # r
      /\ LocalOf(pc[r], call[r], exact[r])
      /\ source \in Versions /\ call[r] \in Calls /\ call \in [Runs -> Calls] /\ pc \in [Runs -> PCs]
      /\ call = [call EXCEPT ![r] = call[r]]
  BY Before
<1>1. ASSUME NEW op \in {"plan", "apply", "verify"}, NEW p \in Plans, NEW m \in Plans, Start(r, op, p, m)
      PROVE  IInv'
  <2>1. advisory' = advisory /\ advisory # r /\ UNCHANGED files /\ Unchanged /\ pc[r] \notin Holding
    BY <1>0, <1>1 DEF Start, Holding
  <2>2. CASE ~Preflight(op, p, m)
    BY <1>1, <2>1, <2>2, FinishKeeps DEF Start, Codes, Reports
  <2>3. CASE Preflight(op, p, m)
    <3> DEFINE c == [NoCall EXCEPT !.op = op, !.plan = p, !.mapping = m, !.sha = source]
    <3>1. c \in Calls
      BY <1>0, EmptyCall DEF Calls
    <3>2. LocalOf("read", c, exact'[r])
      <4>1. source <= source /\ 1 \in Steps
        BY <1>0, TablesAssumption, BoundAssumption DEF Versions, Steps
      <4> QED
        BY <4>1 DEF LocalOf, CallOf, SourceOf, FreshOf, OutcomeOf, NoCall
    <3>3. /\ pc' = [pc EXCEPT ![r] = "read"] /\ call' = [call EXCEPT ![r] = c]
          /\ exit' = [exit EXCEPT ![r] = [code |-> "none", report |-> "none"]]
      BY <1>1, <2>3 DEF Start, Goto
    <3> HIDE DEF c
    <3>4. ExitsFit' /\ FilesFit'
      BY <2>1, <3>3 DEF ExitsFit, FilesFit, IInv, TypeOK, Codes, Reports, PlansMatchTheirHash
    <3> QED
      BY <2>1, <3>1, <3>2, <3>3, <3>4, MoveAndStoreKeeps DEF PCs, Holding
  <2> QED
    BY <2>2, <2>3
<1>2. CASE ReadSource(r)
  <2> DEFINE c == [call[r] EXCEPT !.rows = source]
  <2>1. c \in Calls
    BY <1>0 DEF Calls
  <2>2. LocalOf("close", c, exact'[r])
    BY <1>0, <1>2, BoundAssumption DEF ReadSource, LocalOf, CallOf, SourceOf, FreshOf, OutcomeOf,
       Calls, Versions
  <2>3. pc' = [pc EXCEPT ![r] = "close"] /\ call' = [call EXCEPT ![r] = c]
    BY <1>2 DEF ReadSource, Goto
  <2> HIDE DEF c
  <2> QED
    BY <1>0, <1>2, <2>1, <2>2, <2>3, MoveKeeps DEF ReadSource, PCs, Holding
<1>3. CASE CloseSource(r)
  <2>1. advisory' = advisory /\ advisory # r /\ UNCHANGED files /\ Unchanged /\ pc[r] \notin Holding
    BY <1>0, <1>3 DEF CloseSource, Holding
  <2>2. CASE source # call[r].sha
    BY <1>3, <2>1, <2>2, FinishKeeps DEF CloseSource, Codes, Reports
  <2>3. CASE source = call[r].sha
    <3>1. LocalOf("load", call[r], exact'[r])
      BY <1>0, <1>3, <2>3, BoundAssumption
         DEF CloseSource, LocalOf, CallOf, SourceOf, FreshOf, OutcomeOf, Calls, Versions
    <3>2. pc' = [pc EXCEPT ![r] = "load"] /\ call' = [call EXCEPT ![r] = call[r]] /\ UNCHANGED exit
      BY <1>0, <1>3, <2>3 DEF CloseSource, Goto
    <3> QED
      BY <1>0, <2>1, <3>1, <3>2, MoveKeeps DEF PCs, Holding
  <2> QED
    BY <2>2, <2>3
<1>4. CASE LoadInputs(r)
  <2>1. advisory' = advisory /\ advisory # r /\ UNCHANGED files /\ Unchanged /\ pc[r] \notin Holding
    BY <1>0, <1>4 DEF LoadInputs, Holding
  <2> DEFINE c == call[r]
             fits == FrozenBackup(c) /\ (c.op # "plan" => ArtifactsMatch(c) /\ ContractHolds(c))
  <2>2. CASE ~fits
    BY <1>4, <2>1, <2>2, FinishKeeps DEF LoadInputs, Codes, Reports
  <2>3. CASE fits
    <3>1. \E l \in {"tables", "begin", "check"} :
            /\ pc' = [pc EXCEPT ![r] = l] /\ UNCHANGED <<call, exit>>
            /\ l = "check" => c.op \notin {"plan", "apply"}
      BY <1>4, <2>3 DEF LoadInputs, Goto
    <3>2. PICK l \in {"tables", "begin", "check"} :
            /\ pc' = [pc EXCEPT ![r] = l] /\ UNCHANGED <<call, exit>>
            /\ l = "check" => c.op \notin {"plan", "apply"}
      BY <3>1
    <3>3. 1 \in Steps
      BY TablesAssumption DEF Steps
    <3>4. LocalOf(l, c, exact'[r])
      BY <1>0, <1>4, <3>2, <3>3 DEF LoadInputs, LocalOf, CallOf, SourceOf, FreshOf, OutcomeOf
    <3>5. l \in PCs /\ (l \in Holding <=> advisory' = r)
      BY <2>1 DEF PCs, Holding
    <3> QED
      BY <1>0, <2>1, <3>2, <3>4, <3>5, MoveKeeps
  <2> QED
    BY <2>2, <2>3
<1> QED
  BY <1>1, <1>2, <1>3, <1>4

LEMMA PlanKeeps ==
  ASSUME IInv, NEW r \in Runs,
         ReadTable(r) \/ ClassifyForPlan(r) \/ PublishMapping(r) \/ PublishPlan(r) \/ PublishReport(r)
           \/ PublicationFails(r)
  PROVE  IInv'
<1>0. /\ pc[r] \notin Holding => advisory # r
      /\ LocalOf(pc[r], call[r], exact[r])
      /\ call[r] \in Calls /\ call \in [Runs -> Calls] /\ pc \in [Runs -> PCs] /\ dest \in Contents
      /\ call = [call EXCEPT ![r] = call[r]]
      /\ pc[r] # "idle" => call[r].plan \in Plans
  BY Before
<1>1. advisory' = advisory /\ advisory # r /\ Unchanged /\ pc[r] \notin Holding /\ pc[r] # "idle"
  BY <1>0 DEF Holding, ReadTable, ClassifyForPlan, PublishMapping, PublishPlan, PublishReport,
     PublicationFails
<1>2. CASE ReadTable(r)
  <2> DEFINE i == call[r].next
             seen == [call[r].seen EXCEPT ![i] = dest[i]]
             c == [call[r] EXCEPT !.seen = seen, !.next = i + 1]
  <2>1. i \in Steps
    BY <1>0, <1>2 DEF ReadTable, LocalOf, CallOf
  <2>2. seen \in Contents
    BY <1>0, <2>1 DEF Contents, Steps, Calls
  <2>3. i + 1 \in 1..(Len(Tables) + 1)
    BY <2>1, TablesAssumption DEF Steps
  <2>4. call' = [call EXCEPT ![r] = c]
    BY <1>0, <1>2 DEF ReadTable
  <2>5. PICK l \in {"tables", "mapping"} : pc' = [pc EXCEPT ![r] = l] /\ (l = "tables" => i # Len(Tables))
    BY <1>2 DEF ReadTable, Goto
  <2>6. l = "tables" => i + 1 \in Steps
    BY <2>1, <2>5, TablesAssumption DEF Steps
  <2> HIDE DEF seen
  <2>7. c \in Calls
    BY <1>0, <2>2, <2>3 DEF Calls
  <2>8. LocalOf(l, c, exact'[r])
    BY <1>0, <1>2, <2>6 DEF ReadTable, LocalOf, CallOf, SourceOf, FreshOf, OutcomeOf, Calls
  <2>9. l \in PCs /\ (l \in Holding <=> advisory' = r) /\ UNCHANGED <<files, exit>>
    BY <1>1, <1>2 DEF ReadTable, PCs, Holding
  <2> HIDE DEF c
  <2> QED
    BY <1>1, <2>4, <2>5, <2>7, <2>8, <2>9, MoveKeeps
<1>3. CASE ClassifyForPlan(r) \/ PublishReport(r) \/ PublicationFails(r)
  <2>1. PICK code \in Codes, report \in Reports : Finish(r, code, report) /\ UNCHANGED files
    BY <1>3 DEF ClassifyForPlan, PublishReport, PublicationFails, Codes, Reports
  <2> QED
    BY <1>1, <2>1, FinishKeeps
<1>4. CASE PublishMapping(r)
  <2> DEFINE p == call[r].plan
  <2>1. CASE files[p].state # "free"
    BY <1>1, <1>4, <2>1, FinishKeeps DEF PublishMapping, Codes, Reports
  <2>2. CASE files[p].state = "free"
    <3>1. /\ files' = [files EXCEPT ![p].state = "mapped"]
          /\ pc' = [pc EXCEPT ![r] = "plan"] /\ UNCHANGED <<call, exit>>
      BY <1>4, <2>2 DEF PublishMapping, Goto
    <3>2. FilesFit' /\ ExitsFit'
      BY <1>0, <1>1, <3>1 DEF IInv, TypeOK, FilesFit, ExitsFit, PlansMatchTheirHash
    <3>3. LocalOf("plan", call[r], exact'[r])
      BY <1>0, <1>4 DEF PublishMapping, LocalOf, CallOf, SourceOf, FreshOf, OutcomeOf
    <3> QED
      BY <1>0, <1>1, <3>1, <3>2, <3>3, MoveAndStoreKeeps DEF PCs, Holding
  <2> QED
    BY <2>1, <2>2
<1>5. CASE PublishPlan(r)
  <2> DEFINE c == call[r]
  <2>1. /\ files' = [files EXCEPT ![c.plan] = [state |-> "published", sha |-> c.sha, rows |-> c.rows]]
        /\ pc' = [pc EXCEPT ![r] = "publish"] /\ UNCHANGED <<call, exit>>
    BY <1>5 DEF PublishPlan, Goto
  <2>2. c.rows = c.sha /\ c.sha \in Versions
    BY <1>0, <1>5 DEF PublishPlan, LocalOf, SourceOf, Calls
  <2>3. FilesFit' /\ ExitsFit'
    BY <1>0, <1>1, <2>1, <2>2 DEF IInv, TypeOK, FilesFit, ExitsFit, PlansMatchTheirHash
  <2>4. LocalOf("publish", call[r], exact'[r])
    BY <1>0, <1>5 DEF PublishPlan, LocalOf, CallOf, SourceOf, FreshOf, OutcomeOf
  <2> QED
    BY <1>0, <1>1, <2>1, <2>3, <2>4, MoveAndStoreKeeps DEF PCs, Holding
<1> QED
  BY <1>2, <1>3, <1>4, <1>5

LEMMA ApplyKeeps ==
  ASSUME IInv, NEW r \in Runs,
         Begin(r) \/ AcquireAdvisoryLock(r) \/ ClassifyDestination(r) \/ InsertTable(r) \/ StatementFails(r)
           \/ ReportFailure(r) \/ ReportRefusal(r) \/ Kill(r)
  PROVE  IInv'
<1>0. /\ pc[r] \in Holding <=> advisory = r
      /\ LocalOf(pc[r], call[r], exact[r])
      /\ call[r] \in Calls /\ call \in [Runs -> Calls] /\ pc \in [Runs -> PCs] /\ dest \in Contents
      /\ call = [call EXCEPT ![r] = call[r]]
  BY Before
<1>1. UNCHANGED files /\ Unchanged
  BY DEF Begin, AcquireAdvisoryLock, ClassifyDestination, InsertTable, StatementFails, ReportFailure,
         ReportRefusal, Kill
<1>2. Unlock(r) => \/ advisory' = advisory /\ advisory # r
                   \/ advisory = r /\ advisory' = NoRun
  BY DEF Unlock
<1>3. r # NoRun
  BY SentinelAssumption
<1>4. CASE Begin(r)
  <2> DEFINE c == [call[r] EXCEPT !.seen = dest]
  <2>1. c \in Calls
    BY <1>0 DEF Calls
  <2>2. LocalOf("lock", c, exact'[r])
    BY <1>0, <1>4 DEF Begin, LocalOf, CallOf, SourceOf, FreshOf, OutcomeOf, Calls
  <2>3. pc' = [pc EXCEPT ![r] = "lock"] /\ call' = [call EXCEPT ![r] = c] /\ UNCHANGED <<exit, advisory>>
    BY <1>4 DEF Begin, Goto
  <2> HIDE DEF c
  <2>4. advisory # r
    BY <1>0, <1>4 DEF Begin, Holding
  <2> QED
    BY <1>1, <2>1, <2>2, <2>3, <2>4, MoveKeeps DEF PCs, Holding
<1>5. CASE AcquireAdvisoryLock(r)
  <2>1. LocalOf("classify", call[r], exact'[r])
    BY <1>0, <1>5 DEF AcquireAdvisoryLock, LocalOf, CallOf, SourceOf, FreshOf, OutcomeOf
  <2>2. /\ pc' = [pc EXCEPT ![r] = "classify"] /\ UNCHANGED <<call, exit>>
        /\ advisory = NoRun /\ advisory' = r
    BY <1>5 DEF AcquireAdvisoryLock, Goto
  <2> QED
    BY <1>0, <1>1, <2>1, <2>2, MoveKeeps DEF PCs, Holding
<1>6. CASE ClassifyDestination(r)
  <2>1. advisory = r /\ UNCHANGED exit /\ LocalOf("classify", call[r], exact[r])
    BY <1>0, <1>6 DEF ClassifyDestination, Holding
  <2>2. CASE call[r].seen = Nothing
    <3>0. Nothing # Only(call[r].plan)
      <4>1. 1 \in Steps
        BY TablesAssumption DEF Steps
      <4> QED
        BY <4>1 DEF Nothing, Only, Steps
    <3>1. pc' = [pc EXCEPT ![r] = "insert"] /\ UNCHANGED <<call, advisory>>
      BY <1>6, <2>2, <3>0 DEF ClassifyDestination, Goto
    <3>2. 1 \in Steps /\ ~\E i \in Steps : i < 1
      BY TablesAssumption DEF Steps
    <3>3. LocalOf("insert", call[r], exact'[r])
      BY <2>1, <3>2 DEF LocalOf, CallOf, SourceOf, FreshOf, OutcomeOf
    <3> QED
      BY <1>0, <1>1, <2>1, <3>1, <3>3, MoveKeeps DEF PCs, Holding
  <2>3. CASE call[r].seen # Nothing /\ call[r].seen = Only(call[r].plan)
    <3> DEFINE c == [call[r] EXCEPT !.outcome = "already_applied"]
    <3>1. pc' = [pc EXCEPT ![r] = "check"] /\ call' = [call EXCEPT ![r] = c] /\ Unlock(r)
      BY <1>6, <2>3 DEF ClassifyDestination, Goto
    <3>2. c \in Calls
      BY <1>0 DEF Calls, Reports
    <3>3. LocalOf("check", c, exact'[r])
      BY <1>0, <2>1 DEF LocalOf, CallOf, SourceOf, FreshOf, OutcomeOf, Calls
    <3> HIDE DEF c
    <3> QED
      BY <1>1, <1>2, <1>3, <2>1, <3>1, <3>2, <3>3, MoveKeeps DEF PCs, Holding
  <2>4. CASE call[r].seen # Nothing /\ call[r].seen # Only(call[r].plan)
    <3>1. pc' = [pc EXCEPT ![r] = "refuse"] /\ UNCHANGED call /\ Unlock(r)
      BY <1>6, <2>4 DEF ClassifyDestination, Goto
    <3>2. LocalOf("refuse", call[r], exact'[r])
      BY <2>1 DEF LocalOf, CallOf, SourceOf, FreshOf, OutcomeOf
    <3> QED
      BY <1>0, <1>1, <1>2, <1>3, <2>1, <3>1, <3>2, MoveKeeps DEF PCs, Holding
  <2> QED
    BY <2>2, <2>3, <2>4
<1>7. ASSUME NEW report \in {"rolled_back", "transaction_failed"}, RollBack(r, report), UNCHANGED exit,
             pc[r] \in {"begin", "lock", "classify", "insert"}
      PROVE  IInv'
  <2> DEFINE c == [call[r] EXCEPT !.outcome = report]
  <2>1. pc' = [pc EXCEPT ![r] = "fail"] /\ call' = [call EXCEPT ![r] = c] /\ Unlock(r)
    BY <1>7 DEF RollBack, Goto
  <2>2. c \in Calls
    BY <1>0 DEF Calls, Reports
  <2>3. LocalOf("fail", c, exact'[r])
    BY <1>0, <1>7 DEF LocalOf, CallOf, SourceOf, FreshOf, OutcomeOf, Calls
  <2> HIDE DEF c
  <2> QED
    BY <1>1, <1>2, <1>3, <1>7, <2>1, <2>2, <2>3, MoveKeeps DEF PCs, Holding
<1>8. CASE InsertTable(r)
  <2> DEFINE i == call[r].next
  <2>1. pc[r] = "insert" /\ UNCHANGED exit /\ i \in Steps /\ advisory = r
    BY <1>0, <1>8 DEF InsertTable, LocalOf, CallOf, Holding
  <2>2. CASE KeysTaken(i)
    BY <1>7, <1>8, <2>1, <2>2 DEF InsertTable
  <2>3. CASE ~KeysTaken(i)
    <3> DEFINE c == [call[r] EXCEPT !.next = i + 1]
    <3>1. PICK l \in {"insert", "commit"} : /\ pc' = [pc EXCEPT ![r] = l] /\ call' = [call EXCEPT ![r] = c]
                                            /\ UNCHANGED advisory
                                            /\ l = "commit" <=> i = Len(Tables)
      BY <1>8, <2>3 DEF InsertTable, Goto
    <3>2. i + 1 \in 1..(Len(Tables) + 1) /\ (l = "insert" => i + 1 \in Steps)
      BY <2>1, <3>1, TablesAssumption DEF Steps
    <3>3. c \in Calls
      BY <1>0, <3>2 DEF Calls
    <3>4. FreshOf(l, c)
      <4>1. \A j \in Steps : j < i + 1 => Free(j)
        BY <1>0, <2>1, <2>3, TablesAssumption DEF LocalOf, FreshOf, KeysTaken, Free, Steps
      <4>2. i = Len(Tables) => \A j \in Steps : j < i + 1
        BY TablesAssumption DEF Steps
      <4>3. c.next = i + 1
        BY <1>0 DEF Calls
      <4> QED
        BY <3>1, <4>1, <4>2, <4>3 DEF FreshOf
    <3>5. CallOf(l, c) /\ SourceOf(l, c) /\ OutcomeOf(l, c, exact'[r])
      BY <1>0, <2>1, <3>2 DEF LocalOf, CallOf, SourceOf, OutcomeOf, Calls
    <3>6. l \in PCs /\ l \in Holding
      BY DEF PCs, Holding
    <3> HIDE DEF c
    <3> QED
      BY <1>1, <2>1, <3>1, <3>3, <3>4, <3>5, <3>6, MoveKeeps DEF LocalOf
  <2> QED
    BY <2>2, <2>3
<1>9. CASE StatementFails(r)
  BY <1>7, <1>9 DEF StatementFails
<1>10. CASE ReportFailure(r) \/ ReportRefusal(r) \/ Kill(r)
  <2>1. PICK code \in Codes, report \in Reports : Finish(r, code, report)
    BY <1>0, <1>10 DEF ReportFailure, ReportRefusal, Kill, Codes, Reports, Calls
  <2>2. Unlock(r) \/ (advisory' = advisory /\ pc[r] \notin Holding)
    BY <1>10 DEF ReportFailure, ReportRefusal, Kill, Holding
  <2> QED
    BY <1>1, <2>1, <2>2, FinishKeeps
<1> QED
  BY <1>4, <1>5, <1>6, <1>8, <1>9, <1>10

\* An import enters tables that no import is in: the only steps of a run that
\* write.
LEMMA CommitKeeps ==
  ASSUME IInv, NEW r \in Runs, Commit(r) \/ CommitFails(r)
  PROVE  IInv'
<1>0. /\ advisory = r
      /\ LocalOf("commit", call[r], exact[r])
      /\ call[r] \in Calls /\ dest \in Contents /\ call[r].plan \in Plans
      /\ pc[r] = "commit"
  BY Before DEF Commit, CommitFails, Holding
<1>1. PICK l \in {"check", "fail"}, done \in BOOLEAN, outcome \in {"applied", "transaction_failed"} :
        /\ dest' = IF done THEN Applied(call[r].plan) ELSE dest
        /\ call' = [call EXCEPT ![r].outcome = outcome, ![r].committed = done]
        /\ pc' = [pc EXCEPT ![r] = l]
        /\ l = "check" <=> outcome = "applied"
        /\ outcome = "applied" => done
        /\ UNCHANGED <<files, exit, source, backup, appWrites>>
        /\ Unlock(r) /\ Witness(dest')
  BY DEF Commit, CommitFails, Goto
<1> DEFINE p == call[r].plan
<1>2. [call[r] EXCEPT !.outcome = outcome, !.committed = done] \in Calls
  BY <1>0 DEF Calls, Reports
<1>3. PICK c \in Calls : c = [call[r] EXCEPT !.outcome = outcome, !.committed = done]
  BY <1>2
<1>4. LocalOf(l, c, exact[r])'
  <2>1. c.plan = call[r].plan /\ c.op = call[r].op /\ c.outcome = outcome /\ c.committed = done
    BY <1>0, <1>3 DEF Calls
  <2>2. CallOf(l, c)
    BY <1>0, <2>1 DEF LocalOf, CallOf
  <2>3. SourceOf(l, c)' /\ FreshOf(l, c)'
    BY DEF SourceOf, FreshOf
  <2>4. OutcomeOf(l, c, exact'[r])
    BY <1>1, <2>1 DEF OutcomeOf
  <2> QED
    BY <2>2, <2>3, <2>4 DEF LocalOf, CallOf, OutcomeOf
<1>5. advisory' = NoRun /\ l \in PCs /\ l \notin Holding
  BY <1>0, <1>1 DEF Unlock, PCs, Holding
<1>6. RunStep(r, l, c)
  BY <1>0, <1>1, <1>3, <1>5, SentinelAssumption DEF RunStep
<1>7. \A i \in Steps : Free(i)
  BY <1>0 DEF LocalOf, FreshOf
<1>8. \A i \in Steps : dest'[i] = IF done THEN dest[i] \union {p} ELSE dest[i]
  BY <1>1 DEF Applied, Steps
<1>9. dest' \in Contents
  BY <1>0, <1>1 DEF Contents, Applied
<1>10. AllOrNothing' /\ OneImportOnly'
  <2>1. \A q \in Plans, i \in Steps : q \in dest'[i] <=> done /\ q = p
    BY <1>0, <1>7, <1>8 DEF Free
  <2> QED
    BY <2>1 DEF AllOrNothing, OneImportOnly, Steps
<1>11. PlansMatchTheirHash' /\ FilesFit' /\ ExitsFit'
  BY <1>1 DEF IInv, TypeOK, PlansMatchTheirHash, FilesFit, ExitsFit
<1>12. /\ exit' \in [Runs -> [code : Codes, report : Reports]]
       /\ files' \in [Plans -> [state : {"free", "mapped", "published"}, sha : Versions, rows : Versions]]
  BY <1>11 DEF FilesFit, ExitsFit
<1> QED
  BY <1>4, <1>5, <1>6, <1>9, <1>10, <1>11, <1>12, StepKeeps

-----------------------------------------------------------------------------
(* The independent verification, and the world.                            *)

LEMMA CheckKeeps ==
  ASSUME IInv, NEW r \in Runs,
         OpenVerification(r) \/ VerifyDestination(r) \/ VerificationFails(r) \/ ReportSuccess(r)
  PROVE  IInv'
<1>0. /\ pc[r] \notin Holding => advisory # r
      /\ LocalOf(pc[r], call[r], exact[r])
      /\ call[r] \in Calls /\ call \in [Runs -> Calls] /\ pc \in [Runs -> PCs] /\ dest \in Contents
  BY Before
<1>1. advisory' = advisory /\ advisory # r /\ Unchanged /\ pc[r] \notin Holding /\ UNCHANGED files
  BY <1>0 DEF Holding, OpenVerification, VerifyDestination, VerificationFails, ReportSuccess
<1>4. CASE OpenVerification(r)
  <2> DEFINE c == [call[r] EXCEPT !.seen = dest]
  <2>1. c \in Calls /\ c.plan = call[r].plan /\ c.seen = dest /\ c.op = call[r].op
        /\ c.outcome = call[r].outcome /\ c.committed = call[r].committed
    BY <1>0 DEF Calls
  <2>2. pc' = [pc EXCEPT ![r] = "compare"] /\ call' = [call EXCEPT ![r] = c] /\ UNCHANGED exit /\ pc[r] = "check"
    BY <1>4 DEF OpenVerification, Goto
  <2> HIDE DEF c
  <2>3. c.seen = Only(c.plan) => exact'[r]
    <3>1. call'[r] = c /\ pc'[r] = "compare"
      BY <1>0, <2>2
    <3> QED
      BY <1>1, <2>1, <3>1 DEF Unchanged, Witness
  <2>4. LocalOf("compare", c, exact'[r])
    BY <1>0, <2>1, <2>2, <2>3 DEF LocalOf, CallOf, SourceOf, FreshOf, OutcomeOf
  <2> QED
    BY <1>1, <2>1, <2>2, <2>4, MoveKeeps DEF PCs, Holding
<1>2. CASE VerifyDestination(r) /\ call[r].seen = Only(call[r].plan)
  <2> DEFINE c == [call[r] EXCEPT !.outcome = IF call[r].op = "verify" THEN "verified" ELSE @]
  <2>1. c \in Calls
    BY <1>0 DEF Calls, Reports
  <2>2. pc' = [pc EXCEPT ![r] = "report"] /\ call' = [call EXCEPT ![r] = c] /\ UNCHANGED exit
    BY <1>0, <1>2 DEF VerifyDestination, Goto
  <2>3. exact'[r]
    <3>1. exact[r] /\ pc'[r] = "report"
      BY <1>0, <1>2, <2>2 DEF VerifyDestination, LocalOf, OutcomeOf
    <3> QED
      BY <1>1, <3>1 DEF Unchanged, Witness
  <2>4. LocalOf("report", c, exact'[r])
    BY <1>0, <1>2, <2>3 DEF VerifyDestination, LocalOf, CallOf, SourceOf, FreshOf, OutcomeOf, Calls
  <2> HIDE DEF c
  <2> QED
    BY <1>1, <2>1, <2>2, <2>4, MoveKeeps DEF PCs, Holding
<1>3. CASE (VerifyDestination(r) /\ call[r].seen # Only(call[r].plan)) \/ VerificationFails(r) \/ ReportSuccess(r)
  <2>1. PICK code \in Codes, report \in Reports : Finish(r, code, report)
    BY <1>0, <1>3 DEF VerifyDestination, VerificationFails, ReportSuccess, Codes, Reports, Calls
  <2> QED
    BY <1>1, <2>1, FinishKeeps
<1> QED
  BY <1>2, <1>3, <1>4

LEMMA WorldKeeps ==
  ASSUME IInv, LegacyWrite \/ TakeBackup \/ (\E i \in 1..Len(Tables) : AppWrite(i)) \/ UNCHANGED vars
  PROVE  IInv'
<1>1. /\ UNCHANGED <<files, advisory, pc, call, exit, exact>>
      /\ source' \in Versions /\ backup' \in Versions /\ appWrites' \in 0..MaxWrites
      /\ source' >= source /\ source \in Nat
  BY BoundAssumption DEF IInv, TypeOK, Versions, LegacyWrite, TakeBackup, AppWrite, vars
<1>2. dest' \in Contents /\ \A i \in Steps, p \in Plans : p \in dest'[i] <=> p \in dest[i]
  BY SentinelAssumption DEF IInv, TypeOK, Contents, Steps, LegacyWrite, TakeBackup, AppWrite, vars
<1>3. TypeOK' /\ LockInv'
  BY <1>1, <1>2 DEF IInv, TypeOK, LockInv
<1>4. \A r \in Runs : LocalOf(pc[r], call[r], exact[r])'
  <2> TAKE r \in Runs
  <2>1. LocalOf(pc[r], call[r], exact[r]) /\ call[r] \in Calls
    BY DEF IInv, TypeOK
  <2>2. call[r].sha \in Nat /\ call[r].rows \in Nat
    BY <2>1, BoundAssumption DEF Calls, Versions
  <2>3. CallOf(pc[r], call[r])' /\ OutcomeOf(pc[r], call[r], exact[r])'
    BY <1>1, <2>1 DEF LocalOf, CallOf, OutcomeOf
  <2>4. SourceOf(pc[r], call[r])'
    <3>1. source' \in Nat
      BY <1>1, BoundAssumption DEF Versions
    <3> QED
      BY <1>1, <2>1, <2>2, <3>1 DEF LocalOf, SourceOf
  <2>5. FreshOf(pc[r], call[r])'
    BY <1>1, <1>2, <2>1 DEF LocalOf, FreshOf, Free
  <2> QED
    BY <2>3, <2>4, <2>5 DEF LocalOf
<1>5. AllOrNothing' /\ OneImportOnly'
  BY <1>2 DEF IInv, AllOrNothing, OneImportOnly, Steps
<1>6. PlansMatchTheirHash'
  BY <1>1 DEF IInv, PlansMatchTheirHash
<1> QED
  BY <1>3, <1>4, <1>5, <1>6 DEF IInv

LEMMA NextKeeps ==
  ASSUME IInv, [Next]_vars
  PROVE  IInv'
<1>1. ASSUME NEW r \in Runs, \/ Work(r) \/ Fault(r)
                             \/ \E op \in {"plan", "apply", "verify"}, p, m \in Plans : Start(r, op, p, m)
      PROVE  IInv'
  BY <1>1, InspectionKeeps, PlanKeeps, ApplyKeeps, CommitKeeps, CheckKeeps DEF Work, Fault
<1> QED
  BY <1>1, WorldKeeps DEF Next

THEOREM Invariance == Spec => []IInv
BY InitIInv, NextKeeps, PTL DEF Spec

\* A crash, an error or a second run at any point leaves one whole import or
\* none in the destination, and a run inside its transaction holds the lock.
THEOREM OneWholeImport == Spec => []WellFormed
<1>1. IInv => WellFormed
  BY DEF IInv, WellFormed
<1> QED
  BY <1>1, Invariance, PTL

\* A published plan is of the file whose hash it carries.
THEOREM PlansAreOfTheirSource == Spec => []PlansMatchTheirHash
<1>1. IInv => PlansMatchTheirHash
  BY DEF IInv
<1> QED
  BY <1>1, Invariance, PTL

-----------------------------------------------------------------------------
(* Exit codes and reports.                                                 *)

Starts(r) == \E op \in {"plan", "apply", "verify"}, p, m \in Plans : Start(r, op, p, m)

\* How a run can end: by a report that carries its outcome, or by one that
\* says nothing of a commit.
Ending(r) == \/ pc[r] \in {"fail", "report"} /\ exit'[r].report = call[r].outcome
             \/ pc[r] \in {"mapping", "refuse"} /\ exit'[r].report = "unsafe_nonempty"
             \/ exit'[r].report \in {"none", "dry_run", "verification_failed"}

\* A step of a run ends no other run, and a run ends with 0 in two ways only.
Orderly(r) == /\ \A q \in Runs \ {r} : pc'[q] = pc[q] /\ exit'[q] = exit[q]
              /\ pc[r] # "idle" /\ pc'[r] = "idle" => Ending(r)
              /\ exit'[r].code = "0" /\ exit[r].code # "0" => exit'[r].report = "dry_run" \/ pc[r] = "report"

LEMMA StepIsOrderly ==
  ASSUME IInv, NEW r \in Runs, Work(r) \/ Fault(r) \/ Starts(r)
  PROVE  Orderly(r)
<1>0. pc \in [Runs -> PCs] /\ exit \in [Runs -> [code : Codes, report : Reports]]
  BY DEF IInv, TypeOK
<1>1. ASSUME NEW l \in PCs \ {"idle"}, Goto(r, l), exit' = exit PROVE Orderly(r)
  BY <1>0, <1>1 DEF Goto, Orderly
<1>2. ASSUME NEW code, NEW report, Finish(r, code, report),
             code = "0" => report = "dry_run" \/ pc[r] = "report",
             \/ pc[r] = "idle"
             \/ pc[r] \in {"fail", "report"} /\ report = call[r].outcome
             \/ pc[r] \in {"mapping", "refuse"} /\ report = "unsafe_nonempty"
             \/ report \in {"none", "dry_run", "verification_failed"}
      PROVE  Orderly(r)
  BY <1>0, <1>2 DEF Finish, Goto, Orderly, Ending
<1>3. CASE Starts(r)
  <2>1. PICK op \in {"plan", "apply", "verify"}, p, m \in Plans : Start(r, op, p, m)
    BY <1>3 DEF Starts
  <2>2. CASE Preflight(op, p, m)
    BY <1>0, <2>1, <2>2 DEF Start, Goto, Orderly
  <2>3. CASE ~Preflight(op, p, m)
    BY <1>2, <2>1, <2>3 DEF Start
  <2> QED
    BY <2>2, <2>3
<1>4. CASE \/ ReadSource(r) \/ ReadTable(r) \/ PublishPlan(r) \/ Begin(r) \/ AcquireAdvisoryLock(r)
           \/ ClassifyDestination(r) \/ InsertTable(r) \/ Commit(r) \/ CommitFails(r) \/ StatementFails(r)
           \/ OpenVerification(r)
  <2>1. exit' = exit /\ \E l \in PCs \ {"idle"} : Goto(r, l)
    BY <1>4 DEF ReadSource, ReadTable, PublishPlan, Begin, AcquireAdvisoryLock, ClassifyDestination,
                InsertTable, Commit, CommitFails, StatementFails, OpenVerification, RollBack, PCs
  <2> QED
    BY <1>1, <2>1
<1>5. CASE CloseSource(r) \/ LoadInputs(r) \/ PublishMapping(r) \/ VerifyDestination(r)
  <2>1. \/ exit' = exit /\ \E l \in PCs \ {"idle"} : Goto(r, l)
        \/ \E code \in {"2", "6"}, report \in {"none", "verification_failed"} : Finish(r, code, report)
    BY <1>5 DEF CloseSource, LoadInputs, PublishMapping, VerifyDestination, PCs
  <2> QED
    BY <1>1, <1>2, <2>1
<1>6. CASE ClassifyForPlan(r) \/ ReportRefusal(r)
  <2>1. /\ pc[r] \in {"mapping", "refuse"}
        /\ Finish(r, "4", "unsafe_nonempty") \/ Finish(r, "2", "none")
    BY <1>6 DEF ClassifyForPlan, ReportRefusal
  <2> QED
    BY <1>2, <2>1
<1>7. CASE PublishReport(r) \/ PublicationFails(r) \/ VerificationFails(r) \/ Kill(r)
  <2>1. \/ Finish(r, "0", "dry_run")
        \/ \E code \in {"none", "2", "6"}, report \in {"none", "verification_failed"} : Finish(r, code, report)
    BY <1>7 DEF PublishReport, PublicationFails, VerificationFails, Kill
  <2> QED
    BY <1>2, <2>1
<1>8. CASE ReportFailure(r) \/ ReportSuccess(r)
  <2>1. \/ pc[r] = "fail" /\ \E code \in {"2", "5"}, report \in {call[r].outcome, "none"} : Finish(r, code, report)
        \/ pc[r] = "report" /\ Finish(r, "0", call[r].outcome)
        \/ \E code \in {"2", "6"} : Finish(r, code, "none")
    BY <1>8 DEF ReportFailure, ReportSuccess
  <2> QED
    BY <1>2, <2>1
<1> QED
  BY <1>3, <1>4, <1>5, <1>6, <1>7, <1>8 DEF Work, Fault

\* A step of the specification is a step of a run or ends none.
LEMMA NextIsOrderly ==
  ASSUME IInv, Next
  PROVE  \/ \E r \in Runs : Orderly(r)
         \/ pc' = pc /\ exit' = exit
<1>1. ASSUME NEW r \in Runs, Work(r) \/ Fault(r) \/ Starts(r) PROVE Orderly(r)
  BY <1>1, StepIsOrderly
<1> QED
  BY <1>1 DEF Next, Starts, LegacyWrite, TakeBackup, AppWrite

\* An exit code of 0 means that the destination was exactly the plan at some
\* moment of the verification that follows the run's own transaction, whatever
\* the application wrote between the two.
THEOREM SuccessNeedsProof == Spec => SuccessIsProven
<1>1. IInv /\ [Next]_vars =>
        [\A r \in Runs : exit'[r].code = "0" /\ exit[r].code # "0" /\ exit'[r].report # "dry_run" => exact[r]]_vars
  <2> SUFFICES ASSUME IInv, Next, NEW r \in Runs,
                      exit'[r].code = "0", exit[r].code # "0", exit'[r].report # "dry_run"
               PROVE  exact[r]
    OBVIOUS
  <2>1. pc[r] = "report"
    BY NextIsOrderly DEF Orderly
  <2> QED
    BY <2>1 DEF IInv, LocalOf, OutcomeOf
<1> QED
  BY <1>1, Invariance, PTL DEF Spec, SuccessIsProven

\* Who reads "rolled_back", "already_applied" or "unsafe_nonempty" knows that
\* this run has committed nothing, who reads "applied" that it has.
THEOREM ReportsTellTheTruth == Spec => ReportsAreTrue
<1>1. IInv /\ [Next]_vars =>
        [\A r \in Runs : pc[r] # "idle" /\ pc'[r] = "idle" =>
          /\ exit'[r].report \in {"rolled_back", "already_applied", "unsafe_nonempty"} => ~call[r].committed
          /\ exit'[r].report = "applied" => call[r].committed]_vars
  <2> SUFFICES ASSUME IInv, Next, NEW r \in Runs, pc[r] # "idle", pc'[r] = "idle"
               PROVE  /\ exit'[r].report \in {"rolled_back", "already_applied", "unsafe_nonempty"} => ~call[r].committed
                      /\ exit'[r].report = "applied" => call[r].committed
    OBVIOUS
  <2>1. Ending(r)
    BY NextIsOrderly DEF Orderly
  <2>2. OutcomeOf(pc[r], call[r], exact[r])
    BY DEF IInv, LocalOf
  <2> QED
    BY <2>1, <2>2 DEF Ending, OutcomeOf
<1> QED
  BY <1>1, Invariance, PTL DEF Spec, ReportsAreTrue

-----------------------------------------------------------------------------
(* The refinement of ImportOnce.  What a report rests on was read earlier;  *)
(* it still holds because rows are only ever added.                        *)

\* What a run knows of the destination.
KnowsOf(p, c, e) == /\ p = "idle" => c = NoCall /\ ~e
                    /\ \A i \in Steps : c.seen[i] \subseteq dest[i]
                    /\ p = "refuse" => c.seen # Nothing
                    /\ p \in {"insert", "commit"} => c.seen = Nothing
                    /\ e => \A i \in Steps : c.plan \in dest[i]

OnceInv == IInv /\ \A r \in Runs : KnowsOf(pc[r], call[r], exact[r])

Grows == \A i \in Steps : dest[i] \subseteq dest'[i]

\* The four kinds of steps of a run, seen from the destination.
StartsOf(r, p, c) == /\ pc[r] = "idle" /\ p = "read"
                     /\ c.plan \in Plans /\ c.seen = Nothing /\ ~c.committed
                     /\ UNCHANGED dest
                     /\ exit' = [exit EXCEPT ![r] = [code |-> "none", report |-> "none"]]

FinishesOf(r, p, c) == /\ p = "idle" /\ c = NoCall
                       /\ UNCHANGED dest
                       /\ \E code \in Codes, report \in Reports :
                             /\ exit' = [exit EXCEPT ![r] = [code |-> code, report |-> report]]
                             /\ IF pc[r] = "idle" THEN report = "none" ELSE Once!Honest(r, report)

GoesOnOf(r, p, c) == /\ pc[r] # "idle" /\ p # "idle"
                     /\ c.plan = call[r].plan /\ c.committed = call[r].committed
                     /\ UNCHANGED <<dest, exit>>
                     /\ \A i \in Steps : c.seen[i] = call[r].seen[i] \/ c.seen[i] = dest[i]
                     /\ p \in {"lock", "classify", "insert", "commit"} /\ c.seen = Nothing
                           => r \in Opened \/ dest = Nothing
                     /\ p = "refuse" => c.seen # Nothing
                     /\ p \in {"insert", "commit"} => c.seen = Nothing

ImportsOf(r, p, c) == /\ pc[r] = "commit" /\ p \in {"check", "fail"}
                      /\ c.plan = call[r].plan /\ c.seen = call[r].seen /\ c.committed
                      /\ dest' = Applied(c.plan)
                      /\ UNCHANGED exit

KindOf(r, p, c) == /\ pc' = [pc EXCEPT ![r] = p]
                   /\ call' = [call EXCEPT ![r] = c]
                   /\ Witness(dest')
                   /\ \/ StartsOf(r, p, c) \/ FinishesOf(r, p, c)
                      \/ GoesOnOf(r, p, c) \/ ImportsOf(r, p, c)

\* What the destination looks like to ImportOnce.
LEMMA Whole ==
  ASSUME OnceInv
  PROVE  /\ \A p \in Plans, i \in Steps : p \in dest[i] => Imported = {p}
         /\ (\A i \in Steps : Free(i)) => Imported = {}
         /\ dest # Nothing => Imported # {} \/ Grown # {}
         /\ dest = Nothing => Imported = {} /\ Grown = {}
<1>1. /\ \A p \in Plans, i, j \in Steps : p \in dest[i] => p \in dest[j]
      /\ \A p, q \in Plans, i, j \in Steps : p \in dest[i] /\ q \in dest[j] => p = q
  BY DEF OnceInv, IInv, AllOrNothing, OneImportOnly, Steps
<1>2. 1 \in Steps
  BY TablesAssumption DEF Steps
<1>3. \A p \in Plans, i \in Steps : p \in dest[i] => Imported = {p}
  BY <1>1 DEF Imported, Steps
<1>4. (\A i \in Steps : Free(i)) => Imported = {}
  BY <1>2 DEF Imported, Free, Steps
<1>5. ASSUME dest # Nothing PROVE Imported # {} \/ Grown # {}
  <2>1. dest = [i \in Steps |-> dest[i]] /\ \A i \in Steps : dest[i] \subseteq Plans \union {AppRow}
    BY DEF OnceInv, IInv, TypeOK, Contents, Steps
  <2>2. PICK i \in Steps : dest[i] # {}
    BY <1>5, <2>1 DEF Nothing, Steps
  <2> QED
    BY <1>3, <2>1, <2>2 DEF Grown, Steps
<1>6. dest = Nothing => Imported = {} /\ Grown = {}
  BY <1>2 DEF Nothing, Imported, Grown, Steps
<1> QED
  BY <1>3, <1>4, <1>5, <1>6

LEMMA KnowledgeKept ==
  ASSUME OnceInv, NEW r \in Runs, NEW p \in PCs, NEW c \in Calls, KindOf(r, p, c), IInv'
  PROVE  OnceInv'
<1>0. /\ pc \in [Runs -> PCs] /\ call \in [Runs -> Calls] /\ dest \in Contents
      /\ exact' = [q \in Runs |-> pc'[q] \in {"compare", "report"} /\ (exact[q] \/ dest' = Only(call'[q].plan))]
      /\ exact \in [Runs -> BOOLEAN]
  BY DEF OnceInv, IInv, TypeOK, KindOf, Witness
<1>1. Grows
  BY DEF KindOf, StartsOf, FinishesOf, GoesOnOf, ImportsOf, Grows, Applied, Steps
<1>2. ASSUME NEW q \in Runs, exact[q] => \A i \in Steps : call'[q].plan \in dest[i], exact'[q]
      PROVE  \A i \in Steps : call'[q].plan \in dest'[i]
  <2>1. CASE exact[q]
    BY <1>1, <1>2, <2>1 DEF Grows
  <2>2. CASE dest' = Only(call'[q].plan)
    BY <2>2 DEF Only, Steps
  <2> QED
    BY <1>0, <1>2, <2>1, <2>2
<1>3. ASSUME NEW q \in Runs \ {r} PROVE KnowsOf(pc[q], call[q], exact[q])'
  <2>1. pc'[q] = pc[q] /\ call'[q] = call[q] /\ KnowsOf(pc[q], call[q], exact[q])
    BY <1>0 DEF KindOf, OnceInv
  <2>2. exact'[q] => \A i \in Steps : call'[q].plan \in dest'[i]
    BY <1>2, <2>1 DEF KnowsOf
  <2>3. pc'[q] = "idle" => ~exact'[q]
    BY <1>0
  <2>4. \A i \in Steps : call'[q].seen[i] \subseteq dest'[i]
    BY <1>1, <2>1 DEF KnowsOf, Grows
  <2> QED
    BY <2>1, <2>2, <2>3, <2>4 DEF KnowsOf
<1>4. KnowsOf(pc[r], call[r], exact[r])'
  <2>1. pc'[r] = p /\ call'[r] = c /\ KnowsOf(pc[r], call[r], exact[r])
    BY <1>0 DEF KindOf, OnceInv
  <2>2. p = "idle" => c = NoCall
    BY DEF KindOf, StartsOf, FinishesOf, GoesOnOf, ImportsOf
  <2>3. p = "idle" => ~exact'[r]
    BY <1>0, <2>1
  <2>4. \A i \in Steps : c.seen[i] \subseteq dest'[i]
    <3>1. CASE StartsOf(r, p, c) \/ FinishesOf(r, p, c)
      BY <3>1 DEF StartsOf, FinishesOf, NoCall, Nothing, Steps
    <3>2. CASE GoesOnOf(r, p, c) \/ ImportsOf(r, p, c)
      BY <1>1, <2>1, <3>2 DEF GoesOnOf, ImportsOf, KnowsOf, Grows
    <3> QED
      BY <3>1, <3>2 DEF KindOf
  <2>5. p = "refuse" => c.seen # Nothing
    BY DEF KindOf, StartsOf, FinishesOf, GoesOnOf, ImportsOf
  <2>6. p \in {"insert", "commit"} => c.seen = Nothing
    BY DEF KindOf, StartsOf, FinishesOf, GoesOnOf, ImportsOf
  <2>7. exact'[r] => \A i \in Steps : c.plan \in dest'[i]
    <3>1. CASE StartsOf(r, p, c)
      BY <1>2, <2>1, <3>1 DEF StartsOf, KnowsOf
    <3>2. CASE GoesOnOf(r, p, c) \/ ImportsOf(r, p, c)
      BY <1>2, <2>1, <3>2 DEF GoesOnOf, ImportsOf, KnowsOf
    <3> QED
      BY <2>3, <3>1, <3>2 DEF KindOf, FinishesOf
  <2> QED
    BY <2>1, <2>2, <2>3, <2>4, <2>5, <2>6, <2>7 DEF KnowsOf
<1>5. \A q \in Runs : KnowsOf(pc[q], call[q], exact[q])'
  BY <1>3, <1>4
<1> QED
  BY <1>5 DEF OnceInv

\* Each kind of step is a step of ImportOnce, or none.
LEMMA KindIsAStep ==
  ASSUME OnceInv, NEW r \in Runs, NEW p \in PCs, NEW c \in Calls, KindOf(r, p, c)
  PROVE  [Once!Next]_(Once!vars)
<1>0. /\ pc \in [Runs -> PCs] /\ call \in [Runs -> Calls] /\ exit \in [Runs -> [code : Codes, report : Reports]]
      /\ pc'[r] = p /\ call'[r] = c /\ \A q \in Runs \ {r} : pc'[q] = pc[q] /\ call'[q] = call[q]
      /\ call[r].committed \in BOOLEAN
      /\ KnowsOf(pc[r], call[r], exact[r]) /\ LocalOf(pc[r], call[r], exact[r])
  BY DEF OnceInv, IInv, TypeOK, KindOf, Calls
<1>1. /\ Asked' = [Asked EXCEPT ![r] = c.plan]
      /\ Done' = IF c.committed THEN Done \union {r} ELSE Done \ {r}
      /\ Opened' = IF p \in {"lock", "classify", "insert", "commit"} /\ c.seen = Nothing
                   THEN Opened \union {r} ELSE Opened \ {r}
  BY <1>0 DEF KindOf, Asked, Done, Opened
<1>2. pc[r] = "idle" => Asked[r] = NoPlan /\ r \notin Done /\ r \notin Opened
  BY <1>0 DEF KnowsOf, NoCall, Asked, Done, Opened
<1>3. pc[r] # "idle" => Asked[r] = call[r].plan /\ Asked[r] # NoPlan
  BY <1>0, SentinelAssumption DEF LocalOf, CallOf, Asked
<1>4. (exit' = exit => Told' = Told) /\ (dest' = dest => Imported' = Imported /\ Grown' = Grown)
  BY DEF Told, Imported, Grown
<1>5. ASSUME NEW code, NEW report, exit' = [exit EXCEPT ![r] = [code |-> code, report |-> report]]
      PROVE  Told' = [Told EXCEPT ![r] = report]
  BY <1>0, <1>5 DEF Told
<1>6. CASE StartsOf(r, p, c)
  <2>1. Once!Call(r, c.plan)
    <3>1. Told' = [Told EXCEPT ![r] = "none"]
      BY <1>5, <1>6 DEF StartsOf
    <3>2. Opened' = Opened /\ Done' = Done
      BY <1>1, <1>2, <1>6 DEF StartsOf
    <3> QED
      BY <1>1, <1>2, <1>4, <1>6, <3>1, <3>2 DEF StartsOf, Once!Call
  <2>2. c.plan \in Plans
    BY <1>6 DEF StartsOf
  <2> QED
    BY <2>1, <2>2 DEF Once!Next
<1>7. CASE FinishesOf(r, p, c)
  <2>1. PICK code \in Codes, report \in Reports :
           /\ exit' = [exit EXCEPT ![r] = [code |-> code, report |-> report]]
           /\ IF pc[r] = "idle" THEN report = "none" ELSE Once!Honest(r, report)
    BY <1>7 DEF FinishesOf
  <2>2. Told' = [Told EXCEPT ![r] = report]
    BY <1>5, <2>1
  <2>3. /\ c.plan = NoPlan /\ Imported' = Imported /\ Grown' = Grown
        /\ Opened' = Opened \ {r} /\ Done' = Done \ {r}
    BY <1>1, <1>4, <1>7 DEF FinishesOf, NoCall
  <2>4. CASE pc[r] = "idle"
    <3>1. Once!Call(r, NoPlan)
      BY <1>1, <1>2, <2>1, <2>2, <2>3, <2>4 DEF Once!Call
    <3> QED
      BY <3>1 DEF Once!Next
  <2>5. CASE pc[r] # "idle"
    <3>1. Once!End(r, report)
      BY <1>1, <1>3, <2>1, <2>2, <2>3, <2>5 DEF Once!End
    <3>2. report \in Once!Reports
      BY <2>1 DEF Reports, Once!Reports
    <3> QED
      BY <3>1, <3>2 DEF Once!Next
  <2> QED
    BY <2>4, <2>5
<1>8. CASE GoesOnOf(r, p, c)
  <2>1. /\ Imported' = Imported /\ Grown' = Grown /\ Told' = Told /\ Asked[r] # NoPlan
        /\ c.plan = call[r].plan /\ c.committed = call[r].committed /\ pc[r] # "idle"
    BY <1>3, <1>4, <1>8 DEF GoesOnOf
  <2>2. Asked' = Asked /\ Done' = Done
    BY <1>0, <1>1, <2>1 DEF Asked, Done
  <2>3. CASE Opened' = Opened \ {r}
    <3>1. Once!GiveUp(r)
      BY <2>1, <2>2, <2>3 DEF Once!GiveUp
    <3> QED
      BY <3>1 DEF Once!Next
  <2>4. CASE Opened' # Opened \ {r}
    <3>1. Opened' = Opened \union {r} /\ (r \in Opened \/ dest = Nothing)
      BY <1>1, <1>8, <2>4 DEF GoesOnOf
    <3>2. CASE r \in Opened
      BY <2>1, <2>2, <3>1, <3>2 DEF Once!vars
    <3>3. CASE dest = Nothing
      <4>1. Once!Open(r)
        BY <2>1, <2>2, <3>1, <3>3, Whole DEF Once!Open
      <4> QED
        BY <4>1 DEF Once!Next
    <3> QED
      BY <3>1, <3>2, <3>3
  <2> QED
    BY <2>3, <2>4
<1>9. CASE ImportsOf(r, p, c)
  <2>1. /\ pc[r] = "commit" /\ p \in {"check", "fail"} /\ c.plan = call[r].plan /\ c.committed
        /\ dest' = Applied(c.plan) /\ Told' = Told
    BY <1>4, <1>9 DEF ImportsOf
  <2>2. r \in Opened /\ Imported = {} /\ c.plan \in Plans /\ \A i \in Steps : Free(i)
    BY <1>0, <2>1, Whole DEF KnowsOf, LocalOf, CallOf, FreshOf, Opened
  <2>3. Imported' = {c.plan} /\ Grown' = Grown
    <3>1. \A i \in Steps : dest'[i] = dest[i] \union {c.plan}
      BY <2>1 DEF Applied, Steps
    <3>2. 1 \in Steps
      BY TablesAssumption DEF Steps
    <3>3. Imported' = {c.plan}
      BY <2>2, <3>1, <3>2 DEF Imported, Free, Steps
    <3>4. Grown' = Grown
      BY <2>2, <3>1, SentinelAssumption DEF Grown, Steps
    <3> QED
      BY <3>3, <3>4
  <2>4. Asked' = Asked /\ Opened' = Opened \ {r} /\ Done' = Done \union {r} /\ Asked[r] = c.plan
    BY <1>0, <1>1, <1>3, <2>1 DEF Asked
  <2>5. Once!Import(r)
    BY <2>1, <2>2, <2>3, <2>4 DEF Once!Import
  <2> QED
    BY <2>5 DEF Once!Next
<1> QED
  BY <1>6, <1>7, <1>8, <1>9 DEF KindOf

\* What a run may report when it ends as Ending describes.
LEMMA EndingIsHonest ==
  ASSUME OnceInv, NEW r \in Runs, NEW report, pc[r] # "idle",
         \/ pc[r] \in {"fail", "report"} /\ report = call[r].outcome
         \/ pc[r] \in {"mapping", "refuse"} /\ call[r].seen # Nothing /\ report = "unsafe_nonempty"
         \/ pc[r] = "publish" /\ report = "dry_run"
         \/ report \in {"none", "verification_failed"}
  PROVE  Once!Honest(r, report)
<1>0. /\ LocalOf(pc[r], call[r], exact[r]) /\ KnowsOf(pc[r], call[r], exact[r])
      /\ Asked[r] = call[r].plan /\ (r \in Done <=> call[r].committed)
      /\ call[r].seen \in Contents
  BY DEF OnceInv, IInv, TypeOK, Calls, Asked, Done
<1>1. call[r].seen # Nothing => Imported # {} \/ Grown # {}
  <2>1. call[r].seen = [i \in Steps |-> call[r].seen[i]]
    BY <1>0 DEF Contents, Steps
  <2>2. call[r].seen # Nothing => \E i \in Steps : call[r].seen[i] # {}
    BY <2>1 DEF Nothing, Steps
  <2>3. call[r].seen # Nothing => dest # Nothing
    BY <1>0, <2>2 DEF KnowsOf, Nothing, Steps
  <2> QED
    BY <2>3, Whole
<1>2. pc[r] = "report" => Imported = {call[r].plan}
  <2>1. 1 \in Steps
    BY TablesAssumption DEF Steps
  <2>2. pc[r] = "report" => call[r].plan \in Plans /\ call[r].plan \in dest[1]
    BY <1>0, <2>1 DEF LocalOf, CallOf, OutcomeOf, KnowsOf
  <2> QED
    BY <2>1, <2>2, Whole
<1>3. CASE pc[r] = "report" /\ report = call[r].outcome
  <2>1. CASE call[r].outcome = "applied" /\ call[r].committed
    BY <1>0, <1>2, <1>3, <2>1 DEF Once!Honest
  <2>2. CASE call[r].outcome = "already_applied" /\ ~call[r].committed
    BY <1>0, <1>2, <1>3, <2>2 DEF Once!Honest
  <2>3. CASE call[r].outcome = "verified"
    BY <1>0, <1>2, <1>3, <2>3 DEF Once!Honest
  <2> QED
    BY <1>0, <1>3, <2>1, <2>2, <2>3 DEF LocalOf, OutcomeOf
<1>4. CASE pc[r] = "fail" /\ report = call[r].outcome
  BY <1>0, <1>4 DEF LocalOf, OutcomeOf, Once!Honest
<1>5. CASE pc[r] \in {"mapping", "refuse"} /\ call[r].seen # Nothing /\ report = "unsafe_nonempty"
  BY <1>0, <1>1, <1>5 DEF LocalOf, OutcomeOf, Once!Honest
<1>6. CASE pc[r] = "publish" /\ report = "dry_run"
  BY <1>0, <1>6 DEF LocalOf, OutcomeOf, Once!Honest
<1>7. CASE report \in {"none", "verification_failed"}
  BY <1>7 DEF Once!Honest
<1> QED
  BY <1>3, <1>4, <1>5, <1>6, <1>7

\* Every step of a run is of one of the kinds.
LEMMA EndIsAKind ==
  ASSUME OnceInv, NEW r \in Runs, NEW code \in Codes, NEW report \in Reports, Finish(r, code, report), Unchanged,
         IF pc[r] = "idle" THEN report = "none" ELSE Once!Honest(r, report)
  PROVE  KindOf(r, "idle", NoCall)
BY DEF Finish, Goto, Unchanged, world, KindOf, FinishesOf

LEMMA EndStepsAreKinds ==
  ASSUME OnceInv, NEW r \in Runs,
         \/ ClassifyForPlan(r) \/ PublishReport(r) \/ PublicationFails(r) \/ ReportFailure(r) \/ ReportRefusal(r)
         \/ VerificationFails(r) \/ ReportSuccess(r) \/ Kill(r)
  PROVE  KindOf(r, "idle", NoCall)
<1>0. /\ KnowsOf(pc[r], call[r], exact[r]) /\ call[r].outcome \in Reports
      /\ pc[r] # "idle" /\ Unchanged
  BY DEF OnceInv, IInv, TypeOK, Calls, ClassifyForPlan, PublishReport, PublicationFails, ReportFailure,
         ReportRefusal, VerificationFails, ReportSuccess, Kill
<1>1. ASSUME NEW code \in Codes, NEW report \in Reports, Finish(r, code, report),
             \/ pc[r] \in {"fail", "report"} /\ report = call[r].outcome
             \/ pc[r] \in {"mapping", "refuse"} /\ call[r].seen # Nothing /\ report = "unsafe_nonempty"
             \/ pc[r] = "publish" /\ report = "dry_run"
             \/ report \in {"none", "verification_failed"}
      PROVE  KindOf(r, "idle", NoCall)
  BY <1>0, <1>1, EndingIsHonest, EndIsAKind
<1>2. CASE ClassifyForPlan(r) \/ ReportRefusal(r)
  <2>1. pc[r] \in {"mapping", "refuse"} /\ call[r].seen # Nothing
    BY <1>0, <1>2 DEF ClassifyForPlan, ReportRefusal, KnowsOf
  <2>2. Finish(r, "4", "unsafe_nonempty") \/ Finish(r, "2", "none")
    BY <1>2 DEF ClassifyForPlan, ReportRefusal
  <2> QED
    BY <1>1, <2>1, <2>2 DEF Codes, Reports
<1>3. CASE PublishReport(r)
  BY <1>1, <1>3 DEF PublishReport, Codes, Reports
<1>4. CASE PublicationFails(r) \/ VerificationFails(r) \/ Kill(r)
  <2>1. \E code \in {"none", "2", "6"}, report \in {"none", "verification_failed"} : Finish(r, code, report)
    BY <1>4 DEF PublicationFails, VerificationFails, Kill
  <2> QED
    BY <1>1, <2>1 DEF Codes, Reports
<1>5. CASE ReportFailure(r)
  <2>1. pc[r] = "fail" /\ \E code \in {"2", "5"}, report \in {call[r].outcome, "none"} : Finish(r, code, report)
    BY <1>5 DEF ReportFailure
  <2> QED
    BY <1>0, <1>1, <2>1 DEF Codes, Reports
<1>6. CASE ReportSuccess(r)
  <2>1. pc[r] = "report" /\ \/ Finish(r, "0", call[r].outcome)
                            \/ \E code \in {"2", "6"} : Finish(r, code, "none")
    BY <1>6 DEF ReportSuccess
  <2> QED
    BY <1>0, <1>1, <2>1 DEF Codes, Reports
<1> QED
  BY <1>2, <1>3, <1>4, <1>5, <1>6

LEMMA StartIsAKind ==
  ASSUME OnceInv, NEW r \in Runs, Starts(r)
  PROVE  \E p \in PCs, c \in Calls : KindOf(r, p, c)
<1>1. PICK op \in {"plan", "apply", "verify"}, p, m \in Plans : Start(r, op, p, m)
  BY DEF Starts
<1>2. pc[r] = "idle" /\ Unchanged /\ UNCHANGED dest /\ source \in Versions
  BY <1>1 DEF Start, Unchanged, world, OnceInv, IInv, TypeOK
<1>3. CASE ~Preflight(op, p, m)
  <2>1. KindOf(r, "idle", NoCall)
    BY <1>1, <1>2, <1>3, EndIsAKind DEF Start, Codes, Reports
  <2> QED
    BY <2>1, EmptyCall DEF PCs
<1>4. CASE Preflight(op, p, m)
  <2> DEFINE c == [NoCall EXCEPT !.op = op, !.plan = p, !.mapping = m, !.sha = source]
  <2>1. c \in Calls
    BY <1>2, EmptyCall DEF Calls
  <2>2. c.plan \in Plans /\ c.seen = Nothing /\ ~c.committed
    BY DEF NoCall
  <2>3. /\ pc' = [pc EXCEPT ![r] = "read"] /\ call' = [call EXCEPT ![r] = c]
        /\ exit' = [exit EXCEPT ![r] = [code |-> "none", report |-> "none"]]
    BY <1>1, <1>4 DEF Start, Goto
  <2> HIDE DEF c
  <2>4. KindOf(r, "read", c)
    BY <1>2, <2>2, <2>3 DEF KindOf, StartsOf, Unchanged
  <2> QED
    BY <2>1, <2>4 DEF PCs
<1> QED
  BY <1>3, <1>4

\* A step that leaves the call or all but its outcome and counters alone.
LEMMA MoveIsAKind ==
  ASSUME OnceInv, NEW r \in Runs, NEW p \in PCs \ {"idle"}, NEW c \in Calls,
         pc' = [pc EXCEPT ![r] = p], call' = [call EXCEPT ![r] = c], Unchanged, UNCHANGED exit,
         pc[r] # "idle", c.plan = call[r].plan, c.committed = call[r].committed, c.seen = call[r].seen,
         p \in {"lock", "classify", "insert", "commit"} => pc[r] \in {"lock", "classify", "insert", "commit"},
         p = "refuse" => c.seen # Nothing,
         p \in {"insert", "commit"} => c.seen = Nothing
  PROVE  KindOf(r, p, c)
BY DEF KindOf, GoesOnOf, Opened, Unchanged, world

LEMMA InspectionIsAKind ==
  ASSUME OnceInv, NEW r \in Runs,
         ReadSource(r) \/ CloseSource(r) \/ LoadInputs(r) \/ ReadTable(r) \/ PublishMapping(r) \/ PublishPlan(r)
           \/ OpenVerification(r) \/ VerifyDestination(r)
  PROVE  \E p \in PCs, c \in Calls : KindOf(r, p, c)
<1>0. /\ call[r] \in Calls /\ call = [call EXCEPT ![r] = call[r]] /\ pc[r] # "idle" /\ Unchanged
      /\ source \in Versions /\ dest \in Contents /\ LocalOf(pc[r], call[r], exact[r])
  BY Before DEF OnceInv, ReadSource, CloseSource, LoadInputs, ReadTable, PublishMapping, PublishPlan, OpenVerification,
     VerifyDestination
<1>1. ASSUME NEW l \in {"load", "tables", "begin", "check", "plan", "publish"}, Goto(r, l), UNCHANGED <<call, exit>>
      PROVE  \E p \in PCs, c \in Calls : KindOf(r, p, c)
  <2>1. l \in PCs \ {"idle"} /\ l \notin {"lock", "classify", "insert", "commit", "refuse"}
    BY DEF PCs
  <2>2. KindOf(r, l, call[r])
    BY <1>0, <1>1, <2>1, MoveIsAKind DEF Goto
  <2> QED
    BY <1>0, <2>1, <2>2
<1>2. ASSUME NEW code \in {"2", "6"}, NEW report \in {"none", "verification_failed"}, Finish(r, code, report)
      PROVE  \E p \in PCs, c \in Calls : KindOf(r, p, c)
  <2>1. KindOf(r, "idle", NoCall)
    BY <1>0, <1>2, EndingIsHonest, EndIsAKind DEF Codes, Reports
  <2> QED
    BY <2>1, EmptyCall DEF PCs
<1>3. CASE CloseSource(r) \/ LoadInputs(r) \/ PublishMapping(r) \/ PublishPlan(r)
  BY <1>1, <1>2, <1>3 DEF CloseSource, LoadInputs, PublishMapping, PublishPlan
<1>4. CASE ReadSource(r)
  <2> DEFINE c == [call[r] EXCEPT !.rows = source]
  <2>1. c \in Calls /\ c.plan = call[r].plan /\ c.committed = call[r].committed /\ c.seen = call[r].seen
    BY <1>0 DEF Calls
  <2>2. pc' = [pc EXCEPT ![r] = "close"] /\ call' = [call EXCEPT ![r] = c] /\ UNCHANGED exit
    BY <1>4 DEF ReadSource, Goto
  <2> HIDE DEF c
  <2>3. KindOf(r, "close", c)
    BY <1>0, <2>1, <2>2, MoveIsAKind DEF PCs
  <2> QED
    BY <2>1, <2>3 DEF PCs
<1>5. CASE ReadTable(r)
  <2> DEFINE i == call[r].next
             seen == [call[r].seen EXCEPT ![i] = dest[i]]
             c == [call[r] EXCEPT !.seen = seen, !.next = i + 1]
  <2>1. i \in Steps /\ i + 1 \in 1..(Len(Tables) + 1)
    BY <1>0, <1>5, TablesAssumption DEF ReadTable, LocalOf, CallOf, Steps
  <2>2. seen \in Contents /\ \A j \in Steps : seen[j] = call[r].seen[j] \/ seen[j] = dest[j]
    BY <1>0, <2>1 DEF Contents, Steps, Calls
  <2>3. call' = [call EXCEPT ![r] = c] /\ UNCHANGED exit
    BY <1>0, <1>5 DEF ReadTable
  <2>4. PICK l \in {"tables", "mapping"} : pc' = [pc EXCEPT ![r] = l]
    BY <1>5 DEF ReadTable, Goto
  <2> HIDE DEF seen
  <2>5. c \in Calls /\ c.plan = call[r].plan /\ c.committed = call[r].committed /\ c.seen = seen
    BY <1>0, <2>1, <2>2 DEF Calls
  <2> HIDE DEF c
  <2>6. KindOf(r, l, c)
    BY <1>0, <2>2, <2>3, <2>4, <2>5 DEF KindOf, GoesOnOf, Unchanged, world
  <2> QED
    BY <2>4, <2>5, <2>6 DEF PCs
<1>7. CASE OpenVerification(r)
  <2> DEFINE c == [call[r] EXCEPT !.seen = dest]
  <2>1. c \in Calls /\ c.plan = call[r].plan /\ c.committed = call[r].committed /\ c.seen = dest
    BY <1>0 DEF Calls
  <2>2. pc' = [pc EXCEPT ![r] = "compare"] /\ call' = [call EXCEPT ![r] = c] /\ UNCHANGED exit
    BY <1>7 DEF OpenVerification, Goto
  <2> HIDE DEF c
  <2>3. KindOf(r, "compare", c)
    BY <1>0, <2>1, <2>2 DEF KindOf, GoesOnOf, Unchanged, world
  <2> QED
    BY <2>1, <2>3 DEF PCs
<1>6. CASE VerifyDestination(r)
  <2>1. CASE call[r].seen # Only(call[r].plan)
    BY <1>2, <1>6, <2>1 DEF VerifyDestination
  <2>2. CASE call[r].seen = Only(call[r].plan)
    <3> DEFINE c == [call[r] EXCEPT !.outcome = IF call[r].op = "verify" THEN "verified" ELSE @]
    <3>1. c \in Calls /\ c.plan = call[r].plan /\ c.committed = call[r].committed /\ c.seen = call[r].seen
      BY <1>0 DEF Calls, Reports
    <3>2. pc' = [pc EXCEPT ![r] = "report"] /\ call' = [call EXCEPT ![r] = c] /\ UNCHANGED exit
      BY <1>0, <1>6, <2>2 DEF VerifyDestination, Goto
    <3> HIDE DEF c
    <3>3. KindOf(r, "report", c)
      BY <1>0, <3>1, <3>2, MoveIsAKind DEF PCs
    <3> QED
      BY <3>1, <3>3 DEF PCs
  <2> QED
    BY <2>1, <2>2
<1> QED
  BY <1>3, <1>4, <1>5, <1>6, <1>7

LEMMA TransactionIsAKind ==
  ASSUME OnceInv, NEW r \in Runs,
         Begin(r) \/ AcquireAdvisoryLock(r) \/ ClassifyDestination(r) \/ InsertTable(r) \/ StatementFails(r)
  PROVE  \E p \in PCs, c \in Calls : KindOf(r, p, c)
<1>0. /\ call[r] \in Calls /\ call = [call EXCEPT ![r] = call[r]] /\ pc[r] # "idle" /\ Unchanged /\ UNCHANGED exit
      /\ dest \in Contents /\ LocalOf(pc[r], call[r], exact[r]) /\ KnowsOf(pc[r], call[r], exact[r])
  BY Before DEF OnceInv, Begin, AcquireAdvisoryLock, ClassifyDestination, InsertTable, StatementFails
<1>1. ASSUME NEW report \in {"rolled_back", "transaction_failed"}, RollBack(r, report)
      PROVE  \E p \in PCs, c \in Calls : KindOf(r, p, c)
  <2> DEFINE c == [call[r] EXCEPT !.outcome = report]
  <2>1. c \in Calls /\ c.plan = call[r].plan /\ c.committed = call[r].committed /\ c.seen = call[r].seen
    BY <1>0 DEF Calls, Reports
  <2>2. pc' = [pc EXCEPT ![r] = "fail"] /\ call' = [call EXCEPT ![r] = c]
    BY <1>1 DEF RollBack, Goto
  <2> HIDE DEF c
  <2>3. KindOf(r, "fail", c)
    BY <1>0, <2>1, <2>2, MoveIsAKind DEF PCs
  <2> QED
    BY <2>1, <2>3 DEF PCs
<1>2. CASE Begin(r)
  <2> DEFINE c == [call[r] EXCEPT !.seen = dest]
  <2>1. c \in Calls /\ c.plan = call[r].plan /\ c.committed = call[r].committed /\ c.seen = dest
    BY <1>0 DEF Calls
  <2>2. pc' = [pc EXCEPT ![r] = "lock"] /\ call' = [call EXCEPT ![r] = c]
    BY <1>2 DEF Begin, Goto
  <2> HIDE DEF c
  <2>3. KindOf(r, "lock", c)
    BY <1>0, <2>1, <2>2 DEF KindOf, GoesOnOf, Unchanged, world
  <2> QED
    BY <2>1, <2>3 DEF PCs
<1>3. CASE AcquireAdvisoryLock(r)
  <2>1. pc' = [pc EXCEPT ![r] = "classify"] /\ UNCHANGED call /\ pc[r] = "lock"
    BY <1>3 DEF AcquireAdvisoryLock, Goto
  <2>2. KindOf(r, "classify", call[r])
    BY <1>0, <2>1, MoveIsAKind DEF PCs
  <2> QED
    BY <1>0, <2>2 DEF PCs
<1>4. CASE ClassifyDestination(r)
  <2>1. pc[r] = "classify"
    BY <1>4 DEF ClassifyDestination
  <2>2. CASE call[r].seen = Nothing
    <3>1. Nothing # Only(call[r].plan)
      <4>1. 1 \in Steps
        BY TablesAssumption DEF Steps
      <4> QED
        BY <4>1 DEF Nothing, Only, Steps
    <3>2. pc' = [pc EXCEPT ![r] = "insert"] /\ UNCHANGED call
      BY <1>4, <2>2, <3>1 DEF ClassifyDestination, Goto
    <3>3. KindOf(r, "insert", call[r])
      BY <1>0, <2>1, <2>2, <3>2, MoveIsAKind DEF PCs
    <3> QED
      BY <1>0, <3>3 DEF PCs
  <2>3. CASE call[r].seen # Nothing /\ call[r].seen = Only(call[r].plan)
    <3> DEFINE c == [call[r] EXCEPT !.outcome = "already_applied"]
    <3>1. c \in Calls /\ c.plan = call[r].plan /\ c.committed = call[r].committed /\ c.seen = call[r].seen
      BY <1>0 DEF Calls, Reports
    <3>2. pc' = [pc EXCEPT ![r] = "check"] /\ call' = [call EXCEPT ![r] = c]
      BY <1>4, <2>3 DEF ClassifyDestination, Goto
    <3> HIDE DEF c
    <3>3. KindOf(r, "check", c)
      BY <1>0, <3>1, <3>2, MoveIsAKind DEF PCs
    <3> QED
      BY <3>1, <3>3 DEF PCs
  <2>4. CASE call[r].seen # Nothing /\ call[r].seen # Only(call[r].plan)
    <3>1. pc' = [pc EXCEPT ![r] = "refuse"] /\ UNCHANGED call
      BY <1>4, <2>4 DEF ClassifyDestination, Goto
    <3>2. KindOf(r, "refuse", call[r])
      BY <1>0, <2>4, <3>1, MoveIsAKind DEF PCs
    <3> QED
      BY <1>0, <3>2 DEF PCs
  <2> QED
    BY <2>2, <2>3, <2>4
<1>5. CASE InsertTable(r)
  <2> DEFINE i == call[r].next
  <2>1. pc[r] = "insert" /\ i \in Steps /\ call[r].seen = Nothing
    BY <1>0, <1>5 DEF InsertTable, LocalOf, CallOf, KnowsOf
  <2>2. CASE KeysTaken(i)
    BY <1>1, <1>5, <2>2 DEF InsertTable
  <2>3. CASE ~KeysTaken(i)
    <3> DEFINE c == [call[r] EXCEPT !.next = i + 1]
    <3>1. i + 1 \in 1..(Len(Tables) + 1)
      BY <2>1, TablesAssumption DEF Steps
    <3>2. c \in Calls /\ c.plan = call[r].plan /\ c.committed = call[r].committed /\ c.seen = call[r].seen
      BY <1>0, <3>1 DEF Calls
    <3>3. PICK l \in {"insert", "commit"} : pc' = [pc EXCEPT ![r] = l] /\ call' = [call EXCEPT ![r] = c]
      BY <1>5, <2>3 DEF InsertTable, Goto
    <3> HIDE DEF c
    <3>4. KindOf(r, l, c)
      BY <1>0, <2>1, <3>2, <3>3, MoveIsAKind DEF PCs
    <3> QED
      BY <3>2, <3>3, <3>4 DEF PCs
  <2> QED
    BY <2>2, <2>3
<1>6. CASE StatementFails(r)
  BY <1>1, <1>6 DEF StatementFails
<1> QED
  BY <1>2, <1>3, <1>4, <1>5, <1>6

\* The answer to the commit may be lost: it was the import or it was nothing.
LEMMA CommitIsAKind ==
  ASSUME OnceInv, NEW r \in Runs, Commit(r) \/ CommitFails(r)
  PROVE  \E p \in PCs, c \in Calls : KindOf(r, p, c)
<1>0. /\ call[r] \in Calls /\ pc[r] = "commit" /\ ~call[r].committed
      /\ KnowsOf(pc[r], call[r], exact[r])
  BY DEF OnceInv, IInv, TypeOK, LocalOf, OutcomeOf, Commit, CommitFails
<1>1. PICK l \in {"check", "fail"}, done \in BOOLEAN, outcome \in {"applied", "transaction_failed"} :
        /\ dest' = IF done THEN Applied(call[r].plan) ELSE dest
        /\ call' = [call EXCEPT ![r].outcome = outcome, ![r].committed = done]
        /\ pc' = [pc EXCEPT ![r] = l]
        /\ UNCHANGED exit /\ Witness(dest')
  BY DEF Commit, CommitFails, Goto
<1> DEFINE c == [call[r] EXCEPT !.outcome = outcome, !.committed = done]
<1>2. c \in Calls /\ c.plan = call[r].plan /\ c.committed = done /\ c.seen = call[r].seen
  BY <1>0 DEF Calls, Reports
<1>3. call' = [call EXCEPT ![r] = c]
  BY <1>1
<1> HIDE DEF c
<1>4. CASE done
  <2>1. ImportsOf(r, l, c)
    BY <1>0, <1>1, <1>2, <1>4 DEF ImportsOf
  <2> QED
    BY <1>1, <1>2, <1>3, <2>1 DEF KindOf, PCs
<1>5. CASE ~done
  <2>1. c.committed = call[r].committed
    BY <1>0, <1>2, <1>5 DEF Calls
  <2>2. UNCHANGED <<dest, exit>>
    BY <1>1, <1>5
  <2>3. GoesOnOf(r, l, c)
    BY <1>0, <1>2, <2>1, <2>2 DEF GoesOnOf
  <2> QED
    BY <1>1, <1>2, <1>3, <2>3 DEF KindOf, PCs
<1> QED
  BY <1>4, <1>5

LEMMA InitOnce == Init => OnceInv /\ Once!Init
<1> SUFFICES ASSUME Init PROVE OnceInv /\ Once!Init
  OBVIOUS
<1>1. \A r \in Runs : KnowsOf(pc[r], call[r], exact[r])
  <2> TAKE r \in Runs
  <2>1. pc[r] = "idle" /\ call[r] = NoCall /\ ~exact[r]
    BY DEF Init
  <2>2. \A i \in Steps : NoCall.seen[i] = {}
    BY DEF NoCall, Nothing, Steps
  <2> QED
    BY <2>1, <2>2 DEF KnowsOf
<1>2. OnceInv
  BY <1>1, InitIInv DEF OnceInv
<1>3. Imported = {} /\ Grown = {}
  BY <1>2, Whole DEF Init
<1>4. /\ Asked = [r \in Runs |-> NoPlan] /\ Opened = {} /\ Done = {}
      /\ Told = [r \in Runs |-> "none"]
  BY DEF Init, NoCall, Asked, Opened, Done, Told
<1> QED
  BY <1>2, <1>3, <1>4 DEF Once!Init

LEMMA OnceSteps ==
  ASSUME OnceInv, [Next]_vars
  PROVE  OnceInv' /\ [Once!Next]_(Once!vars)
<1>0. IInv'
  BY NextKeeps DEF OnceInv
<1>1. ASSUME NEW r \in Runs, Work(r) \/ Fault(r) \/ Starts(r)
      PROVE  OnceInv' /\ [Once!Next]_(Once!vars)
  <2>1. "idle" \in PCs /\ NoCall \in Calls
    BY EmptyCall DEF PCs
  <2>2. \E p \in PCs, c \in Calls : KindOf(r, p, c)
    BY <1>1, <2>1, StartIsAKind, InspectionIsAKind, TransactionIsAKind, CommitIsAKind, EndStepsAreKinds
       DEF Work, Fault
  <2> QED
    BY <1>0, <2>2, KnowledgeKept, KindIsAStep
<1>2. ASSUME NEW i \in 1..Len(Tables), AppWrite(i)
      PROVE  OnceInv' /\ [Once!Next]_(Once!vars)
  <2>1. /\ UNCHANGED <<pc, call, exit, exact>>
        /\ dest \in Contents /\ dest' = [dest EXCEPT ![i] = @ \union {AppRow}]
    BY <1>2 DEF AppWrite, OnceInv, IInv, TypeOK
  <2>2. \A j \in Steps : dest'[j] = IF j = i THEN dest[j] \union {AppRow} ELSE dest[j]
    BY <1>2, <2>1 DEF Contents, Steps
  <2>3. \A r \in Runs : KnowsOf(pc[r], call[r], exact[r])'
    BY <2>1, <2>2 DEF OnceInv, KnowsOf
  <2>4. /\ UNCHANGED <<Asked, Opened, Done, Told>>
        /\ Imported' = Imported /\ Grown' = Grown \union {i}
    BY <1>2, <2>1, <2>2, SentinelAssumption DEF Asked, Opened, Done, Told, Imported, Grown, Steps
  <2>5. Once!Grow(i)
    BY <2>4 DEF Once!Grow
  <2> QED
    BY <1>0, <1>2, <2>3, <2>5 DEF OnceInv, Once!Next
<1>3. CASE LegacyWrite \/ TakeBackup \/ UNCHANGED vars
  <2>1. UNCHANGED <<pc, call, exit, exact, dest>>
    BY <1>3 DEF LegacyWrite, TakeBackup, vars
  <2>2. \A r \in Runs : KnowsOf(pc[r], call[r], exact[r])'
    BY <2>1 DEF OnceInv, KnowsOf
  <2>3. UNCHANGED Once!vars
    BY <2>1 DEF Once!vars, Imported, Grown, Asked, Opened, Done, Told
  <2> QED
    BY <1>0, <2>2, <2>3 DEF OnceInv
<1> QED
  BY <1>1, <1>2, <1>3 DEF Next, Starts

\* The runs of the importer, whatever fails and whoever else writes, implement
\* at most one import of one plan in one step, with reports to be relied on.
THEOREM OneImport == Spec => ImplementsOnce
<1>1. Init => OnceInv /\ Once!Init
  BY InitOnce
<1>2. OnceInv /\ [Next]_vars => OnceInv' /\ [Once!Next]_(Once!vars)
  BY OnceSteps
<1> QED
  BY <1>1, <1>2, PTL DEF Spec, ImplementsOnce, Once!Spec

-----------------------------------------------------------------------------
(* The reconciliation.  The invariant is the argument of the tool: with     *)
(* every user locked no answer appears, and with its own row locked none is *)
(* changed or cleared, so what was counted is what is committed.            *)

Reading == {"rows", "classify", "write", "verify", "commit"}
Stages     == {"idle", "dry", "users", "snapshot"} \union Reading

RefusedOf(c) == Unexpected(c.seen) # {} \/ CountsOf(c.seen) # c.approved

Stored == {k \in Keys : answers[k] # None}

\* What a run at l has locked is not held by a request, and what it has read
\* is still so.
LocksOf(c) == /\ c.users \subseteq exists
              /\ \A w \in Writers : /\ \A u \in c.users : ~Sharing(w, u)
                                    /\ \A k \in c.rows : ~RowHeld(w, k)

ReadOf(l, c) ==
    /\ l \in {"idle", "dry"} => c = NoTask
    /\ l \in {"users", "snapshot"} => c.todo = {} /\ c.rows = {} /\ c.seen = Empty
    /\ l \in {"snapshot"} \union Reading => c.users = Users /\ Users # {}
    /\ l \in Reading => /\ c.rows \subseteq Stored
                        /\ Stored \subseteq c.rows \union c.todo
                        /\ \A k \in c.rows : c.seen[k] = answers[k] /\ k \notin c.todo
                        /\ \A k \in Keys \ c.rows : c.seen[k] = None
    /\ l \in Reading \ {"rows"} => c.todo = {}
    /\ l \in {"write", "verify", "commit"} => ~RefusedOf(c)

RunOf(l, c) == LocksOf(c) /\ ReadOf(l, c)

WriterOf(l, m) == /\ l # "idle" => m \in Writes /\ (m.new => m.status # None)
                  /\ l = "commit" => /\ m.key[1] \in exists
                                     /\ m.new <=> answers[m.key] = None

WritersApart == \A v, w \in Writers : v # w /\ wpc[v] = "commit" /\ wpc[w] = "commit" => write[v].key # write[w].key
RunsApart    == \A q, r \in Reconcilers : q # r => task[q].users \cap task[r].users = {}

ReconcileInv == /\ ReconcileTypeOK /\ WritersApart /\ RunsApart
                /\ \A r \in Reconcilers : RunOf(stage[r], task[r])
                /\ \A w \in Writers : WriterOf(wpc[w], write[w])

LEMMA KeyUser == \A k \in Keys : k[1] \in Users
BY DEF Keys

LEMMA CountsTyped == ASSUME NEW s \in [Keys -> Entry] PROVE CountsOf(s) \in Counts
<1>1. IsFiniteSet(Keys)
  BY FiniteAssumption, FS_Product DEF Keys
<1>2. IsFiniteSet(Wanted) /\ Cardinality(Wanted) <= Cardinality(Keys)
  BY <1>1, FS_Subset DEF Wanted
<1>3. IsFiniteSet(Missing(s)) /\ Cardinality(Missing(s)) <= Cardinality(Wanted)
  BY <1>2, FS_Subset DEF Missing
<1>4. /\ IsFiniteSet(Wanted \ Missing(s))
      /\ Cardinality(Wanted \ Missing(s)) = Cardinality(Wanted) - Cardinality(Missing(s))
  <2>1. Wanted \cap Missing(s) = Missing(s)
    BY DEF Missing
  <2> QED
    BY <1>2, <2>1, FS_Difference
<1>5. IsFiniteSet(Updated(s)) /\ Cardinality(Updated(s)) <= Cardinality(Wanted \ Missing(s))
  BY <1>4, FS_Subset DEF Updated
<1>6. /\ Cardinality(Keys) \in Nat /\ Cardinality(Wanted) \in Nat /\ Cardinality(Missing(s)) \in Nat
      /\ Cardinality(Updated(s)) \in Nat
  BY <1>1, <1>2, <1>3, <1>5, FS_CardinalityType
<1> QED
  BY <1>2, <1>3, <1>4, <1>5, <1>6 DEF CountsOf, Counts

LEMMA Constants == /\ NoTask \in Tasks /\ NoTask.users = {} /\ NoTask.rows = {}
                   /\ Empty \in [Keys -> Entry]
                   /\ "idle" \in Stages
BY DEF NoTask, Tasks, Empty, Entry, Stages

LEMMA IdleOf == RunOf("idle", NoTask)
BY Constants DEF RunOf, LocksOf, ReadOf, Reading

LEMMA ReconcileInitially == ReconcileInit => ReconcileInv
<1> SUFFICES ASSUME ReconcileInit PROVE ReconcileInv
  OBVIOUS
<1>1. ReconcileTypeOK
  BY Constants, KeyUser DEF ReconcileInit, ReconcileTypeOK
<1>2. \A r \in Reconcilers : RunOf(stage[r], task[r])
  BY IdleOf DEF ReconcileInit
<1>3. RunsApart /\ WritersApart
  BY Constants DEF ReconcileInit, RunsApart, WritersApart
<1>4. \A w \in Writers : WriterOf(wpc[w], write[w])
  BY DEF ReconcileInit, WriterOf
<1> QED
  BY <1>1, <1>2, <1>3, <1>4 DEF ReconcileInv

-----------------------------------------------------------------------------
(* A run's step, while tables and requests stand still.                    *)

LEMMA RunBefore ==
  ASSUME ReconcileInv, NEW r \in Reconcilers
  PROVE  /\ stage \in [Reconcilers -> Stages] /\ task \in [Reconcilers -> Tasks] /\ task[r] \in Tasks
         /\ task = [task EXCEPT ![r] = task[r]]
         /\ RunOf(stage[r], task[r])
         /\ answers \in [Keys -> Entry] /\ exists \subseteq Users /\ printed \in Counts \union {NoCounts}
         /\ \A q \in Reconcilers \ {r} : task[r].users \cap task[q].users = {}
BY DEF ReconcileInv, ReconcileTypeOK, Stages, Reading, RunsApart

LEMMA RunStepKeeps ==
  ASSUME ReconcileInv, NEW r \in Reconcilers, NEW l \in Stages, NEW c \in Tasks,
         stage' = [stage EXCEPT ![r] = l], task' = [task EXCEPT ![r] = c],
         UNCHANGED <<tables, writers>>, printed' \in Counts \union {NoCounts},
         RunOf(l, c), \A q \in Reconcilers \ {r} : c.users \cap task[q].users = {}
  PROVE  ReconcileInv'
<1>1. /\ stage'[r] = l /\ task'[r] = c
      /\ \A q \in Reconcilers : q # r => stage'[q] = stage[q] /\ task'[q] = task[q]
      /\ stage' \in [Reconcilers -> Stages] /\ task' \in [Reconcilers -> Tasks]
  BY RunBefore
<1>2. ReconcileTypeOK'
  <2>1. l \in {"idle", "dry"} => c = NoTask
    BY DEF RunOf, ReadOf
  <2>2. \A q \in Reconcilers : stage'[q] \in {"idle", "dry"} => task'[q] = NoTask
    BY <1>1, <2>1 DEF ReconcileInv, ReconcileTypeOK
  <2> QED
    BY <1>1, <2>2 DEF ReconcileInv, ReconcileTypeOK, tables, writers, Stages, Reading
<1>3. RunsApart'
  BY <1>1 DEF ReconcileInv, RunsApart
<1>4. \A q \in Reconcilers : RunOf(stage[q], task[q])'
  <2>1. \A q \in Reconcilers : RunOf(stage'[q], task'[q])
    BY <1>1 DEF ReconcileInv
  <2> QED
    BY <2>1 DEF RunOf, LocksOf, ReadOf, Sharing, RowHeld, Stored, tables, writers
<1>5. WritersApart' /\ \A w \in Writers : WriterOf(wpc[w], write[w])'
  BY DEF ReconcileInv, WritersApart, WriterOf, tables, writers
<1> QED
  BY <1>2, <1>3, <1>4, <1>5 DEF ReconcileInv

LEMMA EndKeeps ==
  ASSUME ReconcileInv, NEW r \in Reconcilers, End(r), UNCHANGED <<tables, writers>>,
         printed' \in Counts \union {NoCounts}
  PROVE  ReconcileInv'
BY Constants, IdleOf, RunStepKeeps DEF End, Proceed

\* Only the program counter moves.
LEMMA GotoKeeps ==
  ASSUME ReconcileInv, NEW r \in Reconcilers, NEW l \in Stages, Proceed(r, l),
         UNCHANGED <<tables, printed, task, writers>>,
         ReadOf(l, task[r])
  PROVE  ReconcileInv'
<1>1. RunOf(l, task[r])
  BY RunBefore DEF RunOf
<1> QED
  BY <1>1, RunBefore, RunStepKeeps DEF Proceed

-----------------------------------------------------------------------------
(* The command line tool.                                                  *)

LEMMA StartKeeps ==
  ASSUME ReconcileInv, NEW r \in Reconcilers, NEW apply \in BOOLEAN, StartRun(r, apply)
  PROVE  ReconcileInv'
<1>0. task[r] = NoTask /\ UNCHANGED <<tables, printed, writers>> /\ printed \in Counts \union {NoCounts}
  BY DEF StartRun, ReconcileInv, ReconcileTypeOK
<1>1. CASE apply
  <2> DEFINE c == [task[r] EXCEPT !.approved = printed]
  <2>1. c \in Tasks /\ c.users = {} /\ c.todo = {} /\ c.rows = {} /\ c.seen = Empty
    BY <1>0, Constants DEF Tasks, NoTask
  <2>2. stage' = [stage EXCEPT ![r] = "users"] /\ task' = [task EXCEPT ![r] = c]
    BY <1>1 DEF StartRun, Proceed
  <2> HIDE DEF c
  <2>3. RunOf("users", c)
    BY <2>1 DEF RunOf, LocksOf, ReadOf, Reading
  <2> QED
    BY <1>0, <2>1, <2>2, <2>3, RunStepKeeps DEF Stages
<1>2. CASE ~apply
  <2>1. ReadOf("dry", task[r])
    BY <1>0 DEF ReadOf, Reading
  <2> QED
    BY <1>0, <1>2, <2>1, GotoKeeps DEF StartRun, Stages
<1> QED
  BY <1>1, <1>2

LEMMA EndingsKeep ==
  ASSUME ReconcileInv, NEW r \in Reconcilers, DryRun(r) \/ UserMissing(r) \/ Fail(r) \/ AbortDeadlocked(r)
  PROVE  ReconcileInv'
<1>1. End(r) /\ UNCHANGED <<tables, writers>>
  BY DEF DryRun, UserMissing, Fail, AbortDeadlocked
<1>2. printed' \in Counts \union {NoCounts}
  BY RunBefore, CountsTyped DEF DryRun, UserMissing, Fail, AbortDeadlocked
<1> QED
  BY <1>1, <1>2, EndKeeps

LEMMA LockUserKeeps ==
  ASSUME ReconcileInv, NEW r \in Reconcilers, NEW u \in Users, LockUser(r, u)
  PROVE  ReconcileInv'
<1> DEFINE c == [task[r] EXCEPT !.users = @ \union {u}]
           l == IF c.users = Users THEN "snapshot" ELSE "users"
<1>1. /\ task[r] \in Tasks /\ RunOf("users", task[r]) /\ u \in exists /\ exists \subseteq Users
      /\ \A q \in Reconcilers \ {r} : u \notin task[q].users /\ task[r].users \cap task[q].users = {}
      /\ \A w \in Writers : ~Sharing(w, u)
      /\ printed \in Counts \union {NoCounts}
  BY RunBefore DEF LockUser
<1>2. /\ c \in Tasks /\ c.users = task[r].users \union {u} /\ c.todo = task[r].todo /\ c.rows = task[r].rows
      /\ c.seen = task[r].seen
  BY <1>1 DEF Tasks
<1>3. task' = [task EXCEPT ![r] = c] /\ UNCHANGED <<tables, printed, writers>>
  BY DEF LockUser
<1>4. task'[r] = c
  BY <1>3, RunBefore
<1>5. stage' = [stage EXCEPT ![r] = l] /\ l \in {"users", "snapshot"} /\ (l = "snapshot" => c.users = Users)
  BY <1>4 DEF LockUser, Proceed
<1> HIDE DEF c, l
<1>6. LocksOf(c)
  BY <1>1, <1>2 DEF RunOf, LocksOf
<1>7. ReadOf(l, c)
  BY <1>1, <1>2, <1>5 DEF RunOf, ReadOf, Reading
<1>8. \A q \in Reconcilers \ {r} : c.users \cap task[q].users = {}
  BY <1>1, <1>2
<1> QED
  BY <1>1, <1>2, <1>3, <1>5, <1>6, <1>7, <1>8, RunStepKeeps DEF RunOf, Stages

\* With every user locked, the rows to be locked are all there are.
LEMMA SnapshotKeeps ==
  ASSUME ReconcileInv, NEW r \in Reconcilers, SnapshotRows(r)
  PROVE  ReconcileInv'
<1> DEFINE c == [task[r] EXCEPT !.todo = Stored]
<1>1. /\ task[r] \in Tasks /\ RunOf("snapshot", task[r]) /\ printed \in Counts \union {NoCounts}
      /\ \A q \in Reconcilers \ {r} : task[r].users \cap task[q].users = {}
  BY RunBefore DEF SnapshotRows
<1>2. /\ c \in Tasks /\ c.users = task[r].users /\ c.todo = Stored /\ c.rows = task[r].rows /\ c.seen = task[r].seen
  BY <1>1 DEF Tasks, Stored
<1>3. task' = [task EXCEPT ![r] = c] /\ stage' = [stage EXCEPT ![r] = "rows"] /\ UNCHANGED <<tables, printed, writers>>
  BY DEF SnapshotRows, Proceed, Stored
<1> HIDE DEF c
<1>4. LocksOf(c)
  BY <1>1, <1>2 DEF RunOf, LocksOf
<1>5. ReadOf("rows", c)
  BY <1>1, <1>2 DEF RunOf, ReadOf, Reading, Empty
<1> QED
  BY <1>1, <1>2, <1>3, <1>4, <1>5, RunStepKeeps DEF RunOf, Stages, Reading

LEMMA LockRowKeeps ==
  ASSUME ReconcileInv, NEW r \in Reconcilers, NEW k \in Keys, LockRow(r, k)
  PROVE  ReconcileInv'
<1> DEFINE s == [task[r].seen EXCEPT ![k] = answers[k]]
           new == IF answers[k] = None THEN task[r].rows ELSE task[r].rows \union {k}
           c == [task[r] EXCEPT !.todo = @ \ {k}, !.rows = new, !.seen = s]
<1>1. /\ task[r] \in Tasks /\ stage[r] = "rows" /\ RunOf("rows", task[r]) /\ printed \in Counts \union {NoCounts}
      /\ \A q \in Reconcilers \ {r} : task[r].users \cap task[q].users = {}
      /\ k \in task[r].todo /\ \A w \in Writers : ~RowHeld(w, k)
      /\ answers \in [Keys -> Entry]
  BY RunBefore DEF LockRow
<1>2. s \in [Keys -> Entry] /\ s[k] = answers[k] /\ \A j \in Keys \ {k} : s[j] = task[r].seen[j]
  BY <1>1 DEF Tasks
<1>3. task' = [task EXCEPT ![r] = c] /\ UNCHANGED <<tables, printed, writers>>
  BY DEF LockRow
<1>8. new \subseteq Keys /\ new \subseteq task[r].rows \union {k} /\ task[r].rows \subseteq Keys
  BY <1>1 DEF Tasks
<1>9. /\ answers[k] = None => new = task[r].rows
      /\ answers[k] # None => new = task[r].rows \union {k}
  OBVIOUS
<1> HIDE DEF s, new
<1>4. /\ c \in Tasks /\ c.users = task[r].users /\ c.todo = task[r].todo \ {k} /\ c.rows = new
      /\ c.seen = s
  BY <1>1, <1>2, <1>8 DEF Tasks
<1>5. stage' = [stage EXCEPT ![r] = "rows"]
  BY <1>1, RunBefore DEF LockRow
<1> HIDE DEF c
<1>6. LocksOf(c)
  BY <1>1, <1>4, <1>8 DEF RunOf, LocksOf
<1>7. ReadOf("rows", c)
  <2>1. /\ task[r].rows \subseteq Stored /\ Stored \subseteq task[r].rows \union task[r].todo /\ k \notin task[r].rows
        /\ task[r].users = Users /\ Users # {}
        /\ \A j \in task[r].rows : task[r].seen[j] = answers[j] /\ j \notin task[r].todo
        /\ \A j \in Keys \ task[r].rows : task[r].seen[j] = None
    BY <1>1 DEF RunOf, ReadOf, Reading
  <2>2. c.rows \subseteq Stored /\ Stored \subseteq c.rows \union c.todo
    BY <1>4, <1>8, <1>9, <2>1 DEF Stored
  <2>3. \A j \in c.rows : c.seen[j] = answers[j] /\ j \notin c.todo
    BY <1>2, <1>4, <1>8, <2>1
  <2>4. \A j \in Keys \ c.rows : c.seen[j] = None
    BY <1>2, <1>4, <1>9, <2>1
  <2> QED
    BY <1>4, <2>1, <2>2, <2>3, <2>4 DEF ReadOf, Reading
<1> QED
  BY <1>1, <1>3, <1>4, <1>5, <1>6, <1>7, RunStepKeeps DEF RunOf, Stages, Reading

LEMMA ProceedKeeps ==
  ASSUME ReconcileInv, NEW r \in Reconcilers, RowsRead(r) \/ Classify(r) \/ Write(r) \/ Verify(r)
  PROVE  ReconcileInv'
<1>1. ReadOf(stage[r], task[r]) /\ printed \in Counts \union {NoCounts} /\ UNCHANGED <<tables, printed, writers>>
  BY RunBefore DEF RunOf, RowsRead, Classify, Write, Verify
<1>2. CASE End(r)
  BY <1>1, <1>2, EndKeeps
<1>3. CASE ~End(r)
  <2>1. CASE RowsRead(r)
    <3>1. ReadOf("classify", task[r])
      BY <1>1, <2>1 DEF ReadOf, RowsRead, Reading
    <3> QED
      BY <2>1, <3>1, GotoKeeps DEF RowsRead, Stages, Reading
  <2>2. CASE Classify(r)
    <3>1. ReadOf("write", task[r])
      BY <1>1, <1>3, <2>2 DEF ReadOf, Classify, Reading, Refused, RefusedOf
    <3> QED
      BY <1>3, <2>2, <3>1, GotoKeeps DEF Classify, Stages, Reading
  <2>3. CASE Write(r)
    <3>1. ReadOf("verify", task[r])
      BY <1>1, <2>3 DEF ReadOf, Write, Reading
    <3> QED
      BY <1>3, <2>3, <3>1, GotoKeeps DEF Write, Stages, Reading
  <2>4. CASE Verify(r)
    <3>1. ReadOf("commit", task[r])
      BY <1>1, <2>4 DEF ReadOf, Verify, Reading
    <3> QED
      BY <1>3, <2>4, <3>1, GotoKeeps DEF Verify, Stages, Reading
  <2> QED
    BY <2>1, <2>2, <2>3, <2>4
<1> QED
  BY <1>2, <1>3

-----------------------------------------------------------------------------
(* The commit of a run.                                                    *)

\* What a run has seen when it commits is what is stored.
LEMMA SeenIsStored ==
  ASSUME ReconcileInv, NEW r \in Reconcilers, stage[r] = "commit"
  PROVE  task[r].seen = answers /\ ~RefusedOf(task[r])
<1>1. /\ task[r].seen \in [Keys -> Entry] /\ answers \in [Keys -> Entry] /\ ReadOf("commit", task[r])
  BY RunBefore DEF RunOf, Tasks
<1>2. task[r].rows = Stored /\ \A k \in Keys : task[r].seen[k] = IF k \in Stored THEN answers[k] ELSE None
  BY <1>1 DEF ReadOf, Reading
<1>3. \A k \in Keys : task[r].seen[k] = answers[k]
  BY <1>2 DEF Stored
<1> QED
  BY <1>1, <1>3 DEF ReadOf

\* What the run puts in the place of each answer.
LEMMA Outcome ==
  ASSUME ReconcileInv, NEW r \in Reconcilers, CommitRun(r)
  PROVE  answers' = Expected /\ CountsOf(answers) = task[r].approved
<1>1. task[r].seen = answers /\ Unexpected(answers) = {} /\ CountsOf(answers) = task[r].approved
  BY SeenIsStored DEF CommitRun, RefusedOf
<1>2. answers' = [k \in Keys |-> IF k \in Missing(answers) \union Updated(answers) THEN Expected[k] ELSE answers[k]]
  BY <1>1 DEF CommitRun
<1>3. \A k \in Keys : k \notin Missing(answers) \union Updated(answers) => answers[k] = Expected[k]
  BY <1>1 DEF Missing, Updated, Wanted, Unexpected
<1>4. answers' = [k \in Keys |-> Expected[k]]
  BY <1>2, <1>3
<1> QED
  BY <1>1, <1>4, ExpectedAssumption

LEMMA CommitRunKeeps ==
  ASSUME ReconcileInv, NEW r \in Reconcilers, CommitRun(r)
  PROVE  ReconcileInv'
<1>1. /\ answers' = Expected /\ UNCHANGED <<exists, printed, wpc, write>> /\ stage[r] = "commit"
      /\ stage' = [stage EXCEPT ![r] = "idle"] /\ task' = [task EXCEPT ![r] = NoTask]
  BY Outcome DEF CommitRun, End, Proceed, writers
<1>2. task[r].users = Users /\ Users # {} /\ exists = Users /\ Stored \subseteq {k \in Keys : Expected[k] # None}
  <2>1. ReadOf("commit", task[r]) /\ LocksOf(task[r]) /\ exists \subseteq Users /\ task[r].seen = answers
        /\ Unexpected(answers) = {}
    BY <1>1, RunBefore, SeenIsStored DEF RunOf, RefusedOf
  <2> QED
    BY <2>1 DEF ReadOf, LocksOf, Reading, Unexpected, Stored, Wanted
<1>3. /\ stage'[r] = "idle" /\ task'[r] = NoTask
      /\ \A q \in Reconcilers : q # r => stage'[q] = stage[q] /\ task'[q] = task[q]
      /\ stage' \in [Reconcilers -> Stages] /\ task' \in [Reconcilers -> Tasks]
  BY <1>1, RunBefore, Constants
<1>4. ReconcileTypeOK'
  <2>1. \A k \in Keys : answers'[k] # None => k[1] \in exists'
    BY <1>1, <1>2, KeyUser
  <2>2. answers' \in [Keys -> Entry]
    BY <1>1, ExpectedAssumption DEF Entry
  <2>3. \A q \in Reconcilers : stage'[q] \in {"idle", "dry"} => task'[q] = NoTask
    BY <1>3 DEF ReconcileInv, ReconcileTypeOK
  <2> QED
    BY <1>1, <1>3, <2>1, <2>2, <2>3 DEF ReconcileInv, ReconcileTypeOK, Stages, Reading
<1>5. RunsApart'
  BY <1>3, Constants DEF ReconcileInv, RunsApart
<1>6. \A q \in Reconcilers : RunOf(stage[q], task[q])'
  <2>1. ASSUME NEW q \in Reconcilers, q # r PROVE RunOf(stage[q], task[q])'
    <3>1. stage'[q] = stage[q] /\ task'[q] = task[q] /\ RunOf(stage[q], task[q]) /\ task[q].users \cap Users = {}
      BY <1>2, <1>3, <2>1, RunBefore
    <3>2. task[q].users # Users
      BY <1>2, <3>1
    <3> QED
      BY <1>1, <3>1, <3>2 DEF RunOf, LocksOf, ReadOf, Sharing, RowHeld
  <2>2. RunOf(stage[r], task[r])'
    BY <1>3, Constants DEF RunOf, LocksOf, ReadOf, Reading
  <2> QED
    BY <2>1, <2>2
<1>7. ASSUME NEW w \in Writers PROVE WriterOf(wpc[w], write[w])'
  <2>1. WriterOf(wpc[w], write[w])
    BY DEF ReconcileInv
  <2>2. CASE wpc[w] = "commit"
    <3>1. write[w] \in Writes /\ write[w].key \in Keys
      BY <2>1, <2>2 DEF WriterOf, Writes
    <3>2. ~write[w].new
      <4>1. write[w].key[1] \in task[r].users
        BY <1>2, <3>1, KeyUser
      <4> QED
        BY <2>2, <4>1, RunBefore DEF RunOf, LocksOf, Sharing
    <3>3. answers[write[w].key] # None
      BY <2>1, <2>2, <3>2 DEF WriterOf
    <3>4. Expected[write[w].key] # None
      BY <1>2, <3>1, <3>3 DEF Stored
    <3> QED
      BY <1>1, <2>1, <2>2, <3>2, <3>4 DEF WriterOf
  <2> QED
    BY <1>1, <2>1, <2>2 DEF WriterOf
<1>8. WritersApart'
  BY <1>1 DEF ReconcileInv, WritersApart
<1> QED
  BY <1>4, <1>5, <1>6, <1>7, <1>8 DEF ReconcileInv

-----------------------------------------------------------------------------
(* The application.                                                        *)

LEMMA WriterBefore ==
  ASSUME ReconcileInv, NEW w \in Writers
  PROVE  /\ wpc \in [Writers -> {"idle", "lock", "commit"}] /\ write \in [Writers -> Writes \union {None}]
         /\ WriterOf(wpc[w], write[w])
         /\ answers \in [Keys -> Entry]
BY DEF ReconcileInv, ReconcileTypeOK

\* A request's step before its commit.
LEMMA RequestKeeps ==
  ASSUME ReconcileInv, NEW w \in Writers, NEW l \in {"idle", "lock", "commit"}, NEW m \in Writes \union {None},
         wpc' = [wpc EXCEPT ![w] = l], write' = [write EXCEPT ![w] = m], UNCHANGED <<tables, printed, stage, task>>,
         WriterOf(l, m),
         l = "commit" => /\ \A v \in Writers : ~RowHeld(v, m.key)
                         /\ \A r \in Reconcilers : IF m.new THEN m.key[1] \notin task[r].users ELSE m.key \notin task[r].rows
  PROVE  ReconcileInv'
<1>1. /\ wpc'[w] = l /\ write'[w] = m
      /\ \A v \in Writers : v # w => wpc'[v] = wpc[v] /\ write'[v] = write[v]
      /\ wpc' \in [Writers -> {"idle", "lock", "commit"}] /\ write' \in [Writers -> Writes \union {None}]
  BY WriterBefore
<1>2. ReconcileTypeOK'
  BY <1>1 DEF ReconcileInv, ReconcileTypeOK, tables
<1>3. \A v \in Writers : WriterOf(wpc[v], write[v])'
  <2> TAKE v \in Writers
  <2>1. WriterOf(wpc'[v], write'[v])
    BY <1>1, WriterBefore
  <2> QED
    BY <2>1 DEF WriterOf, tables
<1>4. WritersApart'
  BY <1>1 DEF ReconcileInv, WritersApart, RowHeld
<1>5. RunsApart'
  BY DEF ReconcileInv, RunsApart
<1>6. ASSUME NEW r \in Reconcilers PROVE RunOf(stage[r], task[r])'
  <2>1. RunOf(stage[r], task[r]) /\ task[r] \in Tasks
    BY RunBefore
  <2>2. l = "commit" /\ ~m.new => answers[m.key] # None
    BY DEF WriterOf
  <2>3. LocksOf(task[r])'
    <3>1. ASSUME NEW u \in task[r].users, NEW v \in Writers PROVE ~Sharing(v, u)'
      BY <1>1, <2>1, <3>1 DEF RunOf, LocksOf, Sharing
    <3>2. ASSUME NEW k \in task[r].rows, NEW v \in Writers PROVE ~RowHeld(v, k)'
      <4>1. CASE v # w
        BY <1>1, <2>1, <4>1 DEF RunOf, LocksOf, RowHeld
      <4>2. CASE v = w /\ l = "commit" /\ m.key = k
        <5>1. k \in Stored /\ k[1] \in Users /\ task[r].users = Users
          BY <2>1, <4>2, KeyUser, RunBefore, Constants DEF RunOf, ReadOf, Reading, Stored, Stages
        <5> QED
          BY <2>1, <4>2, <5>1 DEF WriterOf, Stored
      <4> QED
        BY <1>1, <4>1, <4>2 DEF RowHeld
    <3> QED
      BY <2>1, <3>1, <3>2 DEF RunOf, LocksOf, tables
  <2> QED
    BY <2>1, <2>3 DEF RunOf, ReadOf, Stored, tables
<1> QED
  BY <1>2, <1>3, <1>4, <1>5, <1>6 DEF ReconcileInv

LEMMA RequestsKeep ==
  ASSUME ReconcileInv, NEW w \in Writers, LockAnswer(w) \/ \E k \in Keys, s \in Entry : BeginWrite(w, k, s)
  PROVE  ReconcileInv'
<1>1. ASSUME NEW k \in Keys, NEW s \in Entry, BeginWrite(w, k, s) PROVE ReconcileInv'
  <2>1. PICK new \in BOOLEAN : new = (s # None /\ answers[k] = None)
    OBVIOUS
  <2> DEFINE m == [key |-> k, status |-> s, new |-> new]
  <2>2. m \in Writes /\ write' = [write EXCEPT ![w] = m] /\ (m.new => m.status # None)
    BY <1>1, <2>1 DEF BeginWrite, Writes
  <2> HIDE DEF m
  <2>3. WriterOf("lock", m)
    BY <2>2 DEF WriterOf
  <2> QED
    BY <1>1, <2>2, <2>3, RequestKeeps DEF BeginWrite
<1>2. CASE LockAnswer(w)
  <2>1. write[w] \in Writes /\ UNCHANGED <<tables, printed, stage, task>>
    BY <1>2, WriterBefore DEF LockAnswer, WriterOf
  <2>2. CASE EndWrite(w)
    BY <2>1, <2>2, RequestKeeps DEF EndWrite, WriterOf
  <2>3. CASE ~EndWrite(w)
    <3>1. PICK m \in Writes : m = write[w]
      BY <2>1
    <3>2. /\ wpc' = [wpc EXCEPT ![w] = "commit"] /\ write' = [write EXCEPT ![w] = m]
          /\ m.key[1] \in exists /\ m.new = (answers[m.key] = None)
          /\ \A v \in Writers : RowHeld(v, m.key) => write[v].new /\ ~m.new
          /\ \A r \in Reconcilers : IF m.new THEN m.key[1] \notin task[r].users ELSE m.key \notin task[r].rows
          /\ m.new => m.status # None
      BY <1>2, <2>3, <3>1, WriterBefore DEF LockAnswer, WriterOf
    <3>3. WriterOf("commit", m)
      BY <3>2 DEF WriterOf
    <3>4. \A v \in Writers : ~RowHeld(v, m.key)
      BY <3>2, WriterBefore DEF RowHeld, WriterOf
    <3> QED
      BY <2>1, <3>2, <3>3, <3>4, RequestKeeps
  <2> QED
    BY <2>2, <2>3
<1> QED
  BY <1>1, <1>2

\* A request that commits changes nothing a run has locked and read: a new
\* answer needs the lock on its user, a changed or cleared one that on its row.
LEMMA AnswerKeeps ==
  ASSUME ReconcileInv, NEW w \in Writers, CommitAnswer(w)
  PROVE  ReconcileInv'
<1>1. /\ write[w] \in Writes /\ write[w].key[1] \in exists /\ wpc[w] = "commit"
      /\ write[w].new <=> answers[write[w].key] = None
      /\ answers \in [Keys -> Entry]
  BY WriterBefore DEF CommitAnswer, WriterOf
<1>2. PICK k \in Keys, s \in Entry : k = write[w].key /\ s = write[w].status
  BY <1>1 DEF Writes
<1>3. /\ answers' = [answers EXCEPT ![k] = s] /\ UNCHANGED <<exists, printed, stage, task>>
      /\ wpc' = [wpc EXCEPT ![w] = "idle"] /\ write' = [write EXCEPT ![w] = None]
  BY <1>2 DEF CommitAnswer, EndWrite
<1>4. answers' \in [Keys -> Entry] /\ \A j \in Keys \ {k} : answers'[j] = answers[j]
  BY <1>1, <1>3
<1>5. /\ wpc'[w] = "idle" /\ write'[w] = None
      /\ \A v \in Writers : v # w => wpc'[v] = wpc[v] /\ write'[v] = write[v]
      /\ wpc' \in [Writers -> {"idle", "lock", "commit"}] /\ write' \in [Writers -> Writes \union {None}]
  BY <1>3, WriterBefore
<1>6. ReconcileTypeOK'
  <2>1. \A j \in Keys : answers'[j] # None => j[1] \in exists'
    BY <1>1, <1>2, <1>3, <1>4 DEF ReconcileInv, ReconcileTypeOK
  <2> QED
    BY <1>3, <1>4, <1>5, <2>1 DEF ReconcileInv, ReconcileTypeOK
<1>7. ASSUME NEW v \in Writers PROVE WriterOf(wpc[v], write[v])'
  <2>1. CASE v = w
    BY <1>5, <2>1 DEF WriterOf
  <2>2. CASE v # w
    <3>1. WriterOf(wpc[v], write[v]) /\ wpc'[v] = wpc[v] /\ write'[v] = write[v]
      BY <1>5, <2>2, WriterBefore
    <3>2. wpc[v] = "commit" => write[v].key \in Keys \ {k}
      BY <1>1, <1>2, <2>2, <3>1 DEF ReconcileInv, WritersApart, WriterOf, Writes
    <3> QED
      BY <1>3, <1>4, <3>1, <3>2 DEF WriterOf
  <2> QED
    BY <2>1, <2>2
<1>8. WritersApart' /\ RunsApart'
  BY <1>3, <1>5 DEF ReconcileInv, WritersApart, RunsApart
<1>9. ASSUME NEW r \in Reconcilers PROVE RunOf(stage[r], task[r])'
  <2>1. RunOf(stage[r], task[r]) /\ task[r] \in Tasks
    BY RunBefore
  <2>2. k \notin task[r].rows
    BY <1>1, <1>2, <2>1 DEF RunOf, LocksOf, RowHeld
  <2>3. task[r].users = Users => k \in Stored
    BY <1>1, <1>2, <2>1, KeyUser DEF RunOf, LocksOf, Sharing, Stored
  <2>4. task[r].users = Users => Stored' \subseteq Stored /\ Stored \subseteq Stored' \union {k}
    BY <1>4, <2>3 DEF Stored
  <2>5. \A j \in task[r].rows : answers'[j] = answers[j]
    BY <1>4, <2>1, <2>2 DEF Tasks
  <2>6. LocksOf(task[r])'
    BY <1>3, <1>5, <2>1 DEF RunOf, LocksOf, Sharing, RowHeld
  <2>7. ReadOf(stage[r], task[r])'
    <3>1. stage[r] \in Reading => task[r].rows \subseteq Stored' /\ Stored' \subseteq task[r].rows \union task[r].todo
      BY <2>1, <2>2, <2>4 DEF RunOf, ReadOf
    <3>2. stage[r] \in Reading => \A j \in task[r].rows : task[r].seen[j] = answers'[j] /\ j \notin task[r].todo
      BY <2>1, <2>5 DEF RunOf, ReadOf
    <3> QED
      BY <1>3, <2>1, <3>1, <3>2 DEF RunOf, ReadOf, RefusedOf, CountsOf, Missing, Updated, Wanted, Unexpected
  <2> QED
    BY <2>6, <2>7 DEF RunOf
<1> QED
  BY <1>6, <1>7, <1>8, <1>9 DEF ReconcileInv

LEMMA EraseKeeps ==
  ASSUME ReconcileInv, NEW u \in Users, EraseAccount(u)
  PROVE  ReconcileInv'
<1>1. /\ exists' = exists \ {u} /\ answers' = [k \in Keys |-> IF k[1] = u THEN None ELSE answers[k]]
      /\ UNCHANGED <<printed, stage, task, wpc, write>>
      /\ \A r \in Reconcilers : u \notin task[r].users
      /\ \A w \in Writers : ~(wpc[w] = "commit" /\ write[w].key[1] = u)
  BY DEF EraseAccount, writers
<1>2. ReconcileTypeOK'
  BY <1>1 DEF ReconcileInv, ReconcileTypeOK, Entry
<1>3. WritersApart' /\ RunsApart'
  BY <1>1 DEF ReconcileInv, WritersApart, RunsApart
<1>4. ASSUME NEW w \in Writers PROVE WriterOf(wpc[w], write[w])'
  <2>1. WriterOf(wpc[w], write[w])
    BY WriterBefore
  <2>2. wpc[w] = "commit" => write[w].key \in Keys
    BY <2>1 DEF WriterOf, Writes
  <2>3. wpc[w] = "commit" => answers'[write[w].key] = answers[write[w].key]
    BY <1>1, <2>2
  <2> QED
    BY <1>1, <2>1, <2>3 DEF WriterOf
<1>5. ASSUME NEW r \in Reconcilers PROVE RunOf(stage[r], task[r])'
  <2>1. RunOf(stage[r], task[r]) /\ task[r].users # Users
    BY <1>1, RunBefore
  <2> QED
    BY <1>1, <2>1 DEF RunOf, LocksOf, ReadOf, Sharing, RowHeld, Reading
<1> QED
  BY <1>2, <1>3, <1>4, <1>5 DEF ReconcileInv

-----------------------------------------------------------------------------
(* The theorems.                                                           *)

LEMMA ReconcileNextKeeps == ReconcileInv /\ [ReconcileNext]_reconcileVars => ReconcileInv'
<1> SUFFICES ASSUME ReconcileInv, [ReconcileNext]_reconcileVars PROVE ReconcileInv'
  OBVIOUS
<1>1. CASE UNCHANGED reconcileVars
  <2>1. \A r \in Reconcilers : RunOf(stage[r], task[r])'
    BY <1>1 DEF reconcileVars, ReconcileInv, RunOf, LocksOf, ReadOf, Sharing, RowHeld, Stored
  <2> QED
    BY <1>1, <2>1 DEF reconcileVars, ReconcileInv, ReconcileTypeOK, WritersApart, RunsApart, WriterOf
<1>2. ASSUME NEW r \in Reconcilers, TaskStep(r) \/ Fail(r) \/ \E apply \in BOOLEAN : StartRun(r, apply)
      PROVE  ReconcileInv'
  BY <1>2, StartKeeps, EndingsKeep, LockUserKeeps, SnapshotKeeps, LockRowKeeps, ProceedKeeps,
     CommitRunKeeps DEF TaskStep
<1>3. ASSUME NEW w \in Writers,
             \/ LockAnswer(w) \/ CommitAnswer(w)
             \/ \E k \in Keys, s \in Entry : BeginWrite(w, k, s)
      PROVE  ReconcileInv'
  BY <1>3, RequestsKeep, AnswerKeeps
<1>4. ASSUME NEW u \in Users, EraseAccount(u) PROVE ReconcileInv'
  BY <1>4, EraseKeeps
<1> QED
  BY <1>1, <1>2, <1>3, <1>4 DEF ReconcileNext

LEMMA ReconcileInvariance == ReconcileSpec => []ReconcileInv
BY ReconcileInitially, ReconcileNextKeeps, PTL DEF ReconcileSpec

\* Every table, lock and read is of its kind, and answers belong to users
\* that exist.
THEOREM ReconcileTyping == ReconcileSpec => []ReconcileTypeOK
<1>1. ReconcileInv => ReconcileTypeOK
  BY DEF ReconcileInv
<1> QED
  BY <1>1, ReconcileInvariance, PTL

\* Only the commit of a run changes the answers while the run is left.
LEMMA OnlyItsCommit ==
  ASSUME ReconcileInv, [ReconcileNext]_reconcileVars, NEW r \in Reconcilers, Applies(r)
  PROVE  CommitRun(r)
<1>0. stage[r] = "commit" /\ stage'[r] = "idle" /\ answers' # answers /\ stage \in [Reconcilers -> Stages]
  BY RunBefore DEF Applies
<1>1. ASSUME NEW q \in Reconcilers, CommitRun(q) PROVE CommitRun(r)
  <2>1. stage' = [stage EXCEPT ![q] = "idle"]
    BY <1>1 DEF CommitRun, End, Proceed
  <2>2. q = r
    BY <1>0, <2>1
  <2> QED
    BY <1>1, <2>2
<1>2. ASSUME NEW q \in Reconcilers, TaskStep(q) \/ Fail(q) \/ \E apply \in BOOLEAN : StartRun(q, apply),
             ~CommitRun(q)
      PROVE  FALSE
  <2>1. \/ DryRun(q) \/ UserMissing(q) \/ SnapshotRows(q) \/ RowsRead(q) \/ Classify(q) \/ Write(q) \/ Verify(q)
        \/ AbortDeadlocked(q) \/ Fail(q)
        \/ \E u \in Users : LockUser(q, u)
        \/ \E k \in Keys : LockRow(q, k)
        \/ \E apply \in BOOLEAN : StartRun(q, apply)
    BY <1>2 DEF TaskStep
  <2>2. UNCHANGED tables
    BY <2>1 DEF DryRun, UserMissing, SnapshotRows, RowsRead, Classify, Write, Verify, AbortDeadlocked,
       LockUser, LockRow, Fail, StartRun
  <2> QED
    BY <1>0, <2>2 DEF tables
<1>3. ASSUME NEW w \in Writers,
             \/ LockAnswer(w) \/ CommitAnswer(w)
             \/ \E k \in Keys, s \in Entry : BeginWrite(w, k, s)
      PROVE  FALSE
  BY <1>0, <1>3 DEF LockAnswer, CommitAnswer, BeginWrite
<1>4. ASSUME NEW u \in Users, EraseAccount(u) PROVE FALSE
  BY <1>0, <1>4 DEF EraseAccount
<1>5. CASE UNCHANGED reconcileVars
  BY <1>0, <1>5 DEF reconcileVars
<1> QED
  BY <1>1, <1>2, <1>3, <1>4, <1>5 DEF ReconcileNext

\* An apply commits exactly the validated answers, whatever the application
\* sets, changes, clears and erases meanwhile.
THEOREM ExactCommit == ReconcileSpec => CommitIsExact
<1>1. ReconcileInv /\ [ReconcileNext]_reconcileVars
        => [\A r \in Reconcilers : Applies(r) => answers' = Expected]_reconcileVars
  BY OnlyItsCommit, Outcome
<1> QED
  BY <1>1, ReconcileInvariance, PTL DEF ReconcileSpec, CommitIsExact

\* An apply changes as many answers as the operator approved, counted against
\* what was committed when it commits.
THEOREM ApprovedChanges == ReconcileSpec => OnlyApprovedChanges
<1>1. ReconcileInv /\ [ReconcileNext]_reconcileVars
        => [\A r \in Reconcilers : Applies(r) => CountsOf(answers) = task[r].approved]_reconcileVars
  BY OnlyItsCommit, Outcome
<1> QED
  BY <1>1, ReconcileInvariance, PTL DEF ReconcileSpec, OnlyApprovedChanges

-----------------------------------------------------------------------------
(* The normalization.  The invariant is what the former program did with    *)
(* every answer: all groups of a user show the same one, so a row that      *)
(* disagrees with a canonical one stands under an outdated name.            *)

Rewritten    == table \in [Cells -> Values \union {NoRow}]
AnswersAgree == \A u \in Users, d \in Days : \A b, c \in GetUserGroups(u) : table[<<b, u, d>>] = table[<<c, u, d>>]
TableInv     == Rewritten /\ AnswersAgree

LEMMA CellsOfMembers == ASSUME NEW u \in Users, NEW d \in Days, NEW g \in GetUserGroups(u)
                        PROVE  <<g, u, d>> \in Cells
BY DEF GetUserGroups, Cells, GroupNames, UserNames

LEMMA TableInitially == TableInit => TableInv
<1> SUFFICES ASSUME TableInit PROVE TableInv
  OBVIOUS
<1>1. Rewritten
  BY DEF TableInit, Rewritten
<1>2. AnswersAgree
  BY CellsOfMembers DEF TableInit, AnswersAgree
<1> QED
  BY <1>1, <1>2 DEF TableInv

\* An answer reaches every group of its user or, given under a name that no
\* group lists, none of them.
LEMMA TableKeeps == TableInv /\ [TableNext]_table => TableInv'
<1> SUFFICES ASSUME TableInv, [TableNext]_table PROVE TableInv'
  OBVIOUS
<1>1. CASE UNCHANGED table
  BY <1>1 DEF TableInv, Rewritten, AnswersAgree
<1>2. ASSUME NEW h \in GroupNames, NEW v \in UserNames, NEW e \in Days, NEW s \in Values \union {NoRow},
             SetUserAvailability(h, v, e, s)
      PROVE  TableInv'
  <2>1. Rewritten'
    BY <1>2 DEF TableInv, Rewritten, SetUserAvailability
  <2>2. ASSUME NEW u \in Users, NEW d \in Days, NEW b \in GetUserGroups(u), NEW c \in GetUserGroups(u)
        PROVE  table'[<<b, u, d>>] = table'[<<c, u, d>>]
    <3>1. /\ <<b, u, d>> \in Cells
          /\ <<c, u, d>> \in Cells
      BY <2>2, CellsOfMembers
    <3>2. table[<<b, u, d>>] = table[<<c, u, d>>]
      BY <2>2 DEF TableInv, AnswersAgree
    <3>3. CASE u = v /\ d = e
      BY <1>2, <2>2, <3>1, <3>3 DEF SetUserAvailability
    <3>4. CASE ~(u = v /\ d = e)
      BY <1>2, <3>1, <3>2, <3>4 DEF SetUserAvailability
    <3> QED
      BY <3>3, <3>4
  <2>3. AnswersAgree'
    BY <2>2 DEF AnswersAgree, GetUserGroups
  <2> QED
    BY <2>1, <2>3 DEF TableInv
<1> QED
  BY <1>1, <1>2 DEF TableNext

LEMMA TableInvariance == TableSpec => []TableInv
<1> QED
  BY TableInitially, TableKeeps, PTL DEF TableSpec

\* A name the policy may not touch stands for itself.
LEMMA CanonicalKept == ASSUME NEW p \in Policies
                       PROVE  /\ \A g \in Groups : Canonical(p.groups, g) = g /\ g \notin p.ignored
                              /\ \A u \in Users : Canonical(p.users, u) = u
BY DEF Policies, ValidPolicy, ValidAlias, Canonical

LEMMA RowsTyped == TableInv => Rows \subseteq Row
BY DEF TableInv, Rewritten, Rows, Row, Cells

\* The row of a cell, and the cell of a row.
LEMMA RowOf == ASSUME TableInv, NEW g \in GroupNames, NEW u \in UserNames, NEW d \in Days,
                      table[<<g, u, d>>] # NoRow
               PROVE  [group |-> g, user |-> u, day |-> d, status |-> table[<<g, u, d>>]] \in Rows
<1>1. <<g, u, d>> \in {l \in Cells : table[l] # NoRow}
  BY DEF Cells
<1> QED
  BY <1>1 DEF Rows

LEMMA CellOf == ASSUME TableInv, NEW r \in Rows
                PROVE  /\ r.group \in GroupNames /\ r.user \in UserNames /\ r.day \in Days /\ r.status \in Values
                       /\ table[<<r.group, r.user, r.day>>] = r.status
                       /\ r.status # NoRow
<1>1. PICK k \in {l \in Cells : table[l] # NoRow} :
          r = [group |-> k[1], user |-> k[2], day |-> k[3], status |-> table[k]]
  BY DEF Rows
<1>2. k = <<k[1], k[2], k[3]>> /\ k[1] \in GroupNames /\ k[2] \in UserNames /\ k[3] \in Days
  BY DEF Cells
<1>3. table[k] \in Values /\ table[k] # NoRow
  BY <1>1 DEF TableInv, Rewritten
<1> QED
  BY <1>1, <1>2, <1>3

\* A row that counts under a policy is of a canonical user who is a member of
\* the canonical group.
LEMMA Counted == ASSUME TableInv, NEW p \in Policies, NEW u \in Users, NEW d \in Days,
                        NEW r \in LogicalRows(p, u, d)
                 PROVE  /\ r \in Rows
                        /\ ~Ignored(p, r) /\ r.day = d /\ Canonical(p.users, r.user) = u
                        /\ r.status \in Statuses
                        /\ Canonical(p.groups, r.group) \in GetUserGroups(u)
<1>1. /\ r \in Rows /\ r.day = d /\ Canonical(p.users, r.user) = u
      /\ ~Ignored(p, r) /\ ~Invalid(p, r)
  BY DEF LogicalRows
<1>2. ~UnknownGroup(p, r) /\ ~UnknownUser(p, r) /\ ~NotAMember(p, r) /\ ~BadData(r)
  BY <1>1 DEF Invalid
<1>3. Canonical(p.groups, r.group) \in Groups
  BY <1>1, <1>2 DEF UnknownGroup
<1>4. u \in Members[Canonical(p.groups, r.group)]
  BY <1>1, <1>2 DEF NotAMember
<1>5. r.status \in Statuses
  BY <1>1, <1>2, CellOf DEF BadData, Values
<1> QED
  BY <1>1, <1>3, <1>4, <1>5 DEF GetUserGroups

LEMMA WorkingCounted == ASSUME NEW p \in Policies, NEW u \in Users, NEW d \in Days
                        PROVE  Working(p, u, d) \subseteq LogicalRows(p, u, d)
<1>1. ASSUME NEW R PROVE PreferUser(R, u) \subseteq R /\ PreferGroup(p, R) \subseteq R
  BY DEF PreferUser, PreferGroup
<1> HIDE DEF PreferUser, PreferGroup
<1> QED
  BY <1>1 DEF Working

\* With at most one status, the status of any row is the only one.
LEMMA Single == ASSUME NEW S \in SUBSET Statuses, NEW s \in S, ~(Cardinality(S) > 1)
                PROVE  S = {s}
<1>1. IsFiniteSet(S) /\ Cardinality(S) \in Nat
  BY FiniteAssumption, FS_Subset, FS_CardinalityType
<1>2. Cardinality(S) # 0
  BY <1>1, FS_EmptySet
<1>3. PICK x : S = {x}
  BY <1>1, <1>2, FS_Singleton
<1> QED
  BY <1>3

LEMMA FactOf == ASSUME NEW p \in Policies, NEW u \in Users, NEW d \in Days, NEW s \in Statuses,
                       StatusesOf(Working(p, u, d)) = {s}
                PROVE  [user |-> u, day |-> d, status |-> s] \in Facts(p)
<1> DEFINE c == <<u, d>>
<1>1. c[1] = u /\ c[2] = d /\ c \in {x \in Users \X Days : OneStatus(Working(p, x[1], x[2]))}
  BY DEF OneStatus
<1>2. (CHOOSE x \in Statuses : x \in StatusesOf(Working(p, c[1], c[2]))) = s
  BY <1>1
<1> HIDE DEF c
<1>3. [user |-> c[1], day |-> c[2],
       status |-> CHOOSE x \in Statuses : x \in StatusesOf(Working(p, c[1], c[2]))] \in Facts(p)
  BY <1>1 DEF Facts
<1> QED
  BY <1>1, <1>2, <1>3

LEMMA OfFact == ASSUME NEW p \in Policies, NEW f \in Facts(p)
                PROVE  /\ f.user \in Users /\ f.day \in Days /\ f.status \in Statuses
                       /\ f = [user |-> f.user, day |-> f.day, status |-> f.status]
                       /\ StatusesOf(Working(p, f.user, f.day)) = {f.status}
<1>1. PICK c \in {x \in Users \X Days : OneStatus(Working(p, x[1], x[2]))} :
          f = [user |-> c[1], day |-> c[2],
               status |-> CHOOSE s \in Statuses : s \in StatusesOf(Working(p, c[1], c[2]))]
  BY DEF Facts
<1>2. c[1] \in Users /\ c[2] \in Days /\ OneStatus(Working(p, c[1], c[2]))
  OBVIOUS
<1>3. PICK s \in Statuses : StatusesOf(Working(p, c[1], c[2])) = {s}
  BY <1>2 DEF OneStatus
<1>4. (CHOOSE x \in Statuses : x \in StatusesOf(Working(p, c[1], c[2]))) = s
  BY <1>3
<1>5. f = [user |-> c[1], day |-> c[2], status |-> s]
  BY <1>1, <1>4
<1> QED
  BY <1>2, <1>3, <1>5

\* A row under canonical names settles its user and day: the rows that stay
\* beside it are copies of it.
LEMMA CanonicalSettles ==
  ASSUME TableInv, NEW p \in Policies, p.prefer, NEW u \in Users, NEW d \in Days, NEW g \in GetUserGroups(u),
         table[<<g, u, d>>] \in Statuses
  PROVE  StatusesOf(Working(p, u, d)) = {table[<<g, u, d>>]}
<1> DEFINE s == table[<<g, u, d>>]
           r == [group |-> g, user |-> u, day |-> d, status |-> s]
           R == LogicalRows(p, u, d)
           E == PreferUser(R, u)
<1>1. \A c \in GetUserGroups(u) : [group |-> c, user |-> u, day |-> d, status |-> s] \in R
  <2> SUFFICES ASSUME NEW c \in GetUserGroups(u)
               PROVE  [group |-> c, user |-> u, day |-> d, status |-> s] \in R
    OBVIOUS
  <2> DEFINE q == [group |-> c, user |-> u, day |-> d, status |-> s]
  <2>1. table[<<c, u, d>>] = s
    BY DEF TableInv, AnswersAgree
  <2>2. c \in Groups /\ u \in Members[c]
    BY DEF GetUserGroups
  <2>3. s # NoRow /\ s # Malformed
    BY ValuesAssumption DEF Values
  <2>4. c \in GroupNames /\ u \in UserNames
    BY <2>2 DEF GroupNames, UserNames
  <2>5. q \in Rows
    BY <2>1, <2>3, <2>4, RowOf
  <2>6. Canonical(p.groups, c) = c /\ c \notin p.ignored /\ Canonical(p.users, u) = u
    BY <2>2, CanonicalKept
  <2>7. ~Ignored(p, q) /\ ~Invalid(p, q)
    BY <2>2, <2>3, <2>6 DEF Ignored, Invalid, UnknownGroup, UnknownUser, NotAMember, BadData
  <2> QED
    BY <2>5, <2>6, <2>7 DEF LogicalRows
<1>2. r \in R
  BY <1>1
<1>3. E = {q \in R : q.user = u}
  BY <1>2 DEF PreferUser
<1>4. Working(p, u, d) = PreferGroup(p, E)
  BY DEF Working
<1>5. r \in Working(p, u, d)
  <2>1. g \in Groups
    BY DEF GetUserGroups
  <2> QED
    BY <1>2, <1>3, <1>4, <2>1 DEF PreferGroup
<1>6. ASSUME NEW w \in Working(p, u, d) PROVE w.status = s
  <2>1. w \in R /\ w.user = u /\ (w.group \in Groups \/ ~\E q \in E : q.group = Canonical(p.groups, w.group))
    BY <1>3, <1>4, <1>6 DEF PreferGroup
  <2>2. /\ w \in Rows /\ w.day = d
        /\ Canonical(p.groups, w.group) \in GetUserGroups(u)
    BY <2>1, Counted
  <2>3. \E q \in E : q.group = Canonical(p.groups, w.group)
    <3> DEFINE c == Canonical(p.groups, w.group)
               q == [group |-> c, user |-> u, day |-> d, status |-> s]
    <3>1. q \in R /\ q.user = u /\ q.group = c
      BY <1>1, <2>2
    <3>2. q \in E
      BY <1>3, <3>1
    <3> QED
      BY <3>1, <3>2
  <2>4. w.group \in Groups /\ w.group \in GetUserGroups(u)
    BY <2>1, <2>2, <2>3, CanonicalKept
  <2>5. table[<<w.group, u, d>>] = s
    BY <2>4 DEF TableInv, AnswersAgree
  <2> QED
    BY <2>1, <2>2, <2>5, CellOf
<1> QED
  BY <1>5, <1>6 DEF StatusesOf

-----------------------------------------------------------------------------

\* Whatever names the former program used, an accepted import shows in each
\* group what was shown there, unless the policy ignores the row's group.
THEOREM ShownStaysShown == TableSpec => []ShownIsImported
<1>1. ASSUME TableInv, NEW p \in Policies, Accepted(p), NEW g \in Groups, NEW r \in Rows,
             Shows(g, r), ~Ignored(p, r)
      PROVE  [group |-> g, user |-> r.user, day |-> r.day, status |-> r.status] \in Projections(Facts(p))
  <2> DEFINE u == r.user
             d == r.day
             R == LogicalRows(p, u, d)
             f == [user |-> u, day |-> d, status |-> r.status]
  <2>1. u \in Users /\ u \in Members[g] /\ d \in Days /\ g \in GetUserGroups(u)
    BY <1>1, CellOf, ContractAssumption DEF Shows, GetUserGroups
  <2>2. r \in R
    BY <1>1, <2>1, CanonicalKept DEF Accepted, LogicalRows
  <2>3. r.status \in Statuses
    BY <1>1, <2>1, <2>2, Counted
  <2>4. r \in Working(p, u, d)
    <3>1. CASE ~p.prefer
      BY <2>2, <3>1 DEF Working
    <3>2. CASE p.prefer /\ r.group \in Groups
      BY <2>2, <3>2 DEF Working, PreferUser, PreferGroup
    <3>3. CASE p.prefer /\ r.group \notin Groups
      <4>1. table[<<g, u, d>>] = NoRow
        BY <1>1, <3>3 DEF Shows
      <4>2. ASSUME NEW q \in R, q.user = u, q.group = Canonical(p.groups, r.group) PROVE FALSE
        <5>1. q.group \in GetUserGroups(u)
          BY <1>1, <2>1, <2>2, <4>2, Counted
        <5>2. q \in Rows /\ q.day = d
          BY <1>1, <2>1, <4>2, Counted
        <5>3. table[<<q.group, u, d>>] = NoRow
          BY <1>1, <2>1, <4>1, <5>1 DEF TableInv, AnswersAgree
        <5> QED
          BY <1>1, <4>2, <5>2, <5>3, CellOf
      <4>3. PreferUser(R, u) = {q \in R : q.user = u}
        BY <2>2 DEF PreferUser
      <4> QED
        BY <2>2, <3>3, <4>2, <4>3 DEF Working, PreferGroup
    <3> QED
      BY <3>1, <3>2, <3>3
  <2>5. StatusesOf(Working(p, u, d)) \subseteq Statuses
    BY <1>1, <2>1, WorkingCounted, Counted DEF StatusesOf
  <2>6. r.status \in StatusesOf(Working(p, u, d))
    BY <2>4 DEF StatusesOf
  <2>7. ~(Cardinality(StatusesOf(Working(p, u, d))) > 1)
    <3> DEFINE c == <<u, d>>
    <3>1. c \in Users \X Days /\ c[1] = u /\ c[2] = d
      BY <2>1
    <3> HIDE DEF c
    <3> QED
      BY <1>1, <3>1 DEF Accepted, Conflicts
  <2>8. StatusesOf(Working(p, u, d)) = {r.status}
    BY <2>5, <2>6, <2>7, Single
  <2>9. f \in Facts(p)
    BY <1>1, <2>1, <2>3, <2>8, FactOf
  <2> DEFINE x == <<g, f>>
  <2>10. x \in {y \in Groups \X Facts(p) : y[2].user \in Members[y[1]]} /\ x[1] = g /\ x[2] = f
    BY <1>1, <2>1, <2>9
  <2> HIDE DEF x
  <2> QED
    BY <2>10 DEF Projections
<1>2. TableInv => ShownIsImported
  BY <1>1 DEF ShownIsImported
<1> QED
  BY <1>2, TableInvariance, PTL

\* An answer given under canonical names is the one imported, whatever stands
\* under outdated names for the same day.
THEOREM CanonicalWins == TableSpec => []CanonicalAnswerSettlesIt
<1>1. ASSUME TableInv, NEW p \in Policies, p.prefer, NEW g \in Groups, NEW u \in Members[g], NEW d \in Days,
             table[<<g, u, d>>] \in Statuses
      PROVE  [user |-> u, day |-> d, status |-> table[<<g, u, d>>]] \in Facts(p)
  <2>1. u \in Users /\ g \in GetUserGroups(u)
    BY ContractAssumption DEF GetUserGroups
  <2> QED
    BY <1>1, <2>1, CanonicalSettles, FactOf
<1>2. TableInv => CanonicalAnswerSettlesIt
  BY <1>1 DEF CanonicalAnswerSettlesIt
<1> QED
  BY <1>2, TableInvariance, PTL

\* A table with canonical names only is imported alike with any policy and
\* with none.
THEOREM PolicyChangesNothingElse == TableSpec => []PolicyIsConservative
<1>1. ASSUME TableInv, AcceptedWithoutPolicy, NEW p \in Policies
      PROVE  Accepted(p) /\ Facts(p) = FactsWithoutPolicy
  <2>1. ASSUME NEW r \in Rows
        PROVE  /\ r.group \in Groups /\ r.user \in Users
               /\ Canonical(p.users, r.user) = r.user
               /\ ~Ignored(p, r) /\ ~Invalid(p, r) /\ ~InvalidWithoutPolicy(r)
    <3>1. ~InvalidWithoutPolicy(r)
      BY <1>1 DEF AcceptedWithoutPolicy
    <3>2. r.group \in Groups /\ r.user \in Users /\ r.user \in Members[r.group] /\ ~BadData(r)
      BY <3>1 DEF InvalidWithoutPolicy
    <3>3. /\ Canonical(p.groups, r.group) = r.group
          /\ Canonical(p.users, r.user) = r.user
          /\ r.group \notin p.ignored
      BY <3>2, CanonicalKept
    <3> QED
      BY <3>1, <3>2, <3>3 DEF Ignored, Invalid, UnknownGroup, UnknownUser, NotAMember
  <2>2. ASSUME NEW u \in Users, NEW d \in Days
        PROVE  Working(p, u, d) = LogicalWithoutPolicy(u, d)
    <3> DEFINE R == LogicalRows(p, u, d)
    <3>1. R = LogicalWithoutPolicy(u, d)
      BY <2>1 DEF LogicalRows, LogicalWithoutPolicy
    <3>2. \A r \in R : r.user = u /\ r.group \in Groups
      BY <2>1 DEF LogicalRows
    <3>3. PreferUser(R, u) = R
      BY <3>2 DEF PreferUser
    <3>4. PreferGroup(p, R) = R
      BY <3>2 DEF PreferGroup
    <3> QED
      BY <3>1, <3>3, <3>4 DEF Working
  <2>3. Conflicts(p) = {}
    <3> SUFFICES ASSUME NEW c \in Users \X Days, Cardinality(StatusesOf(Working(p, c[1], c[2]))) > 1
                 PROVE  FALSE
      BY DEF Conflicts
    <3> DEFINE S == StatusesOf(LogicalWithoutPolicy(c[1], c[2]))
    <3>1. c[1] \in Users /\ c[2] \in Days
      OBVIOUS
    <3>2. Cardinality(S) <= 1 /\ Cardinality(S) > 1
      BY <1>1, <2>2, <3>1 DEF AcceptedWithoutPolicy
    <3>3. S \subseteq Statuses
      BY <1>1, <2>2, <3>1, WorkingCounted, Counted DEF StatusesOf
    <3>4. Cardinality(S) \in Nat
      BY <3>3, FiniteAssumption, FS_Subset, FS_CardinalityType
    <3> HIDE DEF S
    <3> QED
      BY <3>2, <3>4
  <2>4. \A c \in Users \X Days : Working(p, c[1], c[2]) = LogicalWithoutPolicy(c[1], c[2])
    BY <2>2
  <2>5. Facts(p) = FactsWithoutPolicy
    <3>1. {x \in Users \X Days : OneStatus(Working(p, x[1], x[2]))}
            = {x \in Users \X Days : OneStatus(LogicalWithoutPolicy(x[1], x[2]))}
      BY <2>4
    <3> QED
      BY <2>4, <3>1 DEF Facts, FactsWithoutPolicy
  <2> QED
    BY <2>1, <2>3, <2>5 DEF Accepted
<1>2. TableInv => PolicyIsConservative
  BY <1>1 DEF PolicyIsConservative
<1> QED
  BY <1>2, TableInvariance, PTL

-----------------------------------------------------------------------------
(* The correction of a table that the importer has normalized:             *)
(* load_expected_availability takes its answers from the facts.            *)

LoadedFrom(p) ==
    \A k \in Keys, s \in Statuses : Expected[k] = s <=> [user |-> k[1], day |-> k[2], status |-> s] \in Facts(p)

\* A fact has a row that says so.
LEMMA FactHasRow == ASSUME NEW p \in Policies, NEW f \in Facts(p)
                    PROVE  \E w \in Rows : /\ ~Ignored(p, w)
                                           /\ Canonical(p.users, w.user) = f.user /\ w.day = f.day
                                           /\ w.status = f.status
<1>1. /\ f.user \in Users /\ f.day \in Days
      /\ f.status \in StatusesOf(Working(p, f.user, f.day))
  BY OfFact
<1>2. PICK w \in Working(p, f.user, f.day) : w.status = f.status
  BY <1>1 DEF StatusesOf
<1>3. w \in LogicalRows(p, f.user, f.day)
  BY <1>1, <1>2, WorkingCounted
<1> QED
  BY <1>2, <1>3 DEF LogicalRows

\* When an apply of the reconciliation commits, each group shows again what the
\* former program showed there, and no user has an answer that no row of the
\* former program gave.
THEOREM ShownIsRestored ==
  TableSpec /\ ReconcileSpec =>
    [][\A p \in Policies, r \in Reconcilers : Accepted(p) /\ LoadedFrom(p) /\ Applies(r) =>
         /\ \A g \in Groups, w \in Rows : Shows(g, w) /\ ~Ignored(p, w) => answers'[<<w.user, w.day>>] = w.status
         /\ \A k \in Keys : answers'[k] # None => \E w \in Rows : /\ ~Ignored(p, w)
                                                                  /\ Canonical(p.users, w.user) = k[1]
                                                                  /\ w.day = k[2]
                                                                  /\ w.status = answers'[k]]_reconcileVars
<1> DEFINE Exact == \A r \in Reconcilers : Applies(r) => answers' = Expected
           Restored(p) ==
             /\ \A g \in Groups, w \in Rows : Shows(g, w) /\ ~Ignored(p, w) => answers'[<<w.user, w.day>>] = w.status
             /\ \A k \in Keys : answers'[k] # None => \E w \in Rows : /\ ~Ignored(p, w)
                                                                      /\ Canonical(p.users, w.user) = k[1]
                                                                      /\ w.day = k[2]
                                                                      /\ w.status = answers'[k]
           All == \A p \in Policies, r \in Reconcilers : Accepted(p) /\ LoadedFrom(p) /\ Applies(r) => Restored(p)
<1>1. ASSUME TableInv, ShownIsImported, NEW p \in Policies, Accepted(p), LoadedFrom(p), answers' = Expected
      PROVE  Restored(p)
  <2>1. ASSUME NEW g \in Groups, NEW w \in Rows, Shows(g, w), ~Ignored(p, w)
        PROVE  answers'[<<w.user, w.day>>] = w.status
    <3> DEFINE a == [group |-> g, user |-> w.user, day |-> w.day, status |-> w.status]
               k == <<w.user, w.day>>
    <3>1. a \in Projections(Facts(p))
      BY <1>1, <2>1 DEF ShownIsImported
    <3>2. PICK f \in Facts(p) : a.user = f.user /\ a.day = f.day /\ a.status = f.status
      BY <3>1 DEF Projections
    <3>3. /\ f.user \in Users /\ f.day \in Days /\ f.status \in Statuses
          /\ f = [user |-> f.user, day |-> f.day, status |-> f.status]
      BY <3>2, OfFact
    <3>4. k \in Keys /\ k[1] = f.user /\ k[2] = f.day /\ f.status = w.status
      BY <3>2, <3>3 DEF Keys
    <3> HIDE DEF k
    <3>5. Expected[k] = f.status
      BY <1>1, <3>3, <3>4 DEF LoadedFrom
    <3> QED
      BY <1>1, <3>4, <3>5 DEF k
  <2>2. ASSUME NEW k \in Keys, answers'[k] # None
        PROVE  \E w \in Rows : /\ ~Ignored(p, w)
                               /\ Canonical(p.users, w.user) = k[1] /\ w.day = k[2]
                               /\ w.status = answers'[k]
    <3> DEFINE f == [user |-> k[1], day |-> k[2], status |-> Expected[k]]
    <3>1. Expected[k] \in Statuses
      BY <1>1, <2>2, ExpectedAssumption
    <3>2. f \in Facts(p)
      BY <1>1, <3>1 DEF LoadedFrom
    <3>3. f.user = k[1] /\ f.day = k[2] /\ f.status = Expected[k]
      OBVIOUS
    <3> HIDE DEF f
    <3>4. \E w \in Rows : /\ ~Ignored(p, w)
                          /\ Canonical(p.users, w.user) = f.user /\ w.day = f.day
                          /\ w.status = f.status
      BY <3>2, FactHasRow
    <3> QED
      BY <1>1, <3>3, <3>4
  <2> QED
    BY <2>1, <2>2
<1>2. TableInv /\ ShownIsImported /\ Exact => All
  <2> HIDE DEF Restored
  <2> QED
    BY <1>1
<1>3. TableInv /\ ShownIsImported /\ [Exact]_reconcileVars => [All]_reconcileVars
  <2> HIDE DEF Exact, All
  <2> QED
    BY <1>2
<1>4. ReconcileSpec => [][Exact]_reconcileVars
  BY ExactCommit DEF CommitIsExact
<1> HIDE DEF Exact, All
<1>5. TableSpec /\ ReconcileSpec => [][All]_reconcileVars
  BY <1>3, <1>4, TableInvariance, ShownStaysShown, PTL
<1> QED
  BY <1>5 DEF All
=============================================================================
