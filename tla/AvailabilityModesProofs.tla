------------------------ MODULE AvailabilityModesProofs ------------------------
(***************************************************************************)
(* Proofs about AvailabilityModes for every set of groups, days, answers   *)
(* and requests.  The invariant says that the row lock of the membership   *)
(* keeps the mode a request has read true until it commits.                *)
(***************************************************************************)
EXTENDS AvailabilityModes, TLAPS

\* The statements between the lock on the membership and the commit.
Writing(p, c) == p \in {"copy", "write", "save"} \/ (p = "load" /\ c.op = "set")

AskedOf(p, c) == /\ p # "idle" => c.group \in Groups /\ c.op \in {"set", "switch", "read"}
                 /\ p = "lock" => c.op \in {"set", "switch"} /\ c.loaded = Unanswered
                 /\ p = "load" => c.op \in {"set", "read"}
                 /\ p = "view" => c.op = "read"
                 /\ p = "write" => c.op = "set"
                 /\ p \in {"copy", "save"} => c.op = "switch"
                 /\ c.op = "set" => c.day \in Days

\* What was read under the lock is still true.
HeldOf(r, p, c) == Writing(p, c) => /\ memberLock[c.group] = r
                                    /\ c.mode = membership[c.group].mode

LocalOf(r, p, c) == AskedOf(p, c) /\ HeldOf(r, p, c) /\ (p # "idle" => reply[r] = NoReply)

LockInv == \A g \in Groups : memberLock[g] # NoRequest => membership[g].member

IInv == /\ TypeOK /\ LockInv /\ NoInheritedAnswers
        /\ \A r \in Requests : LocalOf(r, pc[r], call[r])

LEMMA Constants == /\ Blank \in Calendars /\ Unanswered \in Values
                   /\ NoCall \in Calls /\ NoReply \in Replies /\ NoRow \in Rows /\ Entered \in Rows
<1>1. Blank \in Calendars /\ Unanswered \in Values
  BY DEF Blank, Calendars, Values
<1> HIDE DEF Blank, Calendars, Values
<1> QED
  BY <1>1 DEF NoCall, Calls, Ops, Modes, NoReply, Replies, NoRow, Entered, Rows

LEMMA InitIInv == Init => IInv
<1> SUFFICES ASSUME Init PROVE IInv
  OBVIOUS
<1>1. TypeOK
  <2>1. Entered.member
    BY DEF Entered
  <2>2. \A g \in Groups : membership[g] \in Rows /\ (membership[g].member \/ membership[g] = NoRow)
    BY <2>1, Constants DEF Init
  <2>3. membership \in [Groups -> Rows]
    BY <2>2 DEF Init
  <2> QED
    BY <2>2, <2>3, Constants DEF Init, TypeOK, PCs
<1>2. \A r \in Requests : LocalOf(r, pc[r], call[r])
  BY DEF Init, LocalOf, AskedOf, HeldOf, Writing, NoCall
<1>3. LockInv /\ NoInheritedAnswers
  BY DEF Init, LockInv, NoInheritedAnswers, NoRow, Entered
<1> QED
  BY <1>1, <1>2, <1>3 DEF IInv

-----------------------------------------------------------------------------
(* A step of one request.                                                  *)

\* Locks change hands, and modes change under them, for the request only.
RequestStep(r, l, c, a) ==
    /\ pc' = [pc EXCEPT ![r] = l]
    /\ call' = [call EXCEPT ![r] = c]
    /\ reply' = [reply EXCEPT ![r] = a]
    /\ memberLock' \in [Groups -> Requests \union {NoRequest}]
    /\ \A g \in Groups : /\ memberLock'[g] \in {memberLock[g], r, NoRequest}
                         /\ memberLock'[g] # memberLock[g] => memberLock[g] \in {NoRequest, r}
                         /\ membership'[g] = membership[g] \/ memberLock[g] = r

LEMMA StepKeeps ==
  ASSUME IInv, NEW r \in Requests, NEW l \in PCs, NEW c \in Calls, NEW a \in Replies, RequestStep(r, l, c, a),
         membership' \in [Groups -> Rows], global' \in Calendars, own' \in [Groups -> Calendars],
         \A g \in Groups : membership'[g].member \/ membership'[g] = NoRow,
         LocalOf(r, l, c)', LockInv', NoInheritedAnswers'
  PROVE  IInv'
<1>1. /\ pc'[r] = l /\ call'[r] = c
      /\ pc' \in [Requests -> PCs] /\ call' \in [Requests -> Calls] /\ reply' \in [Requests -> Replies]
  BY DEF IInv, TypeOK, RequestStep
<1>2. TypeOK'
  BY <1>1 DEF TypeOK, RequestStep
<1>3. ASSUME NEW q \in Requests, q # r PROVE LocalOf(q, pc[q], call[q])'
  <2>1. pc'[q] = pc[q] /\ call'[q] = call[q] /\ reply'[q] = reply[q]
    BY <1>3 DEF IInv, TypeOK, RequestStep
  <2>2. LocalOf(q, pc[q], call[q]) /\ q # NoRequest
    BY SentinelAssumption DEF IInv
  <2>3. Writing(pc[q], call[q]) => call[q].group \in Groups
    BY <2>2 DEF LocalOf, AskedOf, Writing
  <2>4. HeldOf(q, pc[q], call[q])'
    BY <1>3, <2>1, <2>2, <2>3 DEF LocalOf, HeldOf, Writing, RequestStep
  <2> QED
    BY <2>1, <2>2, <2>4 DEF LocalOf, AskedOf
<1>4. \A q \in Requests : LocalOf(q, pc[q], call[q])'
  <2> TAKE q \in Requests
  <2>1. CASE q = r
    BY <2>1, <1>1
  <2> QED
    BY <2>1, <1>3
<1> QED
  BY <1>2, <1>4 DEF IInv

LEMMA Before ==
  ASSUME IInv, NEW r \in Requests
  PROVE  /\ pc \in [Requests -> PCs] /\ call \in [Requests -> Calls] /\ reply \in [Requests -> Replies]
         /\ call[r] \in Calls /\ reply[r] \in Replies
         /\ call = [call EXCEPT ![r] = call[r]] /\ reply = [reply EXCEPT ![r] = reply[r]]
         /\ LocalOf(r, pc[r], call[r])
         /\ membership \in [Groups -> Rows] /\ global \in Calendars /\ own \in [Groups -> Calendars]
         /\ memberLock \in [Groups -> Requests \union {NoRequest}]
         /\ \A g \in Groups : membership[g].member \/ membership[g] = NoRow
         /\ r # NoRequest
BY SentinelAssumption DEF IInv, TypeOK

\* A step that leaves tables and answers alone.
LEMMA MoveKeeps ==
  ASSUME IInv, NEW r \in Requests, NEW l \in PCs, NEW c \in Calls,
         pc' = [pc EXCEPT ![r] = l], call' = [call EXCEPT ![r] = c], UNCHANGED <<tables, memberLock, reply>>,
         LocalOf(r, l, c)
  PROVE  IInv'
<1>1. RequestStep(r, l, c, reply[r])
  BY Before DEF RequestStep, tables
<1>2. LocalOf(r, l, c)'
  BY DEF LocalOf, AskedOf, HeldOf, tables
<1>3. LockInv' /\ NoInheritedAnswers'
  BY DEF IInv, LockInv, NoInheritedAnswers, tables
<1>4. /\ membership' \in [Groups -> Rows] /\ global' \in Calendars /\ own' \in [Groups -> Calendars]
      /\ \A g \in Groups : membership'[g].member \/ membership'[g] = NoRow
  BY Before DEF tables
<1> QED
  BY <1>1, <1>2, <1>3, <1>4, Before, StepKeeps

\* The end of a request.
LEMMA FinishKeeps ==
  ASSUME IInv, NEW r \in Requests, NEW status \in {"ok", "failed"}, NEW view \in Calendars, Finish(r, status, view),
         membership' \in [Groups -> Rows], global' \in Calendars, own' \in [Groups -> Calendars],
         \A g \in Groups : /\ membership'[g].member <=> membership[g].member
                           /\ membership'[g].member \/ membership'[g] = NoRow
                           /\ membership'[g] = membership[g] \/ memberLock[g] = r,
         NoInheritedAnswers'
  PROVE  IInv'
<1> DEFINE a == [status |-> status, view |-> view]
<1>1. a \in Replies
  BY DEF Replies
<1>2. RequestStep(r, "idle", NoCall, a)
  BY Before DEF RequestStep, Finish, Goto
<1>3. LocalOf(r, "idle", NoCall)'
  BY DEF LocalOf, AskedOf, HeldOf, Writing, NoCall
<1>4. LockInv'
  BY Before DEF IInv, LockInv, Finish
<1>5. "idle" \in PCs
  BY DEF PCs
<1> HIDE DEF a
<1> QED
  BY <1>1, <1>2, <1>3, <1>4, <1>5, Constants, StepKeeps

LEMMA FailKeeps ==
  ASSUME IInv, NEW r \in Requests, NEW status \in {"ok", "failed"}, NEW view \in Calendars,
         Finish(r, status, view), UNCHANGED tables
  PROVE  IInv'
<1>1. NoInheritedAnswers'
  BY DEF IInv, NoInheritedAnswers, tables
<1> QED
  BY <1>1, Before, FinishKeeps DEF tables

-----------------------------------------------------------------------------
(* The requests.                                                           *)

LEMMA BeginKeeps ==
  ASSUME IInv, NEW r \in Requests, NEW g \in Groups,
         \/ ReadAvailability(r, g)
         \/ \E m \in Modes : UpdateAvailabilityMode(r, g, m)
         \/ \E d \in Days, v \in Values : UpdateAvailability(r, g, d, v)
  PROVE  IInv'
<1>1. PICK op \in {"set", "switch", "read"}, d \in Days \union {NoDay}, v \in Values, m \in Modes, l \in {"lock", "load"} :
        /\ Begin(r, op, g, d, v, m, l)
        /\ l = "load" <=> op = "read"
        /\ op = "set" => d \in Days
  BY Constants DEF ReadAvailability, UpdateAvailabilityMode, UpdateAvailability, Modes
<1>9. PICK mode \in Modes : mode = IF op = "read" THEN membership[g].mode ELSE NoCall.mode
  BY Before DEF Rows, NoCall, Modes
<1> DEFINE c == [NoCall EXCEPT !.op = op, !.group = g, !.day = d, !.value = v, !.to = m, !.mode = mode]
<1>2. c \in Calls
  BY Constants DEF Calls, Ops
<1>3. pc' = [pc EXCEPT ![r] = l] /\ call' = [call EXCEPT ![r] = c] /\ reply' = [reply EXCEPT ![r] = NoReply]
      /\ UNCHANGED <<tables, memberLock>>
  BY <1>1, <1>9 DEF Begin, Goto
<1>4. RequestStep(r, l, c, NoReply)
  BY <1>3, Before DEF RequestStep, tables
<1>5. c.op = op /\ c.group = g /\ c.day = d /\ c.loaded = Unanswered
  BY DEF NoCall
<1> HIDE DEF c
<1>6. LocalOf(r, l, c)'
  BY <1>1, <1>3, <1>5, Before DEF LocalOf, AskedOf, HeldOf, Writing
<1>7. LockInv' /\ NoInheritedAnswers'
  BY <1>3 DEF IInv, LockInv, NoInheritedAnswers, tables
<1>8. l \in PCs
  BY DEF PCs
<1> QED
  BY <1>2, <1>3, <1>4, <1>6, <1>7, <1>8, Before, Constants, StepKeeps DEF tables

LEMMA LockKeeps ==
  ASSUME IInv, NEW r \in Requests, LockMembership(r)
  PROVE  IInv'
<1> DEFINE g == call[r].group
<1>0. /\ LocalOf(r, pc[r], call[r]) /\ call[r] \in Calls /\ pc[r] = "lock"
      /\ membership \in [Groups -> Rows]
  BY Before DEF LockMembership
<1>1. /\ g \in Groups /\ call[r].op \in {"set", "switch"} /\ reply[r] = NoReply
      /\ call[r].op = "set" => call[r].day \in Days
  BY <1>0 DEF LocalOf, AskedOf
<1>2. CASE ~membership[g].member
  <2>1. Finish(r, "failed", Blank) /\ UNCHANGED tables
    BY <1>2 DEF LockMembership, Fail
  <2> QED
    BY <2>1, Constants, FailKeeps
<1>3. CASE membership[g].member
  <2>1. PICK mode \in Modes : mode = membership[g].mode
    BY <1>0, <1>1 DEF Rows
  <2> DEFINE e == [call[r] EXCEPT !.mode = mode]
             n == NextStatement(r, mode)
  <2>2. /\ memberLock' = [memberLock EXCEPT ![g] = r] /\ memberLock[g] = NoRequest
        /\ call' = [call EXCEPT ![r] = e] /\ pc' = [pc EXCEPT ![r] = n]
        /\ UNCHANGED <<tables, reply>>
    BY <1>3, <2>1 DEF LockMembership, Goto, Free
  <2>3. e \in Calls /\ e.mode = mode /\ e.group = g /\ e.op = call[r].op /\ e.day = call[r].day
    BY <1>0 DEF Calls
  <2>4. /\ n \in PCs /\ n # "lock" /\ n # "view"
        /\ n \in {"load", "write"} => call[r].op = "set"
        /\ n \in {"copy", "save"} => call[r].op = "switch"
    BY <1>1 DEF NextStatement, PCs
  <2> HIDE DEF e, n
  <2>5. PICK c \in Calls : c = e
    BY <2>3
  <2>6. PICK l \in PCs : l = n
    BY <2>4
  <2>7. RequestStep(r, l, c, reply[r])
    BY <1>1, <2>2, <2>5, <2>6, Before DEF RequestStep, tables
  <2>8. PICK h \in Groups : h = g
    BY <1>1
  <2>9. memberLock'[h] = r /\ membership'[h].mode = mode /\ c.group = h /\ c.mode = mode
    BY <1>1, <2>1, <2>2, <2>3, <2>5, <2>8, Before DEF tables
  <2>10. LocalOf(r, l, c)'
    <3>1. AskedOf(l, c)
      BY <1>1, <2>3, <2>4, <2>5, <2>6 DEF AskedOf
    <3>2. HeldOf(r, l, c)'
      BY <2>9 DEF HeldOf
    <3>3. reply'[r] = NoReply
      BY <1>1, <2>2
    <3> QED
      BY <3>1, <3>2, <3>3 DEF LocalOf, AskedOf
  <2>11. LockInv' /\ NoInheritedAnswers'
    BY <1>3, <2>2, Before DEF IInv, LockInv, NoInheritedAnswers, tables
  <2> QED
    BY <2>2, <2>7, <2>10, <2>11, Before, StepKeeps DEF tables
<1> QED
  BY <1>2, <1>3

LEMMA ReadingKeeps ==
  ASSUME IInv, NEW r \in Requests, LoadDay(r) \/ CopyGlobal(r) \/ ReadMode(r) \/ ShowCalendar(r)
  PROVE  IInv'
<1>0. /\ LocalOf(r, pc[r], call[r]) /\ call[r] \in Calls
      /\ membership \in [Groups -> Rows] /\ global \in Calendars /\ own \in [Groups -> Calendars]
  BY Before
<1>1. CASE LoadDay(r)
  <2> DEFINE v == IF call[r].mode = "global" THEN global[call[r].day] ELSE own[call[r].group][call[r].day]
             c == [call[r] EXCEPT !.loaded = v]
  <2>1. /\ pc' = [pc EXCEPT ![r] = "write"] /\ call' = [call EXCEPT ![r] = c] /\ UNCHANGED <<tables, memberLock, reply>>
        /\ pc[r] = "load" /\ call[r].op = "set"
    BY <1>1 DEF LoadDay, Goto
  <2>2. v \in Values
    BY <1>0, <2>1 DEF LocalOf, AskedOf, Calendars
  <2> HIDE DEF v
  <2>3. /\ c \in Calls /\ c.op = call[r].op /\ c.group = call[r].group /\ c.day = call[r].day /\ c.mode = call[r].mode
    BY <1>0, <2>2 DEF Calls
  <2> HIDE DEF c
  <2>4. LocalOf(r, "write", c)
    BY <1>0, <2>1, <2>3 DEF LocalOf, AskedOf, HeldOf, Writing
  <2> QED
    BY <2>1, <2>3, <2>4, MoveKeeps DEF PCs
<1>2. CASE CopyGlobal(r)
  <2> DEFINE c == [call[r] EXCEPT !.copy = global]
  <2>1. /\ pc' = [pc EXCEPT ![r] = "save"] /\ call' = [call EXCEPT ![r] = c] /\ UNCHANGED <<tables, memberLock, reply>>
        /\ pc[r] = "copy"
    BY <1>2 DEF CopyGlobal, Goto
  <2>2. /\ c \in Calls /\ c.op = call[r].op /\ c.group = call[r].group /\ c.day = call[r].day /\ c.mode = call[r].mode
    BY <1>0 DEF Calls
  <2> HIDE DEF c
  <2>3. LocalOf(r, "save", c)
    BY <1>0, <2>1, <2>2 DEF LocalOf, AskedOf, HeldOf, Writing
  <2> QED
    BY <2>1, <2>2, <2>3, MoveKeeps DEF PCs
<1>3. CASE ReadMode(r) /\ membership[call[r].group].member
  <2>2. /\ call[r].mode \in Modes /\ membership[call[r].group].mode \in Modes
        /\ pc[r] = "load" /\ call[r].op = "read"
    BY <1>0, <1>3 DEF ReadMode, LocalOf, AskedOf, Rows, Calls
  <2>5. PICK m \in Modes : /\ call' = [call EXCEPT ![r].mode = m]
                           /\ pc' = [pc EXCEPT ![r] = "view"] /\ UNCHANGED <<tables, memberLock, reply>>
    BY <1>3, <2>2 DEF ReadMode, Goto
  <2> DEFINE c == [call[r] EXCEPT !.mode = m]
  <2>1. /\ pc' = [pc EXCEPT ![r] = "view"] /\ call' = [call EXCEPT ![r] = c] /\ UNCHANGED <<tables, memberLock, reply>>
        /\ pc[r] = "load" /\ call[r].op = "read"
    BY <2>2, <2>5
  <2>3. /\ c \in Calls /\ c.op = call[r].op /\ c.group = call[r].group
    BY <1>0, <2>2 DEF Calls
  <2> HIDE DEF c
  <2>4. LocalOf(r, "view", c)
    BY <1>0, <2>1, <2>3 DEF LocalOf, AskedOf, HeldOf, Writing
  <2> QED
    BY <2>1, <2>3, <2>4, MoveKeeps DEF PCs
<1>4. CASE ReadMode(r) /\ ~membership[call[r].group].member
  BY <1>4, Constants, FailKeeps DEF ReadMode
<1>5. CASE ShowCalendar(r)
  <2>1. call[r].group \in Groups
    BY <1>0, <1>5 DEF ShowCalendar, LocalOf, AskedOf
  <2>2. Shown(r) \in Calendars
    BY <1>0, <2>1 DEF Shown
  <2> QED
    BY <1>5, <2>2, FailKeeps DEF ShowCalendar
<1> QED
  BY <1>1, <1>2, <1>3, <1>4, <1>5

\* The day in the calendar a request is about to write.
Standing(r) == IF call[r].mode = "global" THEN global[call[r].day] ELSE own[call[r].group][call[r].day]

\* An answer goes to the calendar of the mode that was read, which is the
\* mode of the membership still.
LEMMA WriteFacts ==
  ASSUME IInv, NEW r \in Requests, WriteDay(r), ~Fail(r)
  PROVE  /\ call[r].group \in Groups /\ call[r].day \in Days
         /\ call[r].mode = membership[call[r].group].mode /\ memberLock[call[r].group] = r
         /\ Written(r, Standing(r)) \in Values
         /\ call[r].mode = "global" =>
               global' = [global EXCEPT ![call[r].day] = Written(r, Standing(r))] /\ UNCHANGED own
         /\ call[r].mode # "global" =>
               /\ own' = [own EXCEPT ![call[r].group] =
                              [own[call[r].group] EXCEPT ![call[r].day] = Written(r, Standing(r))]]
               /\ UNCHANGED global
         /\ Finish(r, "ok", Blank) /\ UNCHANGED membership
<1>0. /\ LocalOf(r, pc[r], call[r]) /\ call[r] \in Calls /\ pc[r] = "write"
      /\ global \in Calendars /\ own \in [Groups -> Calendars]
  BY Before DEF WriteDay
<1>1. call[r].group \in Groups /\ call[r].day \in Days /\ call[r].mode = membership[call[r].group].mode
      /\ memberLock[call[r].group] = r
  BY <1>0 DEF LocalOf, AskedOf, HeldOf, Writing
<1>2. Standing(r) \in Values /\ call[r].value \in Values
  BY <1>0, <1>1 DEF Calendars, Calls, Standing
<1>3. Written(r, Standing(r)) \in Values
  BY <1>2 DEF Written
<1>4. /\ IF call[r].mode = "global"
         THEN global' = [global EXCEPT ![call[r].day] = Written(r, Standing(r))] /\ UNCHANGED own
         ELSE own' = [own EXCEPT ![call[r].group] =
                          [own[call[r].group] EXCEPT ![call[r].day] = Written(r, Standing(r))]]
              /\ UNCHANGED global
      /\ Finish(r, "ok", Blank) /\ UNCHANGED membership
  BY DEF WriteDay, Standing
<1> QED
  BY <1>1, <1>3, <1>4

LEMMA WriteKeeps ==
  ASSUME IInv, NEW r \in Requests, WriteDay(r)
  PROVE  IInv'
<1>0. global \in Calendars /\ own \in [Groups -> Calendars] /\ membership \in [Groups -> Rows]
  BY Before
<1>1. CASE Fail(r)
  BY <1>1, Constants, FailKeeps DEF Fail
<1>2. CASE ~Fail(r)
  <2>1. PICK g \in Groups, d \in Days, v \in Values : g = call[r].group /\ d = call[r].day /\ v = Written(r, Standing(r))
    BY <1>2, WriteFacts
  <2>2. /\ \/ global' = [global EXCEPT ![d] = v] /\ UNCHANGED own
           \/ /\ own' = [own EXCEPT ![g] = [own[g] EXCEPT ![d] = v]] /\ UNCHANGED global
              /\ membership[g].mode # "global"
        /\ Finish(r, "ok", Blank) /\ UNCHANGED membership
    BY <1>2, <2>1, WriteFacts
  <2>3. own[g] \in Calendars /\ [own[g] EXCEPT ![d] = v] \in Calendars
    BY <1>0 DEF Calendars
  <2>4. global' \in Calendars
    BY <1>0, <2>2 DEF Calendars
  <2>5. own' \in [Groups -> Calendars]
    BY <1>0, <2>2, <2>3
  <2>6. \A h \in Groups : own'[h] # own[h] => h = g /\ membership[g].mode = "separate"
    BY <1>0, <2>2 DEF Rows, Modes
  <2>7. NoInheritedAnswers'
    BY <2>2, <2>6 DEF IInv, NoInheritedAnswers
  <2> QED
    BY <2>2, <2>4, <2>5, <2>7, Before, Constants, FinishKeeps
<1> QED
  BY <1>1, <1>2

LEMMA SaveKeeps ==
  ASSUME IInv, NEW r \in Requests, SaveMode(r)
  PROVE  IInv'
<1> DEFINE g == call[r].group
<1>0. /\ LocalOf(r, pc[r], call[r]) /\ call[r] \in Calls /\ pc[r] = "save"
      /\ membership \in [Groups -> Rows] /\ global \in Calendars /\ own \in [Groups -> Calendars]
  BY Before DEF SaveMode
<1>1. g \in Groups /\ memberLock[g] = r /\ membership[g].member
  BY <1>0, SentinelAssumption DEF LocalOf, AskedOf, HeldOf, Writing, IInv, LockInv
<1> DEFINE row == [membership[g] EXCEPT !.mode = call[r].to, !.initialized = @ \/ First(r)]
<1>2. membership' = [membership EXCEPT ![g] = row]
  BY DEF SaveMode
<1>3. /\ row \in Rows /\ row.member /\ row.mode = call[r].to
      /\ row.initialized <=> membership[g].initialized \/ First(r)
  BY <1>0, <1>1 DEF Rows, Calls, First
<1>4. own' = IF First(r) THEN [own EXCEPT ![g] = call[r].copy] ELSE own
  BY DEF SaveMode
<1> HIDE DEF row
<1>5. membership' \in [Groups -> Rows] /\ own' \in [Groups -> Calendars]
  BY <1>0, <1>1, <1>2, <1>3, <1>4 DEF Calls
<1>6. NoInheritedAnswers'
  <2>1. ASSUME NEW h \in Groups, h # g PROVE own'[h] = own[h] /\ membership'[h] = membership[h]
    BY <1>0, <1>1, <1>2, <1>4, <2>1
  <2>2. membership'[g] = row /\ (~First(r) => own'[g] = own[g])
    BY <1>0, <1>1, <1>2, <1>4
  <2>3. call[r].to \in Modes
    BY <1>0 DEF Calls
  <2> QED
    BY <1>3, <2>1, <2>2, <2>3 DEF IInv, NoInheritedAnswers, First, Modes
<1>7. Finish(r, "ok", Blank) /\ UNCHANGED global
  BY DEF SaveMode
<1>8. \A h \in Groups : /\ membership'[h].member <=> membership[h].member
                        /\ membership'[h].member \/ membership'[h] = NoRow
                        /\ membership'[h] = membership[h] \/ memberLock[h] = r
  BY <1>0, <1>1, <1>2, <1>3, Before
<1> QED
  BY <1>0, <1>5, <1>6, <1>7, <1>8, Constants, FinishKeeps

-----------------------------------------------------------------------------
(* Memberships come and go.                                                *)

\* A step that no request takes: it leaves every locked row alone.
LEMMA WorldKeeps ==
  ASSUME IInv, UNCHANGED <<memberLock, pc, call, reply>>,
         membership' \in [Groups -> Rows], global' \in Calendars, own' \in [Groups -> Calendars],
         \A g \in Groups : /\ membership'[g].member \/ membership'[g] = NoRow
                           /\ memberLock[g] # NoRequest => membership'[g] = membership[g]
                           /\ membership'[g] = membership[g] \/ (membership'[g] \in {NoRow, Entered} /\ own'[g] = Blank)
                           /\ own'[g] = own[g] \/ own'[g] = Blank
  PROVE  IInv'
<1>1. TypeOK'
  BY DEF IInv, TypeOK
<1>2. LockInv'
  BY DEF IInv, LockInv
<1>3. NoInheritedAnswers'
  BY DEF IInv, NoInheritedAnswers, NoRow, Entered
<1>4. ASSUME NEW r \in Requests PROVE LocalOf(r, pc[r], call[r])'
  <2>1. LocalOf(r, pc[r], call[r]) /\ r # NoRequest
    BY Before
  <2>2. Writing(pc[r], call[r]) => call[r].group \in Groups
    BY <2>1 DEF LocalOf, AskedOf, Writing
  <2> QED
    BY <2>1, <2>2 DEF LocalOf, AskedOf, HeldOf, Writing
<1> QED
  BY <1>1, <1>2, <1>3, <1>4 DEF IInv

LEMMA MembershipsKeep ==
  ASSUME IInv, EraseAccount \/ \E g \in Groups : JoinGroup(g) \/ LeaveGroup(g)
  PROVE  IInv'
<1>0. /\ membership \in [Groups -> Rows] /\ global \in Calendars /\ own \in [Groups -> Calendars]
      /\ \A g \in Groups : membership[g].member \/ membership[g] = NoRow
  BY DEF IInv, TypeOK
<1>1. CASE EraseAccount
  BY <1>1, Constants, WorldKeeps DEF EraseAccount, Free
<1>2. ASSUME NEW g \in Groups, JoinGroup(g) PROVE IInv'
  <2>1. own[g] = Blank
    BY <1>0, <1>2 DEF IInv, NoInheritedAnswers, JoinGroup, NoRow
  <2>2. memberLock[g] = NoRequest
    BY <1>2 DEF IInv, LockInv, JoinGroup
  <2>3. Entered.member
    BY DEF Entered
  <2>4. membership' = [membership EXCEPT ![g] = Entered] /\ UNCHANGED <<global, own, memberLock, pc, call, reply>>
    BY <1>2 DEF JoinGroup
  <2>5. membership' \in [Groups -> Rows]
    BY <1>0, <2>4, Constants
  <2>6. \A h \in Groups : h # g => membership'[h] = membership[h]
    BY <1>0, <2>4
  <2>7. membership'[g] = Entered
    BY <1>0, <2>4
  <2>8. \A h \in Groups : /\ membership'[h].member \/ membership'[h] = NoRow
                          /\ memberLock[h] # NoRequest => membership'[h] = membership[h]
                          /\ membership'[h] = membership[h] \/ (membership'[h] \in {NoRow, Entered} /\ own'[h] = Blank)
                          /\ own'[h] = own[h] \/ own'[h] = Blank
    BY <1>0, <2>1, <2>2, <2>3, <2>4, <2>6, <2>7
  <2> QED
    BY <1>0, <2>4, <2>5, <2>8, WorldKeeps
<1>3. ASSUME NEW g \in Groups, LeaveGroup(g) PROVE IInv'
  <2>1. /\ membership' = [membership EXCEPT ![g] = NoRow] /\ own' = [own EXCEPT ![g] = Blank]
        /\ UNCHANGED <<global, memberLock, pc, call, reply>> /\ memberLock[g] = NoRequest
    BY <1>3 DEF LeaveGroup, Free
  <2>2. membership' \in [Groups -> Rows] /\ own' \in [Groups -> Calendars]
    BY <1>0, <2>1, Constants
  <2>3. \A h \in Groups : h # g => membership'[h] = membership[h] /\ own'[h] = own[h]
    BY <1>0, <2>1
  <2>4. membership'[g] = NoRow /\ own'[g] = Blank
    BY <1>0, <2>1
  <2>5. \A h \in Groups : /\ membership'[h].member \/ membership'[h] = NoRow
                          /\ memberLock[h] # NoRequest => membership'[h] = membership[h]
                          /\ membership'[h] = membership[h] \/ (membership'[h] \in {NoRow, Entered} /\ own'[h] = Blank)
                          /\ own'[h] = own[h] \/ own'[h] = Blank
    BY <1>0, <2>1, <2>3, <2>4
  <2> QED
    BY <1>0, <2>1, <2>2, <2>5, WorldKeeps
<1> QED
  BY <1>1, <1>2, <1>3

LEMMA NextKeeps == IInv /\ [Next]_vars => IInv'
<1> SUFFICES ASSUME IInv, [Next]_vars PROVE IInv'
  OBVIOUS
<1>1. CASE UNCHANGED vars
  BY <1>1 DEF vars, IInv, TypeOK, LockInv, NoInheritedAnswers, LocalOf, AskedOf, HeldOf, Writing
<1>2. CASE EraseAccount \/ \E g \in Groups : JoinGroup(g) \/ LeaveGroup(g)
  BY <1>2, MembershipsKeep
<1>3. ASSUME NEW r \in Requests, Step(r) PROVE IInv'
  BY <1>3, LockKeeps, ReadingKeeps, WriteKeeps, SaveKeeps DEF Step
<1>4. ASSUME NEW r \in Requests, NEW g \in Groups,
             \/ ReadAvailability(r, g)
             \/ \E m \in Modes : UpdateAvailabilityMode(r, g, m)
             \/ \E d \in Days, v \in Values : UpdateAvailability(r, g, d, v)
      PROVE  IInv'
  BY <1>4, BeginKeeps
<1> QED
  BY <1>1, <1>2, <1>3, <1>4 DEF Next

LEMMA Invariance == Spec => []IInv
BY InitIInv, NextKeeps, PTL DEF Spec

-----------------------------------------------------------------------------
(* The history of the reads.                                               *)

LEMMA StepsWatch == [Next]_vars => Watch \/ UNCHANGED vars
BY DEF Next, EraseAccount, JoinGroup, LeaveGroup, Step, LockMembership, LoadDay, WriteDay, CopyGlobal, SaveMode,
       ReadMode, ShowCalendar, ReadAvailability, UpdateAvailabilityMode, UpdateAvailability, Begin

LEMMA HistoryKeeps ==
  ASSUME IInv, HistoryOK, [Next]_vars
  PROVE  HistoryOK'
<1>1. IInv'
  BY NextKeeps
<1>2. CASE UNCHANGED vars
  BY <1>2 DEF vars, HistoryOK
<1>3. CASE Watch
  <2>1. ASSUME NEW r \in Requests, NEW d \in Days, Reading(r)' PROVE Displayed(call[r].group)'[d] \in Values
    <3>1. global' \in Calendars /\ own' \in [Groups -> Calendars] /\ LocalOf(r, pc[r], call[r])'
      BY <1>1 DEF IInv, TypeOK
    <3>2. call'[r].group \in Groups
      BY <2>1, <3>1 DEF Reading, LocalOf, AskedOf
    <3> QED
      BY <3>1, <3>2, Constants DEF Displayed, Effective, Calendars
  <2>2. ASSUME NEW r \in Requests, NEW d \in Days
        PROVE  (IF Reading(r)' THEN shown[r][d] \union {Displayed(call[r].group)'[d]} ELSE {}) \in SUBSET Values
    BY <2>1 DEF HistoryOK
  <2> QED
    BY <1>3, <2>2 DEF Watch, HistoryOK
<1> QED
  BY <1>2, <1>3, StepsWatch

LEMMA HistoryTyped == Spec => []HistoryOK
<1>1. Init => HistoryOK
  BY DEF Init, HistoryOK
<1> QED
  BY <1>1, HistoryKeeps, Invariance, PTL DEF Spec

\* Every row and lock is of its kind, and a group entered anew starts with
\* the global calendar, whatever was answered in an earlier membership.
THEOREM FreshStart == Spec => []WellFormed
<1>1. IInv /\ HistoryOK => WellFormed
  BY DEF IInv, WellFormed
<1> QED
  BY <1>1, Invariance, HistoryTyped, PTL

-----------------------------------------------------------------------------
(* Answers and replies belong to the steps of the request that asked.      *)

\* The statements that do not touch a calendar, of r or of another request.
LEMMA Quiet ==
  ASSUME IInv, [Next]_vars,
         ~ \E q \in Requests : WriteDay(q) /\ ~Fail(q)
  PROVE  \A g \in Groups : own'[g] # own[g] =>
            \/ ~membership'[g].member
            \/ ~membership[g].initialized /\ membership'[g].initialized /\ membership'[g].mode = "separate"
<1> SUFFICES ASSUME NEW g \in Groups, own'[g] # own[g]
             PROVE  \/ ~membership'[g].member
                    \/ ~membership[g].initialized /\ membership'[g].initialized /\ membership'[g].mode = "separate"
  OBVIOUS
<1>0. membership \in [Groups -> Rows] /\ own \in [Groups -> Calendars]
  BY DEF IInv, TypeOK
<1>1. CASE EraseAccount
  BY <1>1 DEF EraseAccount, NoRow
<1>2. ASSUME NEW h \in Groups, JoinGroup(h) \/ LeaveGroup(h) PROVE ~membership'[g].member
  BY <1>0, <1>2 DEF JoinGroup, LeaveGroup, NoRow
<1>3. ASSUME NEW r \in Requests, SaveMode(r)
      PROVE  ~membership[g].initialized /\ membership'[g].initialized /\ membership'[g].mode = "separate"
  <2>1. g = call[r].group /\ First(r)
    BY <1>0, <1>3 DEF SaveMode
  <2> QED
    BY <1>0, <1>3, <2>1 DEF SaveMode, First, Rows
<1>4. ASSUME NEW r \in Requests, Step(r), ~SaveMode(r) PROVE FALSE
  BY <1>4 DEF Step, LockMembership, LoadDay, WriteDay, CopyGlobal, ReadMode, ShowCalendar, Fail, tables
<1>5. ASSUME NEW r \in Requests, NEW h \in Groups,
             \/ ReadAvailability(r, h)
             \/ \E m \in Modes : UpdateAvailabilityMode(r, h, m)
             \/ \E d \in Days, v \in Values : UpdateAvailability(r, h, d, v)
      PROVE  FALSE
  BY <1>5 DEF ReadAvailability, UpdateAvailabilityMode, UpdateAvailability, Begin, tables
<1>6. CASE UNCHANGED vars
  BY <1>6 DEF vars
<1> QED
  BY <1>1, <1>2, <1>3, <1>4, <1>5, <1>6 DEF Next

LEMMA WhoSteps ==
  ASSUME IInv, [Next]_vars, NEW r \in Requests, pc[r] \in {"write", "view"}
  PROVE  WriteDay(r) \/ ShowCalendar(r) \/ (pc'[r] = pc[r] /\ reply'[r] = reply[r])
<1>0. pc \in [Requests -> PCs] /\ reply \in [Requests -> Replies]
  BY Before
<1>1. CASE UNCHANGED <<pc, reply>>
  BY <1>1
<1>2. ASSUME NEW q \in Requests, q # r,
             \/ Step(q)
             \/ \E g \in Groups : \/ ReadAvailability(q, g)
                                  \/ \E m \in Modes : UpdateAvailabilityMode(q, g, m)
                                  \/ \E d \in Days, v \in Values : UpdateAvailability(q, g, d, v)
      PROVE  pc'[r] = pc[r] /\ reply'[r] = reply[r]
  <2>1. CASE Step(q)
    BY <1>0, <1>2, <2>1 DEF Step, LockMembership, LoadDay, WriteDay, CopyGlobal, SaveMode, ReadMode, ShowCalendar,
                            Fail, Finish, Goto
  <2>2. CASE ~Step(q)
    BY <1>0, <1>2, <2>2 DEF ReadAvailability, UpdateAvailabilityMode, UpdateAvailability, Begin, Goto
  <2> QED
    BY <2>1, <2>2
<1>3. ASSUME Step(r) PROVE WriteDay(r) \/ ShowCalendar(r)
  BY <1>3 DEF Step, LockMembership, LoadDay, CopyGlobal, SaveMode, ReadMode
<1>4. ASSUME NEW g \in Groups,
             \/ ReadAvailability(r, g)
             \/ \E m \in Modes : UpdateAvailabilityMode(r, g, m)
             \/ \E d \in Days, v \in Values : UpdateAvailability(r, g, d, v)
      PROVE  FALSE
  BY <1>4 DEF ReadAvailability, UpdateAvailabilityMode, UpdateAvailability, Begin
<1>5. CASE EraseAccount \/ \E g \in Groups : JoinGroup(g) \/ LeaveGroup(g)
  BY <1>5, <1>1 DEF EraseAccount, JoinGroup, LeaveGroup
<1>6. CASE UNCHANGED vars
  BY <1>6, <1>1 DEF vars
<1> QED
  BY <1>2, <1>3, <1>4, <1>5, <1>6 DEF Next

LEMMA SavedByWrite ==
  ASSUME IInv, [Next]_vars, NEW r \in Requests, Saves(r)
  PROVE  WriteDay(r) /\ ~Fail(r)
<1>1. reply[r] = NoReply /\ reply \in [Requests -> Replies]
  BY Before DEF Saves, LocalOf
<1>2. ~ShowCalendar(r)
  BY DEF ShowCalendar, Saves
<1>3. WriteDay(r)
  BY <1>1, <1>2, WhoSteps DEF Saves, NoReply
<1>4. ~Fail(r)
  BY <1>1 DEF Fail, Finish, Saves
<1> QED
  BY <1>3, <1>4

LEMMA SaveShows ==
  ASSUME IInv, [Next]_vars, NEW r \in Requests, NEW g \in Groups, NEW d \in Days,
         Saves(r), call[r].group = g, call[r].day = d, call[r].loaded # call[r].value
  PROVE  Effective(g)'[d] = call[r].value
<1>1. Written(r, Standing(r)) = call[r].value
  BY DEF Written
<1>2. /\ global \in Calendars /\ own \in [Groups -> Calendars] /\ membership' = membership
      /\ call[r].mode = membership[g].mode
      /\ call[r].mode = "global" => global' = [global EXCEPT ![d] = call[r].value]
      /\ call[r].mode # "global" => own' = [own EXCEPT ![g] = [own[g] EXCEPT ![d] = call[r].value]]
  <2>1. WriteDay(r) /\ ~Fail(r)
    BY SavedByWrite
  <2>2. global \in Calendars /\ own \in [Groups -> Calendars]
    BY Before
  <2> QED
    BY <1>1, <2>1, <2>2, WriteFacts
<1>3. own[g] \in Calendars
  BY <1>2
<1>4. CASE membership[g].mode = "global"
  BY <1>2, <1>4 DEF Effective, Calendars
<1>5. CASE membership[g].mode # "global"
  BY <1>2, <1>3, <1>5 DEF Effective, Calendars
<1> QED
  BY <1>4, <1>5

\* An answer the member saved is shown by the group it was given in: the lock
\* on the membership row keeps the choice of the calendar right until the
\* commit.
THEOREM AnswersAreShown == Spec => SavedIsShown
<1>1. IInv /\ [Next]_vars =>
        [\A r \in Requests : \A g \in Groups, d \in Days :
            Saves(r) /\ call[r].group = g /\ call[r].day = d /\ call[r].loaded # call[r].value
               => Effective(g)'[d] = call[r].value]_vars
  BY SaveShows
<1> QED
  BY <1>1, Invariance, PTL DEF Spec, SavedIsShown

LEMMA WriteIsLocal ==
  ASSUME IInv, NEW r \in Requests, WriteDay(r), ~Fail(r), NEW g \in Groups, own'[g] # own[g]
  PROVE  /\ Saves(r) /\ call[r].group = g /\ membership[g].mode = "separate"
         /\ own'[g] = [own[g] EXCEPT ![call[r].day] = call[r].value]
<1>1. PICK h \in Groups, d \in Days, v \in Values : h = call[r].group /\ d = call[r].day /\ v = Written(r, Standing(r))
  BY WriteFacts
<1>2. /\ own \in [Groups -> Calendars] /\ membership \in [Groups -> Rows] /\ reply \in [Requests -> Replies]
      /\ membership[h].mode # "global" /\ own' = [own EXCEPT ![h] = [own[h] EXCEPT ![d] = v]]
      /\ call[r].mode # "global" /\ Finish(r, "ok", Blank)
  BY <1>1, WriteFacts, Before
<1>3. g = h
  BY <1>2
<1>4. own'[g] = [own[g] EXCEPT ![d] = v]
  BY <1>2, <1>3
<1>5. v = call[r].value \/ v = own[g][d]
  BY <1>1, <1>2, <1>3 DEF Written, Standing
<1>6. own[g] \in Calendars
  BY <1>2
<1>7. v = call[r].value
  <2>1. v = own[g][d] => own'[g] = own[g]
    BY <1>4, <1>6 DEF Calendars
  <2> QED
    BY <1>5, <2>1
<1>8. Saves(r)
  BY <1>2 DEF Saves, WriteDay, Finish
<1> QED
  BY <1>1, <1>2, <1>3, <1>4, <1>7, <1>8 DEF Rows, Modes

LEMMA OwnKept ==
  ASSUME IInv, [Next]_vars, NEW g \in Groups, own'[g] # own[g]
  PROVE  \/ ~membership'[g].member
         \/ ~membership[g].initialized /\ membership'[g].initialized
         \/ \E r \in Requests : /\ Saves(r) /\ call[r].group = g
                                /\ membership[g].mode = "separate"
                                /\ own'[g] = [own[g] EXCEPT ![call[r].day] = call[r].value]
<1>1. CASE \E r \in Requests : WriteDay(r) /\ ~Fail(r)
  BY <1>1, WriteIsLocal
<1> QED
  BY <1>1, Quiet

\* A group's own calendar is filled once and from then on changes only where
\* the member answers in that group, for any number of groups and requests.
THEOREM OwnCalendarsStay == Spec => OwnCalendarIsKept
<1>1. IInv /\ [Next]_vars =>
        [\A g \in Groups : own'[g] # own[g] =>
            \/ ~membership'[g].member
            \/ ~membership[g].initialized /\ membership'[g].initialized
            \/ \E r \in Requests : /\ Saves(r) /\ call[r].group = g
                                   /\ membership[g].mode = "separate"
                                   /\ own'[g] = [own[g] EXCEPT ![call[r].day] = call[r].value]]_vars
  BY OwnKept
<1> QED
  BY <1>1, Invariance, PTL DEF Spec, OwnCalendarIsKept

-----------------------------------------------------------------------------
(* Views.                                                                  *)

\* What the group shows has been noted, and a read that follows the mode
\* Separate has a calendar that the group has shown throughout its changes.
SeenOf(r) == Reading(r) => \A d \in Days :
                 /\ Displayed(call[r].group)[d] \in shown[r][d]
                 /\ call[r].mode = "separate" => own[call[r].group][d] \in shown[r][d]

SeenInv == \A r \in Requests : SeenOf(r)

\* A group's own calendar changes only while the group shows it, or with the
\* end of the membership.
LEMMA ChangesAreDisplayed ==
  ASSUME IInv, [Next]_vars, NEW g \in Groups, own'[g] # own[g]
  PROVE  Displayed(g)' = own'[g]
<1>0. /\ IInv' /\ membership \in [Groups -> Rows] /\ own \in [Groups -> Calendars]
      /\ membership' \in [Groups -> Rows]
  BY NextKeeps DEF IInv, TypeOK
<1>1. CASE ~membership'[g].member
  <2>1. membership'[g] = NoRow
    BY <1>0, <1>1 DEF IInv, TypeOK
  <2>2. own'[g] = Blank
    BY <1>0, <2>1 DEF IInv, NoInheritedAnswers, NoRow
  <2> QED
    BY <1>1, <2>2 DEF Displayed
<1>2. CASE ~membership[g].initialized /\ membership'[g].initialized /\ membership'[g].mode = "separate"
  BY <1>2, <1>0 DEF Displayed, Effective, IInv, TypeOK, NoRow
<1>3. ASSUME NEW r \in Requests, WriteDay(r), ~Fail(r) PROVE Displayed(g)' = own'[g]
  <2>1. membership' = membership /\ membership[g].mode = "separate"
    BY <1>3, WriteIsLocal, WriteFacts
  <2>2. membership[g] # NoRow
    BY <2>1 DEF NoRow
  <2> QED
    BY <1>0, <2>1, <2>2 DEF Displayed, Effective, IInv, TypeOK
<1> QED
  BY <1>1, <1>2, <1>3, Quiet

\* A read is left alone, begins, or takes its mode over.
LEMMA HowReadsGo ==
  ASSUME IInv, [Next]_vars, NEW r \in Requests, Reading(r)'
  PROVE  \/ Reading(r) /\ call'[r] = call[r]
         \/ /\ Reading(r) /\ call'[r].group = call[r].group
            /\ call'[r].mode = call[r].mode \/ call'[r].mode = membership'[call[r].group].mode
            /\ membership'[call[r].group].member
         \/ /\ call'[r].mode = membership'[call'[r].group].mode
            /\ membership'[call'[r].group].member
<1>0. /\ pc \in [Requests -> PCs] /\ call \in [Requests -> Calls] /\ call[r] \in Calls
      /\ LocalOf(r, pc[r], call[r])
  BY Before
<1>1. CASE UNCHANGED <<pc, call>>
  BY <1>1 DEF Reading
<1>2. ASSUME NEW q \in Requests, q # r,
             \/ Step(q)
             \/ \E g \in Groups : \/ ReadAvailability(q, g)
                                  \/ \E m \in Modes : UpdateAvailabilityMode(q, g, m)
                                  \/ \E d \in Days, v \in Values : UpdateAvailability(q, g, d, v)
      PROVE  Reading(r) /\ call'[r] = call[r]
  <2>1. pc'[r] = pc[r] /\ call'[r] = call[r]
    <3>1. CASE Step(q)
      BY <1>0, <1>2, <3>1 DEF Step, LockMembership, LoadDay, WriteDay, CopyGlobal, SaveMode, ReadMode, ShowCalendar,
                              Fail, Finish, Goto
    <3>2. CASE ~Step(q)
      BY <1>0, <1>2, <3>2 DEF ReadAvailability, UpdateAvailabilityMode, UpdateAvailability, Begin, Goto
    <3> QED
      BY <3>1, <3>2
  <2> QED
    BY <2>1 DEF Reading
<1>3. CASE ReadMode(r)
  <2>1. pc[r] = "load" /\ call[r].op = "read" /\ UNCHANGED membership
    BY <1>3 DEF ReadMode, tables
  <2>2. membership[call[r].group].member
    BY <1>0, <1>3 DEF ReadMode, Finish, Goto, Reading
  <2>3. PICK m \in {call[r].mode, membership[call[r].group].mode} : call' = [call EXCEPT ![r].mode = m]
    BY <1>3, <2>2 DEF ReadMode
  <2>4. call'[r].group = call[r].group /\ call'[r].mode = m
    BY <1>0, <2>3 DEF Calls
  <2> QED
    BY <2>1, <2>2, <2>3, <2>4 DEF Reading
<1>4. CASE LockMembership(r) \/ LoadDay(r) \/ CopyGlobal(r)
  <2>1. /\ call'[r].op = call[r].op
        /\ call[r].op # "read"
    BY <1>0, <1>4 DEF LockMembership, LoadDay, CopyGlobal, LocalOf, AskedOf, Fail, Finish, Goto, Calls, NoCall,
                      Reading
  <2> QED
    BY <2>1 DEF Reading
<1>5. CASE WriteDay(r) \/ SaveMode(r) \/ ShowCalendar(r)
  <2>1. pc'[r] = "idle"
    BY <1>0, <1>5 DEF WriteDay, SaveMode, ShowCalendar, Fail, Finish, Goto
  <2> QED
    BY <2>1 DEF Reading
<1>6. ASSUME NEW g \in Groups, \/ ReadAvailability(r, g)
                               \/ \E m \in Modes : UpdateAvailabilityMode(r, g, m)
                               \/ \E d \in Days, v \in Values : UpdateAvailability(r, g, d, v)
      PROVE  call'[r].mode = membership'[call'[r].group].mode /\ membership'[call'[r].group].member
  <2>1. CASE ReadAvailability(r, g)
    <3>1. /\ UNCHANGED membership /\ membership[g].member
          /\ call' = [call EXCEPT ![r] = [NoCall EXCEPT !.op = "read", !.group = g, !.day = NoDay,
                                             !.value = Unanswered, !.to = "global", !.mode = membership[g].mode]]
      BY <2>1 DEF ReadAvailability, Begin, tables
    <3>2. call'[r].group = g /\ call'[r].mode = membership[g].mode
      BY <1>0, <3>1 DEF NoCall
    <3> QED
      BY <3>1, <3>2
  <2>2. CASE ~ReadAvailability(r, g)
    <3>1. pc'[r] = "lock"
      BY <1>0, <1>6, <2>2 DEF UpdateAvailabilityMode, UpdateAvailability, Begin, Goto
    <3> QED
      BY <3>1 DEF Reading
  <2> QED
    BY <2>1, <2>2
<1>7. CASE EraseAccount \/ \E g \in Groups : JoinGroup(g) \/ LeaveGroup(g)
  BY <1>7, <1>1 DEF EraseAccount, JoinGroup, LeaveGroup
<1>8. CASE UNCHANGED vars
  BY <1>8, <1>1 DEF vars
<1> QED
  BY <1>2, <1>3, <1>4, <1>5, <1>6, <1>7, <1>8 DEF Next, Step

LEMMA SeenKeeps ==
  ASSUME IInv, SeenInv, [Next]_vars
  PROVE  SeenInv'
<1>1. CASE UNCHANGED vars
  BY <1>1 DEF vars, SeenInv, SeenOf, Reading, Displayed, Effective
<1>2. CASE Watch
  <2> SUFFICES ASSUME NEW r \in Requests, Reading(r)', NEW d \in Days
               PROVE  /\ Displayed(call[r].group)'[d] \in shown'[r][d]
                      /\ call'[r].mode = "separate" => own'[call'[r].group][d] \in shown'[r][d]
    BY DEF SeenInv, SeenOf
  <2>1. shown'[r][d] = shown[r][d] \union {Displayed(call[r].group)'[d]}
    BY <1>2 DEF Watch
  <2>2. PICK g \in Groups : g = call'[r].group
    BY NextKeeps DEF IInv, LocalOf, AskedOf, Reading
  <2>3. ASSUME call'[r].mode = "separate" PROVE own'[g][d] \in shown'[r][d]
    <3>1. CASE own'[g] # own[g]
      BY <2>1, <2>2, <3>1, ChangesAreDisplayed DEF Displayed, Effective
    <3>2. CASE membership'[g].member /\ membership'[g].mode = "separate"
      BY <2>1, <2>2, <3>2 DEF Displayed, Effective
    <3>3. CASE own'[g] = own[g] /\ Reading(r) /\ call[r].group = g /\ call[r].mode = "separate"
      BY <2>1, <3>3 DEF SeenInv, SeenOf
    <3> QED
      BY <2>2, <2>3, <3>1, <3>2, <3>3, HowReadsGo
  <2> QED
    BY <2>1, <2>2, <2>3
<1> QED
  BY <1>1, <1>2, StepsWatch

LEMMA SeenInvariance == Spec => []SeenInv
<1>1. Init => SeenInv
  BY DEF Init, SeenInv, SeenOf, Reading
<1> QED
  BY <1>1, SeenKeeps, Invariance, PTL DEF Spec

LEMMA ViewIsSeen ==
  ASSUME IInv, SeenInv, [Next]_vars, NEW r \in Requests, Shows(r), NEW d \in Days
  PROVE  \/ reply'[r].view[d] \in shown[r][d]
         \/ /\ call[r].mode = "global" /\ ~ShowsGlobal(call[r].group)
            /\ reply'[r].view[d] = global[d]
<1>0. pc[r] = "view" /\ pc'[r] = "idle" /\ ~WriteDay(r)
  BY DEF Shows, WriteDay
<1>1. ShowCalendar(r)
  BY <1>0, WhoSteps
<1>2. reply'[r].view = Shown(r)
  BY <1>1, Before DEF ShowCalendar, Finish
<1>3. call[r].mode \in {"global", "separate"} /\ Reading(r)
  BY <1>0, Before DEF Reading, LocalOf, AskedOf, Calls, Modes
<1>4. SeenOf(r)
  BY DEF SeenInv
<1>5. CASE call[r].mode = "separate"
  BY <1>2, <1>3, <1>4, <1>5 DEF Shown, SeenOf
<1>6. CASE call[r].mode = "global" /\ ShowsGlobal(call[r].group)
  BY <1>2, <1>3, <1>4, <1>6 DEF Shown, SeenOf, ShowsGlobal, Displayed, Effective
<1>7. CASE call[r].mode = "global" /\ ~ShowsGlobal(call[r].group)
  BY <1>2, <1>7 DEF Shown
<1> QED
  BY <1>3, <1>5, <1>6, <1>7

\* What a view shows for a day, the group has shown at some moment of the read,
\* through any switches, answers and departures meanwhile; but for the global
\* calendar of a group that no longer shows it.
THEOREM ViewsAreOfTheirTime == Spec => ViewIsOfItsTime
<1>1. IInv /\ SeenInv /\ [Next]_vars =>
        [\A r \in Requests : Shows(r) =>
            \A d \in Days : \/ reply'[r].view[d] \in shown[r][d]
                            \/ /\ call[r].mode = "global" /\ ~ShowsGlobal(call[r].group)
                               /\ reply'[r].view[d] = global[d]]_vars
  BY ViewIsSeen
<1> QED
  BY <1>1, Invariance, SeenInvariance, PTL DEF Spec, ViewIsOfItsTime
=============================================================================
