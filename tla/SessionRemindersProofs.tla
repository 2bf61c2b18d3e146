----------------------- MODULE SessionRemindersProofs -----------------------
(***************************************************************************)
(* Proofs about SessionReminders for every set of sessions, members,       *)
(* starts, leads and workers.  The invariant says where a run keeps the    *)
(* reminders it owes, and that all it keeps has been true since it began.  *)
(***************************************************************************)
EXTENDS SessionReminders, TLAPS

Busy(w) == run[w].pc # "idle"
Sending(c) == c.pc \in {"send", "record"}
AtMembers(c) == c.pc \in {"user", "send", "record"}

\* The lock file admits one worker; without one there is no history of a run.
FlockInv == /\ \A v, w \in Workers : Busy(v) /\ Busy(w) => v = w
            /\ \A w \in Workers : ~Busy(w) => run[w] = NoRun
            /\ (\A w \in Workers : ~Busy(w)) => owed = {}

\* The history has seen what is true now.
SeenInv == \A w \in Workers : Busy(w) => /\ LivePairs \subseteq recent.live
                                       /\ WillingPairs \subseteq recent.willing

\* The slot in hand has no delivery of either kind.
HandOf(c) == Sending(c) => c.slot \notin Delivered

\* What a run has planned, listed or in hand has been true since it began.
TruthOf(c) ==
    /\ \A s \in Sessions : c.plan[s] # 0 => <<s, c.plan[s]>> \in recent.live
    /\ AtMembers(c) => /\ <<c.at, c.start>> \in recent.live
                       /\ \A x \in c.rows : x.rsvp # "declined" => <<c.at, x.user>> \in recent.willing
    /\ c.pc = "send" => /\ <<c.slot.session, c.slot.start>> \in recent.live
                        /\ <<c.slot.session, c.slot.user>> \in recent.willing

\* Where slot x is while the run owes it: planned, listed, in hand or delivered.
Row(x) == {y \in Rows : y.user = x.user /\ y.on /\ y.rsvp # "declined" /\ y.lead = x.lead}
Planned(c, x) == c.plan[x.session] = x.start
Listed(c, x)  == /\ AtMembers(c) /\ c.at = x.session /\ c.start = x.start
                 /\ c.rows \intersect Row(x) # {}
InHand(c, x)  == Sending(c) /\ c.slot = x

DebtOf(c) == \A x \in owed :
    /\ c.pc # "idle" => x \in Delivered \/ Planned(c, x) \/ Listed(c, x) \/ InHand(c, x)
    /\ \A l \in Leads \union {0} : <<x.user, l>> \in c.loaded => l = x.lead

GoodRun(c) == HandOf(c) /\ TruthOf(c) /\ DebtOf(c)

IInv == /\ TypeOK /\ FlockInv /\ SeenInv
        /\ \A x \in owed : Due(x)
        /\ \A w \in Workers : GoodRun(run[w])
        /\ OneDeliveryPerSlot

-----------------------------------------------------------------------------
LEMMA IdleIsGood == GoodRun(NoRun)
BY DEF GoodRun, HandOf, TruthOf, DebtOf, NoRun, Sending, AtMembers

LEMMA InitIInv == Init => IInv
<1> SUFFICES ASSUME Init PROVE IInv
  OBVIOUS
<1> USE ReminderAssumption DEF Init
<1>1. NoRun \in Runs
  BY DEF NoRun, Runs, Kinds
<1>2. NoAnswer \in Answers
  BY DEF Answers
<1>3. TypeOK
  <2>1. /\ now \in 0..MaxTime /\ moves \in 0..MaxMoves
        /\ session \in [Sessions -> [status : {"none", "live", "cancelled", "gone"},
                                    start : Starts \union {0}]]
        /\ member \in [Users -> {"on", "blind", "out", "tombstone", "erased"}]
    OBVIOUS
  <2>2. /\ lead \in [Users -> Leads \union {0}]
        /\ rsvp \in [Sessions \X Users -> RsvpRows]
    BY DEF RsvpRows
  <2>3. answer \in [Users -> Answers]
    BY <1>2
  <2>4. run \in [Workers -> Runs] /\ \A w \in Workers : run[w].pc = "idle"
    BY <1>1 DEF NoRun
  <2>5. /\ deliveries \subseteq Deliveries /\ owed \subseteq Slots
        /\ recent.live \subseteq Sessions \X Starts /\ recent.willing \subseteq Sessions \X Users
    OBVIOUS
  <2> QED
    BY <2>1, <2>2, <2>3, <2>4, <2>5 DEF TypeOK
<1>4. \A w \in Workers : run[w] = NoRun
  OBVIOUS
<1>5. \A w \in Workers : ~Busy(w)
  BY <1>4 DEF NoRun, Busy
<1> QED
  BY <1>3, <1>4, <1>5, IdleIsGood DEF IInv, FlockInv, SeenInv, OneDeliveryPerSlot

LEMMA WorkerFrame ==
  ASSUME TypeOK, Working, NEW w \in Workers, NEW c \in Runs, run' = [run EXCEPT ![w] = c],
         c.pc \in {"send", "record"} => c.slot \in Slots,
         deliveries' \subseteq Deliveries, owed' \subseteq Slots,
         recent'.live \subseteq Sessions \X Starts, recent'.willing \subseteq Sessions \X Users
  PROVE  TypeOK'
  BY DEF TypeOK, Working, tables

\* The statements of a run in terms of the run before and after.
LEMMA RunType ==
  ASSUME TypeOK, NEW w \in Workers, Work(w) \/ Kill(w)
  PROVE  TypeOK'
<1> USE DEF Working
<1>0. /\ run[w] \in Runs /\ run \in [Workers -> Runs]
      /\ run[w].pc \in {"send", "record"} => run[w].slot \in Slots
      /\ deliveries \subseteq Deliveries /\ owed \subseteq Slots
      /\ recent.live \subseteq Sessions \X Starts /\ recent.willing \subseteq Sessions \X Users
  BY DEF TypeOK
<1>1. NoRun \in Runs /\ NoRun.pc = "idle"
  BY ReminderAssumption DEF NoRun, Runs, Kinds
<1>2. ASSUME Die(w), Working PROVE TypeOK'
  BY <1>0, <1>1, <1>2, WorkerFrame DEF Die, Nothing
<1>3. ASSUME NextRow(w), Working, deliveries' \subseteq Deliveries, owed' \subseteq owed, recent' = recent
      PROVE  TypeOK'
  <2> DEFINE c == [run[w] EXCEPT !.pc = "user", !.slot = NoSlot, !.kind = "upcoming"]
  <2>1. c \in Runs /\ c.pc = "user"
    BY <1>0 DEF Runs, Kinds
  <2>2. run' = [run EXCEPT ![w] = c]
    BY <1>0, <1>3 DEF NextRow
  <2> HIDE DEF c
  <2> QED
    BY <1>0, <1>3, <2>1, <2>2, WorkerFrame
<1>4. CASE StartRun(w)
  <2> DEFINE plan == Plan({s \in Sessions : Soon(s)})
             c == [NoRun EXCEPT !.pc = "scan", !.plan = plan]
  <2>1. plan \in [Sessions -> Starts \union {0}]
    BY DEF TypeOK, Plan
  <2> HIDE DEF plan
  <2>2. c \in Runs /\ c.pc = "scan"
    BY <1>1, <2>1 DEF Runs
  <2>3. /\ run' = [run EXCEPT ![w] = c] /\ owed' = {x \in Slots : Due(x)}
        /\ recent' = [live |-> LivePairs, willing |-> WillingPairs] /\ deliveries' = deliveries
    BY <1>4 DEF StartRun, Launch, plan
  <2>4. recent'.live \subseteq Sessions \X Starts /\ recent'.willing \subseteq Sessions \X Users
    BY <2>3 DEF LivePairs, WillingPairs
  <2>5. Working
    BY <1>4 DEF StartRun, Launch
  <2> HIDE DEF c
  <2> QED
    BY <1>0, <2>2, <2>3, <2>4, <2>5, WorkerFrame
<1>5. ASSUME NEW s \in Sessions, NEW read \in [Users -> Leads \union {0}], NextSession(w, s, read)
      PROVE  TypeOK'
  <2> DEFINE plan == [run[w].plan EXCEPT ![s] = 0]
             rows == RowsOf(s, read)
             loaded == Reload(run[w].loaded, read)
             c == [run[w] EXCEPT !.pc = "user", !.plan = plan, !.at = s, !.start = run[w].plan[s],
                                 !.rows = rows, !.loaded = loaded]
  <2>1. rows \subseteq Rows
    <3>1. ASSUME NEW u \in Users PROVE RowOf(s, u, read[u]) \in Rows
      BY DEF TypeOK, Rows, RowOf
    <3> QED
      BY <3>1 DEF RowsOf
  <2>2. loaded \subseteq Users \X (Leads \union {0})
    BY <1>0 DEF Runs, Reload
  <2>3. run' = [run EXCEPT ![w] = c] /\ Working /\ UNCHANGED <<deliveries, owed, recent>>
    BY <1>5 DEF NextSession
  <2>4. plan \in [Sessions -> Starts \union {0}] /\ run[w].plan[s] \in Starts \union {0}
    BY <1>0 DEF Runs
  <2> HIDE DEF rows, loaded, plan
  <2>5. c \in Runs /\ c.pc = "user"
    BY <1>0, <2>1, <2>2, <2>4 DEF Runs
  <2> HIDE DEF c
  <2> QED
    BY <1>0, <2>3, <2>5, WorkerFrame
<1>6. ASSUME NEW x \in run[w].rows, Consider(w, x) PROVE TypeOK'
  <2> DEFINE sent == [Drop(run[w], x) EXCEPT !.pc = "send", !.slot = SlotOf(run[w], x),
                                             !.kind = KindFor(x)]
  <2>1. x \in Rows
    BY <1>0 DEF Runs
  <2>2. Drop(run[w], x) \in Runs /\ Drop(run[w], x).pc = "user"
    BY <1>0, <1>6 DEF Runs, Drop, Consider
  <2>3. Wanted(run[w], x) => SlotOf(run[w], x) \in Slots
    <3>1. ASSUME run[w].start = 0 PROVE ~Wanted(run[w], x)
      BY <3>1, ReminderAssumption DEF Wanted, TypeOK
    <3> QED
      BY <1>0, <2>1, <3>1 DEF Wanted, SlotOf, Slots, Runs, Rows
  <2>4. Wanted(run[w], x) => sent \in Runs /\ sent.slot \in Slots
    BY <2>2, <2>3 DEF Runs, Kinds, KindFor
  <2>5. /\ run' = [run EXCEPT ![w] = IF Wanted(run[w], x) THEN sent ELSE Drop(run[w], x)]
        /\ Working /\ UNCHANGED <<deliveries, owed, recent>>
    BY <1>6 DEF Consider
  <2> HIDE DEF sent
  <2> QED
    BY <1>0, <2>2, <2>4, <2>5, WorkerFrame
<1>7. CASE Accept(w)
  <2> DEFINE c == [run[w] EXCEPT !.pc = "record"]
  <2>1. c \in Runs /\ c.slot = run[w].slot /\ run' = [run EXCEPT ![w] = c]
    BY <1>0, <1>7 DEF Runs, Accept
  <2> HIDE DEF c
  <2> QED
    BY <1>0, <1>7, <2>1, WorkerFrame DEF Accept
<1>8. CASE Refuse(w)
  BY <1>0, <1>3, <1>8 DEF Refuse
<1>9. CASE Record(w)
  <2>1. [kind |-> run[w].kind, slot |-> run[w].slot] \in Deliveries
    BY <1>0, <1>9 DEF Record, Deliveries, Runs
  <2> QED
    BY <1>0, <1>2, <1>3, <1>9, <2>1 DEF Record
<1>10. CASE EndSession(w)
  <2> DEFINE c == [run[w] EXCEPT !.pc = "scan", !.start = 0]
  <2>1. c \in Runs /\ c.pc = "scan"
    BY <1>0 DEF Runs
  <2>2. run' = [run EXCEPT ![w] = c]
    BY <1>0, <1>10 DEF EndSession
  <2> HIDE DEF c
  <2> QED
    BY <1>0, <1>10, <2>1, <2>2, WorkerFrame DEF EndSession
<1>11. CASE EndRun(w) \/ Kill(w)
  BY <1>2, <1>11 DEF EndRun, Kill
<1> QED
  BY <1>4, <1>5, <1>6, <1>7, <1>8, <1>9, <1>10, <1>11 DEF Work

-----------------------------------------------------------------------------
(* Steps of everybody else: the workers do not move, and the history keeps *)
(* up with the tables.                                                     *)

TablesOK ==
    /\ now \in 0..MaxTime /\ moves \in 0..MaxMoves
    /\ session \in [Sessions -> [status : {"none", "live", "cancelled", "gone"},
                                start : Starts \union {0}]]
    /\ member \in [Users -> {"on", "blind", "out", "tombstone", "erased"}]
    /\ lead \in [Users -> Leads \union {0}]
    /\ rsvp \in [Sessions \X Users -> RsvpRows]
    /\ answer \in [Users -> Answers]

OutsideStep ==
    /\ UNCHANGED run
    /\ deliveries' \subseteq deliveries
    /\ owed' \subseteq owed
    /\ \A x \in owed' : Due(x)' /\ (x \in Delivered => x \in Delivered')
    /\ recent'.live \subseteq recent.live \union LivePairs'
    /\ recent'.willing \subseteq recent.willing \union WillingPairs'
    /\ \A w \in Workers : Busy(w) =>
          /\ recent.live \subseteq recent'.live /\ LivePairs' \subseteq recent'.live
          /\ recent.willing \subseteq recent'.willing /\ WillingPairs' \subseteq recent'.willing

\* A step that observes deletes deliveries only of slots no longer due.
LEMMA Observed ==
  ASSUME Observe, UNCHANGED run, deliveries' \subseteq deliveries,
         \A d \in deliveries \ deliveries' : ~Due(d.slot)'
  PROVE  OutsideStep
<1>1. owed' \subseteq owed /\ \A x \in owed' : Due(x)'
  BY DEF Observe
<1>2. \A x \in owed' : x \in Delivered => x \in Delivered'
  BY <1>1 DEF Delivered
<1>3. CASE \A w \in Workers : run[w].pc = "idle"
  BY <1>1, <1>2, <1>3 DEF Observe, OutsideStep, Nothing, Busy
<1>4. CASE ~\A w \in Workers : run[w].pc = "idle"
  <2>1. /\ recent'.live = recent.live \union LivePairs'
        /\ recent'.willing = recent.willing \union WillingPairs'
    BY <1>4 DEF Observe
  <2> QED
    BY <1>1, <1>2, <2>1 DEF OutsideStep
<1> QED
  BY <1>3, <1>4

LEMMA OutsideType == ASSUME TypeOK, OutsideStep, TablesOK' PROVE TypeOK'
<1>1. LivePairs' \subseteq Sessions \X Starts /\ WillingPairs' \subseteq Sessions \X Users
  BY DEF LivePairs, WillingPairs
<1>2. /\ deliveries' \subseteq Deliveries /\ owed' \subseteq Slots
      /\ recent'.live \subseteq Sessions \X Starts /\ recent'.willing \subseteq Sessions \X Users
  BY <1>1 DEF TypeOK, OutsideStep
<1> QED
  BY <1>2 DEF TypeOK, OutsideStep, TablesOK

\* Every step of the clock, an organizer or a member is such a step.
LEMMA OthersStep ==
  ASSUME IInv, Others
  PROVE  TypeOK' /\ OutsideStep
<1> USE ReminderAssumption
<1>0. TypeOK /\ TablesOK
  BY DEF IInv, TypeOK, TablesOK
<1> SUFFICES TablesOK' /\ OutsideStep
  BY <1>0, OutsideType
<1>m. ASSUME Move PROVE moves' \in 0..MaxMoves
  BY <1>0, <1>m DEF Move, TablesOK
<1>1. ASSUME NEW new \in [Sessions -> [status : {"none", "live", "cancelled", "gone"},
                                       start : Starts \union {0}]],
             Move, Reschedule(new)
      PROVE  TablesOK' /\ OutsideStep
  <2>1. OutsideStep
    BY <1>1, Observed DEF Reschedule
  <2> QED
    BY <1>0, <1>1, <1>m, <2>1 DEF TablesOK, Reschedule
<1>2. CASE Tick
  <2>1. OutsideStep
    BY <1>2, Observed DEF Tick
  <2>2. now' \in 0..MaxTime
    BY <1>0, <1>2 DEF Tick, TablesOK
  <2> QED
    BY <1>0, <1>2, <2>1, <2>2 DEF Tick, TablesOK, tables
<1>3. ASSUME NEW s \in Sessions, NEW t \in Starts \union {0}, ConfirmGroupSession(s, t)
      PROVE  TablesOK' /\ OutsideStep
  <2> DEFINE new == [session EXCEPT ![s] = [status |-> "live", start |-> t]]
  <2>1. new \in [Sessions -> [status : {"none", "live", "cancelled", "gone"}, start : Starts \union {0}]]
    BY <1>0 DEF TablesOK
  <2>2. Move /\ Reschedule(new)
    BY <1>3 DEF ConfirmGroupSession
  <2> QED
    BY <1>1, <2>1, <2>2
<1>4. ASSUME NEW s \in Sessions, NEW t \in Starts \union {0}, UpdateGroupSession(s, t)
      PROVE  TablesOK' /\ OutsideStep
  <2> DEFINE new == [session EXCEPT ![s].start = t]
  <2>1. new \in [Sessions -> [status : {"none", "live", "cancelled", "gone"}, start : Starts \union {0}]]
    BY <1>0 DEF TablesOK
  <2>2. Move /\ Reschedule(new)
    BY <1>4 DEF UpdateGroupSession
  <2> QED
    BY <1>1, <2>1, <2>2
<1>5. ASSUME NEW s \in Sessions, CancelGroupSession(s) PROVE TablesOK' /\ OutsideStep
  <2> DEFINE new == [session EXCEPT ![s].status = "cancelled"]
  <2>1. new \in [Sessions -> [status : {"none", "live", "cancelled", "gone"}, start : Starts \union {0}]]
    BY <1>0 DEF TablesOK
  <2>2. Move /\ Reschedule(new)
    BY <1>5 DEF CancelGroupSession
  <2> QED
    BY <1>1, <2>1, <2>2
<1>6. ASSUME NEW moved \in [Sessions -> Starts], UpdateGroup(moved) PROVE TablesOK' /\ OutsideStep
  <2> DEFINE new == [s \in Sessions |-> IF session[s].start = 0 THEN session[s]
                                        ELSE [session[s] EXCEPT !.start = moved[s]]]
  <2>1. new \in [Sessions -> [status : {"none", "live", "cancelled", "gone"}, start : Starts \union {0}]]
    BY <1>0 DEF TablesOK
  <2>2. Move /\ Reschedule(new)
    BY <1>6 DEF UpdateGroup
  <2> QED
    BY <1>1, <2>1, <2>2
<1>7. CASE DeleteGroup
  <2>1. \A x : x.session \in Sessions => ~Due(x)'
    BY <1>7 DEF DeleteGroup, Due, Live
  <2>2. \A d \in deliveries : d.slot.session \in Sessions
    BY <1>0 DEF TypeOK, Deliveries, Slots
  <2>3. OutsideStep
    BY <1>7, <2>1, <2>2, Observed DEF DeleteGroup
  <2>4. member' \in [Users -> {"on", "blind", "out", "tombstone", "erased"}]
    BY <1>0, <1>7 DEF DeleteGroup, TablesOK
  <2>5. /\ session' \in [Sessions -> [status : {"none", "live", "cancelled", "gone"},
                                      start : Starts \union {0}]]
        /\ rsvp' \in [Sessions \X Users -> RsvpRows]
    BY <1>7 DEF DeleteGroup, RsvpRows
  <2>6. moves' \in 0..MaxMoves
    BY <1>7, <1>m DEF DeleteGroup
  <2> QED
    BY <1>0, <1>7, <2>3, <2>4, <2>5, <2>6 DEF DeleteGroup, TablesOK
<1>8. ASSUME NEW u \in Users, StoreRsvp(u) PROVE TablesOK' /\ OutsideStep
  <2>1. OutsideStep
    BY <1>8, Observed DEF StoreRsvp
  <2>2. answer' \in [Users -> Answers]
    BY <1>0, <1>8 DEF StoreRsvp, TablesOK, Answers
  <2>3. answer[u] # NoAnswer => answer[u].session \in Sessions /\ answer[u].status \in RsvpRows
    BY <1>0 DEF TablesOK, Answers
  <2>4. rsvp' \in [Sessions \X Users -> RsvpRows]
    <3> DEFINE p == <<answer[u].session, u>>
    <3>1. answer[u] # NoAnswer => p \in Sessions \X Users
      BY <2>3
    <3>2. CASE rsvp' = rsvp
      BY <1>0, <3>2 DEF TablesOK
    <3>3. CASE rsvp' = [rsvp EXCEPT ![p] = answer[u].status]
      <4>1. answer[u].status \in RsvpRows
        BY <1>8, <2>3 DEF StoreRsvp
      <4> HIDE DEF p
      <4> QED
        BY <1>0, <3>3, <4>1 DEF TablesOK
    <3> QED
      BY <1>8, <3>2, <3>3 DEF StoreRsvp
  <2> QED
    BY <1>0, <1>8, <2>1, <2>2, <2>4 DEF StoreRsvp, TablesOK
<1>9. ASSUME NEW u \in Users, NEW l \in Leads \union {0}, UpdateNotificationPreferences(u, l)
      PROVE  TablesOK' /\ OutsideStep
  <2>1. OutsideStep
    BY <1>9, Observed DEF UpdateNotificationPreferences
  <2> QED
    BY <1>0, <1>9, <1>m, <2>1 DEF UpdateNotificationPreferences, TablesOK
<1>10. ASSUME NEW u \in Users, NEW state \in {"on", "blind", "out"}, ChangeMember(u, state)
       PROVE  TablesOK' /\ OutsideStep
  <2>1. OutsideStep
    BY <1>10, Observed DEF ChangeMember
  <2> QED
    BY <1>0, <1>10, <1>m, <2>1 DEF ChangeMember, TablesOK
<1>11. ASSUME NEW u \in Users, NEW left \in {"tombstone", "erased"}, EraseAccount(u, left)
       PROVE  TablesOK' /\ OutsideStep
  <2>1. \A x : x.user = u => ~Due(x)'
    BY <1>0, <1>11 DEF EraseAccount, Due, TablesOK
  <2>2. OutsideStep
    BY <1>11, <2>1, Observed DEF EraseAccount
  <2>3. rsvp' \in [Sessions \X Users -> RsvpRows]
    BY <1>0, <1>11 DEF EraseAccount, TablesOK, RsvpRows
  <2> QED
    BY <1>0, <1>11, <1>m, <2>2, <2>3 DEF EraseAccount, TablesOK
<1>12. ASSUME NEW u \in Users, NEW s \in Sessions, NEW status \in {"attending", "declined"},
              BeginRsvp(u, s, status)
       PROVE  TablesOK' /\ OutsideStep
  <2>1. [pc |-> "store", session |-> s, status |-> status, found |-> rsvp[<<s, u>>] # "none"]
          \in Answers
    BY DEF Answers, RsvpRows
  <2>2. answer' \in [Users -> Answers]
    BY <1>0, <1>12, <2>1 DEF BeginRsvp, TablesOK
  <2>3. LivePairs' = LivePairs /\ WillingPairs' = WillingPairs
    BY <1>12 DEF BeginRsvp, LivePairs, WillingPairs, Live, IsMember, tables
  <2>4. \A x \in owed : Due(x)'
    BY <1>12 DEF BeginRsvp, IInv, Due, Live, tables
  <2>5. OutsideStep
    BY <1>12, <2>3, <2>4 DEF BeginRsvp, OutsideStep, IInv, SeenInv, Delivered
  <2> QED
    BY <1>0, <1>12, <1>m, <2>2, <2>5 DEF BeginRsvp, TablesOK, tables
<1>13. CASE \E s \in Sessions : \/ CancelGroupSession(s)
                               \/ \E t \in Starts \union {0} : \/ ConfirmGroupSession(s, t)
                                                              \/ UpdateGroupSession(s, t)
  BY <1>13, <1>3, <1>4, <1>5
<1>14. ASSUME NEW u \in Users,
             \/ StoreRsvp(u)
             \/ \E l \in Leads \union {0} : UpdateNotificationPreferences(u, l)
             \/ \E state \in {"on", "blind", "out"} : ChangeMember(u, state)
             \/ \E left \in {"tombstone", "erased"} : EraseAccount(u, left)
             \/ \E s \in Sessions, status \in {"attending", "declined"} : BeginRsvp(u, s, status)
      PROVE  TablesOK' /\ OutsideStep
  BY <1>14, <1>8, <1>9, <1>10, <1>11, <1>12
<1>15. CASE \E moved \in [Sessions -> Starts] : UpdateGroup(moved)
  BY <1>15, <1>6
<1> QED
  BY <1>2, <1>7, <1>13, <1>14, <1>15 DEF Others

LEMMA OutsideKeeps == ASSUME IInv, TypeOK', OutsideStep PROVE IInv'
<1> USE DEF IInv, OutsideStep
<1>1. run' = run /\ \A w \in Workers : Busy(w)' = Busy(w)
  BY DEF Busy
<1>2. FlockInv' /\ SeenInv'
  BY <1>1 DEF FlockInv, SeenInv
<1>3. OneDeliveryPerSlot'
  BY DEF OneDeliveryPerSlot
<1>4. ASSUME NEW w \in Workers PROVE GoodRun(run[w])'
  <2>1. CASE ~Busy(w)
    <3>1. run'[w] = NoRun
      BY <2>1, <1>1 DEF FlockInv
    <3>2. GoodRun(NoRun)'
      BY IdleIsGood, PTL
    <3> QED
      BY <3>1, <3>2
  <2>2. CASE Busy(w)
    <3>1. HandOf(run[w])'
      BY DEF GoodRun, HandOf, Delivered, Sending
    <3>2. TruthOf(run[w])'
      BY <2>2 DEF GoodRun, TruthOf, AtMembers
    <3>3. DebtOf(run[w])'
      BY DEF GoodRun, DebtOf, Planned, Listed, InHand, Sending, AtMembers, Row
    <3> QED
      BY <3>1, <3>2, <3>3 DEF GoodRun
  <2> QED
    BY <2>1, <2>2
<1> QED
  BY <1>2, <1>3, <1>4

-----------------------------------------------------------------------------
(* Steps of a worker.                                                      *)

LEMMA Quiet == ASSUME Working PROVE /\ \A x : Due(x)' = Due(x)
                                    /\ LivePairs' = LivePairs /\ WillingPairs' = WillingPairs
BY DEF Working, tables, Due, Live, LivePairs, WillingPairs, IsMember

\* A run that goes on with what it knows.
LEMMA GoesOn ==
  ASSUME IInv, TypeOK', NEW w \in Workers, Busy(w), Working, NEW c,
         run' = [run EXCEPT ![w] = c], c.pc # "idle", recent' = recent, owed' \subseteq owed,
         GoodRun(c)', OneDeliveryPerSlot'
  PROVE  IInv'
<1> USE DEF IInv
<1>1. run'[w] = c /\ \A v \in Workers \ {w} : run'[v] = run[v]
  BY DEF TypeOK
<1>2. \A v \in Workers \ {w} : ~Busy(v) /\ run[v] = NoRun
  BY DEF FlockInv
<1>3. Busy(w)' /\ \A v \in Workers \ {w} : ~Busy(v)' /\ run'[v] = NoRun
  BY <1>1, <1>2 DEF Busy
<1>4. FlockInv'
  BY <1>3 DEF FlockInv
<1>5. SeenInv'
  BY <1>3, Quiet DEF SeenInv
<1>6. GoodRun(NoRun)'
  BY IdleIsGood, PTL
<1>7. \A v \in Workers : GoodRun(run[v])'
  BY <1>1, <1>3, <1>6
<1> QED
  BY <1>4, <1>5, <1>7, Quiet

\* A run that ends leaves nothing behind but deliveries.
LEMMA Dies ==
  ASSUME IInv, TypeOK', NEW w \in Workers, Busy(w), Die(w)
  PROVE  IInv'
<1> USE DEF IInv, Die
<1>1. \A v \in Workers : run'[v] = NoRun
  BY DEF TypeOK, FlockInv
<1>0. NoRun.pc = "idle"
  BY DEF NoRun
<1>2. \A v \in Workers : ~Busy(v)'
  BY <1>0, <1>1 DEF Busy
<1>3. GoodRun(NoRun)'
  BY IdleIsGood, PTL
<1>4. OneDeliveryPerSlot'
  BY DEF OneDeliveryPerSlot
<1> QED
  BY <1>1, <1>2, <1>3, <1>4 DEF FlockInv, SeenInv

LEMMA StartRunKeeps == ASSUME IInv, TypeOK', NEW w \in Workers, StartRun(w) PROVE IInv'
<1> USE ReminderAssumption
<1>p. PICK plan : plan = Plan({s \in Sessions : Soon(s)})
  OBVIOUS
<1>c. PICK c : c = [NoRun EXCEPT !.pc = "scan", !.plan = plan]
  OBVIOUS
<1>1. /\ run' = [run EXCEPT ![w] = c] /\ owed' = {x \in Slots : Due(x)}
      /\ recent' = [live |-> LivePairs, willing |-> WillingPairs]
      /\ deliveries' = deliveries /\ Working
      /\ \A v \in Workers : run[v].pc = "idle"
  BY <1>p, <1>c DEF StartRun, Launch
<1>2. c.pc = "scan" /\ c.loaded = {} /\ c.plan = plan
  BY <1>c DEF NoRun
<1>3. /\ run'[w] = c
      /\ \A v \in Workers \ {w} : run'[v] = NoRun /\ ~Busy(v)'
  BY <1>1 DEF IInv, TypeOK, FlockInv, Busy
<1>4. FlockInv' /\ SeenInv'
  BY <1>1, <1>2, <1>3, Quiet DEF FlockInv, SeenInv, Busy
<1>5. \A s \in Sessions : /\ Soon(s) => plan[s] = session[s].start
                          /\ ~Soon(s) => plan[s] = 0
  BY <1>p DEF Plan
<1>6. ASSUME NEW s \in Sessions, plan[s] # 0 PROVE <<s, plan[s]>> \in LivePairs
  BY <1>5, <1>6 DEF LivePairs, Soon, Live, IInv, TypeOK
<1>7. ASSUME NEW x \in Slots, Due(x) PROVE Soon(x.session) /\ session[x.session].start = x.start
  BY <1>7 DEF Due, Soon, Slots
<1>8. GoodRun(c)'
  <2>1. HandOf(c)' /\ TruthOf(c)'
    BY <1>1, <1>2, <1>6 DEF HandOf, TruthOf, Sending, AtMembers
  <2>2. DebtOf(c)'
    BY <1>1, <1>2, <1>5, <1>7 DEF DebtOf, Planned, Slots
  <2> QED
    BY <2>1, <2>2 DEF GoodRun
<1>9. GoodRun(NoRun)'
  BY IdleIsGood, PTL
<1>10. OneDeliveryPerSlot' /\ \A x \in owed' : Due(x)'
  BY <1>1, Quiet DEF IInv, OneDeliveryPerSlot
<1> QED
  BY <1>3, <1>4, <1>8, <1>9, <1>10 DEF IInv

LEMMA NextSessionKeeps ==
  ASSUME IInv, TypeOK', NEW w \in Workers, NEW s \in Sessions,
         NEW read \in [Users -> Leads \union {0}], NextSession(w, s, read)
  PROVE  IInv'
<1> USE ReminderAssumption
<1>b. PICK b : b = run[w]
  OBVIOUS
<1>p. PICK plan : plan = [b.plan EXCEPT ![s] = 0]
  OBVIOUS
<1>c. PICK c : c = [b EXCEPT !.pc = "user", !.plan = plan, !.at = s, !.start = b.plan[s],
                            !.rows = RowsOf(s, read), !.loaded = Reload(b.loaded, read)]
  OBVIOUS
<1>0. TypeOK /\ b \in Runs /\ GoodRun(b) /\ owed \subseteq Slots /\ \A x \in owed : Due(x)
  BY <1>b DEF IInv, TypeOK
<1>1. /\ run' = [run EXCEPT ![w] = c] /\ Working /\ UNCHANGED <<deliveries, owed, recent>>
      /\ b.pc = "scan" /\ b.plan[s] # 0
      /\ \A u \in Users : read[u] = lead[u] \/ <<u, read[u]>> \in b.loaded
  BY <1>b, <1>p, <1>c DEF NextSession
<1>2. /\ c.pc = "user" /\ c.plan = plan /\ c.at = s /\ c.start = b.plan[s]
      /\ c.rows = RowsOf(s, read) /\ c.loaded = Reload(b.loaded, read)
  BY <1>0, <1>c DEF Runs
<1>3. Busy(w)
  BY <1>1, <1>b DEF Busy
<1>4. \A t \in Sessions : plan[t] = IF t = s THEN 0 ELSE b.plan[t]
  BY <1>0, <1>p DEF Runs
<1>5. HandOf(c)'
  BY <1>2 DEF HandOf, Sending
<1>6. TruthOf(c)'
  <2>1. \A y \in RowsOf(s, read) : y.rsvp # "declined" => <<s, y.user>> \in WillingPairs
    <3>1. ASSUME NEW u \in Users, IsMember(u), RowOf(s, u, read[u]).rsvp # "declined"
          PROVE  <<s, RowOf(s, u, read[u]).user>> \in WillingPairs
      <4>1. rsvp[<<s, u>>] # "declined" /\ RowOf(s, u, read[u]).user = u
        BY <3>1 DEF RowOf
      <4> QED
        BY <3>1, <4>1 DEF WillingPairs
    <3> QED
      BY <3>1 DEF RowsOf
  <2>2. WillingPairs \subseteq recent.willing
    BY <1>3 DEF IInv, SeenInv
  <2>3. \A t \in Sessions : b.plan[t] # 0 => <<t, b.plan[t]>> \in recent.live
    BY <1>0 DEF GoodRun, TruthOf
  <2> QED
    BY <1>1, <1>2, <1>4, <2>1, <2>2, <2>3 DEF TruthOf, AtMembers
<1>7. DebtOf(c)'
  <2>1. ASSUME NEW x \in owed, NEW l \in Leads \union {0}, <<x.user, l>> \in Reload(b.loaded, read)
        PROVE  l = x.lead
    <3>1. x.user \in Users /\ lead[x.user] = x.lead /\ IsMember(x.user)
      BY <1>0 DEF Slots, Due, IsMember
    <3>2. <<x.user, l>> \in b.loaded => l = x.lead
      BY <1>0 DEF GoodRun, DebtOf
    <3>3. read[x.user] \in Leads \union {0} /\ (read[x.user] # lead[x.user] => <<x.user, read[x.user]>> \in b.loaded)
      BY <1>1, <3>1
    <3>4. read[x.user] = x.lead
      BY <1>0, <3>1, <3>3 DEF GoodRun, DebtOf
    <3> QED
      BY <2>1, <3>1, <3>2, <3>4 DEF Reload
  <2>2. ASSUME NEW x \in owed, b.plan[x.session] = x.start, x.session = s
        PROVE  RowsOf(s, read) \intersect Row(x) # {}
    <3> DEFINE y == RowOf(s, x.user, read[x.user])
    <3>1. x.user \in Users /\ lead[x.user] = x.lead /\ IsMember(x.user)
      BY <1>0 DEF Slots, Due, IsMember
    <3>2. y \in RowsOf(s, read)
      BY <3>1 DEF RowsOf
    <3>3. read[x.user] = x.lead
      BY <1>0, <1>1, <3>1 DEF GoodRun, DebtOf
    <3>4. /\ y.user = x.user /\ y.on = (member[x.user] = "on")
          /\ y.rsvp = rsvp[<<s, x.user>>] /\ y.lead = x.lead
      BY <3>3 DEF RowOf
    <3>5. y \in Rows
      BY <1>0, <3>1 DEF TypeOK, Rows, RowOf
    <3>6. member[x.user] = "on" /\ rsvp[<<s, x.user>>] # "declined"
      BY <1>0, <2>2 DEF Due
    <3> HIDE DEF y
    <3>7. y \in Row(x)
      BY <3>4, <3>5, <3>6 DEF Row
    <3> QED
      BY <3>2, <3>7
  <2>3. ASSUME NEW x \in owed PROVE x \in Delivered \/ Planned(c, x) \/ Listed(c, x)
    <3>1. x \in Delivered \/ b.plan[x.session] = x.start
      BY <1>0, <1>1 DEF GoodRun, DebtOf, Planned, Listed, InHand, AtMembers, Sending
    <3>2. x.session \in Sessions
      BY <1>0 DEF Slots
    <3> QED
      BY <1>2, <1>4, <2>2, <3>1, <3>2 DEF Planned, Listed, AtMembers
  <2>4. Delivered' = Delivered
    BY <1>1 DEF Delivered
  <2> QED
    BY <1>1, <1>2, <2>1, <2>3, <2>4 DEF DebtOf, Planned, Listed, InHand, Row, AtMembers, Sending
<1>8. OneDeliveryPerSlot'
  BY <1>1 DEF IInv, OneDeliveryPerSlot
<1> QED
  BY <1>1, <1>2, <1>3, <1>5, <1>6, <1>7, <1>8, GoesOn DEF GoodRun

LEMMA ConsiderKeeps ==
  ASSUME IInv, TypeOK', NEW w \in Workers, NEW y \in run[w].rows, Consider(w, y)
  PROVE  IInv'
<1> USE ReminderAssumption
<1>b. PICK b : b = run[w]
  OBVIOUS
<1>d. PICK rest : rest = b.rows \ {y}
  OBVIOUS
<1>s. PICK slot : slot = SlotOf(b, y)
  OBVIOUS
<1>c. PICK c : c = IF Wanted(b, y)
                   THEN [Drop(b, y) EXCEPT !.pc = "send", !.slot = slot, !.kind = KindFor(y)]
                   ELSE Drop(b, y)
  OBVIOUS
<1>0. TypeOK /\ b \in Runs /\ GoodRun(b) /\ owed \subseteq Slots /\ \A x \in owed : Due(x)
  BY <1>b DEF IInv, TypeOK
<1>1. /\ run' = [run EXCEPT ![w] = c] /\ Working /\ UNCHANGED <<deliveries, owed, recent>>
      /\ b.pc = "user" /\ Busy(w)
  BY <1>b, <1>c, <1>s DEF Consider, Busy
<1>2. /\ c.plan = b.plan /\ c.at = b.at /\ c.start = b.start /\ c.loaded = b.loaded
      /\ c.rows = rest /\ AtMembers(c)
      /\ Wanted(b, y) => c.pc = "send" /\ c.slot = slot
      /\ ~Wanted(b, y) => c.pc = "user"
  <2>1. /\ Drop(b, y) \in Runs /\ Drop(b, y).plan = b.plan /\ Drop(b, y).at = b.at
        /\ Drop(b, y).start = b.start /\ Drop(b, y).loaded = b.loaded
        /\ Drop(b, y).rows = rest /\ Drop(b, y).pc = "user"
    BY <1>0, <1>1, <1>d DEF Drop, Runs
  <2> QED
    BY <1>c, <2>1 DEF AtMembers, Runs
<1>3. /\ slot.session = b.at /\ slot.user = y.user /\ slot.start = b.start /\ slot.lead = y.lead
      /\ slot = [session |-> b.at, user |-> y.user, start |-> b.start, lead |-> y.lead]
  BY <1>s DEF SlotOf
<1>4. HandOf(c)'
  BY <1>1, <1>2, <1>s DEF HandOf, Sending, Wanted, Delivered
<1>5. TruthOf(c)'
  <2>1. Wanted(b, y) => y.rsvp # "declined"
    BY DEF Wanted
  <2>2. /\ <<b.at, b.start>> \in recent.live
        /\ \A x \in b.rows : x.rsvp # "declined" => <<b.at, x.user>> \in recent.willing
        /\ \A s \in Sessions : b.plan[s] # 0 => <<s, b.plan[s]>> \in recent.live
    BY <1>0, <1>1 DEF GoodRun, TruthOf, AtMembers
  <2> QED
    BY <1>1, <1>2, <1>3, <1>b, <1>d, <2>1, <2>2 DEF TruthOf
<1>6. DebtOf(c)'
  <2>1. ASSUME NEW x \in owed PROVE x \in Delivered \/ Planned(c, x) \/ Listed(c, x) \/ InHand(c, x)
    <3>1. x \in Delivered \/ Planned(b, x) \/ Listed(b, x)
      BY <1>0, <1>1 DEF GoodRun, DebtOf, InHand, Sending
    <3>2. CASE Listed(b, x) /\ y \in Row(x)
      <4>1. slot = x
        BY <1>0, <1>3, <3>2 DEF Listed, Row, Slots
      <4>2. /\ now < b.start /\ b.start <= now + y.lead /\ y.lead # 0
            /\ y.rsvp # "declined" /\ y.on
        BY <1>0, <3>2 DEF Listed, Row, Due, Slots
      <4>3. x \in Delivered \/ Wanted(b, y)
        BY <1>s, <4>1, <4>2 DEF Wanted
      <4> QED
        BY <1>2, <4>1, <4>3 DEF InHand, Sending
    <3>3. CASE Listed(b, x) /\ y \notin Row(x)
      BY <1>2, <1>d, <3>3 DEF Listed
    <3> QED
      BY <1>2, <3>1, <3>2, <3>3 DEF Planned
  <2>2. \A x \in owed, l \in Leads \union {0} : <<x.user, l>> \in b.loaded => l = x.lead
    BY <1>0 DEF GoodRun, DebtOf
  <2>3. Delivered' = Delivered
    BY <1>1 DEF Delivered
  <2> QED
    BY <1>1, <1>2, <2>1, <2>2, <2>3 DEF DebtOf, Planned, Listed, InHand, Row, AtMembers, Sending
<1>7. OneDeliveryPerSlot'
  BY <1>1 DEF IInv, OneDeliveryPerSlot
<1> QED
  BY <1>1, <1>2, <1>4, <1>5, <1>6, <1>7, GoesOn DEF GoodRun, AtMembers

\* The slot is left behind, delivered or refused; the run turns to the next row.
LEMMA TurnsToNextRow ==
  ASSUME IInv, TypeOK', NEW w \in Workers, Sending(run[w]), NextRow(w), Working, recent' = recent,
         owed' \subseteq owed, Delivered \subseteq Delivered', OneDeliveryPerSlot',
         run[w].slot \notin owed' \/ run[w].slot \in Delivered'
  PROVE  IInv'
<1>b. PICK b : b = run[w]
  OBVIOUS
<1>c. PICK c : c = [b EXCEPT !.pc = "user", !.slot = NoSlot, !.kind = "upcoming"]
  OBVIOUS
<1>0. TypeOK /\ b \in Runs /\ GoodRun(b) /\ Sending(b) /\ AtMembers(b) /\ Busy(w)
  BY <1>b DEF IInv, TypeOK, Sending, AtMembers, Busy
<1>1. run' = [run EXCEPT ![w] = c]
  BY <1>0, <1>b, <1>c DEF NextRow, TypeOK
<1>2. /\ c.plan = b.plan /\ c.at = b.at /\ c.start = b.start /\ c.loaded = b.loaded
      /\ c.rows = b.rows /\ c.pc = "user" /\ AtMembers(c) /\ ~Sending(c)
  BY <1>0, <1>c DEF Runs, AtMembers, Sending
<1>3. HandOf(c)' /\ TruthOf(c)'
  BY <1>0, <1>2 DEF GoodRun, HandOf, TruthOf, Sending, AtMembers
<1>4. DebtOf(c)'
  <2>1. ASSUME NEW x \in owed' PROVE x \in Delivered' \/ Planned(c, x) \/ Listed(c, x)
    <3>1. x \in Delivered \/ Planned(b, x) \/ Listed(b, x) \/ InHand(b, x)
      BY <1>0, <2>1 DEF GoodRun, DebtOf, Sending
    <3>2. InHand(b, x) => x \in Delivered'
      BY <1>b, <2>1 DEF InHand
    <3> QED
      BY <1>0, <1>2, <3>1, <3>2 DEF Planned, Listed
  <2>2. \A x \in owed', l \in Leads \union {0} : <<x.user, l>> \in b.loaded => l = x.lead
    BY <1>0 DEF GoodRun, DebtOf
  <2> QED
    BY <1>2, <2>1, <2>2 DEF DebtOf, Planned, Listed, Row, AtMembers
<1> QED
  BY <1>0, <1>1, <1>2, <1>3, <1>4, GoesOn DEF GoodRun

LEMMA RecordKeeps == ASSUME IInv, TypeOK', NEW w \in Workers, Record(w) PROVE IInv'
<1> DEFINE d == [kind |-> run[w].kind, slot |-> run[w].slot]
<1>0. Sending(run[w]) /\ Busy(w) /\ Working
  BY DEF Record, Sending, Busy
<1>1. run[w].slot \notin Delivered
  BY <1>0 DEF IInv, GoodRun, HandOf
<1>2. CASE Die(w)
  BY <1>0, <1>2, Dies
<1>3. CASE deliveries' = deliveries \union {d} /\ NextRow(w) /\ UNCHANGED <<owed, recent>>
  <2>1. d.slot = run[w].slot
    OBVIOUS
  <2> HIDE DEF d
  <2>2. Delivered \subseteq Delivered' /\ run[w].slot \in Delivered'
    BY <1>3, <2>1 DEF Delivered
  <2>3. OneDeliveryPerSlot'
    BY <1>1, <1>3, <2>1 DEF IInv, OneDeliveryPerSlot, Delivered
  <2> QED
    BY <1>0, <1>3, <2>2, <2>3, TurnsToNextRow
<1> QED
  BY <1>2, <1>3 DEF Record

LEMMA EndSessionKeeps == ASSUME IInv, TypeOK', NEW w \in Workers, EndSession(w) PROVE IInv'
<1>b. PICK b : b = run[w]
  OBVIOUS
<1>c. PICK c : c = [b EXCEPT !.pc = "scan", !.start = 0]
  OBVIOUS
<1>0. TypeOK /\ b \in Runs /\ GoodRun(b) /\ Busy(w) /\ b.pc = "user" /\ b.rows = {}
  BY <1>b DEF IInv, TypeOK, EndSession, Busy
<1>1. run' = [run EXCEPT ![w] = c] /\ Working /\ UNCHANGED <<deliveries, owed, recent>>
  BY <1>0, <1>b, <1>c DEF EndSession, TypeOK
<1>2. c.pc = "scan" /\ c.plan = b.plan /\ c.loaded = b.loaded /\ ~AtMembers(c) /\ ~Sending(c)
  BY <1>0, <1>c DEF Runs, AtMembers, Sending
<1>3. HandOf(c)' /\ TruthOf(c)'
  BY <1>0, <1>1, <1>2 DEF GoodRun, HandOf, TruthOf, Sending, AtMembers
<1>4. DebtOf(c)'
  BY <1>0, <1>1, <1>2 DEF GoodRun, DebtOf, Planned, Listed, InHand, Sending, Delivered
<1>5. OneDeliveryPerSlot'
  BY <1>1 DEF IInv, OneDeliveryPerSlot
<1> QED
  BY <1>0, <1>1, <1>2, <1>3, <1>4, <1>5, GoesOn DEF GoodRun

LEMMA AcceptKeeps == ASSUME IInv, TypeOK', NEW w \in Workers, Accept(w) PROVE IInv'
<1>b. PICK b : b = run[w]
  OBVIOUS
<1>c. PICK c : c = [b EXCEPT !.pc = "record"]
  OBVIOUS
<1>0. TypeOK /\ b \in Runs /\ GoodRun(b) /\ Busy(w) /\ b.pc = "send"
  BY <1>b DEF IInv, TypeOK, Accept, Busy
<1>1. run' = [run EXCEPT ![w] = c] /\ Working /\ UNCHANGED <<deliveries, owed, recent>>
  BY <1>0, <1>b, <1>c DEF Accept, TypeOK
<1>2. /\ c.pc = "record" /\ c.plan = b.plan /\ c.at = b.at /\ c.start = b.start
      /\ c.loaded = b.loaded /\ c.rows = b.rows /\ c.slot = b.slot
  BY <1>0, <1>c DEF Runs
<1>3. Delivered' = Delivered
  BY <1>1 DEF Delivered
<1>4. HandOf(c)' /\ TruthOf(c)'
  BY <1>0, <1>1, <1>2, <1>3 DEF GoodRun, HandOf, TruthOf, Sending, AtMembers
<1>5. DebtOf(c)'
  BY <1>0, <1>1, <1>2, <1>3 DEF GoodRun, DebtOf, Planned, Listed, InHand, Sending, AtMembers, Row
<1>6. OneDeliveryPerSlot'
  BY <1>1 DEF IInv, OneDeliveryPerSlot
<1> QED
  BY <1>0, <1>1, <1>2, <1>4, <1>5, <1>6, GoesOn DEF GoodRun

LEMMA RefuseKeeps == ASSUME IInv, TypeOK', NEW w \in Workers, Refuse(w) PROVE IInv'
<1>1. /\ Sending(run[w]) /\ NextRow(w) /\ Working /\ UNCHANGED <<deliveries, recent>>
      /\ owed' \subseteq owed /\ run[w].slot \notin owed'
  BY DEF Refuse, Sending
<1>2. Delivered' = Delivered /\ OneDeliveryPerSlot'
  BY <1>1 DEF IInv, OneDeliveryPerSlot, Delivered
<1> QED
  BY <1>1, <1>2, TurnsToNextRow

-----------------------------------------------------------------------------
LEMMA NextKeeps == IInv /\ [Next]_vars => IInv'
<1> SUFFICES ASSUME IInv, [Next]_vars PROVE IInv'
  OBVIOUS
<1>1. CASE Others
  BY <1>1, OthersStep, OutsideKeeps
<1>2. ASSUME NEW w \in Workers, Work(w) \/ Kill(w) PROVE IInv'
  <2>1. TypeOK'
    BY <1>2, RunType DEF IInv
  <2>2. ASSUME NEW s \in Sessions, NEW read \in [Users -> Leads \union {0}], NextSession(w, s, read)
        PROVE  IInv'
    BY <2>1, <2>2, NextSessionKeeps
  <2>3. ASSUME NEW x \in run[w].rows, Consider(w, x) PROVE IInv'
    BY <2>1, <2>3, ConsiderKeeps
  <2>4. CASE EndRun(w) \/ Kill(w)
    BY <2>1, <2>4, Dies DEF EndRun, Kill, Busy
  <2> QED
    BY <1>2, <2>1, <2>2, <2>3, <2>4, StartRunKeeps, EndSessionKeeps, AcceptKeeps, RefuseKeeps,
       RecordKeeps DEF Work
<1>3. CASE UNCHANGED vars
  BY <1>3 DEF vars, tables, IInv, TypeOK, FlockInv, SeenInv, GoodRun, HandOf, TruthOf, DebtOf,
              OneDeliveryPerSlot, Busy, LivePairs, WillingPairs, Live, IsMember, Due, Delivered,
              Planned, Listed, InHand, Row, Sending, AtMembers
<1> QED
  BY <1>1, <1>2, <1>3 DEF Next

THEOREM Invariance == Spec => []IInv
BY InitIInv, NextKeeps, PTL DEF Spec

\* The rows and the workers are of their kind: TypeOK of every reachable state.
THEOREM Typing == Spec => []TypeOK
<1>1. IInv => TypeOK
  BY DEF IInv
<1> QED
  BY <1>1, Invariance, PTL

\* No member gets two reminders of one session, start and lead recorded, of
\* whatever kinds, though the database rules out two of one kind only.
THEOREM OneDelivery == Spec => []OneDeliveryPerSlot
<1>1. IInv => OneDeliveryPerSlot
  BY DEF IInv
<1> QED
  BY <1>1, Invariance, PTL

\* The worker never mails a reminder that is recorded.
THEOREM NoRepeat == Spec => RecordedOnce
<1>1. IInv /\ [Next]_vars => [\A w \in Workers : Accept(w) => run[w].slot \notin Delivered]_vars
  BY DEF IInv, GoodRun, HandOf, Sending, Accept
<1> QED
  BY <1>1, Invariance, PTL DEF Spec, RecordedOnce

\* A run that ends by itself has delivered all that stayed due since it began
\* and was not refused: none of its early exits skips a member.
THEOREM CompleteRuns == Spec => CompletedRunOwesNothing
<1>1. IInv /\ [Next]_vars => [\A w \in Workers : EndRun(w) => owed \subseteq Delivered]_vars
  <2> SUFFICES ASSUME IInv, NEW w \in Workers, EndRun(w), NEW x \in owed PROVE x \in Delivered
    OBVIOUS
  <2>1. run[w].pc = "scan" /\ \A s \in Sessions : run[w].plan[s] = 0
    BY DEF EndRun
  <2>2. x.session \in Sessions /\ x.start # 0
    BY ReminderAssumption DEF IInv, TypeOK, Slots
  <2> QED
    BY <2>1, <2>2 DEF IInv, GoodRun, DebtOf, Planned, Listed, InHand, Sending, AtMembers
<1> QED
  BY <1>1, Invariance, PTL DEF Spec, CompletedRunOwesNothing

\* What a reminder says has been true since its run began.
THEOREM RecentTruth == Spec => []OnlyRecentTruth
<1>1. IInv => OnlyRecentTruth
  BY DEF IInv, GoodRun, TruthOf, OnlyRecentTruth
<1> QED
  BY <1>1, Invariance, PTL
=============================================================================
