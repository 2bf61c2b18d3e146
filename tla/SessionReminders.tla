-------------------------- MODULE SessionReminders --------------------------
(***************************************************************************)
(* Personal session reminders of one group: process_session_reminders, run *)
(* by a timer every five minutes, while organizers move and cancel         *)
(* sessions, members answer, change their settings, leave or erase their   *)
(* accounts, and time passes.  A run plans with the sessions it read at    *)
(* its start and, per session, with the members it read then.              *)
(*                                                                         *)
(* Time is counted in units of the clock; leads are differences of it.  A  *)
(* start of 0 is a session without a valid time, a lead of 0 a member who  *)
(* switched reminders off.                                                 *)
(***************************************************************************)
EXTENDS Naturals, FiniteSets

CONSTANTS Sessions, Users, Workers, NoSlot,
          Starts,   \* instants at which a session may start
          Leads,    \* REMINDER_CHOICES
          MaxTime,  \* bound: the last instant looked at
          MaxMoves  \* bound: changes made by others

Slots == [session : Sessions, user : Users, start : Starts, lead : Leads]

ASSUME ReminderAssumption ==
    /\ Sessions # {} /\ NoSlot \notin Slots
    /\ Starts \subseteq Nat \ {0} /\ Leads \subseteq Nat \ {0}
    /\ MaxTime \in Nat /\ MaxMoves \in Nat

VARIABLES
    now,        \* the clock
    session,    \* confirmed_sessions: status and UTC start
    member,     \* what the membership, account and user rows say of a user
    lead,       \* users.session_reminder_minutes
    rsvp,       \* confirmed_session_rsvps
    answer,     \* RSVP requests between their checks and their commit
    deliveries, \* session_notification_deliveries of reminders
    run,        \* the workers
    moves,      \* changes made by others so far
    owed,       \* history: slots due when the run began, nothing having changed
    recent      \* history: what has been true at some moment of the run

tables == <<session, member, lead, rsvp>>
vars   == <<now, tables, answer, deliveries, run, moves, owed, recent>>

Kinds == {"upcoming", "missing_rsvp"}
RsvpRows == {"none", "attending", "declined"}
Rows  == [user : Users, on : BOOLEAN, rsvp : RsvpRows, lead : Leads \union {0}]
Deliveries == [kind : Kinds, slot : Slots]

\* A run at statement pc: the starts still planned, the session it is at, the
\* members of it to come, the leads of the User objects it has loaded, and the
\* reminder in hand.
Runs == [pc : {"idle", "scan", "user", "send", "record"},
         plan : [Sessions -> Starts \union {0}], at : Sessions, start : Starts \union {0},
         rows : SUBSET Rows, loaded : SUBSET (Users \X (Leads \union {0})),
         slot : Slots \union {NoSlot}, kind : Kinds]

NoRun == [pc |-> "idle", plan |-> [s \in Sessions |-> 0], at |-> CHOOSE s \in Sessions : TRUE,
          start |-> 0, rows |-> {}, loaded |-> {}, slot |-> NoSlot, kind |-> "upcoming"]

NoAnswer == [pc |-> "none"]
Answers  == {NoAnswer} \union [pc : {"store"}, session : Sessions, status : RsvpRows \ {"none"},
                               found : BOOLEAN]

\* "on": a member with a usable address, "blind": without one, "out": has left.
IsMember(u) == member[u] \in {"on", "blind"}
Exists(u)   == member[u] # "erased"

Live(s)   == session[s].status = "live"
Delivered == {d.slot : d \in deliveries}

\* The tables hold rows of their kind and a worker past its decision a slot.
TypeOK ==
    /\ now \in 0..MaxTime /\ moves \in 0..MaxMoves
    /\ session \in [Sessions -> [status : {"none", "live", "cancelled", "gone"},
                                start : Starts \union {0}]]
    /\ member \in [Users -> {"on", "blind", "out", "tombstone", "erased"}]
    /\ lead \in [Users -> Leads \union {0}]
    /\ rsvp \in [Sessions \X Users -> RsvpRows]
    /\ answer \in [Users -> Answers]
    /\ deliveries \subseteq Deliveries
    /\ run \in [Workers -> Runs]
    /\ \A w \in Workers : run[w].pc \in {"send", "record"} => run[w].slot \in Slots
    /\ owed \subseteq Slots
    /\ recent.live \subseteq Sessions \X Starts /\ recent.willing \subseteq Sessions \X Users

Init == /\ now = 0 /\ moves = 0
        /\ session = [s \in Sessions |-> [status |-> "none", start |-> 0]]
        /\ member = [u \in Users |-> "on"]
        /\ lead \in [Users -> Leads]
        /\ rsvp = [p \in Sessions \X Users |-> "none"]
        /\ answer = [u \in Users |-> NoAnswer]
        /\ deliveries = {}
        /\ run = [w \in Workers |-> NoRun]
        /\ owed = {}
        /\ recent = [live |-> {}, willing |-> {}]

-----------------------------------------------------------------------------
(* History of a run: what is owed shrinks, what has been true grows.       *)

\* A reminder for slot x is due and its member is to be reminded.
Due(x) == /\ Live(x.session) /\ session[x.session].start = x.start
          /\ member[x.user] = "on" /\ lead[x.user] = x.lead
          /\ rsvp[<<x.session, x.user>>] # "declined"
          /\ now < x.start /\ x.start <= now + x.lead

LivePairs    == {p \in Sessions \X Starts : Live(p[1]) /\ session[p[1]].start = p[2]}
WillingPairs == {p \in Sessions \X Users : IsMember(p[2]) /\ rsvp[p] # "declined"}
Nothing      == [live |-> {}, willing |-> {}]

Observe ==
    /\ owed' = {x \in owed : Due(x)'}
    /\ recent' = IF \A w \in Workers : run[w].pc = "idle" THEN Nothing
                 ELSE [live    |-> recent.live \union LivePairs',
                       willing |-> recent.willing \union WillingPairs']

-----------------------------------------------------------------------------
(* The rest of the application.                                            *)

Move == moves < MaxMoves /\ moves' = moves + 1

Tick == /\ now < MaxTime
        /\ now' = now + 1
        /\ UNCHANGED <<tables, answer, deliveries, run, moves>>
        /\ Observe

Reschedule(new) == /\ session' = new
                   /\ UNCHANGED <<now, member, lead, rsvp, answer, deliveries, run>>
                   /\ Observe

\* confirm_group_session: a new session, or a cancelled one with its old or a
\* new start.  A start that does not exist in the group's zone is refused.
ConfirmGroupSession(s, t) ==
    /\ Move
    /\ session[s].status \in {"none", "cancelled"}
    /\ Reschedule([session EXCEPT ![s] = [status |-> "live", start |-> t]])

UpdateGroupSession(s, t) == /\ Move
                            /\ Live(s)
                            /\ Reschedule([session EXCEPT ![s].start = t])

CancelGroupSession(s) == /\ Move
                         /\ Live(s)
                         /\ Reschedule([session EXCEPT ![s].status = "cancelled"])

Group == \A s \in Sessions : session[s].status # "gone"

\* update_group: another zone moves every session that has a time.
UpdateGroup(moved) ==
    /\ Move
    /\ Group
    /\ Reschedule([s \in Sessions |-> IF session[s].start = 0 THEN session[s]
                                      ELSE [session[s] EXCEPT !.start = moved[s]]])

DeleteGroup ==
    /\ Move
    /\ Group
    /\ session' = [s \in Sessions |-> [status |-> "gone", start |-> 0]]
    /\ member' = [u \in Users |-> IF IsMember(u) THEN "out" ELSE member[u]]
    /\ rsvp' = [p \in Sessions \X Users |-> "none"]
    /\ deliveries' = {}
    /\ UNCHANGED <<now, lead, answer, run>>
    /\ Observe

UpdateNotificationPreferences(u, l) ==
    /\ Move
    /\ member[u] \in {"on", "blind", "out"}
    /\ lead' = [lead EXCEPT ![u] = l]
    /\ UNCHANGED <<now, session, member, rsvp, answer, deliveries, run>>
    /\ Observe

\* The member leaves or returns, loses or mends the address.  Answers stay.
ChangeMember(u, state) ==
    /\ Move
    /\ Group
    /\ member[u] \in {"on", "blind", "out"} \ {state}
    /\ member' = [member EXCEPT ![u] = state]
    /\ UNCHANGED <<now, session, lead, rsvp, answer, deliveries, run>>
    /\ Observe

\* delete_account_data: RSVPs and deliveries go, the user row only if no
\* session names it.
EraseAccount(u, left) ==
    /\ Move
    /\ member[u] \in {"on", "blind", "out"}
    /\ member' = [member EXCEPT ![u] = left]
    /\ lead' = [lead EXCEPT ![u] = 0]
    /\ rsvp' = [p \in Sessions \X Users |-> IF p[2] = u THEN "none" ELSE rsvp[p]]
    /\ deliveries' = {d \in deliveries : d.slot.user # u}
    /\ UNCHANGED <<now, session, answer, run>>
    /\ Observe

\* update_own_session_rsvp up to its commit: no lock on the session or group.
BeginRsvp(u, s, status) ==
    /\ Move
    /\ answer[u] = NoAnswer
    /\ IsMember(u) /\ Live(s)
    /\ answer' = [answer EXCEPT ![u] = [pc |-> "store", session |-> s, status |-> status,
                                        found |-> rsvp[<<s, u>>] # "none"]]
    /\ UNCHANGED <<now, tables, deliveries, run, owed, recent>>

\* Its commit, which fails if a row it needs is gone.
StoreRsvp(u) ==
    LET a == answer[u] IN
    /\ a # NoAnswer
    /\ answer' = [answer EXCEPT ![u] = NoAnswer]
    /\ \/ UNCHANGED rsvp
       \/ /\ session[a.session].status # "gone" /\ Exists(u)
          /\ a.found <=> rsvp[<<a.session, u>>] # "none"
          /\ rsvp' = [rsvp EXCEPT ![<<a.session, u>>] = a.status]
    /\ UNCHANGED <<now, session, member, lead, deliveries, run, moves>>
    /\ Observe

-----------------------------------------------------------------------------
(* process_session_reminders.                                              *)

Working == UNCHANGED <<now, tables, answer, moves>>

\* The sessions are read once: live, timed, and to start within the longest lead.
Soon(s) == /\ Live(s) /\ now < session[s].start
           /\ \E l \in Leads : session[s].start <= now + l

Plan(S) == [s \in Sessions |-> IF s \in S THEN session[s].start ELSE 0]

Launch(w, plan) == /\ run' = [run EXCEPT ![w] = [NoRun EXCEPT !.pc = "scan", !.plan = plan]]
                   /\ owed' = {x \in Slots : Due(x)}
                   /\ recent' = [live |-> LivePairs, willing |-> WillingPairs]
                   /\ Working /\ UNCHANGED deliveries

\* Mutant: cancelled sessions are read as well.
StartRunWithCancelled(w) == /\ \A v \in Workers : run[v].pc = "idle"
                            /\ Launch(w, Plan({s \in Sessions : now < session[s].start}))

\* flock -n: nothing starts while another worker holds the lock file.
StartRun(w) == /\ \A v \in Workers : run[v].pc = "idle"
               /\ Launch(w, Plan({s \in Sessions : Soon(s)}))

RowOf(s, u, l) == [user |-> u, on |-> member[u] = "on", rsvp |-> rsvp[<<s, u>>], lead |-> l]
RowsOf(s, read) == {RowOf(s, u, read[u]) : u \in {m \in Users : IsMember(m)}}
Reload(old, read) == {<<u, read[u]>> : u \in {m \in Users : IsMember(m)}}
                       \union {p \in old : ~IsMember(p[1])}

\* The members of the next session.  A User object the run still holds from an
\* earlier session keeps the lead it was loaded with.
NextSession(w, s, read) ==
    LET c == run[w] IN
    /\ c.pc = "scan" /\ c.plan[s] # 0
    /\ \A u \in Users : read[u] = lead[u] \/ <<u, read[u]>> \in c.loaded
    /\ run' = [run EXCEPT ![w] =
                [c EXCEPT !.pc = "user", !.plan = [@ EXCEPT ![s] = 0], !.at = s, !.start = c.plan[s],
                          !.rows = RowsOf(s, read), !.loaded = Reload(@, read)]]
    /\ Working /\ UNCHANGED <<deliveries, owed, recent>>

SlotOf(c, x) == [session |-> c.at, user |-> x.user, start |-> c.start, lead |-> x.lead]

\* Mutant: only the key of the kind to be sent is looked up.
WantedByKind(c, x) ==
    /\ now < c.start /\ x.lead # 0 /\ x.rsvp # "declined" /\ x.on /\ c.start <= now + x.lead
    /\ \A d \in deliveries : d.slot = SlotOf(c, x) =>
          d.kind # (IF x.rsvp = "none" THEN "missing_rsvp" ELSE "upcoming")

\* Mutant: one reminder per session and member, whatever its start.
WantedOnce(c, x) ==
    /\ now < c.start /\ x.lead # 0 /\ x.rsvp # "declined" /\ x.on /\ c.start <= now + x.lead
    /\ \A y \in Delivered : ~(y.session = c.at /\ y.user = x.user)

\* Mutant: a reminder that was not sent at its very time is dropped.
WantedPunctually(c, x) ==
    /\ now < c.start /\ x.lead # 0 /\ x.rsvp # "declined" /\ x.on /\ c.start = now + x.lead
    /\ SlotOf(c, x) \notin Delivered

\* Row x calls for a reminder now, and neither kind has been recorded for it.
Wanted(c, x) == /\ now < c.start
                /\ x.lead # 0
                /\ x.rsvp # "declined"
                /\ x.on
                /\ c.start <= now + x.lead
                /\ SlotOf(c, x) \notin Delivered

Drop(c, x) == [c EXCEPT !.rows = @ \ {x}]
KindFor(x) == IF x.rsvp = "none" THEN "missing_rsvp" ELSE "upcoming"

\* The next member of the session: a reminder to send, or nothing.
Consider(w, x) ==
    LET c == run[w] IN
    /\ c.pc = "user" /\ x \in c.rows
    /\ run' = [run EXCEPT ![w] = IF Wanted(c, x)
                                 THEN [Drop(c, x) EXCEPT !.pc = "send", !.slot = SlotOf(c, x),
                                                         !.kind = KindFor(x)]
                                 ELSE Drop(c, x)]
    /\ Working /\ UNCHANGED <<deliveries, owed, recent>>

NextRow(w) == run' = [run EXCEPT ![w].pc = "user", ![w].slot = NoSlot, ![w].kind = "upcoming"]

Accept(w) == /\ run[w].pc = "send"
             /\ run' = [run EXCEPT ![w].pc = "record"]
             /\ Working /\ UNCHANGED <<deliveries, owed, recent>>

\* EmailDeliveryError: the slot stays open for the next run.
Refuse(w) == /\ run[w].pc = "send"
             /\ NextRow(w)
             /\ owed' = owed \ {run[w].slot}
             /\ Working /\ UNCHANGED <<deliveries, recent>>

\* The run is over, in whatever way.
Die(w) == /\ run' = [run EXCEPT ![w] = NoRun]
          /\ owed' = {} /\ recent' = Nothing
          /\ UNCHANGED deliveries

\* Foreign keys and the unique key end the run with an exception.
Record(w) ==
    LET c == run[w]
        d == [kind |-> c.kind, slot |-> c.slot]
    IN  /\ c.pc = "record"
        /\ IF session[c.slot.session].status = "gone" \/ ~Exists(c.slot.user) \/ d \in deliveries
           THEN Die(w)
           ELSE /\ deliveries' = deliveries \union {d}
                /\ NextRow(w)
                /\ UNCHANGED <<owed, recent>>
        /\ Working

EndSession(w) == /\ run[w].pc = "user" /\ run[w].rows = {}
                 /\ run' = [run EXCEPT ![w].pc = "scan", ![w].start = 0]
                 /\ Working /\ UNCHANGED <<deliveries, owed, recent>>

EndRun(w) == /\ run[w].pc = "scan" /\ \A s \in Sessions : run[w].plan[s] = 0
             /\ Die(w) /\ Working

\* The timeout of 210 s, a restart, a lost database connection.
Kill(w) == /\ run[w].pc # "idle"
           /\ Die(w) /\ Working

-----------------------------------------------------------------------------
Others == \/ Tick \/ DeleteGroup
          \/ \E s \in Sessions : \/ CancelGroupSession(s)
                                 \/ \E t \in Starts \union {0} : \/ ConfirmGroupSession(s, t)
                                                                \/ UpdateGroupSession(s, t)
          \/ \E moved \in [Sessions -> Starts] : UpdateGroup(moved)
          \/ \E u \in Users :
                \/ StoreRsvp(u)
                \/ \E l \in Leads \union {0} : UpdateNotificationPreferences(u, l)
                \/ \E state \in {"on", "blind", "out"} : ChangeMember(u, state)
                \/ \E left \in {"tombstone", "erased"} : EraseAccount(u, left)
                \/ \E s \in Sessions, status \in {"attending", "declined"} : BeginRsvp(u, s, status)

Work(w) == \/ StartRun(w) \/ EndSession(w) \/ EndRun(w)
           \/ Accept(w) \/ Refuse(w) \/ Record(w)
           \/ \E s \in Sessions, read \in [Users -> Leads \union {0}] : NextSession(w, s, read)
           \/ \E x \in run[w].rows : Consider(w, x)

Next == Others \/ \E w \in Workers : Work(w) \/ Kill(w)

Spec == Init /\ [][Next]_vars

\* The timer starts runs for ever and a run goes on; the provider does not
\* refuse a reminder for ever; kills become rare enough for runs to end.  Time
\* and people are not forced to do anything.
Fairness == /\ WF_vars(\E w \in Workers : Work(w))
            /\ \A x \in Slots : SF_vars(\E w \in Workers : run[w].slot = x /\ Accept(w))
            /\ <>[][\A w \in Workers : Kill(w) => Work(w)]_vars

FairSpec == Spec /\ Fairness

-----------------------------------------------------------------------------
(* Properties.                                                             *)

\* A member is reminded once per session, start and lead: the two kinds share
\* the slot though only keys of one kind exclude each other in the database.
OneDeliveryPerSlot ==
    \A d, e \in deliveries : d.slot = e.slot => d = e

\* A slot with a delivery is not mailed again, even if the answer has changed
\* the kind of its reminder since.
RecordedOnce == [][\A w \in Workers : Accept(w) => run[w].slot \notin Delivered]_vars

\* A run that ends by itself has delivered every slot that was due when it
\* began and stayed so, but those the provider refused.
CompletedRunOwesNothing == [][\A w \in Workers : EndRun(w) => owed \subseteq Delivered]_vars

\* A reminder may be out of date, but by no more than the run: the session was
\* live with this start, and the member was one and had not declined, at some
\* moment since the run began.
OnlyRecentTruth ==
    \A w \in Workers : run[w].pc = "send" =>
        LET x == run[w].slot IN /\ <<x.session, x.start>> \in recent.live
                                /\ <<x.session, x.user>> \in recent.willing

\* A reminder that is due and stays so is delivered in the end.
DueIsDelivered == \A x \in Slots : Due(x) ~> (~Due(x) \/ x \in Delivered)
=============================================================================
