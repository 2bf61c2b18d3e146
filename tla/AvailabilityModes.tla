-------------------------- MODULE AvailabilityModes --------------------------
(***************************************************************************)
(* The calendars of one user: the global one and one of her own for every  *)
(* group (availability.py and the availability routes of main.py).  Rows   *)
(* are keyed by the user, so that users do not disturb each other.  Every  *)
(* write of a group first locks the user's membership row there and reads  *)
(* from it which calendar the group shows.  Two groups that show the       *)
(* global calendar lock different rows, so its days are written            *)
(* concurrently: the primary key refuses a second INSERT (IntegrityError), *)
(* an UPDATE that finds no row fails (StaleDataError), and a day set to    *)
(* what was read is not written at all.                                    *)
(***************************************************************************)
CONSTANTS Groups, Days, Answers, Requests, Unanswered, NoRequest, NoGroup, NoDay

ASSUME SentinelAssumption == /\ Unanswered \notin Answers
                             /\ NoRequest \notin Requests
                             /\ NoGroup \notin Groups
                             /\ NoDay \notin Days

VARIABLES
    membership,  \* the user's rows of group_memberships: mode and flag
    global,      \* her rows of availability, by day
    own,         \* her rows of group_availability, by group and day
    memberLock,  \* the request holding FOR UPDATE on a membership row
    pc,          \* the statement a request executes next
    call,        \* what a request was asked and has read
    reply,       \* the last answer of each request, and the view it showed
    shown        \* history: by day, what the group has shown since a read began

vars == <<membership, global, own, memberLock, pc, call, reply, shown>>

Values    == Answers \union {Unanswered}
Calendars == [Days -> Values]
Modes     == {"global", "separate"}
Blank     == [d \in Days |-> Unanswered]

NoRow   == [member |-> FALSE, mode |-> "global", initialized |-> FALSE]
Entered == [member |-> TRUE, mode |-> "global", initialized |-> FALSE]
Rows    == [member : BOOLEAN, mode : Modes, initialized : BOOLEAN]

Ops == {"idle", "set", "switch", "read"}
PCs == {"idle", "lock", "load", "copy", "write", "save", "view"}

Calls == [op : Ops, group : Groups \union {NoGroup}, day : Days \union {NoDay}, value : Values,
          to : Modes, mode : Modes, loaded : Values, copy : Calendars]

NoCall == [op |-> "idle", group |-> NoGroup, day |-> NoDay, value |-> Unanswered,
           to |-> "global", mode |-> "global", loaded |-> Unanswered, copy |-> Blank]

Replies == [status : {"none", "ok", "failed"}, view : Calendars]
NoReply == [status |-> "none", view |-> Blank]

\* Every row, session and request holds values of its kind, and only members
\* have a mode.
TypeOK == /\ membership \in [Groups -> Rows]
          /\ global \in Calendars
          /\ own \in [Groups -> Calendars]
          /\ memberLock \in [Groups -> Requests \union {NoRequest}]
          /\ pc \in [Requests -> PCs]
          /\ call \in [Requests -> Calls]
          /\ reply \in [Requests -> Replies]
          /\ \A g \in Groups : membership[g].member \/ membership[g] = NoRow

HistoryOK == shown \in [Requests -> [Days -> SUBSET Values]]

Init == /\ membership \in [Groups -> {NoRow, Entered}]
        /\ global = Blank
        /\ own = [g \in Groups |-> Blank]
        /\ memberLock = [g \in Groups |-> NoRequest]
        /\ pc = [r \in Requests |-> "idle"]
        /\ call = [r \in Requests |-> NoCall]
        /\ reply = [r \in Requests |-> NoReply]
        /\ shown = [r \in Requests |-> [d \in Days |-> {}]]

tables == <<membership, global, own>>

\* What the group shows of the user.
Effective(g) == IF membership[g].mode = "global" THEN global ELSE own[g]
Displayed(g) == IF membership[g].member THEN Effective(g) ELSE Blank

\* The request is between its authorization and its answer.
Reading(r) == pc[r] \in {"load", "view"} /\ call[r].op = "read"

\* Remembers for every read what its group shows after each step.
Watch == shown' = [r \in Requests |-> [d \in Days |->
             IF Reading(r)' THEN shown[r][d] \union {Displayed(call[r].group)'[d]} ELSE {}]]

-----------------------------------------------------------------------------
Goto(r, l) == pc' = [pc EXCEPT ![r] = l]

Begin(r, op, g, d, v, m, l) ==
    /\ pc[r] = "idle"
    /\ membership[g].member
    /\ Goto(r, l)
    /\ call' = [call EXCEPT ![r] = [NoCall EXCEPT !.op = op, !.group = g, !.day = d, !.value = v, !.to = m,
                                                  !.mode = IF op = "read" THEN membership[g].mode ELSE @]]
    /\ reply' = [reply EXCEPT ![r] = NoReply]
    /\ UNCHANGED <<tables, memberLock>>
    /\ Watch

Finish(r, status, view) ==
    /\ Goto(r, "idle")
    /\ call' = [call EXCEPT ![r] = NoCall]
    /\ reply' = [reply EXCEPT ![r] = [status |-> status, view |-> view]]
    /\ memberLock' = [g \in Groups |-> IF memberLock[g] = r THEN NoRequest ELSE memberLock[g]]

Fail(r) == Finish(r, "failed", Blank) /\ UNCHANGED tables

Free(g) == memberLock[g] = NoRequest

\* get_authorized_membership loads the membership of the member who asks.
UpdateAvailability(r, g, d, v)   == Begin(r, "set", g, d, v, "global", "lock")
UpdateAvailabilityMode(r, g, m)  == Begin(r, "switch", g, NoDay, Unanswered, m, "lock")
ReadAvailability(r, g)           == Begin(r, "read", g, NoDay, Unanswered, "global", "load")

NextStatement(r, mode) ==
    CASE call[r].op = "set" -> IF call[r].value = Unanswered THEN "write" ELSE "load"
      [] call[r].op = "switch" -> IF /\ call[r].to = "separate" /\ mode = "global"
                                     /\ ~membership[call[r].group].initialized
                                  THEN "copy" ELSE "save"

\* Mutant: the membership is read without FOR UPDATE.
ReadMembership(r) ==
    LET g == call[r].group IN
    /\ pc[r] = "lock"
    /\ membership[g].member
    /\ call' = [call EXCEPT ![r].mode = membership[g].mode]
    /\ Goto(r, NextStatement(r, membership[g].mode))
    /\ UNCHANGED <<tables, memberLock, reply>>
    /\ Watch

\* _locked_membership: waits for the row and reads it anew.
LockMembership(r) ==
    LET g == call[r].group IN
    /\ pc[r] = "lock"
    /\ Free(g)
    /\ IF membership[g].member
       THEN /\ memberLock' = [memberLock EXCEPT ![g] = r]
            /\ call' = [call EXCEPT ![r].mode = membership[g].mode]
            /\ Goto(r, NextStatement(r, membership[g].mode))
            /\ UNCHANGED <<tables, reply>>
       ELSE Fail(r)
    /\ Watch

\* session.get of the day in the calendar the mode names.
LoadDay(r) ==
    LET c == call[r] IN
    /\ pc[r] = "load" /\ c.op = "set"
    /\ call' = [call EXCEPT ![r].loaded = IF c.mode = "global" THEN global[c.day] ELSE own[c.group][c.day]]
    /\ Goto(r, "write")
    /\ UNCHANGED <<tables, memberLock, reply>>
    /\ Watch

\* The day after the statement of r, if it stands at now; a row that appeared
\* or vanished since it was loaded fails the request.
Conflicts(r, now) == /\ call[r].value # Unanswered
                     /\ (call[r].loaded = Unanswered) # (now = Unanswered)
                     /\ call[r].loaded # call[r].value

Written(r, now) == IF call[r].value # Unanswered /\ call[r].loaded = call[r].value THEN now
                                                                                ELSE call[r].value

\* DELETE, UPDATE, INSERT or nothing, and the commit.
WriteDay(r) ==
    LET c == call[r]
        now == IF c.mode = "global" THEN global[c.day] ELSE own[c.group][c.day] IN
    /\ pc[r] = "write"
    /\ \/ Conflicts(r, now) /\ Fail(r)
       \/ /\ ~Conflicts(r, now)
          /\ IF c.mode = "global"
             THEN global' = [global EXCEPT ![c.day] = Written(r, now)] /\ UNCHANGED own
             ELSE own' = [own EXCEPT ![c.group][c.day] = Written(r, now)] /\ UNCHANGED global
          /\ Finish(r, "ok", Blank)
          /\ UNCHANGED membership
    /\ Watch

-----------------------------------------------------------------------------
(* Switching.                                                              *)

\* The first switch to a calendar of the group's own reads the global one ...
CopyGlobal(r) == /\ pc[r] = "copy"
                 /\ call' = [call EXCEPT ![r].copy = global]
                 /\ Goto(r, "save")
                 /\ UNCHANGED <<tables, memberLock, reply>>
                 /\ Watch

\* Mutant: every switch to Separate stores a copy.
EverySwitch(r) == call[r].to = "separate"

First(r) == ~membership[call[r].group].initialized /\ call[r].to = "separate"

\* ... and stores the copy with the new mode in one commit.
SaveMode(r) ==
    LET g == call[r].group IN
    /\ pc[r] = "save"
    /\ membership' = [membership EXCEPT ![g].mode = call[r].to, ![g].initialized = @ \/ First(r)]
    /\ own' = IF First(r) THEN [own EXCEPT ![g] = call[r].copy] ELSE own
    /\ Finish(r, "ok", Blank)
    /\ UNCHANGED global
    /\ Watch

-----------------------------------------------------------------------------
(* effective_group_availability reads the mode in one statement and the    *)
(* calendar it names in another.                                           *)

\* The row has to be there; its mode is the committed one or, when the member
\* reads herself, the one her authorization has put in the session.
ReadMode(r) == LET g == call[r].group IN
               /\ pc[r] = "load" /\ call[r].op = "read"
               /\ IF membership[g].member
                  THEN /\ \E mode \in {call[r].mode, membership[g].mode} : call' = [call EXCEPT ![r].mode = mode]
                       /\ Goto(r, "view")
                       /\ UNCHANGED <<tables, memberLock, reply>>
                  ELSE Finish(r, "ok", Blank) /\ UNCHANGED tables
               /\ Watch

\* Mutant: unanswered days of a group's calendar are filled from the global one.
ShownWithFallBack(r) ==
    LET mine == own[call[r].group] IN
    IF call[r].mode = "global" THEN global
    ELSE [d \in Days |-> IF mine[d] = Unanswered THEN global[d] ELSE mine[d]]

Shown(r) == IF call[r].mode = "global" THEN global ELSE own[call[r].group]

ShowCalendar(r) == /\ pc[r] = "view"
                   /\ Finish(r, "ok", Shown(r))
                   /\ UNCHANGED tables
                   /\ Watch

-----------------------------------------------------------------------------
(* Memberships come and go; the foreign key takes the group's rows along.  *)

JoinGroup(g) == /\ ~membership[g].member
                /\ membership' = [membership EXCEPT ![g] = Entered]
                /\ UNCHANGED <<global, own, memberLock, pc, call, reply>>
                /\ Watch

\* Mutant: the foreign key does not cascade.
LeaveKeepingRows(g) == /\ membership[g].member
                       /\ Free(g)
                       /\ membership' = [membership EXCEPT ![g] = NoRow]
                       /\ UNCHANGED <<global, own, memberLock, pc, call, reply>>
                       /\ Watch

LeaveGroup(g) == /\ membership[g].member
                 /\ Free(g)
                 /\ membership' = [membership EXCEPT ![g] = NoRow]
                 /\ own' = [own EXCEPT ![g] = Blank]
                 /\ UNCHANGED <<global, memberLock, pc, call, reply>>
                 /\ Watch

\* delete_account_data locks all memberships before it deletes anything.
EraseAccount == /\ \A g \in Groups : Free(g)
                /\ membership' = [g \in Groups |-> NoRow]
                /\ global' = Blank
                /\ own' = [g \in Groups |-> Blank]
                /\ UNCHANGED <<memberLock, pc, call, reply>>
                /\ Watch

Step(r) == LockMembership(r) \/ LoadDay(r) \/ WriteDay(r) \/ CopyGlobal(r) \/ SaveMode(r)
              \/ ReadMode(r) \/ ShowCalendar(r)

Next == \/ EraseAccount
        \/ \E g \in Groups : JoinGroup(g) \/ LeaveGroup(g)
        \/ \E r \in Requests :
              \/ Step(r)
              \/ \E g \in Groups :
                    \/ ReadAvailability(r, g)
                    \/ \E m \in Modes : UpdateAvailabilityMode(r, g, m)
                    \/ \E d \in Days, v \in Values : UpdateAvailability(r, g, d, v)

Spec == Init /\ [][Next]_vars

-----------------------------------------------------------------------------
(* Properties.                                                             *)

Saves(r) == pc[r] = "write" /\ reply'[r].status = "ok"

\* An answer the member saved is the one the group shows: nobody switches the
\* calendar between the choice of the table and the commit.  (An answer equal
\* to the one read is not written; it was shown when it was read.)
SavedIsShown ==
    [][\A r \in Requests : \A g \in Groups, d \in Days :
          Saves(r) /\ call[r].group = g /\ call[r].day = d /\ call[r].loaded # call[r].value
             => Effective(g)'[d] = call[r].value]_vars

\* A group's own calendar is filled once.  After that it changes only where
\* the member answers in that group, whatever is written and switched
\* elsewhere, until the membership ends.
OwnCalendarIsKept ==
    [][\A g \in Groups : own'[g] # own[g] =>
          \/ ~membership'[g].member
          \/ ~membership[g].initialized /\ membership'[g].initialized
          \/ \E r \in Requests : /\ Saves(r) /\ call[r].group = g
                                 /\ membership[g].mode = "separate"
                                 /\ own'[g] = [own[g] EXCEPT ![call[r].day] = call[r].value]]_vars

\* A member who leaves and joins again starts with the global calendar: no
\* answer of an earlier membership waits behind the mode.
NoInheritedAnswers ==
    \A g \in Groups : own[g] # Blank \/ membership[g].mode = "separate" => membership[g].initialized

\* The state invariant of the calendars: rows and locks of their kind, and no
\* rows without the membership they belong to.
WellFormed == TypeOK /\ HistoryOK /\ NoInheritedAnswers

Shows(r)       == pc[r] = "view" /\ pc'[r] = "idle"
ShowsGlobal(g) == membership[g].member /\ membership[g].mode = "global"

\* Modes and calendars are read in several statements while the member
\* switches, answers and leaves.  Still no view mixes calendars or makes up a
\* day: what it shows for a day, the group showed at some moment of the read.
\* The one exception is a read that has found the global calendar when the
\* group stops showing it: it may show what she answered elsewhere since.
ViewIsOfItsTime ==
    [][\A r \in Requests : Shows(r) =>
          \A d \in Days : \/ reply'[r].view[d] \in shown[r][d]
                          \/ /\ call[r].mode = "global" /\ ~ShowsGlobal(call[r].group)
                             /\ reply'[r].view[d] = global[d]]_vars
=============================================================================
