# A formal model of DnD Planner

DnD Planner is a FastAPI application on PostgreSQL with a Next.js frontend: groups of players keep
availability calendars, agree on session days and get emails about them. This directory holds TLA+
specifications of the parts of it that are concurrent, crash in the middle of things or retry, the
TLC configurations that check them on small instances, and TLAPS proofs for any number of users and
requests. `PROJECT.json` lists components, runs, hazards, findings, theorems and, per definition,
the source lines it stands for.

    tlc -workers 2 -config MCGroupTransactions.cfg MCGroupTransactions.tla
    tlapm GroupTransactionsProofs.tla

## The system

| Component | State | Operations | Interacts with |
|---|---|---|---|
| Group membership (`group_service.py`, `main.py`) | `groups`, `group_memberships` | create, join, leave, remove, set role, transfer, delete | row locks shared with sessions, invites, erasure |
| Session lifecycle (`main.py`) | `confirmed_sessions`, RSVPs | confirm, edit, cancel, RSVP | group row lock; fills the outbox |
| Event-email outbox (`session_event_emails.py`, its CLI, a systemd timer) | `session_event_email_outbox`, `session_notification_deliveries` | enqueue, pick, send, record, put off, discard | SMTP provider; cascades of group and account deletion |
| Personal reminders (`notifications.py`, CLI, timer) | deliveries | find due, send, record | sessions, RSVPs, SMTP |
| Invites (`invites.py`, `main.py`) | `group_invites`, in-memory attempt counter | generate, replace, revoke, preview, join | group row lock, index on the active code |
| Availability (`availability.py`, `main.py`) | global and per-group entries, the mode of a membership | switch mode, write entries, effective view | membership row lock |
| Accounts (`auth.py`, `link_account.py`, `terms.py`) | `accounts`, identities, `users` | provision, onboard, link, accept terms | unique indexes, account row lock |
| Profile synchronisation (`clerk_profile.py`, `auth.py`) | profile columns of `accounts` | fetch, extract, persist | identity provider |
| Account erasure (`account_data.py`) | all personal rows | export, delete | everything above |
| Session time (`session_time.py`) | none | local time to UTC | sessions, reminders |
| Legacy importer (`cli/import_legacy_sqlite.py`, `legacy_contract.py`, `database.py`) | destination tables, plan and report files | inspect, plan, apply, verify | advisory lock, the former program's SQLite file |
| Legacy reconciliation (`cli/reconcile_legacy_availability.py`) | `availability` | dry run, apply | row locks against the application |
| Deployment (`deploy_master.sh`) | containers, release files, schema | deploy, migrate, health check, roll back | backups |
| Backups (`deploy/*.sh`) | dumps on two hosts | dump, publish, pull, retain, verify | timers |
| Frontend (`frontend/src`) | page state | optimistic edits | the API |

What is hard in it, and what must be true nevertheless:

- **Stale authorization.** Every route reads the caller's membership before it locks anything, and
  SQLAlchemy's identity map returns that same object later (`expire_on_commit=False`, no
  `populate_existing`). Checks under the lock therefore see old roles. A group must keep at most one
  owner, and its owner must not be removed, all the same.
- **A writer without the lock.** The role endpoint takes no group lock; account erasure takes row
  locks only.
- **A transactional outbox.** Mails must announce committed changes only, in order per session and
  member, and none may be lost or repeated after it was recorded, though requests roll back, runs
  are killed and rows vanish under the worker.
- **At-least-once edges**, retries with delays, batches and a single-worker lock file.
- **Reminders computed from stale rows**: a run works off what it read, while sessions move and
  members answer. It must reach everybody it owes a reminder and mail no slot it has recorded.
- **Uniqueness by index.** One active code, one account per identity, one user per account, one account
  per address: each is looked up first and decided by a unique index at the write, behind a savepoint or
  not. What a loser leaves behind must be nothing.
- **A choice made before the write.** Which calendar an answer goes to, which row an erasure takes along,
  which counts an operator has approved: each is read first and has to hold until the commit.
- **Two programs on one set of data.** The importer reads a file that the former program may write and
  fills tables that the application may write; its exit codes and reports are what the operator acts on.

## Modules

| Module | Role |
|---|---|
| `GroupRoster` | abstract: the committed roster changes by whole operations |
| `GroupTransactions` | the membership writers, statement by statement; implements `GroupRoster` |
| `MCGroupTransactions` | its finite instances |
| `GroupTransactionsProofs` | its inductive invariant and theorems |
| `EventFeed` | abstract: an ordered feed per member and session that may repeat or drop |
| `SessionOutbox` | session requests, the outbox and the worker; implements `EventFeed` |
| `MCSessionOutbox` | its finite instances |
| `SessionOutboxProofs` | its inductive invariant and theorems |
| `SessionReminders` | the reminder worker and everything that changes what is due |
| `MCSessionReminders` | its finite instances |
| `SessionRemindersProofs` | its inductive invariant and theorems |
| `InviteDesk` | abstract: one valid code, one newcomer at a time, a count for every code |
| `GroupInvites`, `MCGroupInvites`, `GroupInvitesProofs` | the codes of a group, their instance and proofs |
| `AvailabilityModes`, `MCAvailabilityModes`, `AvailabilityModesProofs` | the calendars of a member |
| `AccountDirectory` | abstract: accounts, logins, agreements and profiles change by whole operations |
| `AccountProvisioning`, `MCAccountProvisioning`, `AccountProvisioningProofs` | accounts, identities, users, terms |
| `ProfileSync`, `MCProfileSync`, `ProfileSyncProofs` | the copy of the identity provider's profile |
| `LegacyContract` | the canonical users, days and answers, shared by normalization and reconciliation |
| `LegacyNormalization`, `MCLegacyNormalization` | the former program's table and the importer's reduction of it |
| `ImportOnce` | abstract: at most one import, in one step, and honest reports |
| `LegacyImport`, `MCLegacyImport` | the importer's runs, files and transactions |
| `LegacyReconciliation`, `MCLegacyReconciliation` | the correction after the cutover |
| `LegacyProofs` | the proofs about the last three, apart and together |

The modules meet at the database: each keeps the tables its operations write, and what other operations
do to those tables is an action of it (`EraseAccount` and `LeaveGroup` appear in several modules, each time
with the locks they take there). A definition whose comment begins with "Mutant:" is a plausible bug: the
runs fail when it takes the place of the definition after it.

### GroupTransactions

One group. A *request* is one database session running one transaction; `pc` is the statement it
executes next, `call` what it was asked and what it has read (`actorRole`, `targetRole` are the cached
objects), `pending` the row versions it has flushed but not committed. `groupLock` is
`SELECT ... FOR UPDATE` on the group row. Correspondence:

- *Routes* (`LeaveGroup`, `RemoveGroupMember`, ...) are the part of an endpoint up to its first lock:
  `get_authorized_membership` plus the role check. A refused request changes nothing and is not shown.
- `LoadTarget`, `WriteRole` are `session.get` and the UPDATE of `update_group_member_role`. An UPDATE
  that would write the value loaded is not emitted; one whose row vanished is a `StaleDataError`.
- `LockGroup` ... `Commit` are `group_service.py` under the lock: `RemoveMember`, `LoadNewOwner`,
  `DemoteOwner`, `PromoteOwner` (with the partial unique index `uq_group_memberships_one_owner`),
  `VerifyOwner`, `DeleteGroup`, and the locked half of `join_group_with_invite`.
- `BeginErase`, `LockMemberships`, `EraseAccount` are `delete_account_data`. It locks the user and its
  memberships, not the group.
- `Crash` is a rollback at any statement: lost connection, deadlock victim, killed process.

A statement that waits for a row lock is an action that is not enabled while another transaction has
an uncommitted version of the row. READ COMMITTED is `Seen`: committed rows under one's own writes.

Left out: nicknames and display order, group settings, the invite's own state (`InsertMember` may
find it gone), the requests a route refuses. A second group would share nothing but users with this
one; a create that meets another group is not shown.

### SessionOutbox

One group, its session days, its recipients. A mail is one outbox row `[day, to, at]`; `at` is
`created_at`, taken from the clock while the group row is locked, so stamps follow commits (a clock
that steps back is not modelled). `resting` holds the rows whose `next_attempt_at` lies ahead; the 1, 5,
15 and 60 minutes of `_retry_delay` are one delay that ends (`Elapse`). `inbox` folds what decides
eligibility: membership, linked account, usable address, switch.

- `Begin`, `LockSessionGroup`, `ConfirmGroupSession` / `UpdateGroupSession` / `CancelGroupSession`,
  `Enqueue`, `Commit` are the session endpoints. The rows are inserted by the flush at COMMIT; a recipient
  erased since the audience was read violates the foreign key and rolls the session change back.
- `StartRun` is the timer with `flock -n` and the SELECT of the batch; `Pick`, `Check`, `Discard`,
  `Accept`/`Refuse`, `Record`, `Retry`, `EndRun` are the loop of `process_session_event_emails`. Rows
  may vanish between any two of them. `Kill` ends a run anywhere.
- `ChangeInbox`, `EraseAccount`, `DeleteGroup` are the rest of the application.

`mailed`, `heard`, `announced` and `steady` are history variables: no action reads them.

### SessionReminders

One group, its sessions, its members, a clock. A *slot* is what the delivery key says besides the kind:
session, user, UTC start, lead. `session[s].start` is the UTC start of the session's local time in the
group's zone, 0 without a valid one; `member` folds membership, account and usable address.

- `StartRun` is the timer with `flock -n` and the one SELECT of the sessions; `NextSession` the SELECT of
  the members, their answers and addresses, per session; `Consider` the chain of `continue`s and the look
  at the keys of both kinds; `Accept`/`Refuse` the provider; `Record` the insert and its commit, which
  a foreign key or the unique key may fail and so end the run; `EndSession`, `EndRun`, `Kill`.
- The clock is read per member, the sessions once per run, the members once per session, and a `User`
  the run still references keeps the lead it was loaded with: `read` is any mixture that this allows.
  The order of sessions and members is left open.
- `BeginRsvp` and `StoreRsvp` are the RSVP endpoint up to and from its commit; it takes no lock. A user has
  one such request under way at a time. Going and Maybe are one answer here.
- `ConfirmGroupSession`, `UpdateGroupSession`, `CancelGroupSession`, `UpdateGroup` (a new zone moves
  every timed session), `DeleteGroup`, `UpdateNotificationPreferences`, `ChangeMember`, `EraseAccount`,
  `Tick`. The session writers hold the group lock and are one step here; their statements are in
  `SessionOutbox`.

`owed` (the slots due when the run began and ever since) and `recent` (what has been true of sessions
and members at some moment of the run) are history variables: no action reads them.

### GroupInvites

One group and its codes. `pc` is the next statement of a request, `call` what it has read; `admitted` and
`liveAtLock` are history.

- `ReadActive`, `MarkRevoked`, `IssueInvite` are `generate_group_invite` and `revoke_group_invite`: the UPDATE
  that ends a code locks its row until the commit, the INSERT waits for the group row and the issuer through
  its foreign keys, and `IndexAllows` is `uq_group_invites_one_active`.
- `JoinGroupWithInvite`, `ResolveCode` (also the preview), `LockGroup`, `RecheckCode`, `EnterGroup` are the join.
  The recheck reads the code again under the group lock; `EnterGroup` writes `use_count` from the value
  read, so that a concurrent change of the row fails it.
- `PurgeGroup` and `EraseAccount` are the deletion of the group and the erasure of an issuer; both wait for
  a code that is being replaced. `LeaveGroup` and `TransferGroupOwnership` stand for `GroupTransactions`.
- `Waits` says whose locks the next statement conflicts with. Requests take these locks in different
  orders; `AbortDeadlocked` is PostgreSQL ending a cycle.
- `InviteDesk` is what this amounts to: `Valid`, `Used` and `Count` are read off the table, `Admitting` is the join past
  its recheck. Letting in and entering are two steps of the desk, because a code may end between them.
- `Roles` is this model's share of the membership table; `KeepsToRoster` says that it changes by steps of
  `GroupRoster` only, so that the two models of the table agree.

A code is drawn once; that 256 random bits do not repeat is taken for granted.

### AvailabilityModes

One user, her groups and days; rows are keyed by the user. `LockMembership` is `_locked_membership`,
`LoadDay`/`WriteDay` the single-day routes with the ORM's choice between INSERT, UPDATE, DELETE and nothing
(`Conflicts`, `Written`), `CopyGlobal`/`SaveMode` `set_availability_mode`, `ReadMode`/`ShowCalendar`
`effective_group_availability`: the mode in one statement, the calendar it names in another. The mode is the
committed one or, for the member who reads herself, the one her authorization has loaded (`Begin`), which the
identity map keeps. The routes that write several days are sequences of these writes under one
lock and add no order of their own. `LeaveGroup` and `EraseAccount` carry the cascades. `shown`, by read and day
what the group has shown since the read began, is history.

### AccountProvisioning

`Authenticate`, `ResolveAccount`, `ProvisionAccount` are `get_current_account` with its savepoint and second
SELECT; `Proceed` is where the route goes on. `FindProfile`/`CreateProfile` are onboarding, `AcceptTerms` the
acceptance under FOR UPDATE, `PublishTerms` a deployment with new terms, `BeginLink`/`CheckLink`/
`LinkAccountToUser` the operator's `link_account.py`, `LockAccount`/`LockUser`/`EraseAccount`
`delete_account_data`. `IndexAllows` is `uq_users_account_id`. `Accounts` and `Profiles` are primary keys, each
drawn once; when none is left a request ends (a bound).

`AccountDirectory` is what this amounts to: the committed rows, with the conditions of every operation on what is so when
it commits. Nobody gets a profile without an agreement to the terms in force, an agreement is to newer terms than
the last one, and an erasure takes the profile of its own account and no other. A link may take a profile from
another account (see below), so `Link` allows it.

### ProfileSync

`ExtractClerkProfile` takes e-mail, user name and display name from a provider's record: only a verified
primary address counts, Discord comes before other providers. `ReadAccount` is `profile_sync_is_due`,
`FetchProfile` the provider's answer inside the open transaction, `WriteNames`, `CheckEmail`, `WriteEmail`,
`Save` the flushes of `apply_clerk_profile`: the ORM writes a column only when it differs from the row as READ, and a
refused address is taken back to the savepoint and restored from what was read. A statement that the database
refuses outside the savepoint, or an UPDATE that finds no row, voids the whole transaction (`Refuse`) until
`PersistFails` rolls it back; any other fault may do so at any statement. `FetchFails` and `PersistFails` are
logged and swallowed. `IntervalPasses` are 24 hours; a request does not last that long. `proven` is history.

### LegacyNormalization

The state is the former program's table; its only step is `SetUserAvailability` (`database.py`), so every
table it can hold up to `MaxRows` rows is reached. Everything else is an operator on that table: policies and
their validation, the classification of rows, precedence of canonical names, facts and conflicts, the
path without a policy and the projections. How rows become columns and are read back for the verification (ids,
owners, status names) are conversions that the facts pass through one by one; they are not modelled. `Shows`, what the former program
displayed, is the reference the facts are compared with.

### LegacyImport

`Start`, `ReadSource`, `CloseSource`, `LoadInputs` are what every command does first: hash the file, read it, hash
again, compare with backup and artifacts. `ReadTable` ... `PublishReport` are `plan`, `Begin` ... `Commit` are
`apply` (the snapshot is taken by the revision query, before the advisory lock), `OpenVerification` and
`VerifyDestination` the independent check of `apply` and `verify` with its own snapshot, `Report*` the atomic publication of reports with their exit codes.
`StatementFails`, `CommitFails`, `PublicationFails`, `VerificationFails`, `Kill` may come at any point.
`LegacyWrite`, `TakeBackup`, `AppWrite` are the world. A plan fixes its timestamp: rows of two plans share
primary keys (`KeysTaken`) and are never equal. `exact` is history: the
destination was exactly the plan at a moment since the run opened its verification. The commit is before that.

`ImportOnce` is what this amounts to: `Imported` and `Grown` are read off the destination, `Opened` are the runs whose
snapshot was empty and whose transaction is still going, `Done` those that have committed. A report is honest if it
says of the run what it did, and of the destination what is so: `applied`, `already_applied` and `verified` mean that
this plan is the import, `unsafe_nonempty` that something is there.

### LegacyReconciliation

`StartRun` loads the validated source, whose answers are the constant `Expected`; `LegacyProofs` says what they are when
they are the facts of `LegacyNormalization`. `DryRun` prints counts; an apply locks the users in any order, locks and rereads their answers
(`LockUser`, `SnapshotRows`, `LockRow`), compares (`Classify`), writes, reads again (`Verify`) and commits. Its
writes take effect at `CommitRun`. `BeginWrite`, `LockAnswer`, `CommitAnswer` are a request of the application that
sets or clears (`None`) an answer: an INSERT needs a share lock on the user, an UPDATE or DELETE the answer's row
only, so an answer may vanish while a run holds every user. `AbortDeadlocked` ends applies that wait for
each other.

## Runs

| Run | Instance | Shows |
|---|---|---|
| `roster` | 2 users, 2 requests; 49 399 states | one owner at most, what can lose the owner, refinement of `GroupRoster`, every request ends |
| `roster_owner_loss` | 2 users, 2 requests | **violated**: the owner can be lost |
| `outbox` | 1 recipient, 1 day, 2 requests, 2 workers, 3 events, symmetric; 728 336 states | order, no phantom news, nothing lost, no double announcement, refinement of `EventFeed` |
| `outbox_feed` | an unreachable and a reachable recipient, 3 events, batch of 2; 27 434 states | every mail of a reachable recipient settles unless blocked rows fill the batch |
| `reminders` | 1 session, 1 user, 2 workers, 2 leads, 3 changes; 54 620 states | one record per slot, complete runs, no reminder older than its run, what is due and stays due is delivered |
| `invites` | 2 users, 2 codes, 2 requests, 1 use; 322 760 states | one live code, replacement is atomic, uses are counted, refinement of `InviteDesk`, every request ends |
| `modes` | 2 groups, 1 day, 2 answers, 3 requests, symmetric; 1 433 158 states | a saved answer is shown, the copy is made once, a view is of its time, memberships start fresh |
| `accounts` | 2 identities, 3 accounts, 3 users (1 imported), 2 requests, 2 versions, symmetric; 2 022 590 states | no orphan account, one user per account, no abandoned user, refinement of `AccountDirectory` |
| `profile` | 2 accounts, 2 requests, 3 provider records, 1 change; 263 268 states | unique and verified addresses, a taken address costs nothing but itself, nobody waits for the provider |
| `normalization` | 2 groups and 1 outdated name, 2 users and 1 outdated name, 1 day, 5 rows, 54 documents; 12 562 states | what was shown is imported, canonical answers win, the paths agree |
| `import` | 2 runs, 2 plans, 2 tables, 1 write to the source and 1 by the application, symmetric; 328 886 states | one whole import or none, plans match their hash, exit 0 is proven after the commit, refinement of `ImportOnce` |
| `reconciliation` | 2 runs, 2 users, 2 days, 1 request, 1 erasure, symmetric; 3 665 546 states | a commit is exact and changes what was approved |

Symmetry is used only where a run checks no liveness property.

Why these bounds are enough to be interesting. *Roster*: two requests give every pairwise interleaving
(hand-over with role write, hand-over with hand-over, removal with hand-over, erasure with all); a third
user or request is covered by the proofs. *Outbox*: three events make a first, a waiting and a later mail
of one session; two workers are what the lock file excludes; `Restless` bounds whose accounts change. In
`outbox_feed` three changes for the unreachable recipient leave two rows behind the first: a full batch.
*Reminders*: starts 2 and 3 with leads 1 and 2 make a session not yet due, due for one lead and due for both;
`MaxTime` is the last start, after which nothing is due. *Invites*: two codes are an old and a new one, two
requests any two of issue, revoke, join, delete and erase. *Modes*: two groups that both show the global
calendar lock different rows and so write it at once; three requests are a read beside a switch and a write,
or two switches beside a write. One day is enough for the properties, which speak of single days: copy, cascade
and view treat all days alike, and the writes of a day touch no other.
*Accounts*: two requests of one identity beside an imported user to link; the third account and user are
what a loser might leave behind. *Profile*: two addresses that two people claim, and a person whose
primary address is unverified beside a verified one. That a restored address has gone to another account, the
exception of `OnlyTheAddressIsLost`, takes a third account or three changes and is left to the proof.
*Normalization*: u1 is in both groups and u2 in one; documents that ignore,
rename or leave alone outdated names, with and without precedence, and some that touch canonical ones
and must be refused. *Import*: two plans compete, two tables can be filled half, one write falls
anywhere. *Reconciliation*: two applies may lock two users crosswise; one request writes between any two of
their steps, and clears answers as well as sets them.

Deadlock checking is off in `roster`, `outbox`, `reminders`, `invites` and `profile`: a system whose accounts are all
erased, or whose events or changes are spent, rightly stops. In `roster` and `invites` a liveness property
says that no request waits for ever.

### Fairness

- `GroupTransactions`, `GroupInvites`: strong fairness of each request's next step. The server runs an admitted
  request to its end, and PostgreSQL queues the waiters of a row lock, so a wait that keeps ending is
  granted. New requests, crashes and rollbacks are never forced; in `GroupInvites` the abort of a deadlock is
  part of the step, as PostgreSQL's detector is.
- `SessionOutbox`: the timer fires and a started run goes on (weak fairness of the workers' steps), each
  retry delay ends (weak fairness of `Elapse`), the provider does not refuse a good address for ever
  (strong fairness of `Accept` per mail). A mail that keeps being refused soon rests for 15 and then 60
  minutes, longer than a run of at most 270 s and the minute to the next timer: so runs start while it
  rests (strong fairness of `StartRun` per such mail), and a delay that ends within a run is taken to
  end after it, which changes nothing because a run chooses its batch when it starts. Eventually runs
  are no longer killed in the middle: an assumption about operations, not code. No safety property uses
  any of this. `EveryMailSettles` leaves out exactly the mails that are crowded out (`Crowded`): as many blocked
  rows as a batch has places, none newer than the mail. The run reaches that starvation: with one blocked row more
  in `Crowded` the property fails.
- `SessionReminders`: runs start for ever and go on (weak fairness of the workers' steps), no slot is
  refused for ever (strong fairness of its `Accept`), and kills stop some day. The last is an assumption
  about operations: a run has 210 s and a connection may take 15 s, so some fourteen dead connections in
  front of a member are too many. Time, organizers and members are not forced to do anything, and a
  reminder whose session starts before the worker gets to it is not promised.
- `ProfileSync`: strong fairness of a request's own statements, refused ones included, and of the rollback
  that follows a refusal; no other fault is assumed to happen. Nothing is assumed of the provider, which may never answer: that is the point.

## Findings

**A stale role write loses the owner** (`main.py:1257`, run `roster_owner_loss`). The owner asks to make B a member;
before the write, a hand-over makes B the owner; the write then turns B into a member. The endpoint takes
no lock and counts no owners. `OwnerLostOnlyToStaleRoleWrite` (checked and proved) says this is the only way.

Other places where the code does what its documentation does not say, met while modelling and visible in
the models as behaviours they allow:

- An organizer's removal checks the target before the group lock and may hit one who has just been promoted
  to organizer (`main.py:1196`).
- A run of the reminders does not look again: a session cancelled during the run is still reminded of
  (`notifications.py:149`; `docs/SESSION_REMINDERS.md:15` says cancelled cases are skipped). `OnlyRecentTruth` bounds it by
  the run, that is by 210 s.
- A batch (50 rows, `session_event_emails.py:183`) that fills with rows blocked behind refused mails starves every
  newer mail: rows of one recipient and session behind the first are chosen and passed over run after run.
  `docs/SESSION_EVENT_EMAILS.md:14` says failed sends retry after 1, 5, 15, then at most 60 minutes and says nothing
  of other mails. `EveryMailSettles` excludes exactly this case.
- A read that found the global calendar (`availability.py:34`) may show an answer the member gave elsewhere after the
  group had stopped showing that calendar, by a switch or because she left. `ViewIsOfItsTime` has this one exception.
- An RSVP that passed the check at `main.py:1680` is stored after the cancellation.
- `README.md:277` says missing-RSVP emails are not active; `notifications.py:241` sends them.
- A join past its recheck (`main.py:1042`) enters after the owner was told "The link no longer works"
  (`OwnerInviteCard.tsx:169`): the revocation takes no group lock. `EntersOnLiveCode` says how far this goes.
- The copy of the first switch (`availability.py:88`) misses an answer that another group's request commits between
  its SELECT and the commit; `README.md:267` speaks of all existing responses.
- Of two operators who link one user to different accounts at once, the later one wins (`link_account.py:58`).
- Two requests at once may both refresh a profile (`clerk_profile.py:187`); `README.md:215` says at most once in 24
  hours.
- An apply that waited for the advisory lock (`import_legacy_sqlite.py:2583`) has its snapshot from before the other one's
  commit: it ends as `rolled_back`, not as `already_applied` (`docs/PHASE_1_IMPLEMENTATION_PLAN.md:657` and `:659`).
- A verification that fails and cannot publish its report (`import_legacy_sqlite.py:2687`) exits with 2, not with the 6
  of `docs/PHASE_1_IMPLEMENTATION_PLAN.md:575`.

## Proofs

Every proof module follows one argument. `IInv` is an inductive invariant: type correctness, who holds which
lock, and for each process what it may rely on between two statements. A few lemmas say what the step of
one process leaves alone for the others (`StepKeeps`, `OthersUndisturbed` and the like); each action then has a
lemma that it keeps `IInv`, and each theorem is a consequence of `IInv` or of one step under it. The
assumptions are those declared in the modules: sentinels are not members of their sets, bounds are natural
numbers, sets are finite where they are counted.

**GroupTransactions**: type correctness, `AtMostOneOwner`, three action properties and `Spec => ImplementsRoster`.
`AtMostOneOwner` is not inductive: a transaction that has verified its owner count may commit later, while
others write. `IInv` adds

- `LockInv`: a statement under the group lock holds it, and the group is there;
- `RowInv`: an uncommitted version replaces an existing row and keeps other writers off it;
- `ShapeInv`: a transaction's uncommitted rows are nothing, one removal, one demotion or one hand-over;
- `TargetInv`: nobody becomes the owner between the two halves of a hand-over;
- `CommitInv`: what `VerifyOwner` saw still holds at `Commit`, except that a role write may have cost
  the group its owner in between.

`Published` turns the shape of the written rows into one roster operation, which is the refinement. `OwnersStay`
and `HandOversAreAtomic` are proved and checked by no run.

**SessionOutbox**: every safety property and `Spec => ImplementsFeed`. `IInv` adds what a mail can rely on between
two commits of the worker:

- `LockInv`, `CommitInv`: one request is past the lock of the group row; its rows are newer than all
  that was announced or heard;
- `FlockInv`: one worker at a time, which is what makes the next two hold;
- `RowInv`: a waiting row is committed, not recorded and not older than what its channel has heard;
- `Hand`: the mail in hand is not recorded and stays the oldest of its channel, though its own row may
  be deleted by others and newer ones may be committed; it is recorded only if it was accepted and
  discarded only if its member was not steady or the group is gone.

`AcceptInv` is the heart: a mail accepted is neither older than the last one heard nor newer than a row
that waits. For the refinement, `News`, `Queue` and `Heard` are the variables of `EventFeed` computed
from the tables; a commit is one `Announce`, an acceptance one `Mail`, a deleted row one `Settle`, an
erased account or group one `Clear`.

**SessionReminders**: every safety property. `OneDeliveryPerSlot` is not inductive: the insert does not look for the
other kind, so the slot must still be free then. `IInv` adds

- `FlockInv`: one worker, and nothing of a run outlives it;
- `HandOf`: the slot in hand is not recorded;
- `SeenInv`, `TruthOf`: the history contains what is true now, and all that the run has planned, listed or
  in hand;
- `DebtOf`: a slot the run owes is planned, listed, in hand or delivered, and no `User` the run has
  loaded has another lead for it.

The steps of everybody else are one shape (`OutsideStep`: workers unmoved, deliveries lost only with
slots no longer due), proved to keep the invariant once; the worker's actions each have a lemma.

**GroupInvites**: `WellFormed`, `UsesAreCounted`, `EntersOnLiveCode`, `ReplacementIsAtomic`, `Spec => ImplementsDesk` and
`Spec => KeepsToRoster`. `IInv` adds

- `LockInv`: a request past the group lock holds it;
- `CountInv`: a code that is not drawn yet has admitted nobody;
- `AskedOf`: the codes a request works with are drawn, and the one being replaced is stored;
- `JoinOf`: a code that passed the recheck was live at the lock, and its use count is the one read.

`Forward` is what other requests may do to a code meanwhile: its status only advances, its use count
changes only by the holder of the group lock, and a stored code is deleted only while no other request
holds its row. The desk needs one fact more: who is about to enter is not a member (`NewcomerInv`). A rollback turns
the newcomer away or is not seen, a revocation is an `End`, an insert an `Issue`, a recheck an `Admit`, deletions are
`Withdraw` and `Dissolve`. For the roster `RosterInv` says that the owner of a present group is a member and not being
erased, and that a held group is present. `EntersOnLiveCode` and `KeepsToRoster` are checked by no run: the desk
contains the first, and the second was written for the proof.

**AvailabilityModes**: `WellFormed`, `SavedIsShown`, `OwnCalendarIsKept`, `ViewIsOfItsTime`. `HeldOf` is the point for
writers: from the lock to the commit a request holds the membership row, so the mode it has read is the mode there
is. Readers hold nothing. `SeenInv` says that their history contains what the group shows now and, once they follow the mode
Separate, the group's own calendar as it is: that one changes only while the group shows it, or with the end of the
membership (`ChangesAreDisplayed`).

**AccountProvisioning**: `WellFormed`, `OneProfilePerAccount`, `NoAbandonedProfile`, `FirstAcceptanceStands` and
`Spec => ImplementsDirectory`. `HeldOf` says what an erasure relies on: it holds the account row, and every user linked to the
account is the one it has found; `Considerate` is the other requests' part, which link nobody to an account that is
locked. For the refinement `PromiseOf` says what else is still so when a request writes: who onboards has agreed to the
terms in force (new ones are published only when no request is under way, and erasures leave agreements alone), the
account being erased is there, and the user an erasure has found has not been moved to another account, because
`UserFree` keeps links off the row. `FirstAcceptanceStands` is checked by no run, since the directory contains it.

**LegacyImport**: `WellFormed`, `PlansMatchTheirHash`, `SuccessIsProven`, `ReportsAreTrue` and `Spec => ImplementsOnce`. The
importer's lock is not enough for one import only, because the snapshot is older than the lock; the primary keys
refuse the rest. `IInv` adds `LockInv` (who holds the advisory lock), `AllOrNothing`, `OneImportOnly` and, for each run,
`LocalOf`: the rows it has read are of the version it has hashed, the tables it has written so far held no import
before, and its report says what has become of its transaction. `SuccessIsProven` adds what a run that compares knows of its
snapshot. For the refinement `KnowsOf` adds that what a run saw
is still there, and that a run that was once exact still is imported: rows are only ever added. A step of a run is then of
one of four kinds (`KindOf`), and each kind is a step of `ImportOnce` or none. `ReportsAreTrue` is checked by no run, since
`ImplementsOnce` contains it.

**ProfileSync**: `WellFormed`, `OnlyTheAddressIsLost`, and, checked by no run, that no request holds a row lock while it
waits for the provider and that the commit of an entered address is not refused for it. Uniqueness is not inductive on
the committed rows: requests enter addresses in the index before they commit. `IInv` adds

- `TablesInv`: a committed address is shown by one account, and was proven to its person;
- `ProvenInv`: what a fetched profile says was proven, and stays so;
- `EntriesInv`: of the addresses entered by transactions no two are alike, and an entered one is nobody
  else's committed one;
- `LocalOf`: until a request writes, its copy is what it has read (`ReadOf`); from then on it holds the
  row, so the row is still what it copied (`HeldOf`). When it saves an address other than the one it has read, that
  address is entered; a restored address is the one it has read.

The last part is what `OnlyTheAddressIsLost` rests on: an entered address is refused no more (`HeldOf`), so the last
UPDATE can only be refused for a restored one.

The lemmas `SmallestOf` and `FirstExternal` say what the extraction of a profile returns; `Extracted` that a profile
carries a verified address or none.

**LegacyNormalization**: all three properties, for any names, policies and number of rows. Inductive is only what
the former program did: all groups of a user have the same answer (`AnswersAgree`). So rows that disagree with a
canonical one stand under outdated names, and the precedence rules drop exactly these (`CanonicalSettles`).

**LegacyReconciliation**: type correctness, `CommitIsExact`, `OnlyApprovedChanges`. With every user locked no
answer appears, since an INSERT needs the user's row, but one may be cleared until its own row is locked. So `ReadOf`
says that every stored answer is locked or still to be locked, that the locked ones are stored, and that what was read
of them is still so. When none is left to lock, what was counted is what is stored.

**The two together** (`ShownIsRestored`): `load_expected_availability` takes the answers of an apply from the normalized
facts. If they are those of an accepted table (`LoadedFrom`), every group shows after the commit what the former
program showed there, and every answer comes from a row that was not ignored.

Only model-checked: the liveness properties, because fairness and ENABLED are out of the prover's reach.

## Not modelled, and what is left

- *Invite attempt limiter*: five failures a minute in the memory of one process; nothing else reads it.
- *Session time conversion*: a sequential function whose answer is the time zone database's.
- *Deployment*, *backup and restore*: shell scripts whose state is directories, services, dumps and a schema
  revision; what a step leaves behind is decided by systemd, rsync and PostgreSQL.
- *Schema migrations*: straight-line DDL, executed once.
- *Frontend*: rendering and optimistic edits; the server's answers they rest on are modelled.
- *In-app notifications*: `record_group_notification` stores a log row and is called by no code outside the
  tests.
- Within modelled components: nicknames, display order and settings of groups; export and the dry runs that
  only read; the `inspect` command; wording, checksums and report texts; SMTP dialogue; token verification.

Left to prove: that the calendars of `AvailabilityModes` implement one calendar per group.
