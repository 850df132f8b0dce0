# FYPilot backend: verification

TLA+ models of the FYPilot backend (a FastAPI service that runs a university's
final-year projects), the TLC configurations that check them on small instances, and
proofs that TLAPS checks for every value of the constants.

    tlc -workers 2 -config SupervisionSerial.cfg MCSupervision.tla
    tlapm SubmissionsProofs.tla

Paths below are relative to `src/`; `http/` stands for `app/api/http/`.

## The system

One uvicorn process (`Dockerfile:26`) serves HTTP and WebSocket clients from one
asyncio event loop. A handler gives up control at every `await`, so handlers interleave
at each database statement. PostgreSQL holds the records; sessions are made with
`autoflush=False, expire_on_commit=False` (`app/db.py:112`) and run at READ COMMITTED:
a statement sees what is committed when it starts plus what its own session has
flushed, and an object that was loaded earlier keeps its old attributes; a flush writes
the attributes that differ from the loaded ones and no other. Hardly any handler locks
the rows it decides on. MongoDB holds chat, workspaces and proposals, Redis holds
caches, locks, counters and job lists, Supabase holds files. Whether Redis is used is
decided once, when the process starts (`app/main.py:128`).

Almost everything that can go wrong is therefore of one kind: a handler reads, decides,
awaits and writes, and another handler (or a trigger, a worker, a socket, a restart) acts
in between; or it writes to two stores that commit apart. What protects the data are CHECK
and foreign-key constraints, the row locks of UPDATE and DELETE, WHERE clauses that repeat
a condition, and MongoDB's atomic updates. The models contain those mechanisms explicitly,
so that a property is seen to rest on them.

### Components

| Component | State | Operations | Must hold |
|---|---|---|---|
| Supervision (`app/services/invite_service.py`, `http/admin_groups.py`, `http/admin_supervisors.py`, `http/supervisor_profile.py`) | `requests`; `groups.supervisor_id`, `cosupervisor_ids`; `faculty.capacity_filled`, `capacity_max` | send, accept, reject, cancel a request; assign and remove (co-)supervisors; set capacity; disable supervision; delete a group | counters cover the supervised groups and stay within capacity; an accept declines its rivals and only those |
| Group membership (`http/group.py`, triggers in `alembic/versions/f2a4b6c8d0e1…`) | `groups`, `group_members`, `group_invites`, `projects.fyp_id` | create, invite, accept, reject, cancel, leave, delete | one joins by one's own invite; the cohort follows the earliest member; handlers end |
| Bulk import (`app/services/bulk_import_service.py`, `http/bulk_import.py`) | `bulk_import_jobs`, `bulk_import_items`, accounts | upload and its background task, run pending, retry, resume, single registration | accounts match rows; successes final; a job ends |
| Documents (`app/services/document_service.py`, `http/student_documents.py`, `http/document_edit_proposals.py`) | `group_documents` (with `lock_version`), `document_versions`, proposals in MongoDB | autosave, snapshot, restore, propose, apply, reject | no lost edit; a proposal accepted was saved and is resolved once |
| Chat worker (`app/services/collaborative_chat_worker.py`, `http/collaborative_chat.py`) | Redis list and busy keys, or an asyncio queue and locks; messages; `chat_llm_turns` | post, enqueue, pop, claim the room, the phases of a turn, release | one turn of a room at a time; one answer, stored before it is announced; nothing waits for ever |
| Submissions and announcements (`http/student_submissions.py`, `http/supervisor_submissions.py`, `http/admin_submissions.py`) | `announcements`, `submissions`, objects in Supabase | post, edit, retarget, withdraw a task; submit, re-submit, create and delete drafts; grade | a row names files that exist; the groups a task addresses have rows; graded work stands |
| AI gateway and recommendation (`app/middleware/ai_service.py`, `app/services/supervisor_recommendation_service.py`) | the circuit, in memory; cached responses and deduplication locks in Redis | let a call through, report success or failure, cool down; recommend | places of a half-open circuit are accounted for; it closes after the successes it asks for |
| Jury matching (`app/services/jury_matching_service.py`, `http/jury_matching.py`) | `jury_assignment_batches`, `jury_pairs`, `jury_assignments` | start a run (which resets all), its background job, reset, exchange a pair, poll | a completed batch is whole; no orphan rows; batches settle |
| Milestones, sprints, tasks (`http/student_progress.py`, `http/admin_milestone.py`, `http/supervisor_fypmilestone.py`, `http/jury_evaluations.py`) | `group_milestones`, `tasks`, `task_attachments` and their objects; `admin_milestone` and three evaluation tables | sprints: create, update, delete; tasks: create, update, delete; milestones: create, patch, delete; evaluate | one active sprint; attachments have files; shown totals fit the rubric |
| Accounts (`app/auth/routes.py`) | `users`, JWTs, `password_reset_tokens` | sign up and in, OAuth, change role or password, forgot and reset | only the newest reset link works, once |
| Workspaces, document chat (`http/document_chats.py`, `app/services/document_chat_service.py`, `http/student_documents.py`) | sessions and messages in MongoDB, `group_documents.chat_session_id` | create, list, rename, delete; upload, import, link documents; ask | a workspace lists its documents; the model gets the question it answers |
| Rooms and SSE hub (`app/api/websocket/`, `app/services/chat_sse_hub.py`) | sockets by room and user, document locks, one Redis listener; queues of event streams | connect, edit, say, disconnect, broadcast; register, publish | no lock outlives its user's sockets; presence settles; streams miss nothing |
| Whiteboards, student lists, shortlist, student profiles (`http/student_whiteboards.py`, `http/admin_students.py`, `http/shortlist.py`, `http/student_profile.py`) | single rows, and pages kept in Redis | create, patch, delete; list, switch; add, remove; wizard, patch | a save is kept; pages are current; skills have levels |
| Others: exploring, staff profiles, dashboards, prompts, mail, storage | single rows, or none | reads, updates of a column | (the database's own constraints) |

The components meet in the database: deleting a group (`http/group.py:605`) cascades to
requests, invites, members, projects, submissions and documents; the supervisor columns of
a group are written by supervision and by the group's own profile form; recommendations and
the jury's job share one circuit; the chat worker and the sockets write to the history that
questions over HTTP are answered from, and publish to the same streams; requests and sockets
are opened by the JWTs of `Accounts`. `PROJECT.json` lists every component with its status.

## The modules

| Module | Models | Checked by |
|---|---|---|
| `Supervision` | the supervision component at the level of statements and commits | `MCSupervision`, two configurations |
| `SupervisionLedger` | what supervision promises about capacity: atomic operations on a ledger of groups, counters and limits | by `SupervisionRefinement`, proved in `SupervisionProofs` |
| `SupervisionRefinement` | `Supervision` as an implementation of the ledger (`INSTANCE … WITH`) | `SupervisionSerial.cfg`, `SupervisionProofs` |
| `GroupMembership` | groups, members, invites and the triggers | `MCGroupMembership`, two configurations |
| `GroupRoster` | what the group handlers and triggers promise: a roster on which founding, joining, leaving, deleting and inviting take effect in one step each | by `GroupMembership` (`INSTANCE`), in `MembershipConcurrent.cfg` and `GroupMembershipProofs` |
| `BulkImport` | jobs, rows, accounts, tasks and runs | `MCBulkImport`, `BulkConcurrent.cfg` |
| `AccountRegister` | what registration promises: rows settled together with the accounts they make, and skipped only for an email or roll number in use | by `BulkImport` (`INSTANCE`), in `BulkConcurrent.cfg` and `BulkImportProofs` |
| `Documents` | draft, snapshots, proposals | `MCDocuments`, `Documents.cfg` |
| `DocumentRegister` | what a document promises: a compare-and-set register with snapshots and answers, without handlers | by `DocumentsRefinement` (`INSTANCE`), in `Documents.cfg` and `CollaborationProofs` |
| `ChatTurns` | queues, busy keys, workers, phases | `MCChatTurns`, `ChatTurns.cfg` |
| `ChatRoom` | what a room promises its listeners: one turn after the other, each answered once and announced in order | by `ChatTurnsRefinement` (`INSTANCE`), in `ChatTurns.cfg` and `CollaborationProofs` |
| `Submissions` | announcements, tasks, submission rows, their files | `MCSubmissions`, `Submissions.cfg` |
| `AiGateway` | circuit breaker, response cache, deduplication lock, recommendations | in `JuryMatching` |
| `JuryMatching` (extends `AiGateway`) | batches, background jobs, resets, pairs | `MCJuryMatching`, `JuryMatching.cfg` |
| `JuryBoard` | what a run promises whoever polls: a result that appears at once and whole, changes by exchanges only and is cleared with all others | by `JuryMatching` (`INSTANCE`), in `JuryMatching.cfg` and `JuryMatchingProofs` |
| `Handlers` | request handlers in flight, for the modules below | in `Progress`, `Sessions` |
| `SprintBoard`, `Evaluations`, composed in `Progress` | sprints, tasks, attachments; milestones and evaluations | `MCProgress`, two configurations |
| `Accounts` ← `Workspaces` ← `Rooms`, `Conversations`, `Whiteboards`, `Listings`, `Profiles`, composed in `Sessions` | what a signed-in student works with | `MCSessions`, `Sessions.cfg` |
| `SupervisionProofs` (with the ledger and the refinement), `GroupMembershipProofs`, `BulkImportProofs`, `CollaborationProofs` (documents and chat turns), `SubmissionsProofs`, `JuryMatchingProofs`, `ProgressProofs`, `SessionsProofs` | the theorems | `tlapm` |

An operator whose name begins with `Bug` stands before the operator it is a mistaken form
of. No behaviour uses it: replacing the operator by it must violate a property, which is
how each property is known to depend on the code.

### How state and actions correspond to the code

All modules but `ChatTurns` and `Rooms` share one form. Each table or column is a variable.
`txn[p]` is what handler `p` has read and not yet written. A `...Load` action is the
handler's reads and its early returns (a guard for each); a `...Commit` action is what its
transaction makes visible, including the cascades and the triggers it fires. Where a
statement locks a row before the commit and others wait for it, it has an action of its own
(`AcceptWrite`, `AcceptInsert`, `LeaveDelete`, `DeleteLock`, `SaveUpdate`, `Wipe`), and
guards such as `RequestFree`, `GroupFree`, `HeldFrom` or `Edits` are the waiting. Where a
handler writes to a store outside the transaction (Supabase, MongoDB, Redis), each such
call is an action. `Abort` is a transaction the database refuses; `Crash` ends all
handlers and undoes open transactions.

- **Supervision.** `status` over `Requests` (group, faculty member, role, copy) is
  the table `requests`; `filled` and `max` are the two capacity columns. The accept is
  `AcceptLoad`, `AcceptWrite` (its UPDATE statements, which lock the request, the declined
  requests and the faculty row) and `AcceptCommit`. The increments are relative to the row,
  as in `capacity_filled = capacity_filled + 1`; `cosupervisor_ids` is written back whole.
  `EditProfile` is the group's own form (`http/group.py:1027`), which sets the supervisor
  with no accounting.
- **SupervisionLedger.** `Accept`, `Assign`, `Remove`, `Delete`, `SetCapacity` and nothing
  about requests, roles, handlers or rows.
- **GroupRoster, AccountRegister, JuryBoard.** Their variables are tables of the database
  (`groups`, `joined`, `cohort`, `invite`; `item`, `owner`, `rolls`; `status`), and `shown`
  what a poll is answered. They have no handlers, locks or sessions: an action is a commit.
- **GroupMembership.** `joined[g][s]` is `joined_at` (0: no row). `DetermineCohort` is the
  trigger function; what a trigger sees is what its statement saw (`seen` in the
  transaction), not what is committed later. A student's intake columns may be NULL
  (`app/models/student.py:89`): `CohortOf` is then `NoCohort`, which the first trigger writes
  and the second ignores. `fyp` and `prefix` are the two parts of the FYP id, with the cut to
  two digits of `LPAD`; a founder without an intake gets the exception of the numbering
  trigger (`CreateFlush`, `Refused`). `mixed` records the groups whose members two handlers
  were changing at once.
- **BulkImport.** `todo` is the list of pending rows a task loaded at its start, and never
  loads again; `Locked(p)` are the rows a run holds by `FOR UPDATE SKIP LOCKED`; `Doomed`
  is a session that has seen an IntegrityError and can only be rolled back.
- **Documents.** A text is the set of edits merged in it, so a lost edit is a missing
  element. `expected` is the `lock_version` the client sent. What an editor shows, and when
  it reloads, is the client's and marked external.
- **ChatTurns.** One action for each await of `_run_turn`. `handled` is whether an exception
  would be caught inside the turn (`worker:305`) or only by the worker's loop. The two
  modes, Redis and in-process, are the value of `redis`, chosen at each start.
- **Submissions.** A row is named by announcement, group and copy (`Own`: an unofficial
  draft). A handler removes blobs (`Drop`) and puts new ones (`Upload`) one by one between
  its load and its commit; what it removed stays removed when it fails. `targets` holds the
  rows of `announcement_targets`, which an edit deletes in one statement (`Retarget`; `cut` is
  what that statement saw) and inserts when it commits: rows committed in between stay.
  `RetargetWait` is a DELETE that has met rows others have deleted and not yet committed.
  `cycle` is `groups.fyp_cycle`; groups are made (`GroupCreate`) and moved (`GroupMove`) at any
  time, and `newcomers` records which of them came after a task's groups were selected.
  `AdminUpdate` changes target rows by primary key. Marks and feedback are left out: no step
  reads them.
- **AiGateway.** `circuit` is the object of `ai_service.py:296`; reading its state moves an
  open circuit on (`Observed`). `req` is where each recommendation or administrator's call
  is; a call that ends without a report is counted in the history `unreported`.
- **JuryMatching.** A job calls through the circuit of `AiGateway`, which it extends.
  `wiping[w]` are the rows the DELETEs of an open reset hold. An answer is the pairs and the
  plan that the parser resolves it to. The `new` pairs of a job are flushed and unseen.
- **SprintBoard, Evaluations.** `task[t]` is `tasks.milestone_id`; the collection a sprint
  was loaded with is the `in` of its handler, which decides what the cascade deletes. An
  evaluation is loaded whole and merged column by column when it is committed. `Scored` is
  what a request stores: each line and the total rounded to tenths on their own, the total
  being the client's if one is sent and the sum of the request's lines otherwise (`Totalled`).
  `sent` records whether the last request gave a total, or points finer than a tenth.
- **Accounts, Workspaces.** `link[n]` is a row of `password_reset_tokens`, its mail an
  action that may seem to fail after it arrived. `listed[w]` (MongoDB) and `doc[d]`
  (PostgreSQL) name each other and are written one after the other; a reconciliation reads
  the one, then the other, and replaces the list.
- **Rooms.** `entries` is `manager._rooms`, one socket per user and room; a broadcast is a
  copy of the entries that `sending` works off, socket by socket. With Redis it is published
  to `channel` first, where one listener takes it. `stream`, `queues`, `wire` and `got` are
  the event streams: `publish` fills the queues and then goes through Redis as well.
- **Conversations, Whiteboards, Listings, Profiles.** A message stands for its place in the
  collection, a part of a whiteboard for the save it came with, a page for the rows it was
  made of, a profile for its roll number, skills and levels.

Histories (`clash`, `drift`, `overlap`, `behind`, `lost`, `abandoned`, `streak`, …) record
that two handlers overlapped on an object, a store failed, or the like. No action reads
them. Properties use them to say exactly when the code does not keep a promise.

### Abstractions

Names, texts, tokens and prompts are model values. Rendering, logging, notifications are
left out; mail only where its failure changes state. Authorisation is a guard where it
decides whether a state can be changed, and left out where it only decides who may ask. The
reads of a handler up to its first write are one step, except where rows it reads separately
may disagree. `assign` and `remove` take all their rows in one step, so a cycle of row locks
between them cannot arise in `Supervision`. The passing of time (a key, a page or a link
that expires, a circuit that cools) is a step that may happen at any moment. In `ChatTurns`
the user's message and "queued" are one event. In `Sessions`, pings, invalid messages, the
expiry of JWTs and cookies are left out, and so are cursors and the announcement of a restore
over HTTP: all they change is that, like other messages, they remove the entry of a dead
socket they meet (`app/api/websocket/manager.py:92`), which the property excuses; an empty tab that finds a filled one changes nothing; two of the three parts of a
whiteboard's scene are kept; administrators have no account; one group has a shortlist. In
`Progress`, titles, links, assignees, access rules and the match of cycles are left out.

In `Submissions`, target roles that address no student are left out, and the groups of a
cohort are moved to another cycle one by one. A DELETE of targets that waits takes its rows
when it goes on; that two statements can wait for each other, which PostgreSQL resolves by
refusing one, is left out. In `Evaluations` two of the five lines of a rubric are kept (so
that a total is off its lines by three half tenths at most; for five it is six), points are
what the configured maxima leave of those sent, and marks are counted in units of which `Tenth`
make a tenth. A number halfway between two tenths
is rounded to either: PostgreSQL rounds a stored line half up, Python the float of the total
half to even. A column whose new value equals the loaded one may or may not be in the UPDATE,
since a float is compared with a Decimal. Totals too large for the column (an error) are left
out.

## The runs

| Run | Question | Instance |
|---|---|---|
| `supervision_concurrent` | do counters and auto-declines survive two handlers at a time, and does every handler return? | 1 group, 2 faculty members, 2 handlers, 2 requests per faculty member and role; send, accept, assign, the group's form, deletion; fairness |
| `supervision_serial` | is each handler alone correct, and does the whole implement the ledger? | 2 groups, 2 faculty members, 1 handler, every endpoint but the group's form and deletion |
| `membership_concurrent` | do the triggers keep the cohort, can somebody always go on, and do the handlers implement the roster? | 1 group, 3 students (one of each of two cohorts, one without an intake), 2 invites, 2 handlers |
| `membership_two_groups` (violation) | is a student in one group? | 2 groups, 2 students; create, invite, accept |
| `bulk_concurrent` | do tasks, runs and forms implement the register of accounts, are successes final, does every job end? | 2 files of 3 and 1 rows, 2 handlers, five sets of operations, restarts, fairness |
| `documents` | is the optimistic lock sound, and do the handlers implement the register? | 2 editors, 2 edits, 1 proposal, 2 handlers, crashes and lost responses |
| `chat_turns` | one turn at a time, one answer, nobody forgotten, and do the turns implement the room? | 3 messages in 2 rooms, 2 workers, 1 restart, fairness |
| `submissions` | files of rows exist, addressed groups have rows, graded work stands | 3 groups (one per cycle, one made later), 1 announcement, 1 file, 2 handlers, six sets of operations, failures and restarts |
| `jury` | do runs implement the board, is the circuit's bookkeeping right, do batches settle? | 2 runs, 2 projects, 2 pairs, 5 answers, 2 students, 1 administrator, fairness |
| `progress` | one active sprint, attachments with files, totals that are the sums of their lines up to the roundings | 2 sprints, 2 tasks, 2 uploads of one name, 1 milestone, 2 handlers |
| `sprint_deletes_tasks` (violation) | do tasks outlive their sprint? | 1 handler |
| `sessions` | locks, presence, streams, workspaces, questions, saves, pages, levels and reset links | 2 students, 2 sockets, 2 streams, 2 workspaces, 2 documents, 2 links, 2 handlers, with and without Redis |

The two violations are documented behaviour the code does not have; `PROJECT.json`
"findings" quotes the sentences.

**Bounds.** Every race here is between two handlers about one pair of rows; a third
handler adds orders of the same steps, and the theorems cover any number. Two faculty
members let a request have a rival and a supervisor be replaced; capacity 1 puts every
counter at its limit. In `GroupMembership` a limit of 2 (for 3) is reached
by a founder and one guest, and passed by two accepts in flight; with a third student and a
third joining time the founder can leave while others join, come back behind them, or leave
the one without an intake first. One group is enough for
what the run asks: groups meet only in whom they may invite and in the numbers of their
projects, of which a refused creation is all that comes (`Refused`), and the theorems are
about any number of groups. The file of `MCBulkImport` has two rows with one roll number,
a row that does not validate and a row
whose email is in the other file, which is each way a row can fail. `MaxLock = 4` and
`MaxVersions = 3` allow a save, an apply and a restore to overtake one another and two
snapshots to be numbered at once. Two messages to one room and one to another, with two
workers, put a busy room's job in front of another's. One announcement with one file and two
groups lets a task be retargeted while the other group submits; `TargetCopies = 2` rows for
one target are what two overlapping edits leave. `Tenth = 4` makes a point of 5 units 1.25
tenths, so that lines are rounded apart from their sum; a client's total of 4 units is one
tenth, which is neither nothing nor the sum. `Threshold = 2` and
`MaxProbes = 2` let the circuit open on the second failure and close on the second success,
with one call left over from before; the answers include an overloaded pair, a project left
out and rows that cannot be resolved. One file name and two uploads meet in one storage key.
Two links, two sockets and two streams of two users are one more than a user needs; a window
of 2 and 4 messages push the first question out of the history (`Window` is 10 in the code).

The rows of modules with many endpoints are not all in flight at once. `OpSets` is a set of
sets of operations, of which a behaviour picks one: each set is what meets in some table, and
in its name are also the failures that can happen (`"crash"`, `"abort"`, `"fails"`,
`"redis_fails"`), what time does (`"expiry"`, `"minute"`) and, in `Progress`, whether
attachments and activations take part (`"attach"`, `"activate"`). In `Sessions`, `"join"` and
`"reopen"` say whether two users meet in a room or one user opens it twice, and Redis is
either there or not where rooms are used. Documents, workspaces, sockets, links and streams
are numbered in the order they are made, so symmetry is declared of users and handlers only.
Bounds are guards commented `\* bound`. Deadlock is not checked: a bounded instance stops
when its inputs are used up; that no state has everybody waiting is `LocksNeverJam` and the
liveness properties.

**Fairness.** `Supervision`: weak fairness of each handler, since the event loop runs
every coroutine that can go on and PostgreSQL grants a lock when it is released.
`BulkImport`: the same for runs, and strong fairness for a task, because a task that waits
for a row is in the lock's queue and later `SKIP LOCKED` runs leave such a row alone.
`ChatTurns`: weak fairness of a handler that queues, of each worker's step (the
language model ends its stream or raises) and of the expiry of a key (keys have a TTL).
`QueuedIsAnswered` also uses that finitely many messages are posted: a room that receives
messages without end can keep older ones waiting, because the Redis list is last in,
first out. `JuryMatching`: weak fairness of each job and of the reset's commit (the call to
the AI service has a timeout). Nothing is assumed of clients, crashes or exceptions.

## What is proved

No theorem bounds a constant; each assumes the `ASSUME` of its module and, where said, more.
Every invariant the passing runs check is proved but one (`LocksNeverJam`), and so is every
action property and the six refinements. Most are not inductive: what a handler has read and not
yet written decides what it will break. The strengthening says, for each point a handler can
be at, what its reading still tells of the committed rows, or which history records that it
no longer does.

- **Supervision, any number of handlers, groups, faculty members and requests**
  (`SupervisionProofs`): `TypeCorrect`, `LocksProtect`, `CapacitySafe`, `NoOrphanRequest`,
  `AutoDeclineSafe`. Capacity and auto-decline are not inductive alone: between its UPDATE
  statements and its commit an accept relies on rows that other handlers also write. The
  strengthening is `RowsStayLocked`: what an accept wrote is still so, and no two accepts
  hold a common row.
- **The ledger** (same module): `LedgerType`, `LedgerBalance`. The balance needs
  cardinalities of sets that gain and lose one group.
- **Supervision implements the ledger** (same module): under `OneAtATime`, handlers run one
  at a time and nobody uses the group's own form, `SerialRefinement`, and from it and the
  ledger's balance, `SerialBalance`. The hypothesis is needed: with two handlers the
  statement is false (see the deviations).
- **Groups, any number of groups, students, invites and handlers** (`GroupMembershipProofs`):
  `GroupTypes`, `DeletedGroupsAreEmpty`, `CohortIsEarliest`, `OnlyInvitedStudentsJoin`.
  `GroupInv` says that members and invites are those of groups that exist
  (`NothingOutlivesGroup`), and `LocksHold`: which rows a flushed statement holds, so that no
  two handlers create or delete one group and none deletes a group that another is joining.
  `CohortInv` adds to it and to `CohortFollowsEarliest` that the first trigger of a handler
  that changes a group's members alone saw the members its commit leaves (`SeenAlone`); that is
  what the cohort rests on where the second trigger has no opinion. `EarliestMember` (the first of a set of joining times exists) rests on the
  well-foundedness of the naturals.
- **Groups implement the roster** (same module): `HandlersKeepRoster`, without a hypothesis.
  A handler in flight has flushed a member row with a time it took at its statement, and
  commits when others have joined and left; the roster knows neither. `RosterInv` adds to
  `GroupInv` that no joining time is used twice, by members or by rows not yet committed
  (`TimesApart`), and that a row being added is not there and one being removed still is,
  and no other handler adds or removes it (`MembersLocked`). The roster says nothing of
  limits or of one group per student: the code does not keep them (see the deviations).
- **Bulk import, any number of files, rows, tasks and runs** (`BulkImportProofs`):
  `BulkTypes`, `AccountsFollowRows`, `DoneJobsAreSettled`, `SuccessStays`. `BulkInv` says of
  each session which accounts it has inserted (`Judged`: those of the rows it judged a
  success), that none of them is committed yet, and that no two sessions hold the same email
  or, once flushed, the same roll number; `LoneInv` says of a handler that is alone that the
  pending rows of the job it is about to close are among those it still has to visit.
- **Bulk import implements the register of accounts** (same module): `ImportsKeepRegister`,
  without a hypothesis. In `AccountRegister` one commit settles some rows and makes the
  accounts of those that succeed, each under an email and a roll number nobody has. A task
  decides row by row, a run for a whole batch, from what it could see, and other sessions
  commit before it does. `RegisterInv` adds to `BulkInv` that each row judged skipped has a
  reason that lasts (`Backed`): its email or roll number is in use, or is taken by a row of
  the same session.
- **Documents, any number of editors, edits, proposals and handlers** (`CollaborationProofs`):
  `TypeCorrect`, `NoGap`, `LockIsSound`, `NoEditIsLost`, `AcceptedWasSaved`, `ResolvedOnce`.
  `LockInv` adds to `LockNamesText` that one handler at a time holds the draft's row and
  that a save whose `expected` is still current carries the current text; `Numbered` adds
  to `NumbersHaveNoGap` that numbers yet to be inserted fit and that a largest one exists;
  `ProposalInv` adds that an apply carries its proposal in the text it saves.
- **A document implements the register** (same module): `DocumentIsRegister`, without a
  hypothesis. In `DocumentRegister` an editor writes in one step, only while it shows the
  current draft under the current `lock_version`, and a save adds one edit to it. A
  handler checks that at its UPDATE and writes at its commit, and its client may have
  reloaded, saved through another handler or lost the response since it sent the text;
  `RegisterInv` says that whoever's `expected` is current at its commit still shows the
  draft, and that what it writes is the draft with its one edit, or a snapshot's text.
- **Chat turns, any number of requests, rooms, workers and restarts** (same module):
  `ChatTypeCorrect`, `AnsweredOnce`, `AnnouncementsHold`, `PhasesInOrder`; and
  `RoomsTakeTurns` under `TurnsAreShort`. `JobInv` says that a request is in one place at a
  time and what is known of it there; `RoomInv` adds that a running turn holds its room's key.
- **Chat turns implement the room** (same module): `TurnsMakeARoom`. `ChatRoom` has requests
  and their phases only; a request that was dropped is never heard of again, and with
  `TurnsAreShort` a turn begins only when no other of its room is under way. `TurnInv` adds
  to `JobInv` that a turn under way is with a worker at the point its phase says, and that a
  dropped request is in no queue and with no worker but one that is about to let go of it.
- **Submissions, any number of groups, announcements, rows, files and handlers**
  (`SubmissionsProofs`): `SubmissionTypes`, `NamedFilesStay`, `TaskGroupsHaveRows`, `GradesStandOverFiles`.
  `FilesInv` adds to `NamedFilesExist` that a key has one owner, and that the keys a handler
  has read, removed or stored belong to the row it works on or to no other: so another
  handler's commit cannot name what it removes. `TargetsInv` says of
  every target a task route has ever set that the groups it addresses have rows, newcomers
  aside (`PlacedHave`): target rows come and go, and those that overlapping edits leave beside
  each other need not be followed. It adds what a task handler aims at: each group it is about
  to name has a row or is to get one (`Aims`), rows of an announcement go only with their group
  (`Lasting`), and an announcement is posted by one handler (`PostsAlone`). `TablesApart` (announcements and
  submissions are rows of different tables) is assumed.
- **Sprints, attachments and evaluations, any number of sprints, tasks, milestones, faculty
  members and handlers** (`ProgressProofs`): `OneSprintActive`, `FilesStayStored`,
  `ShownTotalsAreSums`. `ActiveInv` adds to `OneActiveSprint` what an activation in flight
  has read: no other sprint is active except through an activation that overlapped it.
  `AttInv` says of a handler that is alone on its task which of the task's objects it has
  removed or stored so far, and that the files it will leave are in storage, each under a key
  of its own. `SumsInv` adds to
  `ShownMatchesRubric` what an update in flight has read: as long as nothing overlapped it,
  the row is still the one it loaded, so the merged columns are those of one request, and what
  `sent` is to say of it is what the request carries (`Noted`). `RoundedApart` is the
  arithmetic: three roundings of half a tenth each, and none that matters where the points
  are whole tenths.
- **What a signed-in student works with, any number of users, handlers, sockets, streams,
  workspaces, documents, boards and links** (`SessionsProofs`):
  - `LocksAreReleased`. `LockInv`: the holder of a lock has a socket of that document whose
    handler has its cleanup before it; that documents and workspaces are different ids
    (`RoomsAssumptions`) keeps a chat's cleanup away from it.
  - `PresenceIsShown`. In a room without a recorded overlap at most one handler is sending, and
    somebody is about to announce who is there, or the last announcement is on its way and
    right, or all have seen it (`InStep`): its round through `channel`, the listener and
    `sending` is followed step by step.
  - `StreamsMissNothing`. A stream has got each event of its room once, and a second time
    at most when the event is no longer on the `wire` to the listener (`HeardOf`); nothing is
    on the wire twice, or at all without Redis (`WireInv`).
  - `DocumentsStayListed`. A document that belongs to a workspace, or is about to, is on its
    list and in what every reconciliation in flight has read of the list (`TabsInv`); what a
    reconciliation will drop is gone for good (`ListsInv`); numbers name one document
    (`HomesInv`).
  - `QuestionIsLastTurn`, `PatchesStay`, `KeptPagesAreCurrent`, `SkillsKeepLevels`,
    `OnlyNewestLinkResets`. What a handler read is still so, or the overlap is in `clash`
    (`behind` for pages); of a user's links, that an unused one is the newest and that a
    request for another has seen them all (`LinksClean`).
- **Jury batches and the circuit, any number of batches, projects, answers, requests and any
  thresholds** (`JuryMatchingProofs`): `AssignedMeansCompleted`, `CompletedCoversProjects`,
  `RecoveryNeedsSuccesses` and, for finitely many calls (`FiniteCalls`), `PlacesAreAccounted`.
  `Settled` adds that a job at work has no completed batch: a reset may delete the batch it
  recreates, but never one it has completed. `CircuitInv` adds that successes are counted in a
  half-open circuit only, and no more than were reported; `PlacesInv` adds that a half-open
  circuit gives no more places than it has and that a batch never asked for has no job, so
  that asking for it takes no place back.
- **Jury runs implement the board** (same module): `PollsSeeABoard`, without a hypothesis.
  A poll joins two tables that a run writes in one commit, a reset empties and an exchange
  edits row by row. `BoardInv` adds to `JuryInv` that the batch of a job at work is in
  processing or was cleared, so that a job never publishes over a result, and that the job
  that has run its own reset finds its batch cleared until it asks for it anew.

The assumptions on constants are of three kinds: bounds are naturals; what stands for the
absence of a row (`None`, `Deleted`, `Own`) is none of the rows; ids of different tables
differ. `BulkAssumptions` also says that the rows of the files are finitely many and are
numbered in their order.

Only model-checked: liveness (`HandlersReturn`, `JobsComplete`, `QueuedIsAnswered`,
`BatchSettles`), which rests on fairness, and `LocksNeverJam`, which is stated with `ENABLED`;
both are out of the prover's reach, as are induction over data (what a recursive definition
computes for every input) and RECURSIVE operators, of which the modules have none.
`LocksNeverJam` is not restated with the guards written out: every wait ends at a handler that
waits for nobody or in the cycle of a delete and a leave that `Deadlocked` breaks, so such a
formula holds in every state, reachable or not; that those guards are the conditions under
which the actions are possible is the part worth checking, and it is what `ENABLED` says. That
`TasksOutliveSprints` and one group per student fail is shown by TLC's counterexamples.

## Observed deviations

Behaviours met while modelling. The first of *Groups* and the first of *Progress* are runs
of their own; the others are consequences of the actions that properties do not claim away,
or are marked as outside the model.

*Supervision.*
- Deleting a supervised group never decrements its supervisor's counter (`http/group.py:605`).
- Two removals in flight decrement twice for one group (`http/admin_groups.py:495`).
- Two sends in flight create two open requests (`invite_service.py:183`); a cancel in flight
  deletes a request that was accepted meanwhile (`:447`); accepting does not look whether
  the role has been taken, so one person may end up in both (`:355`).
- Two co-supervisor changes in flight lose one (`http/admin_groups.py:446`).
- Faculty whose supervision was disabled can give themselves capacity
  (`http/supervisor_profile.py:357`).
- (Outside.) `assign` locks two faculty rows, `accept` one and the group: a cycle the
  database breaks by refusing one (`http/admin_groups.py:348`).

*Groups.*
- A student can be in two groups: accept does not look (`http/group.py:319`), and two
  creates in flight do not see each other (`:64`). Accepts in flight can overfill a group
  (`:291`). An expired invite keeps its place until someone tries to use it (`:210`). A late
  cancel deletes the record of an accepted invite (`:466`). A group whose last member left
  stays, with its invites (`:496`).
- When two changes of a group's members overlap, the group can keep the cohort of somebody who
  left, if it is left empty or to an earliest member whose intake is NULL: the trigger of the
  UPDATE takes NULL for no opinion (`alembic/versions/f2a4b6c8d0e1…:74`). A student without an
  intake can join by invite but not found a group: the numbering trigger raises (`:149`), which
  is answered 500.
- Two creations in flight compute one FYP number, and the hundredth project of a cohort gets
  a number cut to two digits, which is taken (`alembic/versions/f2a4b6c8d0e1…:161`); the
  UNIQUE column refuses either.

*Bulk import.*
- A second task reports a row it finds already registered as skipped, over the first
  one's success (`bulk_import_service.py:661`); rows can be left pending in a job marked
  done (`:696`), which resume then declines (`http/bulk_import.py:546`).
- Retry without failed rows does not restart an interrupted job (`:743`; its documentation
  at `:626` says it does). Resume of a job without pending rows marks it done with its
  counters at zero (`http/bulk_import.py:554`).
- The manual run reads the counters before they are flushed, so it never closes a job
  itself (`:864`); two rows of its batch with one roll number undo the whole batch, every
  time (`:855`). An account whose password could not be encrypted exists although its row
  is failed (`:567`).

*Documents.*
- Two snapshots in flight get one number, and a number may be older than a smaller one
  (`group_document_repository.py:241`); `models/group_document.py:184` calls it sequential.
- A proposal rejected during its apply is in the saved text; after a crash between the two
  databases it is still pending and can be applied again.

*Chat.*
- The Redis list is pushed and popped at the same end: last in, first out
  (`collaborative_chat_worker.py:64`, `:387`).
- A turn of more than 600 seconds overlaps with the next one of its room and then deletes
  that one's key (`:374`). A restart after the pop loses the job, and no listener is told.
- Exceptions while the history is read, or in a refused modify turn, are not announced.
  "complete" is followed by "error" when the audit row cannot be written (`:305`).
- Jobs in the Redis list wait as long as the process runs without Redis.
- (Outside.) A rate-limit key has no TTL if the call that sets it fails (`:80`).

*Submissions.*
- A submission or task whose upload or commit fails keeps naming files it has removed
  (`http/student_submissions.py:308`), and aborted uploads and deleted groups leave objects
  that no row names.
- A grade given while the group submits anew leaves the new files graded; 0 marks are shown
  as ungraded (`http/supervisor_submissions.py:1001`); an administrator may grade a row that
  nothing was submitted for.
- A supervisor's PATCH of an announcement that is a task retargets it without making rows;
  so does an administrator's edit or update. Two edits in flight make two rows for one group,
  although a comment calls the creation safe (`http/supervisor_submissions.py:628`).
- An edit deletes the targets in a statement of its own (`:597`): two edits that overlap leave
  the targets of both, or one target twice. Changing the role of an announcement whose targets
  were replaced meanwhile fails if it had one target and otherwise changes nothing
  (`http/admin_announcements.py:233`); on a supervisor's announcement it violates a CHECK.
- A group that is made, or moved to a cycle, after an administrator's task was posted for the
  cycle gets no row: its students do not see the task, and the response list shows it as
  missing (`http/admin_submissions.py:267`, `:891`).

*AI gateway and jury.*
- Calls of a half-open circuit that end without a report keep their places; when all do, it
  refuses every call from then on (`ai_service.py:326`; a recommendation does so on a cached
  answer, a missing group and an unreadable answer,
  `supervisor_recommendation_service.py:97`). `RateLimiter` is used by no route (`:38`).
- The deduplication lock lives for 30 seconds, less than the call's timeout, and is deleted
  by whoever ends; an empty recommendation list is kept but never found.
- A job whose batch was cleared creates it anew, without its author; a poll in between is
  answered 404; two runs in flight may both end completed, with the earlier one's rows.
  Failed validation commits the pairs made so far (`jury_matching_service.py:936`). After a
  crash a batch stays "processing".

*Progress.*
- Deleting a sprint deletes the tasks it has just moved to the backlog, with their
  attachments' rows, and leaves the objects in storage (`http/student_progress.py:530`).
- Two activations in flight give two active sprints (`:486`). Overlapping updates of one
  proposal evaluation leave a total that is not the sum of its lines. A total the client sends
  is stored unchecked, and a PATCH with a null total stores NULL, which hides the evaluation
  (`app/repositories/proposal_evaluation_repository.py:123`, `:169`). Lines and total are
  rounded apart: five lines of 0.25 are stored as 0.3 each under a total of 1.2. An update stores
  attachments under a cleaned file name, a creation under the raw one.
- Supervisors may evaluate a jury's milestone; juries may evaluate an inactive one; of
  several evaluators' marks a student is shown the one the database returns first.
- (Outside.) The administrators' list of evaluations calls a repository method that does not
  exist (`http/admin_milestone.py:111`); `/milestones/proposal-evaluation-config` cannot be
  reached behind `/milestones/{milestone_id}`; 0 marks are listed as none.

*Accounts and profiles.*
- Changing the role makes a new JWT and does not send it: the client is signed out.
- A mail that seems to fail takes its link with it, after the earlier links were deleted;
  overlapping requests leave two links that work, and overlapping resets use one twice.
- The wizard with skills and no levels sets every level to 1, where a patch keeps them; a
  wizard without a roll number is answered 500. Overlapping requests may leave a stored skill
  without a level, which reads fill in.
- (Outside.) `verify-cookie` always answers 401; `students.is_active` is enforced nowhere.

*Rooms and streams.*
- With Redis each event reaches the streams of the publishing process twice, directly and
  through its own listener (`chat_sse_hub.py:96`).
- When a user reopens a document, the end of the old socket releases the user's edit lock and
  removes the new socket's entry (`app/api/websocket/document.py:141`).
- A broadcast that meets a dead socket removes its user's entry and tells nobody; a greeting
  that fails leaves an entry without a socket; two messages in flight may arrive in either
  order. The Redis listener ends with its first error and is not started again
  (`manager.py:231`).
- An exception after the reply was streamed ends the socket with neither `llm_error` nor
  `llm_done`; a chat message is sent before it is saved. Nothing asks whether the document or
  workspace of a socket exists.

*Workspaces, whiteboards, lists.*
- Linking a document to another workspace leaves it in the old one's list; ids named when a
  workspace is created are listed without the document naming the workspace back; a
  reconciliation loses a link made between its read and its write; a link whose commit fails
  is listed although the document did not move (`http/student_documents.py:735`); documents
  can be made in a deleted workspace.
- Two questions at once over HTTP see each other in their histories. A patch of one part of a
  whiteboard's scene takes the other parts back to what it read.
- A page of students read before a switch may be kept after the switch cleared the pages; the
  weekly job clears nothing, and switches off again students an administrator switched on. The
  shortlist's page is never kept, because its ids are not JSON (`http/shortlist.py:150`); two
  adds in flight make two rows (`:83`).

## Not modelled

Deleting a faculty account, and the deletion of a document with its group, are left out of
modelled components; they add rows to cascades already modelled for requests and invites.
Exploring supervisors, dashboards and reports only read. Staff profiles and profile status
update single columns of one row. Prompts, the language model, text extraction, mail,
storage, configuration, logging and metrics are input and output, and appear as the outcomes
a caller can meet.

## Plan

Done: supervision with its ledger and the refinement, membership, bulk import, documents,
chat turns, submissions, the AI service and jury runs, progress, and the student's sessions;
a document, a chat room, the roster of groups, the register of accounts and the board of a
jury run as abstract specifications that are implemented, by proof and by TLC.
What is left, the most valuable first:

1. The single statements of `assign` and `remove`, so that their row locks can meet those of
   `accept` in the other order.
2. The deletion of a faculty account, the renaming of a document and its deletion with the
   group.
