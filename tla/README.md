# Kosply-backend: specifications, model checking and proofs

TLA+ modules for the parts of this repository whose correctness depends on the
order in which requests, statements and failures happen. Every module is
translated from the code under `src/`; `PROJECT.json` gives, for each
definition, the lines it stands for.

## 1. The system

An Express server (`lib/server`) over MariaDB (`lib/db`, a hand-written data
layer with a pool and ambient transactions) and a LangGraph agent
(`lib/agent`), with a Go terminal monitor (`lib/server-monitoring`). PM2 runs
several server processes; they share nothing but the database. Within one
process a request runs until its next `await`, so every database statement is
a point where other requests interleave, and every request may stop there for
good (crash, restart, lost connection, failed statement).

| Component | State | Operations | Interacts with |
| --- | --- | --- | --- |
| Refresh sessions (`services/auth/refresh.service.js`, `controllers/auth/refresh.controller.js`) | `refresh_tokens` | login/register issue, refresh (consume, resolve, issue, rotate), logout, revokeFamily, revokeAllFor, purge | `users.isActive`, password reset, administration |
| Password reset (`services/auth/password.service.js`) | `password_resets`, `users.passwordHash` | forgot, reset | sessions (revokes all), login |
| Sign-in, registration, social sign-in | `users`, `admins` | register, login, google, apple | sessions, seeds |
| Authentication middleware (`middlewares/auth/auth.js`) | none (reads `users`, `admins`) | authenticate, requireRole | every handler |
| Listings (`services/products`) | `products` | create, update, archive, markSold | verification, reports |
| Seller verification (`services/verifications`) | `seller_verifications`, `users.role` | submit, review | listings, notifications |
| Reports (`services/reports`) | `reports` | file, review | listings, users, notifications |
| Chat (`services/chat`, SSE controller) | `conversations`, `messages`, `activeWaits` | open, send, history, long-poll, stream | notifications, listings |
| Support, notifications | `support_*`, `notifications`, preferences | open, reply, close; notify, mark read | all of the above |
| Administration, profile, models, tools | `users`, `admins`, `ai_models`, `tool_invocations` | create, update, switch off, delete | sessions, AI gateway |
| Data layer (`lib/db/src`) | pool, AsyncLocalStorage | statements, transaction, checkout, release, close | every service |
| Migrations (`lib/db/src/migrate.js`) | ledger, schema | deploy, adopt, reset | operators, boot |
| Admission (`middlewares/rateLimit.js`, `services/analytics`) | buckets, dedupe map, `product_events` | limit, sweep, recordEvent | public routes |
| AI gateway (`services/ai`, SSE relay) | none | chat, stream, resume, wait, history | agent |
| Agent turns (`lib/agent/app/api`, `agent/graph.py`, `memory`) | checkpointed thread, history mirror | turn, interrupt, resume, wait | model provider, server |
| Agent capacity (`core/limits`) | semaphores, windows | run_guarded, stream_guarded, waiters | agent routes |

What is hard, and what makes each part correct:

* **Sessions.** A refresh is four statements without a transaction. Two may
  present one token; a revocation or a sweep may fall in between; a crash may
  follow any of them. A session must survive its own renewals, a replay must be
  noticed, and an ended session must stay ended.
* **Password reset.** bcrypt takes a few hundred milliseconds between the
  ticket's read and its write. One live code per account, spent once, by its
  newest, with a bounded number of guesses; older sessions end.
* **Listings and moderation.** A handler reads a row, judges it, awaits and
  writes by id; only `markSold` repeats its condition in the write. Archives
  are final, sales and decisions settle, bans hold, approvals are whole.
* **Chat.** Messages become visible in commit order and are followed by a
  `(createdAt, id)` cursor. Nobody should miss a message.
* **Data layer.** Connections must come back exactly once on every way out,
  timeouts that race an answer included; a transaction is whole; an upsert of two
  statements answers with its row. A `where` object must reach the database as
  what it means.
* **Migrations, seeds.** DDL cannot be rolled back and the ledger is a second
  statement; a seed that was cut short is run again, perhaps with other fixtures.
* **Admission, events, numbers.** A window is one window at its boundary, at the
  cap and under the sweep; the overview and a listing's page report the same facts.
* **Support, notifications, reading a room.** Each request is a chain of
  statements with other requests between them: what it tells must have been true.
* **Accounts.** One account lives in two tables that no update joins; a dashboard
  operator of a seed may be in one of them only.
* **AI gateway.** The client may leave at any moment; the agent's run must be
  released and a client that stays must be told how its turn ended.
* **Agent.** One thread takes turns, approvals and waits from several requests.

## 2. The modules

| Module | What it is |
| --- | --- |
| `Sessions` | the `refresh_tokens` table and the requests on it |
| `SessionLifecycle` | what a session promises, without rows, statements or clock |
| `Marketplace` | listings, seller verification, reports and admission |
| `PasswordReset` | reset tickets, passwords and the sessions a reset cuts off |
| `Chat` | rooms, messages, streams and long-polls |
| `ConnectionPool` | the slots of the pool, its waiters, statements and transactions, boot and shutdown |
| `Records` | the row operations of `db.js`, several callers on one table |
| `SqlWhere` | the condition compiler against what a `where` object means |
| `Migrations` | the migration runner, its ledger, adoption and reset |
| `Seeding` | the seed scripts, run again and cut short |
| `RateLimit`, `EventDedupe` | the request windows; the dedupe map of listing events |
| `Analytics` | the seller's numbers, reported two ways |
| `Support` | tickets, replies, notifications and their pages |
| `Accounts` | `users` and `admins` under registration, sign-in, social links, administration and the seeds |
| `Threads` | what a read of a room, an inbox or a history tells, and read marks |
| `Gateway` | the proxy to the agent and its stream |
| `MCDataLayer` | composes `ConnectionPool`, `Records`, `SqlWhere`, `Migrations` and `Seeding` |
| `MCServices` | composes `RateLimit` ... `Gateway` |
| other `MC*` | the symmetry sets of the runs (`Chat` needs none: its run checks a liveness property) |
| `*Proofs` | theorems about the module of that name, with their proofs |

### Conventions

A request `r` has a program counter `pc[r]` naming the statement it is about to
execute, and locals for what it has read. One action is one statement, or one
transaction: a transaction's updates lock the rows they touch, so two of them
on the same rows take turns. A read and the judgement of what it read are one
action; the following write is another. Every request may be dropped at every
`await` (`Abort`, `Drop`): what it has written stays. A judgement that refuses
has no action of its own, because a refused request changes nothing: it is
dropped. Operators whose comment says "Mutant" are slips a plausible bug would
make in the definition that follows them; `PROJECT.json` names, for each
property, one that breaks it.

### Sessions

| Model | Code |
| --- | --- |
| `stored`, `familyId`, `subjectId`, `expiresAt`, `consumed`, `revoked`, `replacedById` | the columns of `refresh_tokens` |
| `SignIn` ; `Insert` ; `Purge` ; `Respond` | login or register, `issue`, the answer |
| `Consume` ; `ResolveSubject` / `ResolveFault` ; `Insert` ; `Purge` ; `Mark` ; `Respond` | refresh: `consume`, `resolveSubject` and its catch, `issue`, last statement of `rotate` |
| `Logout` ; `RevokeFamily` | logout with a token |
| `RevokeAllFor` | sign out everywhere, the end of a reset, administration |
| `Disable`, `Enable`, `Tick` | `users.isActive` written elsewhere, the clock |

`consumed` and `revoked` remember purged rows, `parent` and `raced` are history
variables no guard reads. A token is presented only after it was delivered in a
response. `SessionLifecycle` sees a family as a session that is "none", "open"
or "ended" and the renewals it has accepted; `ImplementsLifecycle` is the
refinement, with `Status` and `Renewing` as the mapping: in the abstract
specification an ended session comes back only through a renewal accepted
before its end, and that is exactly what the code does.

`refresh.service.js` defines `issueFor` (122) and does not export it (244-259).
The social sign-ins call it and fail, and `admin.service.js` catches the error,
so no `admin` or `staff` subject ever owns a row: `Account` is `users` only.

### Marketplace

| Model | Code |
| --- | --- |
| `Arrive` | `authenticate` and `requireRole`, from the live row |
| `Vet` ; `Publish` | `create` with `assertActiveSeller` |
| `ReadForEdit` ; `Rewrite` | `update` |
| `ReadForArchive` ; `Withdraw` | `archive` |
| `ReadForSale` ; `Vet` ; `Claim` | `markSold` |
| `ReadOwnApplication` ; `Enter` / `Resubmit` | verification `submit` |
| `ReadApplication` ; `Rule` | verification `review` |
| `File` ; `ReadReport` ; `Enforce` | report `file`, report `review` |

`Staff` is one actor for all moderators: they are never moderated, and no
account joins or leaves them. `price` stands for every column a PATCH may
rewrite. A verification `REJECT` filters on role BUYER and so demotes nobody
(`verification.service.js:117` says it does; 157-161). No path of
`admin.service.js` switches a BUYER or SELLER back on, so nothing reverses a ban.

### PasswordReset

| Model | Code |
| --- | --- |
| `Forgot` | the transaction of `forgot` |
| `Expire` | `expiresAt` passes |
| `Present` ; `Bump` / `Claim` | `reset`: read, gate and compare; conditional increment; transaction |
| `Login`, `Refresh` ; `OpenSession` | a sign-in or renewal that inserts a session later |

`password[u]` counts the resets of an account and `sessions[u]` holds the
passwords under which its unrevoked sessions were opened. `guesses` and
`crossed` are history variables. `Claim` needs its ticket live, the `count` of
the conditional update: a loser throws inside the transaction and rolls back.
(It also changes its status code: the catch of `db.transaction` wraps every
error, `db.js:366`, so the loser's client sees a 500.)

### Chat

| Model | Code |
| --- | --- |
| `Open` ; `Create` ; `Settle`, or `Stamp` ... `Commit` | `open`: `upsert` of the room, without or with a first message |
| `Send` ; `Stamp` ; `Insert` ; `Date` ; `Commit` ; `Notify` | `send`: membership, insert, `new Date()`, update and commit, notification |
| `Stream` ; `Latest` ; `Page` ; `Poll` | the SSE handler: cursor, the two queries of `fetchLatest`, the loop over `fetchAfter` |
| `Wait` ; `Answer` | `waitForMessages` |
| `Drop` | deadlines, clients gone, failures, crashes |

An id is drawn and `createdAt` fixed when the insert starts (`Stamp`); the row
shows when the transaction ends (`Commit`). Ids are numbers in the order of the
column, handed out in any order, since several processes draw them. The insert
share-locks its room through the foreign key of `messages` and the update wants
the room alone, so of two overlapping sends of one room at most one commits
(the other is a deadlock victim, which this code reports as a 500 and does not
retry): `HoldsRoom` is that lock, and `RoomFresh` rests on it. One clock serves
the server and the database. `late` and `outOfTurn` are history variables: the
first holds what was committed behind a cursor, which a stream cannot see. The
turn of the loop and the turn of a long-poll that find nothing change nothing
and are no steps. An `open` that loses the insert of its room re-reads it in the
snapshot its own transaction took before, finds nothing and fails on `room.id`
(`chat.service.js:91`, `db.js:184-193`), although the comment above it says that
it falls back to the existing row; it writes nothing, so it is a `Drop`.

### ConnectionPool and Records

| Model | Code |
| --- | --- |
| `Call` ; `Connected` / `ConnectFails` / `Deadline` ; `DestroyLate` | `checkout`: `getConnection` raced against its timer, and `pending.then(late => late.destroy())` |
| `Return`, `Discard` | a connection released (the driver hands it to its oldest waiter) or destroyed (the driver dials again) |
| `Query`, `QueryFails` | `onPooledConnection` |
| `Begin` ; `Statement`, `Nest` ; `Commit` / `Throws` ; `Rollback` / `RollbackFails` | `transaction`, with the ambient runner a nested call joins |
| `GetDb` ; `Shutdown` ; `ServerClosed` ; `Exit` ; `Boot` | the gateway of `config/db.js`; `server.js` |
| `UpsertSelect` ; `UpsertInsert` ; `UpsertReapply` ; `UpsertReread` | `upsert` outside a transaction |
| `Insert`, `Increment`, `UpdateRow`, `RemoveRow` | the one-statement operations |

The driver is external: a waiter whose deadline passed stays in its queue (`Gone`)
and is given a slot all the same, a *stray*, which the code destroys. `durable`
and `answer` are what a caller can know of its call; a `COMMIT` or a statement
whose connection dies may have run. In `Records`, `excused` remembers the upserts
whose row was rewritten or removed under them, or whose second unique column
refused them: `upsert` takes any duplicate for a lost race on its own row
(`db.js:184-193`), and such a call answers without its patch, or with nothing.

### SqlWhere

The state is the `where` objects callers have assembled, by the three things they do to
one (`AddColumn`, `Branch`, `Relate`); an entry holds other objects by their place, so
an object is written once and may be used in several. `Compile` is
`compileExpression` with its branches and relations. Text without parentheses is kept as
SQL reads it, an OR of ANDs, so that joining two texts with AND joins the operands at
the seam and a missing parenthesis shows; an operand is kept by the truth it has on
each row, in three values. `Joined` leaves out the texts that are empty, as the code's
filters do, and `Exists` joins the correlation of a relation to its condition. `Reads`
is the database; `Means` is the meaning of an object entry by entry. The property
compares the rows a statement touches with those the newest object means. One column
stands for all, and a relation reaches one level of related rows. `undefined` is no
value of an entry: `sql.js:169` drops such an entry without a word, so a caller whose
filter is undefined reads as if it had none.

### Migrations and Seeding

| Model | Code |
| --- | --- |
| `ReadLedger` ; `Plan` ; `AdoptRow` or `Skip` / `CreateTable` ; `Record` | `deploy`: the ledger, the decision to adopt or apply, one statement of a file, the ledger row |
| `Reset` ; `Die` | `reset`; a deploy that ends between two statements |
| `StartSeed` ; `UpsertFixture` ; `ClearLog` ; `InsertLog` ; `EndSeed` | `seed/index.js` with `accounts.js` and `dashboard.js`, behind `guard.js` |
| `StartDevSeed` ; `UpsertMarket` ; `RotateOperator` | `lib/db/schema/seed.js` |

A table is in the schema as the registry wants it, or it is one the registry
lacks; columns are abstracted. `LedgerTrue` says that the ledger never runs ahead
of the schema. The converse does not hold and is not claimed: a deploy that dies
inside a file leaves tables no row names, and the next one stops at the first
of them (`CreateTable` to "exists").

In `Seeding` a fixture is a row with its columns, those written together being one, and
each column has the revision of the fixtures it was last written from. An upsert
writes a row that is missing whole; of a row that is there it writes the columns its
patch names. `Patch` gives them for each fixture and revision, and `Named` is the
password alone in `lib/db/schema/seed.js` (148, 174, 181), which also leaves the
marketplace's fixtures alone once they are there. So a run over changed fixtures leaves
rows of two revisions (`seed/dashboard.js:284` never touches the username or the password of a
user who is there), and `Refreshed` claims of a row no more than the upserts say: whole
if the run made it (`found` remembers which it found), the named columns otherwise. It
also claims that both copies of the operator's password are alike after a run that
writes both, and that the log is the plan's and nothing else. The header of
`dashboard.js` promises more (section 5). The environments of both
scripts name one operator, the case in which they meet (`SEED_ADMIN_EMAIL`,
`ADMIN_SEED_EMAIL`, `SUPERADMIN_SEED_EMAIL`), and a run of the second has one of its two
in it; runs follow one another and do not overlap.

### RateLimit, EventDedupe and Analytics

`Admit` is the middleware on one request, `Sweep` its timer. `admitted` is a
history of admissions by moment. `LetThrough` takes the dedupe window before
the insert that `InsertEnds` ends, as the code does: an event whose insert fails
is not counted again within the window (`analytics.service.js:465`). `others` and
`behind` are histories: the keys seen since a key was, and since it was put at
the end of the map. They differ because a key whose window is over is let through
by `Map.set`, which keeps its old place (432), while a key within its window is
deleted and set again (424-426). `early` and `lost` hold the keys let through
twice in one window although fewer than `MaxEntries - 1` others were seen since
the one or the other: `HotKeysHold` and `WindowHolds` say that none are. (One less
than the cap, because at the cap the first entry leaves even when the key that comes
is in the map already.)

`Analytics` writes facts (`Upload`, `Sell`, `View`, `Say`) and defines both
answers over them, `SellerOverview` and `ProductStats`, each with the scope,
window and grouping of its own queries. Dates are days, a rate is a number of
ten-thousandths.

### Support and Threads

| Model | Code |
| --- | --- |
| `Draw` | one attempt of `open`, retried on a number in use |
| `ReadTicket` ; `StoreReply` ; `IsEnabled` ; `Notify` | `reply`: the read, the transaction, and `notify` with the preference it reads first |
| `Close`, `SetPreference`, `MarkRead`, `MarkAllRead`, `ListPage` | the operations of those names |
| `AssertMember` / `InboxRooms` ; `WithProducts` ; `HydrateRoom` / `HydrateInbox` | `get`, `inbox`: the rows, the products in one query, the messages or their counts in one query |
| `MarkOthers` ; `History` | `history` |
| `AgentReads` | the agent's read of a room (`internal.controller.js`) |

`held` and `late` are history: a reply that had read its ticket open may still
store its message after a close, and one that had read the preference may still
notify. The agent's `sendConversationMessage` writes as `send` does.

A room past its limit is told with its *oldest* messages: `hydrateRoom` gives
`attachChildren` no direction, the ranks ascend and the lowest are kept
(`relations.js:117-130`), and `history` sorts ascending before its limit. `AnswerTrue`
states that, as the code has it: of such a room the answer shows as many as the limit
and nothing older is missing. The comment of `attachChildren` calls the same rows "the
most recent 200" (92-93), which the code does not do: with the limit of two and three
messages of the run, the newest is not told. So is it with read marks:
`history` marks every message of the room and shows the oldest
(`chat.service.js:251-264`), and `ReadMeansShown` says exactly which are read unseen:
those behind a full thread of messages no later than they, and no other.

### Accounts

| Model | Code |
| --- | --- |
| `CheckNew` ; `InsertUser` / `CreateAdmin` | `register`, `createAdmin`: look-ups, then the insert or the transaction the unique keys judge |
| `ReadLogin` ; `IssueSession` | `login` |
| `ReadLinked` ; `ReadByEmail` ; `Link` / `InsertUser` | `findOrLinkSocial` |
| `CheckHandle` ; `Rename` | `updateMe` |
| `ReadTarget` ; `SwitchUser` ; `SwitchAdmin` ; `Revoke` three times | `updateAdmin` with `isActive` |
| `ReadRenewal` ; `IssueSession` | a refresh: the account read, the successor inserted |
| `EndSession` | the last session of an account ends: logout, expiry, a renewal refused |
| `SeedAccounts` ; `SeedAdmin` | `seedAccounts`: the two upserts |
| `SeedSuperAdmin` ; `SeedDashboard` | `lib/db/schema/seed.js`: `SUPERADMIN_SEED_*`, or `ADMIN_SEED_*` alone |
| `CallFails` | a statement fails or the process dies |

The comments of four services say that a dashboard operator has no `users` row
(`auth.js:76`, `support.service.js:138`, `report.service.js:145`,
`verification.service.js:138`). Two paths decide what an `admins` row has beside it:
`createAdmin` and `seedAccounts` write both rows, and `lib/db/schema/seed.js` with
`ADMIN_SEED_*` makes one in `admins` alone (135-151), whatever `users` holds
(`SeedDashboard`). `register` does not look at `admins`, so such an operator may get a
`users` row later, as a buyer; and a seed may make a dashboard row for a staff account
that is disabled, enabled in its own store. `StoresAgree` therefore speaks of staff
accounts with a row in both stores. An operator without a `users` row cannot be
switched off by `updateAdmin` at all: its target is a staff row of `users` (166-167).

`clean` tells an update, of a request or of a seed, whether another one overlapped it
on its account; `torn` holds the accounts where two did, where one was cut short, or
where a seed made the dashboard's row while the account was off; no guard reads
either. An update nobody overlapped takes its account out of `torn` again. What these
exclude is not claimed to be harmless: an update that dies between its two statements
leaves an account off in `users` and on in `admins` (section 5). `live`
holds the accounts with a session that can be renewed, and `late` those where a login
or a renewal that had read the account enabled opened one after it was disabled
(`RevokedAsAWhole` shows the same of a family); `authenticate` refuses such a
session, and `EndSession` is its end. The bans of `review` are in `Marketplace`: they
reach buyers and sellers, and no staff account.

### Gateway

| Model | Code |
| --- | --- |
| `Arrive` ; `Refuse` ; `CallAgent` ; `CallReturns` | the bounded calls of `ai.service.js` behind the ownership check |
| `CallStream` ; `AgentAnswers` ; `Chunk`, `Drain` ; `BodyEnds`, `MeetsAbort` | the SSE relay of `ai.controller.js` |
| `Leave` | the client disconnects |

The relay listens for its client's leaving only once the ownership was read
(`ai.controller.js:97`), so a client that left before is noticed at the first
chunk. When a client leaves while its buffer is full, the agent's run is released
but the handler itself never ends, since `drain` never comes (148): only
`UpstreamReleased` holds, and only it is claimed.

## 3. The runs

| Run | Instance | Shows |
| --- | --- | --- |
| `sessions` | 3 tokens, 1 account, 2 requests, TTL 1, grace 0, clock to 2 | all properties of `Sessions` |
| `sessions_presented_once` | the same with TTL 2, clock to 3 | overlapping refreshes of one token both succeed |
| `sessions_revoked_as_a_whole` | the same | a revoked family gets a live row |
| `marketplace` | 1 account and the staff, 1 listing, 2 reports, 2 prices, 2 requests, clock to 2 | all properties of `Marketplace` |
| `password_reset` | 2 accounts, 2 codes, 3 requests, lock after 2 | all properties of `PasswordReset` |
| `password_reset_locked_after_five` | 1 account, 2 codes, 3 requests, lock after 2 | more guesses than the cap |
| `chat` | 1 room, 3 messages, 2 requests, a page of 2, 1 long-poll, clock to 2 | all properties of `Chat`, one of them liveness |
| `chat_streams_deliver` | the same | a stream opened on an empty room delivers nothing |
| `data_layer` | pool: 2 slots, 2 callers, 2 writes, 2 in line; rows: 2 keys, 2 second values, 2 callers, cap 2; 4 `where` objects over 3 values and the null, 2 items to a branch, 1 related row; 2 migrations, 3 tables, 3 deploys; 2 revisions of 4 fixtures of 3 columns, 2 fixtures of the marketplace, 2 and 1 log rows | whole transactions, conserved slots, exact counters, settled upserts, conditions that touch what they mean, a true ledger, seeds that leave what their upserts say, served waiters |
| `services` | limits of 1 in windows of 2 over 3 addresses and 2 buckets; 4 viewers over 3 entries and windows of 2, clock to 4; 2 listings, 2 rooms, 2 facts, 3 days; 3 replies, 1 ticket, 2 notifications; 2 account requests; 1 visit over 2 rooms and 3 messages; 2 turns of 2 chunks | all properties of the services |
| `services_hot_keys_hold` | the same, 5 viewers over 4 entries | a viewer just counted is evicted first |
| `services_inquiries_agree` | `Analytics` as in `services` | the overview leaves out inquiries a listing's page counts |

Why the bounds are enough for the cases that matter:

* Three tokens allow a row, its successor and the successor's successor, or one
  row renewed twice; two requests are what every race of a refresh needs; a TTL
  of 1 with no grace lets rows expire and be swept within the clock's range.
* Two reports allow two decisions on one target, two requests the overlap of any
  two handlers; the second price and the second clock tick show a sale that is
  edited or dated anew. The symmetry sets are requests, tokens, prices, reports
  and accounts, which no definition compares with a named member; no liveness
  property is checked with them.
* Two codes allow a replaced code, a cap of two lets a lock fall between the
  reads and the increments of three requests.
* Three messages do not fit a page of two and allow a row behind, at and ahead
  of a cursor; two clock values allow rows of one millisecond and of two, in the
  order of their ids or not; a cap of one is met by the second long-poll. The
  theorems carry the safety properties to several rooms and many requests.

* In `data_layer` and `services` the parts share no state: `part` says which of
  them a behaviour moves, so their state spaces add up instead of multiplying,
  and nothing is lost, because a step of one neither enables nor disables one of
  another. Each has what its hazards need: two slots and two callers
  for a late connection with somebody in line behind it, an abandoned place in
  that line and the loss of either slot; three deploys for two that overlap and a
  third that finds what they left; two revisions with logs of different length,
  so that an old row can outlive a new plan; the operator's two rows, a fixture whose
  update names one column of three and one whose second revision names one fewer than
  its first, so that rows mix revisions in both ways; an empty object and three entries,
  so that a branch of two items stands inside another or beside an entry; one bucket less than there are
  addresses, three entries for four viewers; three replies to one ticket, so that a
  close falls between the read and the write of one while another is announced;
  a page of one over two notifications of the same or of different dates; a room
  limit of two for three messages. One visit is enough in `Threads`: a read changes
  nothing but read marks, which no other read looks at except `history`, whose
  marks are those of its own room and side. Two turns are enough in `Gateway`: they
  meet only in the owner of a conversation.

No run leaves deadlock on: all requests may be idle, ids and clock used up, and
the server then simply waits.

**Fairness.** Three modules state any.

* `Chat`: weak fairness of `Poll`, because `setTimeout` wakes the loop of an open
  stream again and again for as long as it lives. `CursorDelivers` still lets a
  stream end at any moment.
* `ConnectionPool`: a statement is answered or fails, a handshake ends, a promise
  callback runs. No deadline has to fire, so `WaiterServed` shows that a waiter does
  not depend on its own timer.
* `Gateway`: a handler that can go on does, and the agent goes on with a body
  somebody reads, since its model calls are bounded. No client has to leave, to
  arrive or to read: `Drain` is not fair, and `UpstreamReleased` holds without it.

Everything else is a safety or step property: the code promises a client no
progress (a request may die at any await).

### What the runs found

* `PresentedOnce` (`refresh.controller.js:75-76`). `consume` writes nothing and
  the mark is unconditional: a token presented twice at once is answered twice.
  What does hold is `NoSilentReplay`: presentations that do not overlap.
* `RevokedAsAWhole` (`refresh.service.js:14-18`). A renewal in flight survives the
  revocation of its family. What does hold is `ClosedStaysClosed`: once those
  have drained, nothing reopens it.
* `HotKeysHold` (`analytics.service.js:420-423`, 432). A viewer that comes back after
  its window is counted by `seen.set(key, now)`, which leaves the key where it was: it
  may be the first of the map, and then the next new viewers evict it and its window
  opens again. The comment says that re-insertion rules this out; it is done only
  while the window runs. The proof attempt of `WindowHolds`, which used to say this,
  met the case; the run had been too small for it (two entries never separate the
  two orders). What does hold is `WindowHolds`: counted from the moment a key was last
  put at the end.
* `StreamsDeliver` (`chat.controller.js:78`). A stream opened on a room without
  messages has no cursor, and `fetchAfter` answers nothing without one. What does
  hold is `CursorDelivers`: once a stream has a cursor, everything visible ahead
  of it arrives.
* `InquiriesAgree` (`analytics.service.js:203-207`). The overview scopes listings by
  upload, sale and events, and not by messages, so a listing whose only traffic is
  a buyer's message is missing from the totals while its own page counts it. What
  does hold is `TrafficAgrees`, the same of impressions, clicks, sales and rates.
* `LockedAfterFive` (`password.service.js:6`). Parallel guesses pass the check
  before any is counted. What does hold is `GuessesBounded`: fewer than the cap
  plus the number of concurrent requests.

## 4. The proofs

Fifteen modules have an invariant, checked by TLC on the way and proved
by TLAPS for every value of the constants. `DataLayerProofs` holds the proofs about
`ConnectionPool`, `Records`, `Migrations`, `Seeding` and `SqlWhere`, `AdmissionProofs` those about
`RateLimit`, `EventDedupe` and `Analytics`, `ServicesProofs` those about `Support` and
`Threads`; the others have a module of their own.

* `SessionInv` = type, `RowsSound`, `InFlightSound`, `PresentationsSound`,
  `NeverStranded`, `SuccessorSound`, `NoSilentReplay`. `NeverStranded` is not
  inductive alone: that the mark leaves a live row behind needs that the row the
  request made is its own, unconsumed, in the same family, lasts at least as
  long, and is revoked or purged only after the row it replaces
  (`InFlightSound`). `ClosedStaysClosed` and the refinement follow from it.
* `MarketInv` = type, `InFlightSound`, `SaleDated`, `EnforcedAsDecided`,
  `ApprovedCanSell`. The step properties follow: a settled sale needs that a
  listing is dated when it is SOLD, since `markSold` keeps only a date it finds.
* `ResetInv` = type, `InFlightSound`, `LiveIsNewest`, `GuessesCounted`,
  `SingleUse`, `GuessesBounded`, `ResetEndsSessions`. The bound on guesses rests on
  counting: a code that can still be tried has been compared once per counted
  attempt and once per request still under way.
* `ChatInv` = type, `WaitsCounted`, `InFlightSound`, `DatesCover`, `RoomFresh`,
  `CursorsSound`, `NothingSkipped`, `InOrderOnce`. `RoomFresh` needs that the date
  a request has drawn covers its room until it commits (`DatesCover`), which is
  what the lock secures. `NothingSkipped` needs that a page has no gaps
  (`OldestClosed`, by the cardinality of what stands before a row) and that a
  stream has delivered nothing ahead of its cursor (`CursorsSound`).
* `PoolInv` = type, `PlacesSound`, `TurnsSound`, `WritesSound`. Neither property
  is inductive alone: `SlotsAreConserved` counts slots and turns, and follows from
  the statement that a call under way has one of the two and not both
  (`TurnsSound`), which needs that a slot with an owner says where that owner
  stands (`PlacesSound`); `CallsAreWhole` needs that what is open on a slot is what
  its caller has written so far, and nothing on a slot nobody uses (`WritesSound`).
* `RecordsInv` = type, `UpsertsSound`, `CountsExact`, `UpsertSettles`. Unless it is
  excused, an upsert that is about to patch finds its row and one that is about
  to read it back finds it patched.
* `MigrationsInv` = type, `DeploysSound`, `LedgerTrue`. Every deploy has behind it
  only rows the ledger has and tables the schema has, so the row it writes next
  continues the ledger; `Reset` keeps this because nobody else is deploying then.
* `AccountsInv` = type, `CallSound` of every request, `StoreSound` of every address.
  An update nobody overlapped is alone on its account, so it finds what it wrote:
  after the first write the row is as its flag says, after the second both stores
  are off, after the first revocation no session is left but a late one. It needs
  that a writer who starts tells the others (`TellsOthers`, `Overlap`), a seed that
  writes one row included, and that a dashboard row is only ever switched off beside a
  staff account, so that an operator who has none, or is made staff later, cannot be
  found off. The rest are writes of other columns or of new accounts, on which no
  update can be under way.
* `SeedInv` = type, the guard, and for each phase of a run what is behind it
  (`Upserting`, `Logging`, `Marketing`, `Rotating`), `Refreshed`. Everything before
  `next` is there and as the run has it, whole if it was not found; that needs that
  what the run made lies before `next` (`Stored \ found`), so that an upsert which
  finds a row finds one that was there when the run began. The log is also empty from
  `next` on, which only its being cleared as a whole secures.
* `SqlWhere` has only a type invariant, which says that an entry holds objects that
  were there before it. `TouchesWhatIsMeant` holds in every such state, for any values,
  lists and related rows: `CompilesFaithfully` shows of every object that its text is
  empty where it says nothing and otherwise has the truth of its meaning on each row, the
  null included. The induction is over the places of the objects, by the
  least counterexample, and within one over the texts that are joined; `AndJoins` and
  `OrJoins` say what a join reads as, and need for AND that each text is a single
  run of operands, which is what the parentheses are for. That the recursive functions
  have a solution at all is shown on the way (`CompileUnfolds`, `SaysUnfolds`,
  `MeansUnfolds`, `JoinedUnfolds`).
* `LimitInv` = type, and for each key `InOrder` and, within a window, `WindowSound`,
  `AtMostTwoWindows`. `AtMostTwoWindows` speaks of pairs of requests and is not
  inductive: it needs that what the running window admitted came after everything
  else, and that the `Limit` requests before those are a window older than its start.
  A key outside a window, tracked or swept, has all but its last `Limit` requests a
  window behind it; that is why neither the sweep nor the cap loses anything.
* `DedupeInv` = type, `OrderKept`, `CountedIsSeen`, `WindowHolds`. The map is in the order
  of the last insertions (`OrderKept`), so an eviction at the cap takes a key with
  `MaxEntries - 1` others behind it; a key with fewer is still there and no older than its
  count (`CountedIsSeen`). The distinctness of the keys makes the length of the map the
  number of its keys.
* `Analytics` has only a type invariant: `TrafficAgrees` holds in every typed state.
  A listing the overview leaves out has no impression, click or sale in the window, so
  it adds nothing to the sums. The sums are recursive over a set; `SumCounts` proves that
  such a sum is the number of units of its terms (the cardinality of the pairs of a
  term and a number up to it), so that two sums are equal when their units are. The
  induction is not over a predicate: it takes a smallest subset of the listings
  for which the fact would fail (`WFMin` on proper inclusion of finite sets) and refutes it.
* `SupportInv` = type, `RequestsHold`, `CursorSplits`, `SupportHeard`. A reply past its read
  has its ticket open or is `held`. `PagesCover` needs that the cursor splits the inbox:
  what was got is on this side of it and what is due on the other, or got; a page is
  the top of what is behind the cursor, and its last row is the new cursor. That
  a short page was the whole rest is a counting argument on `PageSize`. It rests on
  `NoCursor` being newer than any row and on `(date, id)` being an order of distinct ids.
* `ThreadsInv` = type, `VisitsSound`, `MarkedByHistory`, `RoomsTold`. `base`, what was stored
  when a request began, stays stored, and an answer shows what was there at its last
  statement, so at least that; what came later is in no thread already read, and a mark
  changes no date, which is what `ReadMeansShown` needs. `RankCut` is the lemma on the window function of the
  batched query: the rows of rank up to the limit are the whole room or exactly as
  many as the limit, and the oldest.

Assumptions: `None` (or `Nobody`, `Gone`, `Nothing`, `Unset`) is not a value of the sets it stands beside, the bounds and
the times are naturals, `Ttl` and `MaxAttempts` positive, `Request` finite where
requests are counted; slots and callers are finite, migrations create disjoint
sets of tables; the updates of both operator rows name the password, as `seedAccounts` does; ids of notifications and messages are numbers. TLC evaluates each of them.

| Theorem | Property |
| --- | --- |
| `RotationNeverStrands`, `SuccessorsStay`, `ReplaysAreCaught`, `EndedSessionsStayEnded`, `TypeCorrect` | of `Sessions` |
| `SessionsImplementLifecycle` | refinement of `SessionLifecycle` |
| `EnforcementHolds`, `ApprovedSellersCanSell`, `ArchivedStaysArchived`, `SalesSettle`, `DecisionsSettle`, `BannedAccountsStop`, `MarketTypeCorrect` | of `Marketplace` |
| `StreamsSkipNothing`, `StreamsKeepOrder`, `RoomsStayFresh`, `LongPollsAreCounted`, `ChatTypeCorrect` | of `Chat` |
| `OneCodeAtATime`, `CodesAreSingleUse`, `GuessesAreBounded`, `ResetsEndSessions`, `NewestCodeResets`, `ResetTypeCorrect` | of `PasswordReset` |
| `CallsAreWhole`, `SlotsAreConserved` | of `ConnectionPool` |
| `IncrementsCountOnce`, `UpsertsSettle` | of `Records` |
| `LedgerStaysTrue` | of `Migrations` |
| `SeedsRefresh` | of `Seeding` |
| `WheresTouchWhatTheyMean`, with the lemma `CompilesFaithfully` | of `SqlWhere` |
| `TwoWindowsAtMost`, `BucketsAreCapped` | of `RateLimit` |
| `WindowsHold` | of `EventDedupe` |
| `TrafficAlwaysAgrees`, with the lemma `SumCounts` | of `Analytics` |
| `SupportIsHeard` | of `Support` |
| `RoomsAreTold`, with the lemma `RankCut` | of `Threads` |
| `StoresStayAgreed` | of `Accounts` |

Only model-checked: liveness, which the prover does not reach (`CursorDelivers`,
`WaiterServed`, `TurnsSettle`). `Gateway` has no other property.

The theorems about the modules of the composed runs are about each module's own
specification, which is what a behaviour of the composed run does in the part it
moves.

## 5. Not modelled, and why

* **The agent** (`lib/agent`): its turns, interrupts, approvals and waits over a
  checkpointed thread, and the semaphores and windows of `core/limits`. Both keep
  state and are next in the plan. Its prompts, personas, keyword rules and tool
  payloads keep none.
* **Stateless text**: validators, error formatting, projections, ordering and
  casts of the SQL builder, the printing of drift, the wording of notifications.
  Controllers and routes are argument passing and status codes; where one
  decides something (refresh, SSE, the relay) it is part of a module.
* **Single-row writes and parallel reads** of the model registry and the tool
  statistics.
* **kosmon**, a terminal client: pure I/O. The shell scripts and the argument
  parsing of the command line.
* **Passwords of dashboard accounts**: `Accounts` tells the two stores apart by
  `isActive` only. A reset rewrites `users.passwordHash` and leaves the copy in `admins`
  (`password.service.js:113`), so the dashboard goes on accepting the old one.
* MariaDB and its driver are external: a statement is atomic, a transaction's
  conflicting updates serialise, the pool serves its oldest waiter.

Met while modelling, and the subject of no property:

* `seed/dashboard.js:7-9` says that "re-running refreshes the fixtures". The update of a
  users fixture (284) names its name, role, isActive and bio only, so a run over a
  changed `USERS` leaves the old username, university and password; a column that a fixture
  stops naming keeps its value in any table. What does hold is `Refreshed`.
* `admin.service.js:13-14` says that "both admin stores are now kept in sync", and 154 that
  isActive is applied to both. `updateAdmin` writes them in two statements (182, 186)
  without a transaction: cut short between them, or overlapped by another on the same
  account, it leaves them different for good. Five steps reach it: an account is created,
  its switch reads it and writes `users`, and dies. What does hold is `StoresAgree`.
* `relations.js:92-93` says that the cap of a room keeps "the most recent 200"; it keeps
  the oldest. What does hold is `AnswerTrue`.
* `product.service.js:5` calls SOLD terminal. `archive` and a report's `DELETE_PRODUCT`
  take a listing off SOLD; what does hold is `ArchivedIsFinal` and `SaleSettles`.
* `refresh.service.js` does not export `issueFor` (244-259): a social sign-in commits
  the account and then fails with a 500, and so does every retry; a dashboard
  login gets no refresh token, and a session of it cannot be renewed.
* `report.service.js:181` and `internal.controller.js:187` notify after their commit and
  let a failure through: the caller sees an error for what was done, and the agent's
  retry does it twice.
* `product.service.js:106` escapes a search term that `sql.js` escapes again, which its
  comment intends: a term with a `%` or `_` then looks for a backslash before it and
  does not find the listing that has it.
* `ai.controller.js:108` answers a refused turn body with a 503.
* `password.service.js:112` throws inside the transaction, whose catch makes a 500 of it.

## 6. Plan

Done: sessions, listings and moderation, password reset, chat; the data layer,
migrations and seeds; admission, events, analytics, support, notifications,
accounts, reading of rooms, the gateway. Left, in this order:

1. **AgentTurn**: slots, waiters, turns, interrupt, resume and wait on one
   thread, with the history mirror. Properties: a sensitive tool never runs
   without an approval; slots come back; waits end.
2. Passwords of dashboard accounts in `Accounts` and `PasswordReset`.
3. An abstract store of atomic calls which `ConnectionPool` refines.
