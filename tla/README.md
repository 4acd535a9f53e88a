# Junjo in TLA+

Models, model-checking runs and machine-checked proofs for Junjo, the social
infrastructure for games in this repository (groups, roles, permissions, bans,
friends, and the events that tell clients about them).  Paths below are
relative to the repository root; `server/` stands for `packages/server/src/`,
`sdk/` for `packages/sdk/src/` and `java/` for
`packages/sdk-java/src/main/java/io/junjo/sdk/`.

## 1. The system

### Components

| Component | State it keeps | Operations | Modelled in |
| --- | --- | --- | --- |
| Durable event log, `server/eventLog.ts` | per game: a counter row, one row per event, in Postgres | stage and write events as a transaction's last statement, read a page, read the position, sweep | `EventLog` |
| Game feeds, `server/gameFeed.ts`, and the event hub, `server/eventHub.ts` | per process and game: a reference count, a head, a window of events, a read loop | acquire, release, wake, poll, read | `GameFeed` |
| Game event streams, `server/routes/gameEvents.ts`, `routes/streamSlots.ts` | per connection: a cursor, a batch, pending wake-ups; per process: slots | resolve the start position, accept or refuse, the stream loop, heartbeats, close | `GameEvents` |
| Game event subscribers, `sdk/gameEvents.ts`, `java/internal/GameStream.java` | a position, a connection, a retry state | dial, resume, resync after 410, deliver, back off | `GameEvents`, promise in `Subscription` |
| Java write queue, `java/queue/WriteQueue.java`, `java/internal/DurableFiles.java` | a journal and a dead-letter file on disk; a queue, lengths and an epoch in memory | enqueue, force, roll back, send, finish, compact, close, open | `WriteQueue`, promise in `Outbox` |
| Idempotency keys, `server/idempotency.ts`, and versions, `server/versions.ts` | one row per key: state, fingerprint, time of claim, stored answer | claim, take over, complete, release, replay, sweep | `SafeWrites` |
| Webhook outbox and worker, `server/webhooks.ts`, `server/webhookWorker.ts`, `server/routes/webhooks.ts` | delivery and endpoint rows; per worker: a running flag and lanes | enqueue, claim, deliver, release, disable, stop, sweep | `WebhookWorker` |
| Groups, members and invitations, `server/routes/groups.ts`, `routes/invitations.ts`, `routes/memberImport.ts`, `server/groupKinds.ts`, `versions.ts`, `bans.ts` | rows of groups, members (status, version) and invitations, limits per kind | create, join, add, accept, import, leave, kick, ban, unban, edit under If-Match, delete, restore, sweep, decline, revoke | `Memberships` |
| Friends, `server/routes/friends.ts` | rows between two people: request, friend (two that mirror each other), blocked | send, accept, withdraw, unfriend, block, unblock | `Friends` |
| Identities and their links, `server/identityLink.ts`, `routes/identities.ts` | people, their external ids, link codes | issue, redeem (merge), unlink (split) | `IdentityLinks` |
| Permission resolution and its caches, `server/routes/permissions.ts`, `server/permissionCache.ts`, `permissionResolve.ts` | per process: answers with a time to live, filed under the groups they depend on | check, check a batch, inherit, evict, invalidate, sweep | `PermissionCache`, `PermissionChecks` |
| Roles and the group graph, `server/roleWrites.ts`, `server/routes/parentCycle.ts` | roles, entries, overrides, group parents | write and invalidate, refuse cycles under a lock | `PermissionChecks` (in part) |
| Sanctions and other bans, `server/routes/sanctions.ts`, `server/bans.ts` | the rows of each | create, lift, expire | group bans in `Memberships`, game bans in `SafeWrites` |
| Java mirror, `java/mirror/GameMirror.java`, `MirrorSnapshot.java` | a copy of bans, sanctions, role graphs and members' access, with a position; deferred reloads; a snapshot file | load, apply events, reload and retry, resync, track, resolve, check, save, restart | `GameMirror`, over `GameContent` |
| Last activity, rate limits, the verified key cache, React hubs | see section 6 | | not modelled |
| C++, Roblox and Unreal SDKs, dashboard, docs, tools | as the TypeScript SDK, or none of their own | request wrappers and pages | not modelled |

### How they interact

A request authenticates, claims its idempotency key and runs one Postgres
transaction that changes rows, enqueues webhook deliveries and, as its last
statement, writes its events to the log.  After the commit it tells the hub of
its own process.  The hub wakes that process's feed; the feeds of other
processes learn of the commit from their poll timers.  A feed reads the log and
wakes its streams, which send frames to the subscribers.  The webhook worker
polls its outbox table.  A Java game server sends its writes through a journal
on its own disk, each with an idempotency key, and answers its checks from a
mirror that it loads with requests and keeps current from its stream.  Two such transactions meet in
the locks of Postgres only: a handler reads before its transaction begins, and
what it read may be stale when it holds its locks.  A permission check reads
several rows one after the other, outside any transaction, and leaves its answer
in the cache of its process, which the writes of that process invalidate.

### What is hard here

* *Concurrency.*  Several server processes share nothing but Postgres; within
  one process handlers interleave at every `await`, and in the Java SDK real
  threads share the queue.
* *Failure.*  Processes die between a commit and what follows it; connections
  break with frames on them; forces and writes of the journal fail.
* *Ordering.*  Positions must become visible in order; sweeps do not follow the
  order of positions; a retried request may arrive after its answer was given
  up.
* *Time.*  Polls, heartbeats, leases, retention, time-to-live caches.

### What makes each component correct

* *Log:* positions become visible in order and without a hole.
* *Feeds:* what a feed holds is a contiguous run that ends at its head; no
  stream is left without a live feed.
* *Streams and subscribers:* no event the filter lets through is skipped in
  silence; each is delivered at most once, in order; a gap always ends in a
  reload; every retained event arrives in the end.
* *Write queue:* an accepted entry is sent or dead-lettered, in order, over any
  crash; an entry whose enqueue threw is not; the queue drains; a call returns.
* *Safe writes:* a write that names a version changes its person once at most;
  any other changes it once more per failure at most; what a client is told of
  its write is true; a client that retries gets a final answer.
* *Webhooks:* a row is in one hand at a time; its requests are bounded by its
  attempts and the failures; what is settled stays settled; what is staged is
  settled in the end.
* *Members and limits:* no limit of a kind is exceeded by requests that each see
  room; a ban ends by an unban only; an invitation is used once; an emptied group
  goes; requests do not wait for each other in a circle.
* *Friends:* a friendship is mutual.  *Identities:* a merge loses no row, whoever
  writes beside it.
* *Permissions:* a cached answer that is wrong has a cause, and goes; the index of
  the cache is exact; concurrent reparents close no cycle.
* *Java mirror:* no change after the position it publishes is missed, in memory or
  in its file; once nothing is under way it says what the server says.

## 2. The modules

| Module | Models | Extends |
| --- | --- | --- |
| `EventLog` | the counter row, the log's rows, the transactions that write them, the sweeper | |
| `GameFeed` | one feed per server process, and the hub's wake-ups | `EventLog` |
| `GameEvents` | stream handlers and one subscriber, crashes and broken connections | `GameFeed` |
| `Subscription` | what a subscriber is promised (abstract) | |
| `Outbox` | what the write queue promises its caller (abstract) | |
| `WriteQueue` | the Java write queue and its journal | |
| `WebhookWorker` | delivery rows, endpoints, the workers of all processes | |
| `SafeWrites` | idempotency records around the game ban and its lift | |
| `Requests` | handlers as Postgres transactions: reads before, locks, commit or rollback, deadlocks, retries | |
| `Memberships` | groups, members, invitations, limits, the idle sweeper | `Requests` |
| `Friends` | requests, friendships, blocks | `Memberships` |
| `IdentityLinks` | link codes, merges and splits of people; the composition of the three, with its properties | `Friends` |
| `PermissionCache` | the cache as operators on a record | |
| `PermissionChecks` | checks through the cache beside the writes that change answers | `PermissionCache` |
| `GameContent` | what a mirror copies: rows at each position of the log, and the events | |
| `GameMirror` | the Java mirror, its stream, its file, restarts | `GameContent` |
| `GameEventsProofs` | proofs about the first three: sequences of positions, the log, feeds and streams; then reference counts and subscribers | |
| `WriteQueueProofs`, `SafeWritesProofs`, `PermissionProofs`, `WebhookProofs` | proofs about those modules | |
| `MemberProofs`, `RowProofs` | proofs about `IdentityLinks`, and with it the memberships and friends: the locks of every handler, and which requests wait for each other; then the rows, what requests read of them, and what they write | |
| `MirrorProofs` | proofs about `GameContent` and `GameMirror`: what each event says of the rows before and after it; then what the mirror has read, and what it may still not know | |
| `MC...` | values of the constants for TLC | the module they name |

`GameEvents` contains the log and the feeds rather than a summary of them, so
that its runs and theorems are about the whole stack, from the row lock to the
subscriber's handler; `IdentityLinks` likewise contains the memberships and the
friendships that a merge meets.  `GameEvents` is checked and proved to implement
`Subscription`, and `WriteQueue` to implement `Outbox`.

`GameContent` and `GameMirror` compose the parts that a mirror sees: a stream that
delivers in order or resyncs, as `Subscription` promises, and writes that are one
transaction with one event each.

In every module a failure is a step that counts in `faults`, up to `MaxFaults`.
Where a module has several kinds, `Faults` says which of them happen.

### The event stream

*State.*  `counter` is `GameEventCounter.seq` as committed, `rows` the positions
whose row is committed and not swept, `alloc[w]` the rows that a transaction has
written and not committed, and `unpublished` the transactions whose
`publishStagedEvents` is still to come.  A feed has its reference count, its
start (`fPhase`), its `head`, its `window` and its read loop (`rPhase`, the
answer `page`, and `again` for a wake-up during a read).  A stream has the place
of its handler (`sPhase`), its `cursor`, and what it sends in this turn
(`batch`); `wire` holds the frames sent and not read.  The subscriber has the
place of its loop (`cPhase`), what its dial is (`mode`) and its `position`.

*Actions.*  A transaction writes (`WriteEventLog`), commits or rolls back; the
commit and the wake-up of the hub are two steps, with the polls of other
processes between them.  `SweepBatch` deletes any of the rows, since the
statement has no order.  `Query`, `ApplyPage`, `Extend` are the feed's read: the
answer is taken at the query and applied later.  `Acquire`, `Start`, `Release`
and their failures are the life of a feed.  `ResolveFresh`, `ResolveResume`,
`CheckRetained`, `TakeSlot` and `Accept` are the steps of the route up to its
loop, each between two awaits; `Top`, `ReadLog`, `Send`, `EndTurn` and `Close`
are the loop.  `Dial`, `Opened`, `OnFrame`, `Ended`, `RefusedGone`,
`RefusedBusy`, `Reconnect` and `Reload` are the subscriber; its TypeScript and
Java versions take the same steps.  `Crash`, `Break`, `ServerEnds`,
`FeedQueryFails` and `FeedStartFails` are failures.

### The write queue

*State.*  `file` is the journal, a sequence of put, done, junk and torn records,
of which a crash cannot take the first `onDisk`.  `written`, `durable`, `epoch`,
`unforced`, `queue` and `doneSince` are the fields of the class, with lengths in
records.  `pc` is where each calling thread and the drain thread is, and `mark`
the end and epoch it waits for.  `verdict` is the server's decision on a key.

*Actions.*  `Enqueue` writes under the lock; `CheckForce` is one turn of
`forceThrough`, which returns, throws, waits or begins a force outside the
lock; `ForceDone` and `ForceFails` end it.  `Take`, `Serve`, `Answered`, `Bury`,
`RecordDone` and `Poll` are the drain thread; `Poll` compacts when its turn has
come.  `Close`, `Stop` and `CloseChannel` are the parts of `close`, and `Crash`
and `Open` the end and the start of a process.  A crash keeps any part of the
file beyond `onDisk`, with a torn record after it or not.

### Webhooks

*State.*  A row has its `status`, its `attempts` and where `nextAttemptAt` lies
(`due`); an endpoint is on, off or gone, with its `failures`.  A lane is a record
of the rows it has left, the one it is sending, the endpoint as read before the
request, and whether its tick still waits for it.

*Actions.*  `Tick` claims and makes the lanes; `NextRow` begins a request,
`Record` is the transaction after it, `LaneThrows` its failure, and `TickEnds`
the release of what was not tried.  `Stage`, `Toggle` and `Delete` are the
routes.  `LeaseEnds` and `BackoffEnds` are the passing of time.

### Safe writes

*State.*  `record` is the idempotency row of each key, with the claim
(`createdAt`) that made it; `reqs` the requests in handling, with what `claim`
read; `version` and `ban` the moderation version and the ban row of the person.
`applied`, `outcome` and `lifted` are what the properties speak of.

*Actions.*  `Insert`, `Read` and `Take` are the three statements of `claim`;
`Ban`, `FindBan` and `Lift` the transactions of the routes; `Store`, `ReleaseKey`
and `RecordFails` what follows them.  `Send` sends a write again at any time
until its client has a final answer, also while an earlier request runs.
`GrowOld` is a record that passes five minutes in progress, or a day.

### Members, friends and links

*State.*  `group`, `member`, `invite`, `relation` and `code` are committed rows;
`personOf` says whose each external id is, `person` which people have a row, and
`marked` who has history that a merge may not lose.  A member row is named by the
group and the person it was created for, since a merge gives it to another
person.  `req` is the state of each handler: its operation, the `at` of its next
step, the locks it has to take before it (`todo`), and what it read (`who`,
`rows`, `fresh`, `seen`, `found`).  `held` are the locks of its transaction.

*Actions.*  A handler is a chain of steps, one for each statement whose locks or
reads matter: the reads before the transaction (`Begin...`), the lock of the group
(`EnterGroup`, `ChangeGroup`), the locks that serialize counts (`EnterCounts`), the
guarded update of an invitation or a code (`EnterInvite`, `RedeemCode`), the row
lock, the foreign keys, and the commit, at which all of its writes show.  A step is
enabled when its lock is free; `Take` is one of several locks of a statement, in
any order where the statement has none.  Locks that the code takes in the order of
their keys are taken in the order of `KeyRank` and `PersonRank` (`Sorted`).  A refusal
rolls back.  `Victim` is the
deadlock detection of Postgres: one transaction of a cycle of waits fails.
`retryOnUniqueViolation` and `retryOnSerializationFailure` are `Again`, which runs
the transaction once more.

### Permission checks

*State.*  `level` is what each group's own rows say of the one user and
permission: allow, deny or nothing.  `parent` and `live` are the group graph.  An
entry of `cache` has its answer, the groups it depends on and its age; `from` and
`raced` are history: how many writes were committed when its request began, and
whether there were more when it was stored.  `check` is a request with the keys it
still has to answer, the chain it walks, and what it has read (`memo`, LevelMemo).
`write` is each writer's operation and stage.

*Actions.*  `GetCached`, `LoadChain` and `WalkLevel` are the awaits of a check; what
the last one read is stored by `StoreAnswer`, a step later, under the groups walked
so far.  A write
commits (`WriteLevel`, `WriteLive`, or `CheckParent` and `WriteParent` under the
group-graph lock) and then, in a step of its own, drops what it invalidates
(`Drop`), unless its route drops nothing or it ran in another process.  `Tick` is
time, `Sweep` the sweeper of the cache.

### The Java mirror

*State.*  `past` holds what the rows said after each event, so that the properties
can compare an answer with the rows at any position.  The row of a member is its id,
its version and what each of its `Parts` says (status, roles, overrides), as the number
of the write that set it.  `mirror` is the published
`State`, from which checks answer: the ids marked in each list, the version each
is `known` at, the tracked `members`, the `people` and the ids seen as `rendered`.
`todo` is what is left of the applier's task, one record per request, and `draft`
what an unfinished request has read.  `deferred` are `deferredGroups`,
`deferredMembers` and `deferredPosition`; `waiting` the tracks whose futures are not
complete.  An item of `inbox` is an event as the server names it when it is sent, or
the word of a resync (`Told`), which is `Untold` until it is handled.  `owed`, `torn`
and `mixed` are history: what a failed load, or an event taken for another id of the
same person, left old; which moderation was read with a version that is newer than
its row; and which ids are kept as one person's though they never were since the
events that the mirror has applied.

*Actions.*  `ReadPosition`, `ReadRows`, `ReadVersions` and `Subscribe` are a start;
the server may write between any two requests, and between the two statements of one
answer.  `ApplyMember`, `ApplyModerated`, `ApplyRelinked` and their like are the
cases of `apply`; `Flush` is `flushDeferred`, which `Applied` calls at the latest
before a task that is not an event.  `Expired` and `TellResync` are
`GameStream.resync`, whose reader starts before its callback.  `ReadMembers` begins
the requests of a shared read of members and `ReadAccess` ends them: the server has
read ids, then rows, then roles, overrides and people in no order, each in a statement
of its own at any position that the log has passed since (`loadMemberAccess`).
`ApplyLoaded` takes the answers into the state one by one, as `applyLoaded` does.
`RequestFails` keeps
the state and leaves a retry (`Again`).  `Restart` begins again from the file, whose
people are put back in any order (`ReadBack`).

## 3. What is checked

| Run | Question | Bounds |
| --- | --- | --- |
| `stream_resume` | Is an event lost to a subscriber that resumes?  Do streams and feeds agree? | 1 process, 2 connections for 1 slot, 3 positions in batches of up to 2, the second one filtered out, 1 failure |
| `stream_two_procs` | Are positions visible in order, does the stack implement `Subscription`, and does every retained event arrive? | 2 processes, a writer in each, 1 connection that may reach either, 2 positions, 1 failure |
| `queue_safe` | Is an accepted entry kept, in order, and settled once?  Does the queue implement `Outbox`?  Does a running queue finish what it accepted? | 2 concurrent enqueues, compaction after each entry, 1 failure of any kind |
| `queue_spins` | a finding of section 5 | 2 enqueues, no failure |
| `webhook_safe` | Is a row in one hand?  Are its requests bounded?  Does what is settled stay so? | 2 processes, 3 rows for 2 endpoints, 2 attempts, 1 failure |
| `webhook_live` | Is a staged row settled in the end? | 1 process, 2 endpoints, 2 failures |
| `webhook_overlap` | a finding of section 5 | 1 process, 3 rows, 1 failure |
| `safe_writes` | What may a retried write change, and what may its client be told? | 3 writes on 2 keys, two requests for one of them, 1 failure |
| `memberships` | Do limits, bans, invitations, versions, friendships and links hold, whatever interleaves?  Which requests can deadlock? | any 3 requests of one of 9 families, from 1 to 4 worlds each; 4 groups of 2 kinds, 3 ids, 3 people and 2 more for splits; at most 1 group per person and 2 members per group of the limited kind |
| `permissions` | Which answers may be stale, why, and for how long?  Is the index exact?  Can reparents close a cycle? | 3 groups, 1 checker with single and batched checks, 10 pairs of writes, a cache of 2 entries that live for 2 ticks, depth 2 |
| `permission_race` | a finding of section 5 | as `permissions` |
| `game_mirror` | Does the mirror miss a change after the position it publishes?  Is it current at rest? | 2 ids of 2 people, a list of bans and one of sanctions, 1 group; any 2 writes, 1 track or resolve, 1 failed request, crash or sweep |

*Why these bounds.*  Three positions with one filtered out give a batch, a hole
in the filter, and a sweep in the middle.  A window of two and pages of two make
the third event leave the window, so that a slow stream reads the log; a wire of
one frame makes a write wait.  Two connections for one slot give the refusal and
the slot that is freed late.  Two enqueues and the drain thread give a force that
covers records of both while a third is written, and order is a matter of two
entries; `AcceptedNeverLost` covers any number of them.  Two attempts and a threshold of two reach the
give-up and the auto-disable.  Two requests for one write are a retry beside its
original, and two writes with one key are a key used by mistake.  One failure at
any step is where every recovery begins; two are used where they are feasible.

In `memberships`, three requests are a race and a bystander that changes what the
race is about, for example a redeem, an unlink and a join.  They begin in rows as
transactions leave them (`Consistent`).  `People` and `Codes` bound the people that
unlinks create and the codes that are issued, by guards of `CommitUnlink` and
`CommitIssue`.  A family holds the
requests that share rows, and a world where they conflict: a group with one place
left, a person at their limit, a ban, a deleted group, two people who are one, a
request or a friendship that is already there.  One group per person and two
members per group are the least at which a limit is both met and exceeded.  In
`permissions`, three groups are a chain with a group in its middle, and a cycle
that two writes close together, each of which sees none; two entries for three
keys make the cap evict; the pairs of writes are those that touch one chain.  In
`game_mirror`, one write is read by halves or skipped and the other moves the
position past it, or the two are a link and what it meets; one of the people is muted
and a member at first, so that there is something to lift, to move and to read again.
A write changes the roles of a member alone, or the status with the overrides
(`Changes`): two writes of different parts are the least that an answer can mix, and
the second kind tells a part that is read with the version from one that is not.
The file is saved once, and a sweep of what the stream has read is left to a restart:
another save and an earlier sweep would change nothing that is read.  The
theorems of section 4 hold without any of these bounds.

Symmetry is used where the identities of connections, processes, requests or
rows play no part, and in no run with a liveness property.
`memberships` checks for deadlock: a behaviour ends only when every request is
answered.  No other run does: a client may fail or have its answer, the log ends
at `MaxSeq`, a queue may stay closed, all rows may be settled, nobody may ask for a
permission any more, and a mirror may be at rest.

*Fairness.*  In the streams, timers fire, the database answers and the
subscriber reads its socket; nothing is assumed of commits, wake-ups of the hub,
heartbeats or failures, so that liveness rests on the polls, as in the code.  In
the queue, threads run and forces end; a send that is repeated for ever gets
through now and then (`SF` of `Answered`), and the steps of a close are taken
when they can be (its waits have timeouts).  Callers, crashes and compaction are
left free.  In the workers, the tick timer fires, requests end, as they have a
timeout, and leases and backoffs run out.  In safe writes, a client without an
answer tries again, requests get on, and records grow old.  In the permission
checks time passes, and nothing else is assumed: a hit does not renew an entry, so
that a stale answer goes however often it is asked for, and with the sweeper at
rest.

## 4. What is proved

All theorems hold for every value of the constants, with no bound on processes,
connections, entries, requests or failures other than that they are finite.

* `LogVisibleInOrder`: rows become visible in the order of their positions and
  without a hole.  The lock of the counter row makes the one open transaction
  follow the counter directly (`OneWriter`).
* `TypeCorrect`, `WindowsContiguous`, `FeedsHeld`, `NothingLost`, `OnceInOrder`
  and `PromiseKept` are about the whole stream stack, from one invariant
  (`IInv` of `GameEventsProofs`).  Its heart is `OrderInv`: what lies on the
  subscriber's wire brings it from its position to the cursor of its stream,
  with every event it waits for on the way.  That needs that a feed's window ends
  at its head without a hole (`FeedInv`), that a batch continues its cursor
  (`StreamInv`), and that a request carries the position of its subscriber
  (`RequestInv`); none of these is visible in the properties themselves.
  `PromiseKept` is step simulation of `Subscription` under the same invariant.
* `AcceptedNeverLost`, `QueueTypeCorrect`: an entry the caller saw accepted is
  in the safe part of the journal and in the queue until it ends.  The invariant
  says what a caller that still waits can rely on (`Waiting`: its put is safe, or
  it is in `unforced` and the epoch still stands), since a force that fails takes
  the puts of several threads with it.  The theorem assumes `FileSystemKeeps`: no
  torn line meets a journal that cannot be replaced.  Without it the property is
  false (section 5).
* `QueueKeepsPromise` is step simulation of `Outbox` under that invariant and one
  on order (`OInv`).  Journal, queue and the puts no force covers each follow the
  order in which entries were put (`FileInLine`, `QueueInLine`), across a rollback, a
  compaction and a reopened journal.  That the server decides in this order needs
  two facts that the properties do not show: an entry that was sent and is not yet
  decided is where neither a crash nor a failed force takes it (`Held`), so that a late
  decision is never about an entry that is gone; and everything before it is
  decided or gone (`Turns`), for which an open queue must have every undecided
  entry of its journal (`Queued`).  The theorem assumes `FileSystemReplaces`: the
  journal can be replaced when it is opened or compacted.  Without it the promise is
  false after three failures (section 5).
* `SettledOnce` needs that the record the drain thread waits for is the done
  record of the head of the queue (`DoneMark`), that an entry is put once and queued
  once (`Once`), and that a settled entry has its done record beyond the reach of a
  crash, or no put left to read (`SettledSafe`).  It assumes `FileSystemKeeps`.
* `ConditionalWritesOnce`, `RunsWithinFaults`, `AnswersHonest`, `LiftsDone`,
  `SafeWritesTypeCorrect`.
  A version that was passed does not come back (`Passed`), so that a conditional
  write that was made cannot be made again; this does not depend on the records.
  For the other writes it does: the times a write was made and the requests that
  may yet make it are at most one more than the failures, and as many only while
  nobody can claim its record, which nothing but a failure changes (`Budget`); that
  a record is taken over only once it is old is `Looked`.
  That answers are true rests on claims being distinct (`Distinct`, `Owned`): only
  the request that made a claim completes its record, so that a record never
  holds the answer of another write.  That a refusal is true of a client without
  failures needs more: each claim has its request, no record is old, and a write
  that was made has its record to show (`Clean`).  That a lift's answer stays true
  after a new ban needs the memory of `lifted` and where a ban row was found
  (`Found`).

* `IndexIsExact`, `StaleHasCause`, `NoCycleClosed`, for any group graph, checks,
  batches and writes.  The invariant of the first two (`IInv` of
  `PermissionProofs`) says of every request what it knows if nothing was committed
  since it began: each level it remembers, and the chain it walks, are those of the
  rows (`CheckOK`).  So an entry that was not raced was right when it was stored,
  and `EntryOK` keeps it right until a write changes one of the groups it depends
  on, which that write is then about to drop.  A reparent above the groups that
  were walked changes nothing of them, and one below is among the groups
  (`Reparented`).  For the third, whoever holds the group-graph lock holds it alone
  and its parent closes no cycle (`GraphInv`); a cycle through the new edge would
  come first to its group by edges that were there before (`FirstVisit`).
  Inductions over walks are replaced by the choice of a least element (`Least`).
* `CacheCapped`: the types of the permission checks, and with them that the cache
  holds `MaxEntries` answers at most and that its order of use names each stored key
  once.  `Without`, what a removal leaves of that order, is written by the ranks of
  what is kept, since the prover cannot open `SelectSeq`; that the ranks are a
  bijection (`PlaceBijection`) is what keeps every key in its place.

* `RowsInOneHand`, `SettledStays`, `RequestsBounded`, `WebhookTypeCorrect`, for any
  processes, endpoints and rows.  A row whose lease runs is in one lane, or in the
  list of rows that one tick will release, or in neither; no row is in two of these
  (`InOneHand` with `Kept`), and the row at hand is not among those left
  (`Apart`), so that what a lane or a tick gives back is free.  The bound on
  requests needs to know what each request was spent on (`Counted`): on an attempt
  that was recorded, on a failure, or on the answer that is awaited; a process that
  was told to stop has paid for what it has under way.

* `LocksByStage`, `MembersTypeOK`, for any requests, groups, people and any rows that
  are `Consistent` to begin with.  The invariant (`Base` of `MemberProofs`) says for
  each kind of request and each stage of its handler what it has read and which locks
  it holds or waits for, and that no two hold locks that conflict; there is one lemma
  for each of the 45 actions.  What a lock protects follows from it.

* `LocksOrdered`, from `Base` and what each request waits for (`Waiting`, proved by
  `WaitsByStage`).  Each request in a minimal cycle waits for one of the others and
  holds a lock that another waits for (`CycleHolds`).  So none in it waits for its
  first lock, since it holds nothing yet; none waits for a row, since whoever holds
  it holds the group around it, as does the one that waits; none for an invitation,
  since only those that have their counts hold one; and of those that wait for a count,
  the ones that wait for a later count than another would be a smaller cycle, since
  each takes its counts in one order (`Ascending`).  An unlink could wait only for a
  code that an unlink of the same id has locked, but that one holds the same person;
  and a `share` waits only for those that remove a person: an unlink, or a link or hard
  delete, which are named as exceptions.  What is left are the rows of friends, which
  have no order.  `Cycle` has parentheses around
  `(SUBSET S)`, as TLC and TLAPS bind `SUBSET S \ T` differently.

* `LinksKeepAll`, `MembersFit`, `BansHold`, `EmptiesGo`, `SweepsIdle`, `EditsMatch`,
  under the same conditions, from two invariants (`LocksKeepFinds`, `ChecksHold`).
  The argument of `RowProofs` is one of rely and guarantee.  What any step may do
  to a row, a group, a person or a relation is `Effects`: to change a row it must own
  the row's lock, to change a status the group's too, to create one the group's and
  the person's, to merge every row of a person the two `erase` locks; and nobody owns
  a lock that conflicts with one that another request holds (`NotOwned`).  What a
  request relies on is stated once for each stage and kept by each of the effects.
  `Finds` is what the locks keep: the group is live, nobody who is to get a row has
  one, the rows to change are there, the people of a relation are there, and a merge
  has every row of the person who goes.  With it each write keeps the rows well formed
  (`RowsHold`: one row for a person in a group, only in groups that exist, only of
  people who are there).  `Checks` is what was read and compared: a sweep found the
  group idle, an edit the version, a kick an active member; an entry that looked for a
  ban before its transaction knows only that a row which still has the version it saw
  is not banned (`Unbarred`), which is the exception of `BansStand`.  A merge never
  meets a ban that was written behind its back, since a ban holds the person
  (`Barring`).  `Rooms` is the limit of a group: an entry that has counted fits with
  all it is about to write (`Then`), and while it holds the group's lock the others
  only take members away.

* `OffersOnce`, `FriendsStay`, from `Sound` and a third invariant (`OffersHold`).
  What is offered is open while an answer to it holds its lock, and closed for good by
  an answer that was ok (`InviteOffer`, `CodeOffer`, `RequestOffer`); so two answers
  contradict each other at the moment the second commits.  For a request this needs
  that a row with the id of one that was seen is that row, or the friend row that an
  accept made of it (`Seen`): ids are never used twice.  Friendships are written in
  pairs and under both their keys, which keeps the rows that are to be written
  absent (`BondFree`), and what an unfriend or block is about to delete are
  both rows of a friendship or none (`EndingSees`); only a block may list a request
  that becomes half a friendship before it is deleted, which is the exception of
  `FriendsMutual`.

* `LinksJoin`, from `Sound` and a fourth invariant (`JoinsHold`).  From the stage that
  read it on, each of the two ids of a redeem is with one of the people it found,
  unless one of three things happened: an unlink of the id, a merge that ended one of
  these people, or, for the id that issued the code, an unlink that deleted the code
  (`JoinFinds`).  The guarded update of the code excludes the last from there on, by
  the code's lock, and the check that both people are there excludes the second, by
  theirs; what is left is the exception of `LinkJoins`.

* `PerUserFits`, from `Sound` and a fifth invariant (`CountsHold`).  What a person has
  (`Tally`) grows in three ways only: an entry adds its group, a restore brings its
  group back, a merge adds what the person had who goes (`TallyStep`).  Each counts
  for the people it names under one lock per kind and person, so what fitted when it
  counted fits when it writes (`CountChecks`): while it holds the lock, nobody else
  makes these people's groups more (`TallyKept`).  What remains is whether the rows it
  writes are of the people it counted for.  An entry knows this of the rows it read,
  except for somebody who was merged away since (`RowsTraced`); joins, accepts and
  creates find such a person gone before they commit, an add and an import do not ask.
  A restore knows it of the members it listed as long as its group stays deleted
  (`ListTraced`).  These are the exceptions of `WithinMaxPerUser`.

* `MirrorStays`, `MarksStay`, for any people, links, lists, writes, calls, failures,
  sweeps and restarts.  The invariant (`IInv` of `MirrorProofs`) has four parts.
  The server's log is sound: every id is one person's, and each event says how the
  rows before it became the rows after it (`Content`, `Wrote`).  What is queued is what
  the stream has read since the position it opened at, in order, named as it was sent,
  and a resync that is not handled owes a full load (`Queued`, `Ahead`).  What an
  unfinished request has read was so at some position after what the applier has taken
  (`DraftRows`, `DraftPerson`); of members it is the id they are shown by that was so,
  which is all that these two theorems need (`DraftMembers`).  And the state is true
  (`Truth`) of the
  positions from the last event that the applier has taken, for every id whose person
  has not changed since: ids kept as one person's are one person's, or `mixed` (`Kept`),
  and have among them the id that the server shows (`Names`); an id seen as rendered
  whose person is not kept is the one shown (`Renders`); and a person is marked under
  the id shown alone, as they were at one of these positions, with no version of a later
  one (`Marks`).  It is this that the properties do not show: `MarksHold` is about the
  position that is published, and a mark under an id the server no longer shows is
  found only through the people.  A full load that is owed suspends all of it
  (`Lapsed`), and what is about to be read again after a link is excepted (`Coming`);
  `Unsettled` says that the ids of these changed after the published position.

Claims are told apart by their time in milliseconds.  `SafeWrites` gives each a
time of its own: two claims of one key are a release, or five minutes, apart.

*Only model-checked:* liveness (`CaughtUp`, `Drained`, `Settles`, `Answered`,
`StaleLeaves`), which needs `ENABLED` and is out of the prover's reach; and of the
mirror, the graph and the access of members (`AccessHolds`) and its state at rest
(`CurrentAtRest`), which need an invariant of their own beside `IInv`.
The type invariants of `GameEvents`, `WriteQueue`, `WebhookWorker` and `SafeWrites`
are proved and not run.

## 5. Where code and documentation disagree

Shown by runs:

* `queue_spins`.  A compaction between a force and the caller's next look makes
  the journal shorter than the caller's mark, and it forces again and again
  (`WriteQueue.java:407`).  `enqueue` is said to block "for one force".
* `webhook_overlap`.  A lane that throws ends the wait for its siblings
  (`webhookWorker.ts:476`), and the next tick sends to an endpoint that such a
  lane is still sending to.  "An endpoint never has more than one request in
  flight."
* `permission_race`.  A check resolves, a role write commits and invalidates, and
  then the check stores what it had resolved (`routes/permissions.ts:584`): the
  stale answer is served until it expires.  "A stale answer flips within one
  round-trip."

Met while modelling, each a behaviour the models have; where a property would
forbid one, the property names the exception:

* `enqueue` throws for an entry that a force has covered and that is sent, when
  the next force fails before its caller holds the lock again (`forceThrough`
  looks at the epoch before the durable length, `WriteQueue.java:404`), although
  "the entry is then not queued".
* A journal that cannot be replaced on open is kept with a torn tail, and the next
  put is appended to the torn line (`WriteQueue.java:361`), although it is said to
  stay "correct, only larger".  `AcceptedKept` needs that the two do not meet, which
  `queue_safe` allows for by its one failure and the theorem by its assumption.
* A journal kept on open because it could not be replaced counts as durable without
  a force (`WriteQueue.java:364`).  A put that was written and never forced can so
  be read back after one crash, sent, and be lost by a second crash while its
  request is under way: the server decides an entry that is gone.  No caller saw it
  accepted.  `KeepsPromise` is false then; it takes two crashes and a failed
  replacement, which `queue_safe` does not reach with its one failure and
  `QueueKeepsPromise` excludes by its assumption.
* Join, leave, kick, ban, delete, restore and the admin route for parents change
  the outcome of checks and invalidate nothing, although
  `permissions.mdx:12` speaks of "mutations that can change a permission outcome"
  and `:381` of the admin equivalents (`Silent`).  The cache is capped, although
  `:366` says "unbounded".
* A cycle of parents longer than `MAX_PARENT_DEPTH + 1` groups is not found, since
  chains may be longer than the walk; a comment speaks of "any cycle"
  (`NoParentCycle` counts the shorter ones).
* A join, add or accept that looked for bans before one was set overwrites it
  (`BansStand`).
* A revoke deletes an invitation that was accepted since it was read
  (`invitations.ts:105`), which its comment means to keep.
* An add, an import or a restore counts for the person it resolved, and a merge that
  commits meanwhile leaves the survivor over `maxPerUser`.  A restore counts the
  members it listed before it locks the group: who joined since, after another restore
  had brought the group back, is not counted (`WithinMaxPerUser`).
* A merge that drops the row of the last active member leaves an empty group live
  (`EmptyGroupsGo`).
* Links and hard deletes lock member rows before others' groups, a restore counts
  before it locks its group, and the two rows of a friendship, or the codes that an
  issue deletes, have no order.  Such requests can deadlock, and only an unfriend is
  retried (`OrderedLocks`).
* Two concurrent issues leave two live codes for one id (`identities.ts:282` says
  one).  A redeem merges the person its id belonged to, although an unlink has moved
  the id since; and an unlink deletes the codes it has read, so that one issued since
  still joins the person that its id has left (`LinkJoins`).  Notes of an edit that commits while a merge has
  already looked at the row do not keep the person from being merged away.
* A block that waits for an accept deletes the one row it had seen; the mirror row
  stays (`FriendsMutual`).  Requests that cross are both pending, and both caps of
  friends can be overshot by requests that each see room.
* The list of bans reads its rows and their versions in two statements
  (`routes/bans.ts:376` and `:396`), and so do a single ban and the sanctions.  A
  write between the two leaves the mirror with the row of before it and the version
  of after it; it then skips the event of that write (`GameMirror.java:1137`) and
  keeps the old answer until the person's next change, although a load followed by
  the stream is said to miss "no change after the snapshot" (`GameMirror.java:66`).
  `MarksHold` excuses the ids that such a read touched (`torn`).
* The access of a member is read in several statements outside a transaction
  (`routes/groups.ts:226` status and version, `:231` roles and overrides), although
  `:2436` speaks of "one read".  An answer may have the overrides of before one write
  and the roles of after the next, which no position ever said; the mirror publishes it
  until the event of the first write, whose version is newer than the answer's, makes
  it read again.  So `AccessHolds` does not claim that the parts were ever so together:
  the version and the status are those of one position (`AsOf`), and every other part is
  of that or a later one.  `CurrentAtRest` shows that the mixture does not last.
* The position moves past a deferred or relinked reload that failed
  (`GameMirror.java:931`), and past a gap when events of the new stream come before
  the resync (`GameStream.java:269` starts the reader first); a restart from a file
  saved then forgets the retry, although the position is said to "never run ahead of
  the state" (`GameMirror.java:227`).  The properties excuse what is `owed`.
* An event names its person as the server does when it is sent
  (`server/eventRender.ts:40`).  A link or an unlink that is delivered after its id has
  moved on is named by somebody else's id, and the mirror keeps the ids of both as one
  person's until its next full load (`mixed`); reloads of one then touch what is kept of
  the other.
* Two ids of one person that were tracked before they were linked are two members;
  an event reloads the one it names (`findMemberKey` looks for the exact id first), and
  the other stays as it was, although the position passes (`owed`).  A full load
  forgets who is whose, so that a member who is tracked under an id that the server
  does not show, and is in no group, never hears of joining (`Followed`).
* A full load is published before its members are read again (`Reading`).  A resync
  that is retried moves the position back.  The track of a member of a group that is
  deleted meanwhile never completes; `CurrentAtRest` speaks of members still tracked.

## 6. What is left out

* *Streams:* one game, so not the order in which a transaction of several games
  takes their counters; the hub's other subscribers; the content of frames; the
  lengths of timers.  A heartbeat may come at any time.
* *Write queue:* a truncation that fails after a failed write, the timeouts of
  `close` running out while a force hangs, and the lengths of backoffs.
* *Webhooks:* signatures and payloads; more endpoints at once than
  `WEBHOOK_WORKER_CONCURRENCY`; which due row comes first; leases that run out
  under a lane that still works; order within a lane.  The failure counter is in the
  model with its stale write, and no property is about its value.
* *Safe writes:* the other routes with versions; bans that expire; writes without
  a key; requests that take longer than `IDEMPOTENCY_ABANDON_MS` before they read
  the record.
* *Members:* roles, names, patches, passcodes and relationships of groups; bulk
  invites; the restore window, and the expiry of bans, invitations and codes, which
  are comparisons with the clock; the creation of a person on first sight.  The
  configuration does not change during a behaviour.  The lock of the event counter,
  which every transaction takes with its last statement, is left out: nothing is
  locked after it.  An import of two people of whom one's row has vanished (a merge
  dropped it) fails in `EnterRow`, as it does in the code if it sets roles or overrides;
  without them the update affects no row and the import commits for the other, which
  here is the import of one that counted for two.
* *Friends:* one game and not a network of them; tags and lists.  A request and
  the friend row it becomes share one lock.  An unfriend is run again once and not
  twice.  A block that is a duplicate looks for the row that won in a later statement;
  `BlockRow` answers at once with either outcome.
* *Permissions:* one user, permission and context per cache; what decides within a
  group (layers of roles, contexts, specificity, deny over allow, role parents) is
  one value, and the several reads of a level are one read; the answers "none" and
  "default" are not told apart.  A write of another process is a write that drops
  nothing here.  The caches of the SDKs and the React client are left out.
* *Roles:* entries, names and priorities; role parents are read and written under
  the role-graph lock of their group, with nothing read before it but the group.
* *Java mirror:* retained members, display names, context inheritance and the
  events that change it, groups named in the builder, prepared checks and
  `MemberChecker`, expiry times, pages of the lists, a stream that fails for good, a
  file that cannot be read or written (the mirror then starts without, or keeps the
  one before).  What a check computes from a graph and an access is one value.
  Some requests are one step where the properties cannot tell: the graph, the bans and
  the sanctions of a full load (`ReadRows`), of which a property reads one at a
  time; the person and the row of a ban (`ReadPerson`), since an id that changes hands
  between the two is read again by the event that says so.  The reloads of a link are
  in one order (`ApplyRelinked`), and
  each touches one list and one person.
  Untracking is not bounded, as it needs a track.
* *Not modelled at all:* last activity (one statement per batch, with its cursor
  locked); rate limits and the verified key cache (counters and a map of one
  process, where time is all that matters); the React
  hubs (state of one page); group event streams (they keep no position, so that
  nothing is promised over a reconnect); request wrappers, exports, admin reads, the
  C++, Roblox and Unreal SDKs, the dashboard and the docs (no state of their own
  that outlives a call).
