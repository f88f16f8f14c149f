# TLA+ verification of tqsdk-rust

This directory holds TLA+ models of the parts of tqsdk-rust whose correctness
depends on the order of steps: concurrent processes over one database, one
writer and many lagging readers of a bounded log, commands whose answers arrive
late, connections that are lost in the middle of a poll, tasks that trade while
their orders are in flight, files that must survive a crash, and a relay that
fans data out to clients that come and go. Each module is translated from the
Rust source (`crates/...`), TLC checks it on small instances, and TLAPS proves
the central theorems for every value of the constants. `PROJECT.json` maps each
definition to the lines it models.

## 1. Inventory of the system

| component | state it keeps | operations | what is hard | module |
|---|---|---|---|---|
| hard-risk authority (`tqsdk-hard-risk`) | SQLite tables: clock, policies, orders, reservations, daily usage, audit | install_policy, prepare, begin_submission, submit_once / record_*, observe / reconcile terminal, recover_expired | several processes, crash between lease and receipt, lease expiry against a late answer, clock read before the write lock | `HardRisk` |
| runtime commit engine and log (`tqsdk-core/runtime`) | state store, revision, bounded commit log, cursors | ingest, record_command_status, cursor next / resync | one revision order for all readers, retention against lagging cursors, shared roots | `CommitLog` |
| command ledger (`tqsdk-core/runtime/command_ledger`) | live commands, retained and evicted terminals | allocate, status updates, eviction | late or repeated statuses after eviction | `CommandFlow` |
| session runtime: dispatch and answers (`tqsdk-core/session_runtime`) | outbound queue, pending requests of routes | flush, execute, derive statuses | one failing send among many, dropped calls | `CommandFlow` |
| session client polls and reconnect (`tqsdk-session/client`, `session_runtime/reconnect`) | run, pending peeks, round-robin cursor, session phase | progress_once, recover_run, recover_with_policy | deadlines that drop any await, losses that nobody notices yet | `SessionLink` |
| order lifecycle (`tqsdk-core/order_lifecycle`) | lifecycle of each order row | normalise incoming order rows | several rows of one order in one frame | - |
| session client: market interest, authentication | reference counts, token cache | subscribe / release, refresh | shared interests, racing refreshes | - |
| wait API (`tqsdk-wait`) | change cursors, backtest clock | wait_update, is_changing | missed changes | - |
| target position task (`tqsdk-task/target_pos`) | target, tracked orders, submission in flight | set target, plan, reconcile, submit, cancel, observe | target changed while orders are in flight, late fills, partial batches | `TargetPos` |
| target position scheduler (`tqsdk-task/scheduler`) | step, phase, outcomes | run, end and advance a step, cancel | deadline against fills, hand-over between steps | `TargetPosScheduler` |
| execution groups, risk engine, deployment, simulation (`tqsdk-task`) | groups, limits, simulated matching | - | - | - |
| history containers (`tqsdk-data`) | files with blocks, indexes and two commit slots | store, compact, recover, detach, publish, read without lock | crash between any two writes, readers of an older commit | `HistoryContainer` |
| history series, fills, backtest history (`tqsdk-data`) | tick series files, fill sessions | fill, stage, collect | concurrent fills | - |
| relay (`tqsdk-relay`) | interest registry, mailboxes, upstream charts | subscribe, fan out, expel, reconcile, reconnect | coalesced signals, slow clients, expired interests | `InterestRegistry`, `Relay` |
| cache tool, facade, recorder, CTP-SE helper, scripts, fuzz targets | none of their own that others share | presentation, tooling | - | - |

How they interact. A session client owns one runtime handle (state store,
commit log, command ledger) and one session run (connected routes). Any thread
submits commands and records statuses through the handle; the holder of the
session's io lock flushes the outbound queue, executes request routes, asks for
and receives websocket frames, whose mutations enter the state store under the
commit gate, and replaces the run when a connection is lost. Every commit is
published to the log; the wait API, the task layer and the relay follow it
through cursors and submit new commands. A scheduler runs target position tasks
one after the other; both live in a host that takes commits one by one. The
relay serves many clients from one upstream session; the history caches are
shared by processes through the file system and its locks. The hard-risk
authority stands apart: a trading process calls it before and after it sends an
order, and shares only the SQLite file with the other processes.

What makes each component correct:

- *hard-risk authority*: an order key reaches the network at most once whatever
  crashes; reservations precede the dispatch and are never lost, doubled or
  above the limit in force; the audit table retells the rows; terminal evidence
  is final; no order stays Submitting when somebody runs recovery.
- *state store, commit engine and log*: one revision order; a commit is paired
  with the state of its own revision; a cursor sees every revision once and in
  order or is told that it lags; lookups and byte accounting are exact.
- *command ledger and session runtime*: no request is sent twice or out of
  order; a command has one terminal status, the ledger and the state tree agree
  on it.
- *polls and reconnect*: after a loss the server knows the whole interest again,
  a route is asked for data before anyone waits for it, connections come back.
- *target position task and scheduler*: the position never leaves the range of
  the targets asked for, closes are covered, "reached" is a fact, nothing is left
  alive by a task or a step that has ended, every request settles.
- *history containers*: what a caller was told is stored survives every crash;
  readers and other hard links never see bytes change under them.
- *relay*: what clients want is charted upstream, indexes agree, no chart row
  is silently dropped, nothing is kept for a client that is gone.
- *order lifecycle, market interest, wait API*: a row never moves back; a symbol
  stays subscribed while someone holds it; no change is missed.

`hazards` in `PROJECT.json` lists, line by line, where these can go wrong.

## 2. Plan

Done, in this order: hard-risk authority, commit log and cursors, command
ledger with dispatch and answers, target position task, scheduler, history
container, relay, session polls and reconnect.

Left, most important first:

1. Order lifecycle: several rows of one order in one frame (see section 6).
2. State store locks: partition locks taken in canonical order and readers that
   nest guards, shown to implement the atomic `Apply` of `CommitLog`.
3. Wait API and commit notification over `CommitStream`, market interest counts.
4. Execution groups; concurrent fills of the tick series.

## 3. Modules and the code

**HardRisk** (`crates/tqsdk-hard-risk/src/lib.rs`). The database tables are the
variables `clock`, `installed`, `active`, `activations`, `orders`, `reserved`,
`usage` and `audit`; they survive a crash. `stamp`, `expect` and `permits` are
what a process has in memory. Every mutating call reads the wall clock first
and opens `BEGIN IMMEDIATE` afterwards, so a call is `ReadClock(p)` followed by
one atomic transaction: `InstallPolicy`, `Prepare`, `BeginSubmission` (granting
a lease, or finding an expired one), `RecordSubmitted`, `RecordIndeterminate`,
`ObserveTerminal`, `ReconcileTerminal`, `RecoverExpired`. `Send` is the network
callback of `submit_once`; a transaction that is refused or rolls back, and a
process that loses its memory, is `Abandon`. `Tick` and, where a run allows it,
a step back move the wall clock. Symbol, side and price only enter the request
fingerprint, so a request is a record of key, account, day, offset and volume
and two requests are equal if their fingerprints are.

**RiskContract** is what the authority promises without tables, leases or
clocks: the row states, dispatch counts and usage and how they may move. The
refinement maps row state, `sent` and `usage`.

**CommitLog** (`crates/tqsdk-core/src`: `runtime/commit_log.rs`,
`runtime/handle.rs`, `runtime/reader.rs`, `state/store.rs`, `state/changes.rs`).
A mutation is the set of partitions it writes, the content of a partition the
revision that last changed it. A commit takes the gate and changes the state
(`Apply`; `ApplyWithoutChange` copies roots but commits nothing), takes the
log's lock and appends the commit with its snapshot (`Push`), releases entries
one by one (`TrimFront`) and ends (`EndPush`). Roots are accounted under their
address as in the code, and an address is free again once no live root and no
retained snapshot has it. A reader's call is cut where the code releases the
log's lock: the head is read in `Anchor` and the cursor registered in
`NewCursor`; `Fetch`, `ReportLag` and `FetchCompat` look up, `Advance` and
`Resync` move the cursor later. Cloned cursors share their id and tracker.

**CommitStream** is the promise to a consumer: revisions published in order,
cursors that take the next one or skip to the end if it is lost. The refinement
maps `published` to the head, `lost` to what lies before the oldest available
revision, and the position of a cursor that has fetched but not yet moved to
the place it is about to move to.

**CommandFlow** (`runtime/command_ledger.rs`, `runtime/handle.rs`,
`session_runtime.rs` with `command_status.rs`, `reconnect.rs`, `transport.rs`,
`transport/connected.rs`; `tqsdk-session`'s `client/io.rs` and
`client/commands.rs`). `Submit` and `RecordOutside` happen in any thread:
`record_command_status` is public, so whoever holds the runtime handle may
record a status of any command (the simulated runtime and the test broker of the
task crate do, in sessions without connected routes; the simulation itself is
not modelled). `outside` remembers the commands that got their outcome that way.
The check of a waiting caller precedes its wait for the io lock, so an update may
find more than one command awaited, or one whose wait is over (`Awaited`).
`driver` is the holder of the io lock: `Drain` takes the queue, `DispatchOk`,
`DispatchFail` and `DispatchCancelled` treat one request (the last is a deadline
or a dropped future, with the frame gone or not), `TakeRequests`, `Executed`,
`ExecutedInVain` and `RecordNext` are a request route, `OrderUpdate` and
`OtherUpdate` a frame and the status derived from it for the command somebody
waits for, `Lose` and `Recover` the connection. `Record` is
`record_command_status` with its transition table, the ledger's release,
retention and eviction, and the row in the state tree. The trading server and
the exchange are external: an order is reported once its insert_order reached
the wire, is not reported after it finished, and keeps its exchange id.

**SessionLink** (`tqsdk-session`'s `client.rs` and `client/io.rs`,
`session_runtime.rs`, `session_runtime/reconnect.rs`, `session_runtime/transport.rs`,
`transport/connected.rs`, the market adapter). `call` is the step at which a
call of `progress_once` stands: the outer flush, then for each websocket route
the flush, the peek (`Prime`), the flush of `drive_route_once`, and the receive;
a send that fails leads to `recover_run`, a loss found while receiving to
`recover_with_policy` with its backoff and attempts. The drive of a route has a
budget of ticks, and in every step of it that awaits, an action named
`...Dropped` is the deadline: the future disappears, its assignments stay.
Submissions and losses happen at any time, and a send into a connection that is
already dead fails or goes nowhere. `subscribed` is what the market server was
told on the present connection and `conn[r].held` whether it has a peek to
answer. `spoiled` and `cut` are history variables that mark the two exceptions
the properties allow (section 6). One call of `progress_once` runs at a time, as
the io lock makes it; `CommandFlow` looks at the commands inside a flush, this
module at what is left of the link when flushes and recoveries are cut short.

**TargetPos** (`crates/tqsdk-task/src`: `target_pos.rs`, `target_pos/machine.rs`,
`target_pos/planner.rs`, `target_pos/executor.rs`, `plan.rs`, `host.rs`). The
exchange (`orders`, `pos`, `trades`) and the session that commits its reports
are external. The host takes a commit (`WaitUpdate`) and runs one pass of the
task over the newest state: `Process`, `Plan`, then the commands one by one
(`SendCancel`, `SendInsert`), each of which may fail. The planner's offset
priorities, the available volume with what other orders freeze, the split of
large orders and the reconciliation with live orders (`ReconcileLiveOrders`) are
operators. `set_target_volume` is three steps, as in the code: it checks that
the task is open (`CheckOpen`), stores the target and clears the error under the
lock (`SetTarget`), and announces the request (`PublishTarget`). A failed command
is two: the error is recorded under the lock (`RecordError`), and then the task
ends (`FinishWithError`) or is to be cancelled (`StopAfterError`). `task.error` is
`last_error`; `task.failed` is a history variable that keeps which task a failed
command ended. `CancelTask` and `DropTask` come from any thread. The error path of
the quote subscription in `Plan` (`machine.rs:52-55`) is left out. The task's
tracked orders are a set: the code's vector is in the order the orders were
sent, which is that of their numbers. `ReconcileLiveOrders` goes through the
numbers, and `InOrder` lists the orders to cancel.

**TargetPosScheduler** (`scheduler.rs`, `scheduler/runner.rs`) extends it with
the schedule: `RunStep`, `EndStep` (the deadline, free to pass at any moment),
`OrdersCancelled`, `TaskReturned`, `StopScheduler`, cancel and drop.

**HistoryContainer** (`crates/tqsdk-data/src`: `history_container.rs`,
`cache_file.rs`, `daily_kline_cache.rs`, `daily_kline_cache/container.rs`). A
file is two commit slots and a sequence of cells, one per block or index, and
has two contents, the one processes see and the one on disk. A store is the
code's sequence of writes and syncs: recovery (detach from other links,
truncate the uncommitted suffix), blocks, index, sync, slot, sync; or a new
file, sync, rename, sync of the directory. `Abort` is a writer that fails or is
killed, `Crash` the machine: unsynced cells and slots are then old, new or torn.
A reader loads the index under the shared lock and keeps only the open file.

**DurableStore** is the promise to the cache's users: contents replaced as a
whole, and a crash drops only what nobody was told is stored.

**InterestRegistry** (`crates/tqsdk-relay/src/interest.rs`) is the registry with
its four indexes as operators; **Relay** (`server.rs`, `engine.rs`, `cache.rs`,
`runtime.rs`, `upstream.rs`) the tasks around it. Each access to the engine, the mailbox map,
a mailbox and the signal channel is a step: a command changes the registry,
signals the pump and delivers the answer (`Command`, `Signal`, `Collect`, `Push`,
and for clients that cannot take a frame `Kick` and `Expel`); the pump takes the
signal, reads what is wanted, expires idle items and sends charts
(`TakeSignal`, `Observe`, `Sweep`, `SendCharts`), and loses and replaces its
connection. A source carries the width of its charts. `row` counts the rows of a
symbol and `ring` how many of the newest the cache holds (`cache.rs`): a new row
pushes the oldest out of a full ring, a new epoch of row ids clears it first, and
other symbols may be evicted (`PushTick`). A new chart is replayed the rows its
width lets it see (`Visible`).

Definitions commented as a bug or a mutant are not part of the specifications;
each is the changed form of one definition that breaks a property.

## 4. Runs

| run | what it checks | instance |
|---|---|---|
| `hr_orders` | at most one dispatch; reserved before sent; the audit retells the row, in order of time; receipts only within the lease; evidence final; refinement of `RiskContract` | 2 processes, 1 key with two competing requests, clock 0..3 that may go back, lease 1 |
| `hr_admission` | usage is the sum of the reservations and within a limit that was in force; a policy replaces the one it was meant to replace | 2 processes with stale expectations, 2 orders that do not both fit, 3 installs of 3 policies, one reusing a version |
| `hr_live` | no order stays Submitting | 2 processes, 1 key, fair |
| `cl_cursors` | exact lookups; refinement of `CommitStream` | 2 writers, 2 readers, log of 2 entries, 3 revisions |
| `cl_bytes` | views belong to their revision; the state leads by one commit; references and bytes are exact | 2 writers, 2 partitions, roots of 1 and 3 bytes, limit 7 |
| `cf_commands` | each request at most once and in order on the wire; outcomes agree with orders; ledger, tree and retention lists agree; a terminal status is final | 3 commands of four kinds, retention 1, 2 order updates, 1 lost connection, another holder of the handle that records completions and rejections |
| `sl_link` | after a loss the interest is told again and the phase is Ready; the market route never waits without a peek; lost connections come back | market and trade route, 1 symbol, budget 3 ticks, 3 commands, 2 losses, 4 reconnect policies |
| `tp_task` | exposure within the targets; reached is a fact; closes covered; nothing left alive; no trade missed | 3 setups (open only; reversing a short position of today and history; splitting), 2 requests, 3 orders, a price change, an order ended by the exchange, a failing command, 2 commits of backlog |
| `tp_live` | every request settles; a cancelled task ends | open-only planning, 2 requests, a price change, 5 orders, fair |
| `ts_steps` | one outcome per started step; steps do not overlap; a completed schedule ends at its last target | steps target 2, pause, target 0; 3 orders, failures, cancel, drop |
| `hc_commit` | readers and other links see no change; refinement of `DurableStore` | 3 ranges, 5 files, 1 reader, compaction at 3 blocks, 4 stores, 1 purge, link or index preparation, 1 crash, 1 killed writer |
| `rl_relay` | indexes agree; interest is charted; no row of a chart's window is lost; nothing left behind | 2 clients, 2 chart ids, tick charts of width 1 and 3 and a Kline chart of 1 symbol, a ring of 2 rows, mailbox of 1 frame, 2 commands, 3 rows, 1 fault |

Bounds. Each is the smallest at which the case a property is about happens: two
processes, since a third only repeats what the second does to the first; a lease
of one tick in a clock of four values, so that a lease can be valid, end in this
tick and be over, before and after a clock that was set back; three revisions in
a log of two entries, so that a cursor can be ahead, inside and behind the
window; a byte limit that one commit with two large roots exceeds alone, so that
the log empties itself; a retention of one terminal command with three
commands, so that one is retained, one evicted and one forgotten; in `SessionLink`
two losses, so that a connection is lost while the loss of another is being repaired; a backoff
of one tick that fits twice into a poll and one (the default) that never fits;
a second target while orders for the first are sent, and a batch of two orders
of which one fails; four stores, so that a container grows, is compacted and
grows again with a crash at any write of them; a mailbox that one chart frame
fills; three rows in a ring of two with charts narrower and wider than it, so
that a replay is cut by the width and by the ring, and rows come in before and
after it (with two commands, a client that removes one of two charts of one
source is left to the proof of `RegistryIsConsistent`). The addresses of `CommitLog` and the inodes of `HistoryContainer` suffice
for everything that can be alive at once, so allocation (the guard `CanAllocate`)
never limits a behaviour. Order ids are the exception in `tp_task` and `ts_steps`: a behaviour
that needs a fourth order stops there. Symmetry is used for the processes of
`HardRisk`, the prices of `TargetPos` and the clients and charts of `Relay`, in
safety runs only. Deadlock
checking is off where the bounds let the model run out of steps; `HardRisk` and
`SessionLink` always have a step and are checked for deadlock.

Fairness.

- `hr_live`: time passes, and one process keeps calling
  `recover_expired_submissions`, as the documentation asks of the application.
  Its calls end (SQLite's busy timeout bounds the wait for the write lock, after
  which the call fails), and since a call may fail again and again, that one of
  its transactions eventually commits is strong fairness. Nothing is assumed of
  the process that holds the lease.
- `tp_live`: the strategy keeps calling `wait_update`, the session delivers what
  the exchange reports, and the exchange answers every order and every cancel.
  No command fails and the exchange ends no order by itself in this run, because
  a task that meets that for ever may rightly never reach its target.
- `sl_link`: the host keeps polling after errors too, every step of a poll ends,
  and a server that is asked for a connection again and again grants one (strong
  fairness of `Connect` and `RecoverRun`). Flushes and recoveries may still be
  dropped and fail any number of times.

## 5. Proofs

The theorems hold for every value of the constants under the assumptions named
in the modules (`...Assumption`, `LinkConstants`): the sets a run gives are
replaced by any sets, the bounds by any numbers. Each rests on an inductive
invariant, since hardly any of the properties is inductive by itself.

`HardRiskProofs`, for any processes, keys, accounts, policies and times
(requests and policies are well formed, a lease is positive):

- `TypeCorrect`: `Spec => []TypeOK`. The type invariant is proved and not in a
  run.
- `SingleDispatch` and `DispatchReserved`. A permit in some process' memory can
  be sent at any later time, whatever became of the row. The inductive invariant
  `DispatchInv` adds `PermitInv` (a key has at most one permit, its row has been
  leased and so is never leased again, and an unused permit has not been sent),
  `SentInv` (a key that was sent, or has a receipt, has been leased) and
  `ReservedInv` (a row that exists carries the reservations its policy asks for).
- `AuthorityImplementsContract`: every transaction, crash and clock step is a
  step of `RiskContract` or stutters.
- `PoliciesChained` and `UsageLimited`: only `InstallPolicy` and `Prepare` touch
  policies and usage, and the policy in force is the last activation.
- `UsageSumsReservations`, from `UsageInv`: usage is the sum, and only finitely
  many keys were ever admitted. Only `Prepare` adds to either side, and the key
  it admits was absent, so the sum grows by its reservation; all other
  transactions leave a row's request and its reservations as they are.
- `AuditFaithful` and `ReceiptsTimely`, from `EvidenceInv`: for each key, the
  whole chain of audit events with its times next to the row (`ChainInv`), and
  what a receipt implies about the third of them (`ReceiptInv`).
- `EvidenceFinal`, an action property.

`CommitLogProofs`, for any writers, readers, partitions and retention limits:

- `StateLeads` and `LookupExact`, from `LogInv`: `GateInv` ties the gate and the
  log's lock to where each writer stands (so only one commit is between state
  and log), `WindowInv` says the entries are the consecutive revisions that end
  at the head (lookups by distance rest on it; while the log is locked, the
  first retained revision may be stale), and `CursorInv` that a cursor which was
  told it lags still expects a lost revision when it finally resynchronises.
- `LogImplementsStream`: the refinement of `CommitStream`, by the same invariant.
- `ViewsAreOfTheirRevision`, from `ViewInv`: the live roots, too, show the last
  revision that changed them, so the snapshot taken under the gate does.
- `BytesAreAccounted`, from `BytesInv`: the live roots have addresses of their
  own (`RootsApart`); a live root or a retained one at an address of the log's
  table has the bytes the table gives it (`WeightsInv`), which is what keeps an
  address that is given out again from being taken for the root that had it
  before; the references are counted (`ReferencesInv`); and the total is the sum
  (`TotalInv`). It rests on `StoreAssumption`: the partitions are finitely many
  and there are addresses for all of them, as `StateStore` has a fixed set of
  roots, each an allocation of its own.

`FiniteSums` holds what these two and `TargetPosProofs` need about
`SumFunctionOnSet` of the module `Functions`: the sum of the empty set, of one
element more or fewer, of a disjoint union, of a set reached by an injection,
that sums of equal summands are equal, that a part is at most the whole, and what
a change of one summand does. The sum is defined by a recursion over subsets with
an unspecified choice; that this has exactly one solution is shown by taking a
counterexample with the least number of elements. `ReconcileExists` of
`TargetPosProofs` shows in the same way that the recursion over order numbers has
a solution. A last part, for `RelayProofs`, is about folding a finite set:
`FoldExists` and `FoldKeeps` say that the fold is defined and keeps what each of
its steps keeps. These, and `KeepingExists` of `RelayProofs` for the filter over
frames, are the project's only inductions over data: they are stated without an
operator parameter, so they are within the prover's reach.

`CommandFlowProofs`, for any number of commands, orders, failures and
reconnections and any retention:

- `SubmissionOrderKept` from `OrderInv` (what is on the wire, what a flush has
  drained and what is queued are sorted, in this order of each other) and
  `SentAtMostOnce` from `CountInv` (a command occurs in the three together at
  most as often as it has requests).
- `LedgerAgreesWithTree` and the action property `OutcomeIsFinal`, from
  `LedgerInv`, which adds to the property that the lists hold no id twice and
  that an evicted command had its outcome.
- `OutcomeAgreesWithOrder`, inductive next to `LedgerInv`, for any statuses other
  holders of the handle record (`OutsideStatuses`). The property speaks of the
  commands whose outcome the session itself recorded: what somebody else writes
  into the ledger is his own claim, and must not disturb the rest.

`SessionLinkProofs`, for any routes, topology, policy, budget and any number of
losses (the route order is a sequence of routes that contains the market route):

- `RepairLeavesNothing`, from `QueueInv` (the last subscription in the queue
  carries the whole interest and is followed by its peek) and `RepairInv`
  (whenever all connections stand, the interest is told, queued or cut).
- `MarketIsAlwaysPeeked`, from `QueueInv` and the type of calls.

`HistoryContainerProofs`, for any ranges (finitely many), files, readers, stores,
aborts and crashes:

- `PinnedReadsSucceed` and `LinkedFileIsKept`, from `ContainerInv`. Its key is
  `Recoverable(v, d)` between what processes see and what the disk holds of a
  file: all four slots have a valid index that both hold, with its blocks, and a
  higher generation has its index further on. So every mixture a crash leaves is
  again such a pair, and a truncation to the newest commit cuts off nothing a
  reader or an older slot refers to.
- `AcknowledgedStoresSurvive`: the container implements `DurableStore`, where
  syncing a file makes its name durable (`FsyncCoversName`; without it the
  statement is false, section 6). The invariant `StoreInv` adds that the path
  shows the last entry of the log (`Shown`) and that every commit a crash may
  leave the newest of the file, under either name the disk may show, is an entry
  no older than the acknowledged one (`Survives`, over `Outcomes`). The slot is
  written when everything else is on disk (`SyncSuffix`), so there are two
  outcomes, the old commit and the new one, and the acknowledgement comes when
  one is left. That an append adds exactly its rows (`IndexedAppend`), and that
  the runs `write_new` writes are the whole content (`RunsAreValid`), are lemmas
  about the index; the latter takes the first range of a run as a least number.

`TargetPosProofs`, for any setups, plans, targets, delays and failures (orders
are numbered from 1, finitely many):

- `ReachedMeansHeld`, `FinishedTaskIsClean` and `NoTradeIsMissed`, from
  `TaskInv`. An order the task does not track any more was seen finished
  (`KnownInv`) and the state never shows an order finished that is not
  (`ExchangeInv`); so without tracked orders nothing is alive and the position
  read is the real one. `RecordInv` follows a trade from the commit to the
  record. `FinishedTaskIsClean` covers the calls of `set_target_volume` that
  passed their checks before the task was cancelled or failed: `FinishInv` says
  that a finished task tracks nothing unless a failed command ended it or it was
  dropped.
- `ExposureStaysWithin` and `ClosesAreCovered`, from `ExposureInv` on top of
  `TaskInv`. For each direction and each kind of closing order, what is *spare* is
  the position such orders close less what the orders alive have left; for all
  orders of a direction it is the distance to a volume asked for less what they
  have left. `RoomInv` says no spare is negative, which gives both theorems. The
  lemmas show, in this order: the plan of an offset-priority group covers no more
  than the distance to the target and closes no more than the state shows free
  (`DesiredBatchFits`); the batch is what is missing of it plus what the live
  orders have left (`ReconcileFacts`, for the case without stale orders, the only
  one in which orders are sent); once every order is in the state, no more is
  spare there than in truth, since orders only fill and end (`SpareInv`); hence
  the orders sent fit (`SubmissionFits`), also those still in hand after the
  exchange has moved on (`TodoInv`). Batches are sent only when no order is
  unseen, which is why the hypothesis of `SpareInv` holds there. The argument
  rests on `SetupsAssumption`: volumes of a position are not negative and the
  split policy is one that `VolumeSplitPolicy::validate` accepts, or none.

- `OutcomesKeepPace`, `StepsAreApart` and `ScheduleEndsOnTarget`, for any
  schedule, from `SchedInv`, which takes over what is known of a task's orders
  and adds that the task of a step has one request, its target (`StepTaskInv`),
  and that between steps no order is tracked (`BetweenInv`).

`RelayProofs`, for any finite sets of clients, charts and symbols
(`RelayAssumption`), any sources and widths, any capacities of mailboxes and
rings and any number of commands, rows and faults; all from `RelayInv`:

- `RegistryStaysConsistent`. The property compares each index with the mappings;
  the inductive `RegistryInv` compares it with the index below it
  (`QuoteLayer`, `ChartLayer`, `ClientLayer`, `SymbolLayer`) and says that no
  index holds an empty set, which is what `remove_from_index_set` is for: the
  code asks whether a source is a key, not whether its set is empty. Every
  operation keeps the layers; removing a client is a fold of `RemoveChart` over
  its charts, expelling several a fold of `RemoveClient`, and `FoldKeeps` carries
  the invariant through both.
- `InterestStaysCharted`, from `ChartedInv`: unless a signal is on its way or the
  pump is about to look, everything wanted is tracked as active, and charted once
  the pump has sent. It holds because the pump takes the signal before it reads
  what is wanted, and because `Sweep` only gives back what is idle.
- `RowsStayComplete`, from `RowsInv`, the same said of single rows and of the
  mappings: a row is received, queued or in some task's hand. A frame leaves the
  hand only into the mailbox or by making its client stale; `TaskInv` says that
  hands and stale marks are empty where a task forgets them. The replay of a new
  chart and the fan-out of a row are made in the step that changes the registry
  or the cache, so nothing falls between them. `WindowMoves` says that a window
  that moves with a new row takes in no older one: the ring grows by the new row
  at most, a new epoch and an eviction only shrink it.
- `NothingStaysBehind`, from `ForgottenInv`.

Only model-checked: the liveness properties (temporal reasoning under fairness is
beyond the prover).

## 6. What the models show besides

Behaviours of the code that came up while modelling. They are part of the
models (unless marked otherwise), and the properties above are stated so that
they hold with them; where a property has an exception, it is named here.

*A failure that is not reported.* `set_target_volume` checks
`is_finished` and `cancel_requested` before it takes the lock under which it
clears `last_error` (`target_pos.rs:237-256`), and `finish_with_error` releases
the lock before it calls `finish()` (`machine.rs:496-501`). A target set by
another thread that passed its checks before clears the error of the failed
command: the task is finished, its orders may be alive, and `wait_finished`
returns Ok. The test at `target_pos.rs:441-442` asserts finished and the error
together. `CleanFinish` is therefore stated of the task that no failed command
ended (`failed`), and not of the task without an error (`error`): asked whether a
finished task that failed has its error, TLC finds this interleaving.

*Reconnect.* The drive of a route has 250 ms (`WEBSOCKET_COMMAND_POLL_BUDGET`)
and the default policy waits 1 s before its first attempt. The deadline drops
`recover_with_policy` in its backoff, the next poll starts it again at attempt
1, and so after an error found while receiving the session reconnects for ever
without trying once; `max_attempts` is not reached either. This is the reason
for the condition `policy.backoff < PollBudget` in `Reconnects`; without it TLC
finds the loop. `transport/config.rs:112` says "`None` means the runtime keeps
retrying until reconnect succeeds". A recovery inside `drive_route_once` leaves
`pending_peek_routes` as it was: the market route is saved by the peek that
follows the resubmitted subscription, a trade route waits on its new connection
with a peek the server never got. A frame whose ingest fails leaves its peek
marked as pending (`spoiled`). A flush that is dropped on a standing connection
loses subscriptions that nothing tells again (`cut`). Trade logins are not
resubmitted on recovery. `Closed` is not final: the next poll tries again.

*Commands.* `flush_outbound` drains the whole queue first; when a send fails or
the call is dropped, the requests behind it are discarded and their commands
stay Queued, although `docs/architecture/runtime-core/overview.md:50` wants
every later result or error in a commit. A second ALIVE update ends the wait for
a cancel_order with an error. An answer that changes nothing, or a recovery,
leaves a request command Sent with nothing pending (`ExecutedInVain`,
`Recover`). A command that left the bounded list of evicted commands is unknown,
so that recording its outcome again is an error (`Refused`).

*Order lifecycle (not modelled).* `normalize_order_lifecycle_mutations` checks
each row of a frame against the order as it was before the frame. Two diffs of
one order in one frame, the first with `volume_left: 0` and the second with
`status: FINISHED`, store the lifecycle `cancelled` for an order that was
filled, and a later correction is refused as an invalid transition.

*Hard risk.* A clock reading taken before the wait for the write lock is refused
as a regression, though the clock never went back. Attempts prepared under a
policy without an attempt limit are not counted for a later policy with one. A
permit whose lease was taken away is still sent and only its receipt is refused.
`reconcile_terminal` takes a row from Submitting straight to Terminal, which the
diagram in `api-hard-risk.md` does not draw.

*Commit log.* A cursor that has read everything reports a lag of one revision.

*Task and scheduler.* The volume a live closing order freezes is not available
to the plan, so the order never fits the new plan and is cancelled and sent
again at each price change, where `crates/tqsdk-task/README.md:179` says it is
kept. A trade that arrives while a step is being cancelled does not enter its
outcome. Dropping a task releases the symbol with its orders alive.

*History container.* A writer killed between rename and directory sync leaves a
file the next one appends to in place. If syncing a file does not make its name
durable (`FsyncCoversName = FALSE`), TLC finds an acknowledged append lost; ext4,
xfs and btrfs do, and the run assumes it. Purging does not sync the directory,
so purged rows may return after a crash. `load` does not fall back to the older
slot when the newer one's index is damaged.

*Relay.* A quote or chart window replayed for a new subscription can be
delivered after a newer one; no property is about this order. A new chart gets
the last `view_width` rows of the ring and no more, as the test at
`crates/tqsdk-relay/tests/integration.rs:485-494` asserts, so `RowsComplete` is
about that window; rows that were evicted or cleared by a new epoch are in no
window. An expelled client keeps its connection until its
next peek. The symbols sent with a signal are hints that the pump does not use.

## 7. Not modelled

JSON encoding and decoding, socket and HTTP I/O, SQL text and schema checks,
logging and formatting, telemetry, and the components that `PROJECT.json` lists
as not modelled. Most of the repository's lines are of this kind: the history
series format, fills, the cache tool, the facade and the relay's history service
are parsing, validation, reporting and network access around little state of
their own.

Of the modelled components: statuses derived for login, query, settlement and
risk-rule commands (the path of order commands), heartbeat timers, the reconnect
row, driving a single route for a waiting caller, charts and trading status in
the resubmitted interest (the path of quotes); the report of a task, several
tasks of one host, the trading calendar that computes a step's deadline; row
encoding, legacy conversion, failing fsync and the minute and tick caches over
the same container, the compaction of a container by its extents or retired
bytes and the rewrite of a compatible snapshot that differs (`StoreRewrite` is
guarded by the number of blocks and by rows that do not come last); Kline rows and their synthesis, rows that
repeat or precede the newest id, a symbol too large for the whole cache, prewarm
symbols, byte limits and connection limits of the relay (which symbols an
eviction takes is free).

Hazards without a property: the restarted backoff of the default reconnect policy
(`reconnect.rs:22`), the order of replayed and fresh frames of the relay
(`server.rs:567`), the error a concurrent `set_target_volume` clears
(`target_pos.rs:253`), the partition locks (`runtime/reader.rs:205`),
answers that change nothing (`session_runtime.rs:342`), rows of one order in one
frame (`runtime/handle.rs:829`). Also open: lost wake-ups of the commit
notification (`commit_log.rs:246`), a wait for a command whose row was evicted
(`client/commands.rs:222`), and commits consumed by `wait_until_ready_until` that
an error or a drop loses (`tqsdk-wait/src/api.rs:890`).
