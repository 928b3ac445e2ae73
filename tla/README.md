# SWC-DB: models, checks and proofs

SWC-DB is a distributed wide-column database written in C++. This directory
holds TLA+ modules for the parts of its core that carry its correctness, TLC
configurations that check them on small instances, and TLAPS proofs of the
central results for every value of the constants.

Paths below are relative to `src/src/cc/lib/swcdb/` unless they begin with
`src/`. `PROJECT.json` maps every definition to the lines it models.

1. [The system](#the-system)
2. [Plan](#plan)
3. [The modules and the code](#the-modules-and-the-code)
4. [Runs](#runs)
5. [Disagreements found](#disagreements-found)
6. [Fairness](#fairness)
7. [Proofs](#proofs)
8. [What is not modelled](#what-is-not-modelled)

## The system

Cells (a key of fractions, a column, a timestamp, a flag, a value) live in
columns. A column is divided into ranges by key interval. One **ranger** serves
a range; **managers** decide which one; the position of the ranges is itself
data, in the meta columns, served by rangers like any other. A range keeps its
cells in cell stores and in a commit log on a file system that all rangers
share (directly or through an **fsbroker**). Clients locate ranges through the
managers and the meta columns and then talk to rangers.

| component | state it keeps | operations | what makes it correct |
|---|---|---|---|
| Range gate, `ranger/db/Range.*` | `m_state`, `m_compacting`, `m_adding`, the queues `m_q_add`, `m_q_scan` and their `run` flags, `m_processing` | load, add, scan, compact, unload, remove | no update or scan is at work while a compaction applies or an unload drops the content; nothing that was queued is forgotten; unload ends |
| Range storage, `ranger/db/CellStore*`, `CompactRange.*`, parts of `CommitLog*` | directories `cs`, `cs_bak`, `cs_tmp`, `log`, `log_tmp` | write a fragment, merge fragments, replace cell stores, recover | at every instant a kill loses no committed cell; compaction is invisible |
| Commit log, `ranger/db/CommitLog*` | `m_cells`, the list of fragments, `m_commit`, `m_compacting`, `m_sem`, `m_cv`, `stopping`, `deleting` | add, commit, commit_release, commit_finalize, try_compact, unload, remove | one committer; finalize leaves nothing unwritten; sleepers are woken |
| Blocks and loader, `ranger/db/RangeBlock*` | chain of blocks, their state and cells, `m_split_rev`; a loader's queue, counters and selected fragments | scan, preload, add_logged, split, release, load | a loaded block has every cell of its interval, once; a scan misses nothing |
| Range compaction, `ranger/db/CompactRange.*` | queues of its stages, new cell stores, `fragments_old`, a timer | scan, interval, encode, write, split, mitigate, apply, quit | one end, no stage left behind; a split leaves every cell in one range |
| Compaction scheduler, `ranger/db/Compaction.*` | `m_running`, timer, last column and range, uncompacted counts | run, get_next, compacted, stop | never more than the configured number; a next check is always due |
| Columns of a ranger, `ranger/db/Column*`, `ranger/queries` | columns, ranges, queue of managing requests | load, unload, delete, release | managing requests of a column one at a time, none lost |
| Manager role, `manager/MngrRole.*` | states of the managers, local groups, `m_local_active_role` | fill_states, timeout, update_manager_addr, apply_role_changes | at most one ACTIVE manager per group, eventually one |
| Rangers and assignment, `manager/Rangers.*`, `manager/db/Ranger*` | ranger ids, states, load; ranges and their state | rgr_get/rgr_shutdown, assign_ranges, range_loaded, health checks | every range assigned in the end, to one ranger |
| Managed columns, `manager/MngdColumns.*` | schemas, expected columns, action queue | create, modify, delete, load | a column is created once, all actions answered |
| Column health check, `manager/ColumnHealthCheck.*` | ranges merged, gaps | scan of meta data, repair | meta intervals cover the key space without overlap |
| Client library, `db/client` | located ranges, pending queries | scanner, committer | every cell sent or error; results in order, none twice |
| Connections, `core/comm` | queue of a host, its connection, outgoing and pending requests, ids, timers | put, send, answer, timeout, reconnect, idle close, stop | each request's callback runs once per try, with its own response; none is left |
| File systems, `fs` | file descriptors | read, write, rename, remove, retry | a retried call has the effect of one |
| Cells, keys, specs, `db/Cells`, `db/Types`, `core/` | none or small | compare, add, narrow, encode | agree with their definitions |

The remaining components (fsbroker, broker, Thrift and SQL, shells, utilities,
configuration, encoders, allocation, clients in other languages) keep no state
of the database or are pure I/O; `PROJECT.json` lists them all.

**How they interact.** A handler of `ranger/handlers` checks the range's state
and gives an update or a scan to the gate. The gate's worker puts cells in the
log (`Blocks::add_logged`: log first, then block) and the log calls `commit`,
which posts a task. A scan walks the chain of blocks; a block that is not
loaded creates a `BlockLoader`, which reads cell stores and fragments by
callbacks from file-system threads. The scheduler's timer picks ranges; the log
decides whether fragments are to be merged (`try_compact`) and the range
whether it is to be compacted (`CompactRange`), and both hold updates back
through `Range::m_compacting`. A split registers a new range with the manager
and in the meta column, i.e. through the gate of another range. Everything
runs on thread pools: a posted task, a callback and a timer may run at any
time, in any order.

**What is hard.** (1) Flags and counters tested and set in separate steps by
threads that do not share a lock; (2) order of file-system calls against a kill
between any two; (3) errors overwritten by calls made after them; (4) a cell on
its way from the log's memory to a fragment and to a block, while the block is
loaded or split; (5) waits of unload, compaction and log for each other;
(6) answers that come late or never between managers and rangers. The list
`hazards` in `PROJECT.json` names each at its line.

## Plan

The order is by what a loss would cost: first what protects cells inside one
range, then what moves ranges, then what carries the requests between them.

| | modules | question | state |
|---|---|---|---|
| 1 | `RangeGate`, `RangeGate_proofs` | who may be at work on a range | modelled, checked, safety proved |
| 2 | `RangeStore`, `RangeData`, `RangeStore_proofs` | what survives a kill; the range is a set of cells | modelled, checked, safety and refinement proved |
| 3 | `CommitLog`, `CommitLog_proofs` | the threads of the log | modelled, checked, safety proved |
| 4 | `BlockLoad`, `BlockLoad_proofs` | what scans see | modelled, checked, safety proved |
| 5 | `RangeCompact`, `RangeCompact_proofs` | the stages of a range compaction lose no block and end once | modelled, checked, safety proved. The scheduler's timer and its choice of ranges are left |
| 6 | `RangeAssign`, `RangeAssign_proofs` | a manager assigns every range in the end and counts its loads | modelled, checked, safety proved |
| 7 | `RangeOwner`, `RangeOwner_proofs` | one ranger serves a range | modelled, checked, safety proved |
| 8 | `ConnQueue`, `ConnQueue_proofs` | each request ends once with its own response | modelled, checked, safety proved |
| 9 | the retries of the client's scanner and committer, the retry of `rename` in `fs/Interface.cc` | retries are harmless | planned |
| 10 | pure algorithms: `Mutable::_narrow`, the choice of fragments to merge (`CommitLog::Fragments::_need_compact`), `can_split_at`, key comparison | agree with a reference definition on bounded inputs | planned |

Each module contains what it needs of the others as a few steps (the gate's log
is two sets of cells; the assignment's rangers are a map from range to the one
that loaded it last, which is what `RangeOwner` shows of them; the manager of
`RangeOwner` sends what it likes, which is more than `RangeAssign` does).

## The modules and the code

### RangeGate: `ranger/db/Range.cc`, `Compaction.cc`, `CompactRange.cc`, `RangeBlocks.cc`

One variable per field of `Range` that takes part (named in the module's
header). Requests are named; the threads of `_run_add_queue` are anonymous and
counted by place, since nothing tells two of them apart. Atomics are one step
each: the `fetch_add` of `run_add_queue`, the `fetch_sub` of a caller over the
limit and the test of the queue that follows a worker's last `fetch_sub` are
separate actions. Everything under `m_mutex` is one action. The compaction is
the walk of one range through `COMPACT_CHECKING`, `COMPACTING`, `PREPARING` and
`APPLYING`, including the log compaction, the time-out of the wait before the
scan, mitigation and cancellation. `unload` and `remove`
are their waits in order (`wait`, `wait_queue`, `wait_processing`) and the drop
of the content. Two loads may arrive, the second of a range that is loaded.
Left out: the content of requests, error codes, time limits except as a
request that may be found expired.

`late` records updates pushed after `wait_queue()` had returned, `lapped` that a
caller between its `fetch_add` and its `fetch_sub` was counted as a worker by
somebody who therefore gave up. They do not guard any step; they are the named
exceptions of `AckedKept`, `UnloadAlone`, `AddNotStranded`, `UnloadEnds` and
`QueuedServed`. The second is a lost wake-up the code has (`Range.cc:1101`): the
queued update waits until another request comes.

### RangeStore and RangeData: `CellStoreReaders.cc`, `CommitLog*.cc`, `CompactRange.cc`, `CellStore.cc`

Directories are sets of cells or `Absent`, files of `log/` are functions from
names to sets of cells. One action per file-system call; between two of them
the process may be killed (`Crash`), which empties memory. `Load*` are the
steps of `Readers::load_from_path` and `Fragments::load`. A removal is a cell
that kills another; a scan shows neither. `Faults` selects what the file system
may do besides its job, so that each weakness of the code can be shown alone;
`struck` records the ones other than `crash` that have happened. It guards no
step. `Recoverable` and `ViewExact` speak of the time before the first of them;
`StoresAgree` (the cell stores that are open are the ones a restart opens)
holds after them as well, `noop` apart:

| fault | what may happen |
|---|---|
| `crash` | the process is killed between two calls |
| `torn` | it is killed inside the write of a fragment |
| `rmdir` | it is killed inside the removal of a directory |
| `noop` | rmdir does nothing and reports success (Hadoop back end) |
| `noStore` | a new cell store cannot be opened |
| `noFragment` | a merged fragment cannot be opened |
| `corrupt` | a new cell store fails its checksum |

`RangeData` is the promise to a client: a set of cells and removals, of which a
kill keeps the committed ones; a scan shows the cells that no removal takes away.
It states the one exception the code has: a kill may undo removals, after which
cells that a committed removal took away may show again, and nothing more than
that. `Stored` in `RangeStore` is the mapping: `data` is `kept` and `safe` is
`durable`, what was written and what was committed; `shown` is what a scan sees
when the range is up and what one would see after a load when it is not;
`undone` is that a kill fell into `Fragments::remove`.

### CommitLog: `CommitLog.cc`, `CommitLogCompact.cc`, `CommitLogFragment.cc`, parts of `RangeBlocks.cc`, `Range.cc`

Every thread that may be inside the log has a name and a place: updates, posted
`_commit` tasks, threads in `try_compact`, the log compaction `"cmp"`, the range
compaction `"fin"`, the release of memory `"rel"` and the unload `"unl"`. The
two flags are set by compare-and-exchange in one step and cleared in another,
`notify_all` is a third step where it is one in the code, and `m_cv.wait` puts
the thread in `asleep`, from which only a notify takes it. A write is a set in
`writing` which ends in an action of its own; `m_sem` bounds them.

An unload sets `UNLOADING`, waits for compactions, for the updates of the queue
(`NoneAdding`) and for processing, and only then writes out the memory. Updates
are served in `UNLOADING` as well (`Range.cc:1192`), so one that is pushed after
these waits goes through the log beside `commit_finalize` and
`Fragments::unload`. Two histories, which guard no step, record it: `late` has
the updates served after `wait_queue` had returned, `unheard` the threads that
slept on `m_cv` when the `commit()` of an update cleared `m_commit` without a
notify. They are the exceptions in `UnloadedQuiet`, `NotStranded` and
`UnloadEnds`: the cell of a late update may stay in memory or in a write that
goes on after the unload, and its `commit()` may leave the unload asleep for
ever. It leaves no other thread asleep, and before a removal, whose range is
`DELETED`, nothing is late. Two other threads are not waited for, one of
`try_compact` that read `stopping` too early and a release of memory that saw
the range loaded; `UnloadedQuiet` excepts them by their places.

### BlockLoad: `RangeBlock.cc`, `RangeBlockLoader.cc`, `RangeBlocks.cc`, parts of `CommitLog.cc`, `Cells/Mutable.cc`

One block and the one its split creates. An update is four steps (log it; read
the block's end and `m_split_rev`; test whether the block is loaded; under its
lock compare again and add); a
scan is the walk along the chain; a loader pops its queue, applies, selects up
to `Preload` fragments under the log's lock, and ends in `load_final`, which
takes the log's memory under the locks the code holds. A cell of a block counts
how often it was applied, which is what a counter column shows.

Three histories name the three races the code has. `raced` are updates that were in
the log and not yet in their block when `load_final` took the memory: each is
applied twice (`RangeBlocks.cc:113`). `overtaken` are scans whose block was
split between their read of it and their step to the next
(`RangeBlocks.cc:164`): they read its upper cells twice. `OnceUnlessRaced` and
`ReadOnceUnlessSplit` say that nothing else makes a cell appear twice. `left`
are updates that had compared their key with the end of a block which another
update then split, and which was released before they tested whether it was
loaded (`RangeBlock.cc:177`): they end there, and the new block, if it is loaded,
goes without their cell until it is loaded again. `BlockComplete` and
`ScanComplete` say that nothing else makes a cell disappear.

### RangeAssign: `manager/Rangers.cc`, `manager/db`, parts of `manager/ColumnHealthCheck.cc`, the manager's `RangeLoad`, `RangeUnload` and `RangeUnloaded`

One manager. The thread with `m_assign` is a place (`apc`) with its range and
ranger. It chooses a range of `m_need_assign` and a ranger, takes the range off
the list (`Unlist`), marks it `QUEUED` and counts the load (`Queue`) and, when
that was the last one due, stops before it sends (`Last`), in separate steps,
because answers on other threads change the same list, state and counter
without a common lock. A `RangeLoad` request is a record that is `sent`, then
`loaded` by the ranger; its answer is counted (`got`), sets the state of the
range (`apply`), puts it in the list again or wakes the assigner (`sort`), and
settles the state of its column. Meanwhile the connection to its `Ranger` may
have been closed (`gone`) and its range may have been given to another (`over`).
Rangers register, shut down, fail, are reported and marked offline; a range is
moved to even the load, found missing by a health check, or given up by its
ranger (`RangeUnloaded`). `late` records ranges whose last answer
came from a load that was overtaken or sent to a ranger marked offline after it
was chosen; it is the exception in `NotForgotten`. The choice of a ranger by
load is any ranger in `ACK`.

### RangeOwner: `ranger/db/Range.cc`, `Column.cc`, `Columns.cc`, `ranger/callbacks/RangeLoad.cc`, the ranger's `RangeUnload`, `common/Files/RgrData.h`

One range on several rangers. A ranger's `Column` is an object with a queue of
managing requests (`add_managing`, `run_mng_queue`); `Columns::load_range` puts
a new one in the map when the one there is empty, and `erase_if_empty` drops
one, while requests still run on it. A `RangeLoad` reads the record of the last
ranger (`last`), asks it to unload (`ask`), writes its own id (`own`), loads the
data (`data`) and answers (`reply`), or fails (`fail`), which unloads the range
and erases the record. The request to the last ranger is a `RangeUnload` that
goes through that ranger's own queue. Rangers crash and restart, requests are
lost or too slow, the record may not be readable.

`hist` names what the record does not protect from: `raced`, a load of the
range begins while another one runs, or waits in another `Column` object of the
same ranger; `seized`, the last ranger did not answer in time and the range was taken
though it may still serve; `erased`, a load that failed erased the record of the
one that serves. `OneServer` excludes all three, `OneResponsible` only the first
two and is refuted.

### RangeCompact: `ranger/db/CompactRange.cc`, `Compaction.cc`, parts of `Range.cc`

One compaction from `initialize` to `completion`. A block is its number in key
order. The three queues are sequences; a queue's task is a place per stage
(`run`), the block it has popped when others are behind it is in `hold`, and
blocks whose task found its queue empty are in `out`: from there they go on in
any order, as their threads do. `Refs` counts who holds the object, which is what
`finalize` and `completion` poll. `Threads` is the size of the maintenance pool:
a posted task starts only while a thread of it is free, and a thread that polls
keeps its own. `quit`, `finished` and `Compaction::stop` compete for
`m_stopped` and the completion; the timer sets the range's state; `apply_new`
replaces the cell stores, with or without a split, which asks the manager for a
range and unloads it again when it fails. `passed` records that a block was
passed by a later one between two queues; it is the exception in
`StoresComplete`.

### ConnQueue: `core/comm/ClientConnQueue.cc`, `ClientConnQueues.cc`, `ConnHandler.cc`

The requests of one client to one host. A request is in the queue of the host,
in a task, in a timer of `m_delayed`, in `m_outgoing` of a connection, in a
write, or in `m_pending` under its id. Connections are made, fail and are
closed by the reader, a writer, the idle timer or a stop; what
`disconnected` finds in `m_pending` and `m_outgoing` it gives back with an
error, and the handler ends the request or asks for it again. The other end is
external: it answers what it has received, in any order, or never. A host that
is idle is stopped and removed, while others may still hold and use it.

A step goes from one lock or atomic to before the next. Where the second only
confirms what the thread has just seen, or nobody can tell the two apart, they
are one (the module's header lists them); this keeps two requests on two
connections within reach. Three histories guard no step: `crossed`, a response
was given to another request; `back`, an id was used that `m_next_req_id` had
passed, because the request had it from before or because no later one was
free; `missed`, `exec_queue` met a stop that was about to end. The last two are
the exceptions in `OwnResponse` and `NotLeft`.

## Runs

| run | instance | distinct states | checks |
|---|---|---|---|
| `range_gate` | 2 updates, 1 scan, `Concurrency` 1 | 2.75 million | `TypeOK`, `ApplyAlone`, `WorkersBounded`, `AddNotStranded`, `ScanNotStranded`, `AckedKept`, `UnloadAlone` |
| `range_gate_live` | 1 update, 1 scan | 122 thousand | `UnloadEnds`, `QueuedServed` |
| `store` | 2 cells, a removal of one, 3 fragment names, all seven faults, two kinds of them in a behaviour besides `crash` | 1.75 million | `TypeOK`, `Recoverable`, `ViewExact`, `StoresAgree` |
| `store_refines` | 2 cells, 2 removals, `crash` | 626 thousand | `ImplementsRangeData` |
| `log` | 1 update, 2 tasks, 1 thread in `try_compact`, `Sem` 2 | 126 thousand | `TypeOK`, `OneCommitter`, `FinalizeComplete`, `UnloadedQuiet`, `NotStranded`, `UnloadEnds`, `FinalizeEnds` |
| `block` | 2 updates after the split key, 1 stored cell before it, 1 scan, `Preload` 2 | 725 thousand | `BlockComplete`, `ScanComplete`, `OnceUnlessRaced`, `ReadOnceUnlessSplit`, `ScanAnswered` |
| `assign` | 2 ranges, 2 rangers, 2 loads at a time, 1 failure | 829 thousand | `NotForgotten`, `LoadsCounted`, `Settles` |
| `owner` | 2 rangers, 3 requests of the manager, 2 `Column` objects each, 1 failure | 294 thousand | `OneServer`, `OneAtATime`, `NoOrphan`, `Answered` |
| `compact` | 2 blocks, 2 threads, read-ahead 2, 1 error | 489 thousand | `StoresComplete`, `EndsAlone`, `GateHeld`, `Ends` |
| `conn` | 2 requests, 2 connections, 1 request asked for again, ids 1 to 4 | 1.45 million | `OnePlace`, `OwnResponse`, `NotLeft` |

All of these pass. Two further runs (next section) each show one property
violated. The type invariants of `BlockLoad`, `RangeAssign`, `RangeOwner`,
`RangeCompact` and `ConnQueue` are a conjunct of `BlockComplete`,
`LoadsCounted`, `OneAtATime`, `EndsAlone` and `OnePlace`.

What the runs show, beyond the gate, store and log of the first steps:

- `block`: a loaded block has every cell of its interval and no other, although
  cells move from memory to fragments while it loads; a scan misses none; a
  scan that waits for a block is answered.
- `assign`: a range is never in a state from which nobody would assign it: the
  list, the state and the requests under way account for each other at every
  step. The counter of loads is exact, so the limit neither leaks nor is
  exceeded. When failures end all ranges are served, for good.
- `owner`: as long as loads do not overlap, rangers answer and no load fails on
  its way, the record names the one ranger that serves; the queue of a column
  never stops with a request in it, on any path of any handler, and no two
  rangers wait for each other.
- `compact`: whoever ends the compaction, it is counted as ended once, when
  nothing of it is under way, and not while its cell stores are being applied;
  updates stay out from the end of the scan; it always ends.
- `conn`: each try of a request ends once, however its send, timeout,
  response, disconnect and stop race.

**Why the bounds are enough.** *Gate*: with `Concurrency` 1 the limit is met by
a second caller, so two updates produce every race of the counter: a worker and
a caller over the limit, two callers, a worker that ends while another update is
pushed. One scan can be before, in and behind the gate, which is all that the
gate distinguishes; updates are interchangeable and symmetric. *Store*: a range
compaction tells apart a fragment in `fragments_old`, one that came later, and
one being merged, hence three names; two cells and a removal give a cell that is
covered, one that is not, and one that must not come back. Names of fragments
are reused after removal, so the runs are not bounded in length, only in how
many fragments are alive at once; two kinds of faults let one meet what another
has left behind. *Log*: the update, the tasks and the thread in
`try_compact` compete for each flag with the single threads `cmp`, `fin`, `rel`
and `unl`, and the update may come before, between or after the waits of an
unload; the theorems have any number of each. With one update the semaphore of
2 is waited for but never full; with `Sem` set to 1, so that each write fills it,
all seven properties hold as well, and with two updates, beyond the five
minutes of a run when liveness is included, the invariants do. *Blocks*: two updates
after the split key, so that one can split the block under the other, a stored
cell before it, and one scan; blocks are
released and loaded again without limit; with `Preload` 2 and two updates a loader
has to come back for what was written while it read.
*Assignment*: two loads at a time are the limit `Due`, so the assigner stops
at it and counts on an answer; one failure is enough for an answer to be late
(a move of a range to even the load counts as one); registering and health
checks are not bounded. *Ownership*: three
requests are a server, one that takes over or fails, and one that comes
after. *Compaction*: two blocks and `is_last` fill the queues, can pass each
other, and meet an error at every place; two threads are what a polling
completion and a task need. *Connections*: two requests are what can be
confused, two connections are an old and a new one, and one repetition
on the new one reaches the reuse of an id.

`range_gate`, `range_gate_live`, `log`, `owner`, `compact` and `conn` switch off
the deadlock check: a removed range, an unloaded log, a compaction that is over,
and requests that are all answered really are at rest.

## Disagreements found

Two runs have the expectation `violation`; each has an entry in `findings`
that quotes the text it contradicts.

| run | what happens | against |
|---|---|---|
| `owner_one` | a load that fails before it has asked the last ranger unloads the range completely and erases that ranger's record (`ranger/callbacks/RangeLoad.cc:38`); the next ranger finds no record, asks nobody, and two serve the range | `src/docs/README.md:116`: "at any point one server is responsible for a range-id" |
| `compact_lost` | a block popped from one queue and not yet pushed to the next is passed by `is_last` (`CompactRange.cc:577`); the cell stores are applied without it and the old ones removed. No error is needed | `src/docs/README.md:117`: cell stores hold the cells "after latest compaction" |

The faults of `RangeStore` other than `crash` have no run of their own. Each
can be shown by setting `Faults` in `MCRangeStore.cfg` and checking
`Recoverable` without its condition on `struck`:

| `Faults` | what happens |
|---|---|
| `{"crash", "rmdir"}` | `cs_bak` removed in part is preferred to the complete `cs` at the next load (`CellStoreReaders.cc:260`), where `src/docs/run/pseudomode/README.md:81` says a kill loses "not committed data and current transactions" |
| `{"crash", "torn"}` | a fragment is written in place; cut short, it is read again for ever by the next load (`CommitLogFragment.cc:74`) |
| `{"crash", "noop"}` | the Hadoop back end does not remove `cs_bak` (`fs/Hadoop/FileSystem.cc:397`); the next load restores it without the fragments that were compacted |
| `{"crash", "noStore"}` | the rollback of `Readers::replace` overwrites the error and the old fragments are removed (`CellStoreReaders.cc:255`) |
| `{"crash", "noFragment"}` | `take_ownership` erases an entry before it reads the file, and the merged fragments are removed (`CommitLog.cc:467`) |
| `{"crash", "corrupt"}` | `close` overwrites a checksum error (`CellStore.cc:250`) |

The others are exceptions written into properties, each by a history variable,
or instances one step outside the bounds of a run:

- `lapped` (`Range.cc:1101`): a lost wake-up of the update queue; an update waits
  until another request comes.
- `late` and `unheard` (`Range.cc:1192`, `CommitLog.cc:71`): an update that
  passed the handler's check of the state and reaches the queue after the unload
  has waited for it is acknowledged into a log that is written out already, and
  its `commit()` can clear `m_commit` without a notify while the unload sleeps on
  it. Without the exceptions TLC refutes `UnloadedQuiet`, `NotStranded` and
  `UnloadEnds` in the run `log`; `AckedKept` and `UnloadAlone` of the gate
  except the same updates.
- `cut` (`CommitLog.cc:391`): a kill among the removals of `fragments_old` can
  leave a cell and not its removal, and the cell is back.
- `raced` (`RangeBlocks.cc:113`): a counter cell is added twice, where
  `src/docs/README.md:52` says "Atomic".
- `overtaken` (`RangeBlocks.cc:164`): a scan reads cells twice, where
  `src/docs/use/thriftclient/README.md:517` says "only this number of Versions of a
  given Cell-Key".
- `left` (`RangeBlock.cc:177`): a loaded block goes without an acknowledged cell
  until it is loaded again. The cell is in the log and is not lost. The proof of
  `BlockComplete` met it first: that a key at a block stays in its interval
  between the two comparisons is not inductive.
- `raced` (`Column.cc:286`, `Columns.cc:69`): two loads at once may both find no
  record, or leave a second `Range` object in a `Column` that was replaced.
- `passed` and `erased`: the two runs above.
- `seized` (`Range.cc:831`): a ranger that is only cut off is taken over while
  it serves; the file system is not told.
- `late` (`Rangers.cc:433`): an answer that comes after the ranger was marked
  offline assigns the range to it; a health check of rangers in `ACK` does not
  look there, and it takes the ranger's return to make it good.
- The handler of `RangeUnloaded` takes a range from its ranger and leaves its
  column in `State::OK` (`RangeUnloaded` in `RangeAssign`); the range
  itself is assigned again, which `Settles` includes.
- `back` (`ConnHandler.cc:202`): a request that is sent again keeps its
  `header.id` on the new connection and sets the counter back; a late response
  to a request that timed out is given to another one. The same holds when ids
  come round after the last, on a connection of more than 2^32 - 1 requests.
- `missed` (`ClientConnQueue.cc:58`): a request put while a stop is about to
  end stays in the queue of a host that is no longer used.
- With `RangersRole = FALSE`, three ranges and no failure, `Settles` is
  refuted: an answer between the assigner's count and its stop finds it
  running, and nothing sets the timer again (`Rangers.cc:597`). A manager with
  the role `RANGERS` has a timer that does.
- With `Threads = 1`, `Ends` is refuted: completion polls on the only thread
  that could run what it waits for (`CompactRange.cc:1077`). In general k
  compactions that quit need k + 1 threads.
- `CommitLog` lets `Sem` fragments be in `WRITING` at once as the code does
  (`CommitLog.cc:153`), where `src/docs/README.md:118` says "one fragment is
  written at a time".

## Fairness

- Weak fairness for every step of a thread that has begun: `asio`'s pools run
  what is posted and a running thread goes on. Nothing obliges clients to send,
  the scheduler to choose a range, or a manager to ask for an unload.
- Weak fairness for the end of reads and writes: the file system interface
  retries until there is an answer.
- `RangeGate`: strong fairness for `LogFinalized` and `RangeFinishing`, the ends
  of two loops (a repeated log compaction, and the scan of the range with its
  mitigations), because each turn leaves less to do. `QueuedServed` is
  under the hypothesis that compactions of the range do not follow each other
  for ever; the scheduler leaves an interval between them.
- `CommitLog`: strong fairness for claiming the flags when both are clear.
  `m_cv` makes no promise of order, but calls of `try_compact` on one log are
  seconds apart, so a waiter is not passed over for ever. This is also why the
  run has one thread in `try_compact`: with two that overlap for ever, one of
  them has `m_compacting` whenever `commit_finalize` wakes, the flags are never
  both clear, and TLC refutes `FinalizeEnds`. The safety properties are proved
  for any number of them.
- `BlockLoad`: weak fairness only, of each scan and of each loader together with
  its reads. That the loader ends although fragments are
  added while it works is a result: the updates are finitely many.
- `RangeAssign`: weak fairness for the assigner's thread, the timer, each
  callback, the ranger that loads and its answer or the time-out of the request
  (`RangeLoad` has one), the ranger's own requests for its id, the end of a
  ranger that shuts down, and the reports and health checks, which run at
  intervals. Nothing makes rangers fail or rebalance.
- `RangeOwner`: weak fairness for the steps of each request, not for the
  manager's requests, crashes or restarts.
- `RangeCompact`: weak fairness for the work of its threads taken together, and
  for the timer. Nothing is assumed about which of several runs first: the
  compaction's work is finite, so that any order ends it.
- `ConnQueue`: none. `NotLeft` says of each request that is not answered who is
  to take it on from where it is: a timer, its task, `run_queue`, a connect, a
  stop, a write or a `disconnected` (`Served`). What they do takes
  a request, a connection or a stop further, and tries and connections are
  bounded in the model, so that each try ends if threads run at all. The other end's
  answers are not counted on: without them the timer of the request is there.

## Proofs

Every module but the abstract `RangeData` has a proof module, and each has one
inductive invariant, proved in one step per action; the theorems are drawn from
it.

`RangeGate_proofs` (for any finite sets of requests and any positive limit).
`Counted` shows that `CountInv` is invariant; `TypeCorrect`,
`WorkersWithinLimit` and `AppliesAlone` follow. Types alone are not inductive:
that a counter does not go below zero needs every unit of `m_adding` and
`m_processing` to have an owner (`WorkersBounded`, `ProcessingCounted`).
`AppliesAlone` then follows from two facts: after `wait_processing` nobody is
counted (`GateEmpty`), and while `COMPACT_APPLYING` stands nobody new can be
(`GateClosed`). Lemmas on cardinality carry one step from set to number.
`GateInvariant` adds to the counts who serves each queue, `LifeInv` and
`KeptInv`; `AddServed`, `ScanServed`, `AckedIsKept` and `UnloadsAlone` follow.
`LifeInv` says what each wait of an unload has achieved and keeps: after `wait`
no compaction, after `wait_queue` nothing in the queue, after `wait_processing`
nobody counted, requests pushed late apart. `KeptInv` follows a cell from
`add_logged` through the log's memory to its fragments.

`RangeStore_proofs` (for any cells, removals, fragment names and faults).
`StoreInvariant`: until a fault other than a kill between two calls has happened
(`Unstruck`), `StoreInv` holds; `NothingLost` draws `Recoverable` from it. The
invariant has ten parts. `CoverInv` is the heart: a committed visible cell is in
the cell stores that a load would open or in a file not about to be removed.
Keeping it through a range compaction needs `ScanInv` (what the scan has passed
is in `cs_tmp`, or later than the scan and not in `fragments_old`) and `NewInv`
(`cs_tmp` and the fragments outside `fragments_old` cover everything) until the
swap; through a log compaction, `GroupInv` (the group stays listed until its
file is). The rest fixes which directories exist at each place. The condition is
needed: after any other fault TLC refutes the conclusion. `OpenStoresAgree` and
`StoreTypes` do without it, from the parts of the invariant that faults keep.
`ExactInvariant` adds `ExactInv`, from which `ScansSeeExactly` draws `ViewExact`.
That nothing is missing is `CoverInv` again; that no removed cell comes back
needs to know where the removals are. `BaseInv` and `KeptInv` relate what the
disk and the memory ever held to the history; `DiskKills` says that a removal is
on disk as long as a cell it removes is; `ScanKills` and `NewKills` say the same
of the stores a compaction writes, and `OldKills` that a removal in
`fragments_old`, which the compaction drops, has nothing to remove in a later
fragment. The condition (`Sure`) is that of `ViewExact`: a kill while
`Fragments::remove` is at work may leave a cell's fragment and take the removal's.
`StoreImplementsData` is the refinement, with removals: `Add` is a `Write` of
`RangeData`, `Written` a `Commit`, `Crash` a `Crash`, and every other step, those
of compactions and recovery included, does not show, or is a `Lapse` after a kill
in `Fragments::remove`. Its only hypothesis is that the file system does no more
than let the process be killed. While `Sure` holds, what shows is exact by
`ExactInvariant`. After it, only the parts that such a kill leaves standing are
used, which `KeptInvariant` proves for themselves: what a scan shows then lies
between the exact cells (`SeenThere`) and these with what committed removals take
away (`RecoveredIs`, `ShownBounds`).

`CommitLog_proofs` (for any sets of updates, tasks and threads, and any size of
the semaphore). `LogInvariant` proves `LogInv`; `CommitsExclude`,
`FinalizeIsComplete`, `SleepersNotified`, `UnloadLeavesQuiet` and `LogTypes`
follow. `FinalizeComplete` rests on `Alone`: past its wait for processing, a
range compaction is alone with at most itself as committer; this in turn on
`OneCompaction` and `OneCommitter`. `WrittenOut` carries "memory empty", then
"nothing being written" from where each becomes true to where it is used.
For an unload, `Alone` says that past its waits no update is at work but late
ones and that no compaction is, and `WrittenOut` that what is in memory, in hand
or being written is of late updates; `StateOf` says which waits each state of
the range implies, so that a removal meets none. `NotStranded` is proved with
`SleeperHeld`: when an unload finds `m_commit` set, the one that has set it
will notify or is a late update in `commit()`; and while a range compaction
waits, no update is counted at all.

`BlockLoad_proofs` (for any updates, stored cells, scans, split key and
`Preload`). `BlockInvariant` proves `BlockInv`; `BlockCompleteHolds`,
`ScanCompleteHolds`, `AppliedOnce` and `ReadOnce` follow. Its core is
`LoadingInv`: while a block loads, a cell was applied exactly once if its
fragment was taken and has arrived, and not at all otherwise. This needs a
fragment to be on its way at one place at a time (`PlaceInv`), fragments to be
disjoint from each other and from the memory (`LogInv`), and the loader to reach
its end with nothing on its way (`IdleInv`). `UpdateInv` says what an update
still knows of the block's end; `ScanInv` what a scan has read. `ScansAttended`
is what `ScanAnswered` rests on besides fairness: a scan that waits has a loader
that is still to answer it (`WaitInv`), and the tests of `sz` never send a loader
back to a queue to which nothing is to come (`FedInv`).

`RangeAssign_proofs` (for any ranges, rangers, limit, failures and finite set of
requests). `AssignInvariant` proves `AssignInv`; `LoadsCountedHolds` and
`NotForgottenHolds` follow. The counter needs that the assigner is in its loop
only below the limit, which it tests once and not again when it counts
(`CountInv`). `NotForgotten` needs that a load that was not overtaken is of the
ranger its range has, and that the manager has not given this one up
(`OverInv`): hence the answer may assign the range.

`RangeOwner_proofs` (for any rangers, requests, `Column` objects and failures).
`OwnerInvariant` proves `OwnerInv`; `OneServerHolds`, `OneAtATimeHolds` and
`NoOrphanHolds` follow. `CoreInv` is about queues: a request is in the queue of
its `Column` once, exactly when it waits, and a queue that is not empty has one
request that runs. `RangeInv` relates the state of a range to the request at
work on it. `OneCreator` and `Mapping` say that without a race one load at a
time is past its start and that its ranger has the range in one `Column`;
`RecordInv` says what the record holds, and that nobody serves, at each place of
that load.

`RangeCompact_proofs` (for any number of blocks, threads, errors and any
read-ahead). `CompactInvariant` proves `CompactInv`; `CompactionEndsAlone`,
`GateIsHeld` and `StoresAreComplete` follow. `WayInv` describes the way of a
block as five places in a row (the last queue, between the last two, and so on
to the first): each block is in one of them (`DistinctInv`), `m_processing` is
the number of blocks on the way (`CountInv`), and as long as none has passed
another, those further on come first in key order (`OrderInv`). `CoverInv` then
says that what was scanned is written or on its way, so that when the writer
meets `is_last`, which comes after all of them, everything is written. `RunInv`,
`ApplyInv`, `ScanInv` and `EndInv` say which places can be taken together:
`EndsAlone` follows because `completion` waits until nobody else holds the
object, and whoever could start something new holds it. `CompactionAttended` is
what `Ends` rests on besides fairness and a second thread: who stops a compaction
stays in `completion` until it is over (`HeldInv`), and before that a queue with
items has a task (`TaskInv`), `m_get` is somebody's or held for good by `is_last`
(`GetInv`), and there are blocks on their way or one who is to call
`request_more` (`GoesInv`): of the calls that find enough on the way, or `m_get`
taken, none is the last.

`ConnQueue_proofs` (for any finite set of requests, any number of connections and
of tries, and any last id above the number of requests). `ConnInvariant` proves
`ConnInv`; `RequestsInOnePlace` and `ResponsesAreOwn` follow. `OnePlace` counts;
the invariant speaks of sets instead: the requests at the places are apart
(`Apart`), none is twice at a place (`Singles`), and together they are the ones
not answered (`Owed`). Each action is then an instance of `Moves`: some requests
leave where they are for one place, or are answered. `RunInv` says that
`run_queue` has `m_q_state` and a queue that is not empty. `OwnResponse` needs
`IdInv`: while ids only go up, every id in `m_pending` and on the wire is at most
`m_next_req_id`, so that a new one is nobody's. That `write` finds a free id at
all is the pigeonhole principle (`SomeFree`), the reason for the assumption on the
last id. `RequestsNotLeft` proves `NotLeft` from `ServeInv`: a queue that is not
empty has `run_queue`, a connect or a draining stop (`QueueServed`), and an
`m_outgoing` in use has a write under way or a `disconnected` to come
(`OutServed`), through every order of `put`, `set`, idle close and stop.

Assumptions of the proofs, each evaluated by TLC: `RequestsFinite`,
`ConcurrencyPositive`, `StoreAssumption`, `LogAssumption`, `BlockAssumption`,
`AssignAssumption`, `OwnerAssumption`, `CompactAssumption`, `ConnAssumption`. They
say that sets are finite or disjoint, that limits are positive or natural numbers,
that a removal is not itself removed and that there are more ids than requests.

**Only model-checked.** Liveness (`UnloadEnds`, `QueuedServed`, `FinalizeEnds`,
`ScanAnswered`, `Settles`, `Answered`, `Ends`): fairness and `ENABLED` are outside
the prover's reach. What each rests on besides fairness is proved where it can be
said of a state: `AddNotStranded`, `ScanNotStranded`, `NotStranded`,
`NotForgotten`, `OneAtATime`, `ScanAttended`, `Attended`, `NotLeft`. Every
invariant that a passing run checks, and the refinement, is a theorem.

## What is not modelled

- *Range gate, storage, log, blocks*: decoding of requests and their error
  answers; errors of block loads (they reach the loader at shutdown only); the
  release of the whole chain of blocks; more than one split of a block; the
  choice of which fragments are merged (any group may be); time, except as
  time-outs that may happen. `compare_exchange_weak` is taken not to fail
  without cause, as on x86. `Fragment::make_write` is taken to return a
  fragment always, because the encoder it calls never reports an error
  (`core/Encoder.cc:222`). Writes that the shutdown of the server gives up are
  a kill in `RangeStore` and an end like any other in `CommitLog`. `rename` of
  the file-system interface is one atomic step; its retry loop
  (`fs/Interface.cc:334`) is planned.
- *Range compaction*: keys, hence where a split falls; what the call through a
  null `new_range` does when its creation fails (`CompactRange.cc:932`); the
  scheduler's timer and its choice of the next range.
- *Ranger's columns*: deletion of a column and its queue of ranges, hence also the
  error of `internal_create`, which only a deletion or a shutdown causes; update of a
  schema; `unload_all` at shut-down; the release of memory by
  `Column::release`.
- *Assignment*: the choice of a ranger by load; ranges whose schema or column is
  gone, which the assigner passes over (`Rangers.cc:589`); the split of the rangers among
  several managers with their updates to each other; columns that change
  manager; the merge of ranges by the health check.
- *Election of the managers*: lists of states travel along the managers, and
  one that is not connected keeps its list, so that the states of even three
  managers do not end; no document says how many are to be active, which a
  property could be held against.
- *Connections*: acknowledged and partial responses, insistent requests,
  requests without a time limit (they wait as long as their connection does),
  the accepting side.
- *Managed columns and schemas, client scanner and committer, broker*: planned,
  or the same request protocol with other payloads.
- Sockets, TLS, Thrift, SQL, shells, encoders, allocation, configuration,
  fsbroker, clients in other languages: I/O, parsing or third-party code with no
  state that the database's correctness rests on. The generated Thrift clients
  alone are about half of the repository's lines, which is why the modelled
  parts, the core of a ranger, of the assignment and of a connection, are a
  small share of the whole.
