# A TLA+ model of MonetDBLite

MonetDBLite is MonetDB as a library: a column store whose columns are *BATs*,
kept by the buffer pool (*BBP*) in files of a database directory, with a SQL
layer on top that runs transactions over them. This directory specifies the
parts of it in which state changes are hard to get right, model-checks them
with TLC and proves the most important results with TLAPS.

All source paths below are relative to `src/src/`.

## 1. The system

| Component | State it keeps | Operations | What makes it correct |
|---|---|---|---|
| BBP checkpoint (`gdk/gdk_bbp.c`, `gdk_tm.c`, `gdk_storage.c`) | heap files and `BBP.dir` in `bat/`, `bat/BACKUP`, `bat/BACKUP/SUBCOMMIT`; the status flags of every bat; `BBP_dirty`, `backup_files`, `backup_dir`, `backup_subdir` | `TMcommit`, `TMsubcommit_list`, `BBPsync`, `BBPsave`, `BBPinit` | a restart finds exactly the last checkpoint, whenever the machine stops |
| BBP references (`gdk_bbp.c`) | fix and logical reference counts and shares of each slot, BBPLOADED, BBPUNLOADING ..., the parent and base of a view | `incref`, `decref`, `BBPfree`, `BBPdestroy`, `getBBPdescriptor`, `VIEWcreate`, `BATmode` | a referenced bat is never freed; a bat without references is; a pointer into a heap stays good |
| Write-ahead log (`gdk/gdk_logger.c`) | the log file, the catalog of logged bats and its snapshots, sequence values | `log_tstart`, `log_bat`, `log_delta`, `log_tend`, `logger_restart`, replay | a committed transaction survives, an uncommitted one leaves nothing |
| SQL transactions (`sql/storage/store.c`, `bat/bat_storage.c`) | the global transaction, snapshots of it, read and write time stamps per table and column | `sql_trans_begin`, `sql_trans_validate`, `sql_trans_commit` | committed transactions are serializable |
| SQL sessions (`sql/server/sql_mvc.c`) | the chain of savepoints | `mvc_commit`, `mvc_rollback`, savepoints | rollback restores the state at the savepoint |
| Sequences (`sql/storage/store_sequence.c`, `log_sequence`) | one counter per sequence with the number that is in the log; the definition in each transaction's catalog | `seq_next_value`, `seqbulk_*`, `seq_restart`, `seq_get_value` | no number is handed out twice, also after a restart |
| Dataflow scheduler (`mal/mal/mal_dataflow.c`) | worker threads, a queue of ready instructions, blocking counts | `DFLOWworker`, `DFLOWscheduler` | every instruction runs once, after the ones it depends on, and the block ends |
| Embedded interface (`embedded/embedded.c`) | started or not, connections | `monetdb_startup`, `monetdb_query`, `monetdb_shutdown` | calls out of order are refused |
| Streams, MAL interpreter and optimizers, SQL parser and relational optimizer, code generation, bulk algebra, accelerators | buffers, programs, plans, columns | | functional correctness of sequential code; not modelled |

How they interact: a SQL transaction that commits appends its changes to the
write-ahead log (`log_tstart` ... `log_tend`); the log makes newly logged bats
persistent with a subcommit of the BBP; the store manager thread later applies
the log to the persistent bats, subcommits them and starts a new log. The BBP is
shared by everybody: while one thread is inside a subcommit, others create,
change, unload (`BBPfree`, which saves) and destroy bats. At start-up `BBPinit`
recovers the last checkpoint, then the log is replayed on top of it.

### Behaviours that are hard, and hardly reached by tests

- A crash between any two file operations of a commit, of `logger_exit`, of
  `log_tend`, of a clean-up or of a recovery, and a second crash during the
  recovery of the first.
- A subcommit of some bats while other threads save, update and drop others; the
  counters `backup_files`, `backup_subdir` and `backup_dir` are shared by both.
- A write, a move or a rename that fails after other bats of the list were dealt
  with; the same commit is then tried again and continues in the same directory.
- Snapshots that are subcommitted before the transaction is committed, dropped
  before the next restart of the log, or compared with transaction numbers that
  started again at 1.
- The clean-up of old log files, which runs without `bs_lock`.
- Worker threads that take tokens and instructions of a shared queue under
  different locks, pick instructions past the scheduler, and are created and told
  to exit one block at a time, with blocks inside blocks.
- Sessions that bind and read columns without a lock while others commit in place,
  commit as a new version, or roll back; validation by comparing time stamps.
- Reference counts changed by several threads while one of them unloads or destroys
  the bat outside of its lock; views whose base moves with the heap of the parent.
- A sequence's counter that is shared and never rolled back, with increment,
  bounds and cache size that belong to the transaction, and a crash in between.

Savepoints and the order of the calls of the embedded interface are hard too and not modelled
(section 5).

`PROJECT.json` lists each with its line and the properties that watch it.

## 2. The modules

| Module | What it is |
|---|---|
| `Checkpoint` | the abstract specification of the BBP's promise: a checkpoint of a list of bats is taken in one step, with their current state, is reported truthfully, and a restart finds exactly the last one |
| `BBPSync` | the protocol: `BBPsync`, `BBPsave`, `TMcommit`/`TMsubcommit_list` and the recovery of `BBPinit`, one action per file operation |
| `MCBBPSync` | its instance for TLC |
| `BBPSyncProofs` | theorems about `BBPSync` for any number of bats |
| `Logger` | the write-ahead log as the SQL store uses it; a subcommit is one step of it, which is what `BBPSyncProofs` justifies |
| `MCLogger` | its instance for TLC |
| `LoggerProofs` | theorems about `Logger` for any columns, slots, transactions, restarts of the log and crashes |
| `DataflowGraph` | the dependency graph of a guarded MAL block (`DFLOWinitBlk`), and, said without the graph, what must come before what |
| `Dataflow` | the parallel interpreter of blocks: clients, workers, the shared queue, shutdown |
| `MCDataflow` | its instances for TLC, on the graphs `DataflowGraph` builds |
| `DataflowControl` | proofs about `Dataflow`: the inductive invariant, types, and where the threads are |
| `DataflowProofs` | the same: an instruction is in one place and its block counts it once; order, tokens, the size of the pool, and the theorems |
| `SerialStore` | the abstract specification of transactions: those that change something take effect one at a time, on the contents they have read |
| `SQLTrans` | the transactions of the SQL store: snapshots, bindings, versions, validation, commit |
| `MCSQLTrans` | its instance for TLC |
| `SQLTransProofs` | theorems about `SQLTrans` for any sessions, tables and columns |
| `BBPRefs` | reference counts, loading, unloading, destruction and sharing of bats; TLC runs it as it is |
| `BBPRefsSteps` | proofs about `BBPRefs`: the inductive invariant, the counts as sums, and the steps that fix, retain, load, unload or change the mode |
| `BBPRefsProofs` | the same: references given back, slots cleared, checkpoints, new bats and views, and the theorems |
| `SQLSequence` | the numbers of a sequence, its margin in the log, and crashes |
| `MCSQLSequence` | its instances for TLC |
| `SQLSequenceProofs` | theorems about `SQLSequence` for any sessions and definitions |

`Checkpoint`, `BBPSync` and `Logger` are a stack (a subcommit is one step above, a
protocol below). `SQLTrans` takes a commit to be one step: `store_lock` is held, and
`Logger` says what the log makes of it. `SQLSequence` takes the log to keep the last number written for
a sequence, which is `SequencesSurvive` of `Logger`. `BBPRefs` and `Dataflow` run in the same
process and share nothing with the others but the bats.

### BBPSync and the code

`heap[d][b]` is the heap file of slot `b` in directory `d` (`BATDIR`, `BACKUP`,
`SUBCOMMIT`), `bbp[d]` the `BBP.dir` there; a content is the number of the
update that produced it, `Torn` a file whose writer died. `status`, `mem`,
`dirty`, `BBP_dirty`, `backup_files`, `backup_dir` and `backup_subdir` are the
variables of the same names. There are three actors: the owners of bats (`Owner`:
insert, update, destroy, change of persistence), one `BBPsave` outside a commit
(`Saver`, which shares the helper `do_backup` and the counters), and the thread
in a commit or in start-up (`Sync`, `Boot`). `pc` follows the phases of
`BBPsync`: `prepare`, `backup`, `save`, `dir`, `switch`, `after`, `again`, then
`epilogue` in `gdk_tm.c`. `Crash` is possible in every state, loses what is in memory
and keeps the files. `RecHeap`, `RecDir` compute what a restart would find
(`Image`), by the rules of `BBPrecover_subdir`, `BBPrecover` and `BBPinit`; `Boot`
carries those rules out one file at a time.

Abstractions: bats are `STORE_MEM` with one heap file each, so that saving is
rewriting that file; `rename` is atomic and completed operations survive a crash,
as the comment above `BBPsync` assumes. `BBPprepare` is one step. Not modelled:
memory-mapped heaps with their `.new`/`.priv` files, other farms, persistent
hashes, and `BATcommit` inside a bat.

### Logger and the code

A column is a named bat of the logger's catalog. Its contents are the sequence of
its rows, a row being the number of the transaction that wrote it, so that a lost
or a repeated replay shows. `master`, `bak`, `baks`, `wal` are the files `log`,
`log.bak`, `log.bak-<id>`, `log.<id>`; `ckpt` is the last checkpoint (catalog,
bats, table of snapshots); `lg` is the `logger` structure with its bats; `buf` is
what was written to the stream and not yet synced; `col` and `seq` are what the
SQL store has been told is committed. The actions are

- start: `CreateLog`, `CreateCatalog`, `logger_load` (restores `log.bak`, then
  `Recovered` reads the records one after the other with `logger_readlog`: `la_*`, `tr_commit`,
  `tr_abort`, `avoid_snapshot`), `logger_open`, `OpenSynced`; the first start makes the
  catalog, opens log 2 and, as the tables entered in the catalog are changes, restarts the
  log and cleans up like a start that replayed something;
- the restart of the log: `store_manager` (with `gtr_update`), `ExitRename`,
  `ExitNewFile`, `logger_commit`, `ExitWriteId`, `ExitSwitch` for the steps of
  `logger_exit`, then `logger_open`;
- the clean-up `CleanupLog`, `CleanupBak`, `CleanupOld` (one per file);
- a transaction: `log_tstart`, for each column `log_create_delta`,
  `tr_log_delta` (clear, insert, update; small or, above `SNAPSHOT_MINSIZE`, as a
  snapshot) or `log_destroy_delta`, an optional `log_sequence`, then `log_tend`
  (`TendSnapshots`, `TendWrite`, `TendSync`) and `RollforwardApply`, which merges
  into the bats if no other transaction is active (`alone`) and leaves deltas
  otherwise;
- `Crash`, which keeps any prefix of `buf`, and `Shutdown`.

`bs_lock` is held during a commit, a restart and `log_sequence` (`store_lock` in
their callers), hence the one `pc`; only the clean-up interleaves with it. Transactions
are therefore serial in the log, and `log_abort`, which has no caller, is left out. A failing
write ends the process (`GDKfatal` in `store_manager` and `mvc_commit`) and
is a crash. Not modelled: the shared (slave) logger, upgrades of old versions, the
nil/NaN conversion, zero padding and torn bytes inside a record.

**Windows.** In four places the code relies on not being interrupted; `Window`
names them and `CrashWindows` says in which of them the process may die. The
passing runs exclude them, and everything they show is relative to that.

- `truncated`: a start replays the log, opens the same file for writing, which
  truncates it, and only then takes a checkpoint. The run `logger_truncated` shows the loss.
  (A first start that restarts its log is in this window too, with nothing in the log to lose.)
- `committed`: `logger_exit` dies after the subcommit and before `log.bak` is
  renamed. The next start restores `log.bak` and replays it on bats that have its
  changes already: `Durable` is violated, rows are there twice.
- `created`: the very first start dies between the creation of the file and of the
  catalog. Every later start is refused: `Bootable` is violated. `CreateCatalog` stands for two subcommits, of
  the empty catalog and of its tables; a stop between them (the next start makes the
  tables again) is left out with this window.
- `reopened`: the numbers of sequences exist only in the log, and the new one has
  none yet: `SequencesSurvive` is violated.

A fifth, `cleaned`, is a crash between the
removals of several old logs: with it (`KeepLogs` 1, `MaxFlushes` 4) the
removal, which stops at the first number it does not find, later stops at the gap and `CleanupExact` is violated.
With `KeepLogs` 0 a log left by a process that died before its clean-up is never
removed, so `CleanupExact` is checked for `KeepLogs` 1 only.

### Dataflow and the code

`workers` is the table `workers[]` together with the thread in each slot: `flag`,
`cntxt` and the semaphore `s` are the fields of the entry, `pc`, `seen`, `fe` and
`fnxt` the thread's place in `DFLOWworker` and its locals. `todo`, `sema` and
`exitcount` are the shared queue. `flow[c]` is the `DataFlow` of caller `c` (a
client, or a worker whose instruction calls a function with a guarded block) with its
queue `done`, `step[c]` its place in `runMALdataflow` and `DFLOWscheduler`, `stopper`
the one in `stopMALdataflow`. The actions are

- `runMALdataflow`: `Enter` (with `DFLOWinitialize` for the first client),
  `JoinBegin`, `JoinEnd`, `CreateWorker` or `RunSerially`, `InitBlk`; then the scheduler: `Feed`,
  `TakeDone`, `Dispatch`, `Dispatched`, `Finish`, `Pill`;
- `DFLOWworker`: `Start`, `Gate`, `Look`, then `q_dequeue` as `Down` (the token)
  and `PopMine`, `PopNothing`, `PopExit` or `PopAny` (the element), then `Check`, `Call`,
  `Ran`, `Report`, `Exit`;
- `Stop`, `StopSlot` (one thread joined), `Reset`.

One action is what a thread does under one lock. The scheduler holds `flowlock`
for all of `Feed` and all of a dispatch, so a worker's `Check` and `Ran`, which take it, wait.
The test of `todo` without a lock at the head of `runMALdataflow` is harmless here because the query
of `monetdb_startup` makes the pool before there is a second client, and so is the
teardown, which the library wants called when nothing runs.

In the fault `"graph"`, `DFLOWinitBlk` runs out of memory: the worker that was created for the
block is told nothing and waits on its semaphore for ever, so `SpecificOwned` and `StopEnds`
would fail; the run with liveness has no faults. `"create"` is a thread that cannot
be created. Not modelled: `USE_MAL_ADMISSION`, which is not
defined; a `malloc` that fails after the worker is created; a pool that cannot
be created at all; the statements of the sequential interpreter.

### SQLTrans and the code

`stamp` is `timestamp`, `gtrans` the stamps and schema number of the global
transaction, `chain[c]` its versions of a column (the list of deltas, newest first),
`cwtime`, `gtab` its stamps of columns and tables, `tr[s]` the private copy of session
`s` with its own stamps and, per column, no version, a pointer to one in the chain, or a
delta of its own (`data`). A delta's contents are the stamps of the transactions
whose rows it holds. `hist[s]` is a history variable: what the transaction has read,
added, cleared and altered, for the properties only. `sql_trans_begin` includes
`reset_trans` and `trans_init`; `sql_trans_commit` includes the validation and, per column of a
written table, `tr_update_delta`, `tr_merge_delta` or a new head, depending on whether another
session is active; `store_apply_deltas` is the store manager's merge.

Two constants take in what the code does not guarantee. `Reopened` starts with a database
in which nobody has written yet since it was opened: its stamp is 0, which also
means "not read", so two concurrent appends to one table both pass validation and the rows of one are lost
(`NothingLost` is violated). `Overtaking` lets a transaction commit after a younger one did
and a third one began, the guard `Overtaken(s) => Overtaking`, which is not in the
code: see the run `sql_trans_overtaken`. The other run and the proofs have
both `FALSE`.

Not modelled: deletions (a bat of their own per table, with the same chains),
indices, temporary and remote tables, the objects of the catalog beyond its version number, savepoints and the
nesting of transactions, spare transactions. `count_col` leaves no read time in the code, so what a transaction
concludes from a count is not validated; the properties speak of values read.

### BBPRefs and the code

`bbp[i]` is the slot: `refs`, `lrefs`, `share`, `status`, and of the bat `parent`,
`heap` (the address of its heap, 0 when it has none in memory), `base` (the view's
pointer into the parent's heap, an offset while nobody has it fixed), `dirty`,
`copied`. A call of a thread is the sequence `todo[t]` of what is left of it: each
element is executed in one step, under `GDKswapLock` or while a flag in `status` keeps others
away. So `BBPunfix` of a view becomes `unfix` of the view, perhaps `unload` and `clear`, which
puts `unshare` and `release` of the parent in front, and at the end `unfix` of the parent.
`fix`, `lref` count what each thread holds; `lost` the fixes nobody can undo.

The threads follow the interface: they unfix what they fixed, fix only what they
hold a reference of, and write to a bat, change its mode or commit it while nobody else
does, as the comments in `gdk_tm.c` and `gdk_bat.c` ask. `BATmode` and `BATsetaccess` on a
view first give it a heap (`VIEWreset`). In this version `BBPfree` never saves: what
`decref` unloads is clean, or has no logical reference. What is outside of that discipline is not modelled and would break
the properties: the parent of a view that cannot be read (`incref` uses the NULL
pointer it gets), `BBP_status_off` on one bat by two threads (a read and a write without a lock), `epilogue`
while others use the list. Also not modelled: `BBPlock` and `BBP_unload_inc`, `BBPtrim`, the second parent of
a view of strings, the names and free lists of slots.

### SQLSequence and the code

One sequence. `s` is its entry in `sql_seqs` (`called`, `cur`, `cached`), the same for all
transactions; `own[t]` the definition as the transaction of `t` has it in its catalog, `def`
the committed one; `logged` the number on disk, `Nothing` before the first; `bulk`, `save` and
`pending` the call `mvc_bat_next_value` in progress, which holds `store_lock` from
`seqbulk_create` to `seqbulk_destroy`. `given` are the numbers handed out since the last
RESTART or cycle, for the property only. Actions and functions have the same names;
`Restart` is `ALTER SEQUENCE` and the restart of a truncated table: it changes the
counter and the log at once, for everybody, and a rollback does not undo it (ALTER without RESTART
dereferences the missing value in `list_alter_seq`, so every ALTER here has one). Writing
the log is taken to succeed: its result is ignored at `store_sequence.c:47`. The sequence exists all the time; removed
and created again it has another number.

Everything holds for transactions that agree on increment, minimum and maximum (`Agreed`).
Without that `NoRepeat` is violated. The increment altered from 1 to 2 and the
counter restarted at 1 in one transaction, while another still has increment 1: the counter
passes `cached` without meeting it, nothing is logged, and after a crash numbers
are handed out again. With two maxima the failing calls of one transaction
move `cur` past `cached` of the other; the assertion `nr<s->cached` would fail.

That assertion can fail for transactions that agree, too: a RESTART below the minimum
leaves `cached` there, and if the sequence cycles, the first `seqbulk_next_value` after it
moves `cur` to the minimum, above `cached`, and does not advance `cached` (`store_sequence.c:239`;
`seq_next_value` does, when it cycles). `NoRepeat` holds all the same in a build without
assertions, which is what the model follows (`Starts` has a number below the minimum): the
number that is logged lies below the minimum, so that after a crash the sequence cycles again.

## 3. The runs

| Run | Question | Result |
|---|---|---|
| `bbp_sync` | two bats, commits and subcommits, a concurrent save, failures of writes, moves and renames with retries, a crash anywhere | `TypeOK`, `CheckpointIntact`, `FlagsMatchCheckpoint`, `LiveBackupsKept`, `BackupDirTells` hold, and the protocol refines `Checkpoint` (`AtomicCheckpoint`) |
| `bbp_sync_live` | does a recovery end, does a commit return? | `RecoveryCompletes`, `CommitReturns` hold |
| `logger` | two transactions over two columns, a restart of the log, two stops | `TypeOK`, `Bootable`, `Durable` (all of a transaction or nothing), `SnapshotsPast` hold |
| `logger_keep` | one old log kept, two restarts, sequence numbers, two stops | `Durable`, `SequencesSurvive`, `EntriesFound`, `CleanupExact` hold |
| `logger_truncated` | a crash between the truncation of the replayed log and the checkpoint | `Durable` violated: committed transactions are lost |
| `dataflow` | 32 blocks of three instructions over three variables, one of which may call another block; exceptions, failing threads, a graph out of memory | `TypeOK`, `OnePlace`, `FreedLast`, `AllExecuted`, `TokenFinds`, `PoolSize`, `InputsReady` hold |
| `dataflow_live` | two clients, one with instructions that never end, blocks within blocks, a shutdown and a new pool | `BlockEnds`, `StopEnds` hold, and `TokenFinds`, `PoolSize`, `SpecificOwned` |
| `dataflow_starved` | the same, for a client that meets its block inside a called function | `BlockEnds` violated: its worker is generic and another client may keep it busy |
| `sql_trans` | two sessions, a table of two columns and one of one, every kind of operation, the merge of the store manager | `TypeOK`, `NoDangling`, `SnapshotReads` hold, and the store refines `SerialStore` (`Serializable`) |
| `sql_trans_overtaken` | a transaction commits after a younger one did and a third began in between | `NothingLost` violated: its rows disappear when the third appends |
| `bbp_refs` | two threads, three slots, views, modes, commits, loads that may fail | `TypeOK`, `RefsCounted`, `HeapsHeld`, `SlotsOwned`, `Saved`, `CallsReturn` hold |
| `sql_sequence` | two sessions, numbers one by one and by the column, RESTART and ALTER, rollbacks, crashes anywhere | `TypeOK`, `NoRepeat` hold |

**Bounds.**

- `BBPSync`: two bats, so that a list, a bystander and a shared directory
  exist; `MaxClock` 3 updates give each bat an old and a new image and one more;
  `MaxBackups` 3 ends the growth of `backup_files` that repeated failures cause (4 holds
  as well, 2.7 million states).
- `Logger`: a restart of the log starts every chain of interest again, so one
  restart (two for the clean-up, which needs an older file) between two stops is the
  shortest history in which a stop meets the result of a recovery; two
  transactions create, change and drop a column before or after it; `Bids` leaves a free slot for
  every bat these can make. The columns are interchangeable (`SYMMETRY`,
  invariants only).
- `Dataflow`: three instructions are the fewest with which one waits for two others
  and one is picked past the scheduler; the blocks of `dataflow` have eight ways to read, variables freed
  after their last use or after the block, and a call or none (`GraphsAdequate`, an assumption that TLC
  evaluates, says that `DFLOWinitBlk` has an edge for all that each block needs). Three slots hold a
  pool of one, the worker of a client and the worker of a nested block, and run out. Two clients and
  two blocks in the live runs: in `dataflow_live` the instruction of the first client calls a block and the
  one of the second never ends; in `dataflow_starved` only the first client is within a called function (`Inner`).
- `SQLTrans`: `MaxStamp` 4 gives both sessions a transaction, or one of them two, or the store
  manager a turn; `MaxEffort` 3 is a read and two writes. `Uses` leaves the uses that differ between the
  columns of a table. Wider instances hold as well: `MaxStamp` 5 with `MaxEffort` 2
  (2.7 million states), all uses (5.3 million), and the theorems below have no bound.
- `BBPRefs`: a bat of the checkpoint, a view of it and a slot for another view, or for the
  copy that `VIEWreset` makes; two addresses, so that a heap may come back elsewhere; four
  calls are two for each thread, or one that prepares and three that
  meet. Without liveness, `MaxCalls` 5 with interchangeable threads holds (0.9 million states).
- `SQLSequence`: increment 2 and maximum 8 give four numbers from each start, caches of
  one and two steps, with and without a cycle; `MaxNumber` 11 is above the maximum.

A run that may stop at a bound has `CHECK_DEADLOCK FALSE`; the others are checked
for deadlock.

Each property has a mutant, the operator marked `\* mutant` just before the
definition it replaces, which violates it in the same run.

**Fairness.** `bbp_sync_live`: a step of recovery, of a save that has begun
and of a commit that has begun is eventually taken, which is what a running thread
that waits for no lock does; `dirty_bat` waits for `BBPSAVING` inside a step
of the commit. Nothing is assumed of the owners, of new commits, or of crashes:
`RecoveryCompletes` exempts behaviours that crash for ever.
`dataflow_live`, `dataflow_starved`: the threads run (weak fairness of each caller, each worker
and the shutdown), and a worker that waits on a semaphore raised again and again gets
it (strong fairness of `Down`; one that gives a token back sleeps a millisecond
first, so it does not take it again at once). Nothing is assumed of new blocks and of the
instructions of slow clients. `bbp_refs`: a thread in a call takes its next step if
it can (weak fairness of `Step`); the waiting is by polling. A flag may be set again while a thread
sleeps; calls are bounded, so that this ends, and `CallsReturn` says that no wait is for ever when
others stop calling, not that a thread cannot be overtaken again and again.

## 4. The proofs

**`BBPSyncProofs`** proves, for every number of bats and every bound, under

    Disciplined == CallerInserts /\ ~RetryAny /\ ~SaveDropped
                   /\ neither "rename_once" nor "removedir" in Faults

the theorems `TypeCorrect`, `CheckpointNeverDamaged`, `FlagsTrustworthy`,
`BackupsOutliveCounters`, `BackupDirCorrect` and `Refinement` (`Spec` implies
`Checkpoint!Spec`). `Disciplined` says how the only caller of `TMsubcommit_list` in
this library, `bm_subcommit`, behaves: its callers make temporary bats right before, and
`BBPinsert` sets `BBP_dirty`, a failure of it is fatal or is retried with the same list,
and it does not save bats it is dropping; and that a `DELDIR` left over can be removed.
Without a conjunct the protocol fails: with `RetryAny` a failed subcommit followed by one of *other*
bats discards the images the first backed up; with `"rename_once"` or `"removedir"` an old `DELDIR` makes the
first rename fail, and a checkpoint that was taken is reported as failed; with `SaveDropped` a bat whose drop is not
committed is overwritten without a backup; without `CallerInserts` a subcommit
can move the old `BBP.dir` back, so that changed bats are not in the new checkpoint.

None of the invariants is inductive. `IInv` adds what each needs:
`Control` (which phases go with which list, `todo`, `cur`), `DirPlaces` (where
`BBP.dir` can be in each phase), `Counters` (`backup_files`, `backup_subdir`
against the images that exist), `Images` (a restart finds what `BBP.dir` says),
`Backups` (a bat of the list already passed by `SyncBackup` has its old image in
a backup directory or has not been overwritten), `SaverInv` (the same for the
concurrent save), `Memory` (the dirty flag against the file) and `Flags`. One
lemma per action shows that it keeps `IInv`, and says what it does to `RecDir`, the
directory a restart would read; one lemma per action then maps it to a step
of `Checkpoint` or a stutter: `SyncSwitch` to
`Commit`, everything else to `Work`, `Request`, `Return`, `Crash`, `Restart` or nothing.

**`SQLTransProofs`** proves, for any sessions, tables and columns, under
`Ordered == ~Reopened /\ ~Overtaking`, the theorems `TypeCorrect`, `NeverDangling`,
`SnapshotIsolation` and `Serializability` (`Spec` implies `SerialStore!Spec`). Snapshots are not
inductive: whether the version a session finds is the one of its snapshot depends on
what commits between, and on what the session kept from earlier transactions. `IInv`
is `Types`; `Clocks` (every stamp in use against `stamp` and the global ones); `Chain` (the
times of the versions fall, and the first is not above the column's write time); for each
session `Private` (what its copy says of its own reads and writes agrees with its history and its stamps)
and `Faithful` (`Sees`: the version at the start time has the rows of the snapshot and a binding
is to that version; `Wrote`: the session's own delta is the snapshot with its changes; a column not written
since the session began is still as it was); and `Distinct` (write stamps differ). `Ordered` is
what makes `Faithful` survive a commit: a commit puts a version with its own write stamp on the chain,
and no active session has a start time at or above it.
For the refinement, a committed writer's read times are above the write times of what it read, so by
`Faithful` the columns are still those of its snapshot, which is the guard of
`SerialStore!Commit`.

**`SQLSequenceProofs`** proves, for any sessions, definitions and starts that agree on
increment and bounds (`Agreed`), `TypeCorrect` and `NeverRepeats`. `NoRepeat` is not inductive: the number
after a crash depends on the log. `IInv` adds that the counter meets `cached` (the
difference is a whole number of increments, or `cached` is out of bounds), that all
numbers given since the last restart are below `cached`, that `logged` is `cached` once a number
was given and no bulk call has yet to log, and that nothing is `pending` in a counter not
yet used.

**`DataflowControl`, `DataflowProofs`** prove, for any clients, slots, size of the
pool and graphs, with any faults and any number of blocks and shutdowns, `TypeCorrect`, `OnePlaceKept`,
`FreedLastKept`, `AllExecutedKept`, `InputsReadyKept`, `TokenFindsKept`, `PoolSizeKept` and
`SpecificOwnedKept`. The graphs are parameters; `DataflowAssumption` asks of each what `DFLOWinitBlk`
makes of any block: at least one instruction, edges that lead forward, a blocking count that is the number
of edges that lead to the instruction, and no call in a block that is called (the bound on the nesting).
Two theorems have a hypothesis: `InputsReadyKept` that the graphs have an edge for all
that the block needs (`Adequate`; TLC evaluates it for the graphs of the runs), and
`SpecificOwnedKept` that building a graph does not fail (`"graph"` not in `Faults`), because
`runMALdataflow` leaves the new worker bound to its client when it does.

The inductive invariant `IInv` is the conjunction of

- `TypeOK`; `Fresh`, nothing is left of a pool that was stopped;
- `Control`: a block is live exactly while its caller schedules it, a worker has an instruction in its hands exactly
  while it executes or reports one, and which slots have no thread;
- `Owned`: whoever holds an instruction holds one of a live block;
- `Movement`: no instruction is twice in `todo`, in two hands, in a hand and a queue, or in `done` and still held,
  and one that is held has started;
- `Counts`: the instructions that started and are in no place are as many as the scheduler has counted;
- `Wrapped`: without an error, an instruction that is running is queued, or with a worker that has yet to execute it;
- `Order`: the blocking count of a pending instruction is the number of edges into it that the scheduler has not
  dispatched yet, and the sources of a started one are executed.

None of the properties is inductive without it. A worker may pick the next instruction itself only if
that is pending and waits for one edge; that nobody else starts it follows from `Order`, as the one edge that is left is
from the worker's own instruction, which by `Movement` is in no other place and by `Counts` not yet dispatched. That a
block is freed after its last instruction is `Counts` with `Owned`: when all are counted, none
is in a place. One lemma for each kind of step (an instruction is queued, taken, executed, handed on, reported,
counted; a block begins or ends) says what moves, and the steps of other threads leave it alone.

On top of it, `Tokens` is inductive relative to `IInv`: instructions in `todo` and exit orders are as many as the
tokens of the semaphore and the workers that have one. So is `PoolSize`: the living workers are the ones the pool
was created with, one for each block in progress, one for each exit order not yet met. Both are sums of
cardinalities of sets of slots and callers, and a step changes at most two of these by one. `Bound` is
the relation of a bound worker to the caller that created it.

**`BBPRefsSteps`, `BBPRefsProofs`** prove, for any threads, slots, addresses and number of calls, with
loads that may fail or not, `TypeCorrect`, `RefsCountedKept`, `HeapsHeldKept`, `SlotsOwnedKept` and
`SavedKept`. The only assumption is `BBPRefsAssumption`: the slots are a finite set of positive numbers
with the two the database starts with, there is an address, the threads are a finite set. The
discipline of the threads (section 2) is in the guards of `BBPRefs`, so the theorems are about threads that
keep to it.

None of the properties is inductive. The counts of a bat say nothing as long as a call in progress
may have any steps left: one that still has to `fix` counts against the others. Whether a pointer is good depends
on who may unload, which depends on the counts. `IInv` is the conjunction of

- `Types`;
- for each slot, `Slot`: not in use, it is empty and named by nobody (`Unknown`); in use, its flags fit its counts
  (`BatOK`: one that is being unloaded has no fixes, and no references unless it is clean and persistent; one that is
  being loaded has a fix; what is not in memory is on disk or has no counts); a view has a root for a parent, is never
  itself unloaded but when it is destroyed, and while it holds a fix of its parent this is in memory and the base is where the heap is (`ViewOK`);
- for each slot, `Counted`, which is `RefsCounted`; and `Owned`: LOADING is set exactly
  while one thread has a step left that resets it, UNLOADING likewise, and one thread at a time changes the mode;
- for each thread, `Shape`: what is left of its call is one of the forms through which `BATdescriptor`, of
  a bat or a view, `BBPretain`, `BBPkeepref` and `BATmode` go, or a step that gives something back followed by
  others that do (`Undoes`); with the reference, fix or flag that form relies on;
- for each thread, `Readable`: what it fixed is in memory.

The counts are sums over the threads, each term a difference of numbers of steps left; `Shape` makes the terms
natural numbers, so that each is a lower bound of the count (`FixesBound`, `LrefsBound`, `SharesBound`).
A step of one thread keeps `IInv` (`StepKeeps`) when four things hold: what it adds to a count is what it adds to the
thread's term, to the views and to the checkpoint (`Accounts`); a flag goes with the thread that
will reset it (`Resets`); nothing a pointer or a view needs is taken away (`Stands`); and the calls of the other threads
see nothing they rely on change (`Unseen`, `SeenBy`). One lemma per action then shows these four.
The argument that matters is that of the actions without a lock around them: a thread that is about to unload or clear a bat
found `refs` 0, so by `FixesBound` nobody has or will have a fix of it without `incref`, which waits for UNLOADING;
and one that clears a slot found `lrefs` 0, so nobody has a reference through which it could come back (`NoReferences`, `OnlyUnloaders`),
and no view. `SavedKept` follows from `BatOK`.

**`LoggerProofs`** proves, for any columns, slots of the BBP, transactions, sequence numbers, restarts of the log,
kept logs and stops, `TypeCorrect`, `CommittedSurvives` (`Durable`), `NumbersSurvive` (`SequencesSurvive`),
`NeverRefused` (`Bootable`), `EntriesKept` (`EntriesFound`), `SnapshotsOld` (`SnapshotsPast`) and `CleanupLeaves`, under two hypotheses:

- `Orderly`: the process dies in none of the windows of section 2 but possibly `cleaned`. In each of the others
  one of the properties is violated, as said there.
- `Unlimited`: above every slot there is another, so the BBP never runs out of slots.
  `BBPinsert` fails when it does, in a replay as anywhere else; `Logger` has no such failure in `la_bat_create` and
  `empty_col`, and its guards keep the runs away from it.

What a replay makes of a log is a recursive function of the log (`Replayed`, `Applied`), and a property of every log
would be an induction over data. None is needed: the proof unrolls one record at its end (`ReplayedAppend`, from
the definition, that such a function exists being shown with the least number for which it would not), and the steps of `Spec` are the induction.
The difficulty is that the checkpoint under the log changes while the log grows: `log_tend` saves the bats of a
snapshot before its LOG_END is written, and `la_bat_use` then finds them there. Said of the current checkpoint only,
the invariant would say nothing of the log after the next one, and each record would have to be looked at again. So `IInv`
says what a log gives on *every* checkpoint that has the catalog of the current one, what its bats hold, and perhaps more
bats (`Extends`). It is the conjunction of

- `TypeInv`; `FilesInv`, which of `log`, `log.bak`, `log.bak-<id>` exist in each phase; `RoomInv`, that the bounds leave a number for the next
  log; `PhaseInv`, what is in the files and in `buf` in each phase;
- `MemoryInv`: the checkpoint can be read onto (`Base`), and the logger in memory is `Sound` over it: no bat is in
  the catalog twice, a bat that was dropped and is still in the checkpoint is kept until the next one, and a bat of
  the checkpoint is unchanged unless the catalog has it as an old bat or a snapshot;
- `TxInv`, the transaction in memory: what it has not touched is committed and not one of its snapshots;
- `LogInv`: `Gives`, every proper part of the buffer on top of the log finds what was committed before (`Torn`), all of it
  what is committed with it (`Whole`), and it never needs a bat that is not in the checkpoint; and during a transaction `Awaits`, that with
  its LOG_END the log would give the columns of the transaction, whatever the numbers of the sequences are by then, on the checkpoint that
  `TendSnapshots` will take.

One lemma for each kind of record (`la_bat_create`, `la_bat_updates`, `la_bat_clear`, `la_bat_use`, `la_bat_destroy`) says what it makes of
the columns of a `Sound` logger: it enters a new bat, replaces the contents of one or drops one, or is skipped because of a snapshot as new
as the transaction (`avoid_snapshot`), in which case the bat has the contents already. One lemma per action then shows
that it keeps `IInv`. The steps that matter are `TendSnapshots`, where `Awaits` on the bats in memory becomes
`Awaits` on those in the checkpoint; `logger_commit`, where the log that was replayed is exchanged for one with nothing but the
numbers, and what it gave is now in the checkpoint; and `Crash`, where any part of the buffer stays (`Torn`).

`CleanupLeaves` (`CleanupExact`) needs more: `Uninterrupted`, no crash in any window, `cleaned` included, and at least one log to keep; without
either the clean-up is not exact, as said in section 2. That it never removes a log a restart needs is part of `Durable` and
proved for any number of logs to keep. `LogsInv`, inductive relative to `IInv`, says that the logs follow one another up to the one that `log` or
`log.bak` names, apart from those that a clean-up in progress has removed so far, and that there are no fewer of them than
are to be kept; so the first number that is not found is below all that are left.

Only model-checked: liveness (`BlockEnds`, `StopEnds`, `CallsReturn`, `RecoveryCompletes`, `CommitReturns`:
fairness is out of the prover's reach), and the violations.

## 5. Plan

1. `SQLTrans` with savepoints (`sql_mvc.c`): a stack of private copies, release into
   the parent, rollback to one; and with the deletions of a table.
2. The life of the embedded interface: start-up, connections, `store_exit` against
   open transactions.

## 6. Not modelled, and why

- Savepoints, and the embedded interface: planned above.
- `BATcommit`/`BATundo`, heaps and their files: below the level of the models, which
  take a bat's contents to be one value and a file operation to be atomic or torn.
- Names of bats (the hash, `BBPrename`) and the free lists of slots.
- Threads, locks, atoms, memory accounting: wrappers whose meaning (a lock excludes, a
  semaphore counts) the models assume.
- Catalog objects and dependencies beyond what a transaction does to them.
- The SQL parser (generated), the relational algebra and its optimizer, the code
  generator, the MAL interpreter, optimizers and modules, the bulk algebra
  (`gdk_calc.c`, `gdk_join.c`, `gdk_group.c` ...), hashes, imprints, order indices, streams. They
  are by far the larger part of the roughly 210 000 lines, so the mapped
  share of the code is small and stays so. Their correctness is a matter of the data they
  compute in one thread, not of states and interleavings: a model that is shorter
  than the code would leave out the part that could be wrong.
