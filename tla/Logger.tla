------------------------------- MODULE Logger -------------------------------
(***************************************************************************)
(* The write-ahead log (gdk_logger.c), as the SQL store uses it (store.c,  *)
(* bat_storage.c, bat_logger.c): logging and committing a transaction,     *)
(* sequence numbers, the switch to a new log file (logger_restart), the    *)
(* clean-up of old files, and the recovery in logger_create.               *)
(*                                                                         *)
(* A column is a named bat; its contents are a sequence of rows, a row is  *)
(* the number of the transaction that wrote it.  A subcommit of the BBP is *)
(* one step: that is what BBPSync is proved to implement.  The caller      *)
(* holds bs_lock during a commit, a restart and log_sequence, so that only *)
(* the clean-up of old files runs concurrently with anything else.  A step *)
(* that fails is fatal (mvc_commit and store_manager call GDKfatal), hence *)
(* a crash.  A crash keeps everything that was synced, and any prefix of   *)
(* what was written and not synced.                                        *)
(***************************************************************************)
EXTENDS Integers, Sequences

CONSTANTS
    Names,          \* the columns
    Bids,           \* the slots of the BBP
    Absent,         \* no such file, no such bat, no such column
    KeepLogs,       \* keep_persisted_log_files
    CrashWindows,   \* the windows (see Window) in which the process may die
    MaxTx,          \* bound: number of transactions
    MaxSeq,         \* bound: last value of the sequence
    MaxStops,       \* bound: number of crashes and shutdowns
    MaxFlushes      \* bound: number of restarts of the log by the store manager

WindowNames == {"created", "truncated", "committed", "reopened", "cleaned"}

ASSUME LoggerAssumption ==
    /\ Bids \subseteq Nat \ {0}
    /\ KeepLogs \in Nat
    /\ CrashWindows \subseteq WindowNames
    /\ {MaxTx, MaxSeq, MaxStops, MaxFlushes} \subseteq Nat

LOG_SID == 0    \* the sequence of log files
OBJ_SID == 1    \* the sequence of SQL objects
Sids == {LOG_SID, OBJ_SID}
NoSeqs == [s \in Sids |-> 0]

Ids  == 2 .. 3 + MaxStops + MaxFlushes

(* The records of a log, and the values of a column.                       *)
Tids == 0 .. MaxTx
Changes ==
    [flag : {"CREATE", "INSERT", "UPDATE", "DESTROY", "CLEAR"}, tid : Tids,
     name : Names, row : 1 .. MaxTx]
    \cup [flag : {"USE"}, tid : Tids, name : Names, bid : Bids]
Records ==
    Changes \cup [flag : {"START", "END"}, tid : Tids]
            \cup [flag : {"SEQ"}, tid : Tids, seq : Sids, val : Nat]
Contents == Seq(1 .. MaxTx)

ASSUME AbsentAssumption == Absent \notin Nat \cup Contents \cup Seq(Records)

VARIABLES
    \* the log directory
    master,     \* the file log: the number in it, 0 when not yet written, or Absent
    bak,        \* the file log.bak
    baks,       \* baks[k]: the file log.bak-k
    wal,        \* wal[k]: the records in the file log.k
    \* the last checkpoint of the BBP: the catalog, its bats, the snapshots
    ckpt,
    \* memory
    lg,         \* the logger
    buf,        \* records written to the log stream and not yet flushed
    pc,         \* the thread that holds bs_lock
    boot,       \* is logger_create running?
    tx,         \* the transaction being committed
    cleaning,   \* how far logger_cleanup is
    oldId,      \* the file logger_cleanup_old is at
    \* what the SQL store knows to be committed
    col,        \* the columns
    seq,        \* the value of the sequence OBJ_SID
    \* bounds
    ntx, stops, flushes

dirVars == <<master, bak, baks, wal>>
vars == <<dirVars, ckpt, lg, buf, pc, boot, tx, cleaning, oldId, col, seq, ntx, stops, flushes>>

NoBats == [b \in Bids |-> Absent]
NoSnapshots == [b \in Bids |-> 0]
NoColumns == [n \in Names |-> Absent]
EmptyCatalog == [n \in Names |-> 0]
NoCkpt == [exists |-> FALSE, catalog |-> EmptyCatalog, bats |-> NoBats, snaps |-> NoSnapshots]
NoTr == [tid |-> 0, changes |-> <<>>]
NoTx == [alone |-> FALSE, touched |-> {}, cleared |-> <<>>, dirty |-> FALSE, col |-> NoColumns]

-----------------------------------------------------------------------------
(***************************************************************************)
(* The logger's catalog.  catalog[n] is the bat of column n (0: none), old *)
(* the bats whose entry is below batInserted, snaps[b] the tid of the live *)
(* entry of b in the snapshots table (0: none).                            *)
(***************************************************************************)
Columns(g) == [n \in Names |-> IF g.catalog[n] = 0 THEN Absent ELSE g.bats[g.catalog[n]]]
CatalogBats(g) == {g.catalog[n] : n \in Names} \ {0}

logger_del_bat(g, b) ==
    LET release == b \notin g.old /\ g.snaps[b] = 0
    IN  [g EXCEPT !.catalog = [n \in Names |-> IF @[n] = b THEN 0 ELSE @[n]],
                  !.old = @ \ {b},
                  !.snaps[b] = IF b \in g.old THEN @ ELSE 0,
                  !.freed = IF release THEN @ ELSE @ \cup {b},
                  !.bats[b] = IF release THEN Absent ELSE @,
                  !.changes = TRUE]

logger_add_bat(g, b, n) ==
    IF g.catalog[n] = b THEN g
    ELSE LET h == IF g.catalog[n] = 0 THEN g ELSE logger_del_bat(g, g.catalog[n])
         IN  [h EXCEPT !.catalog[n] = b, !.changes = TRUE]

(* COLnew: a bat in a slot of the BBP that is not in use.                  *)
FreeBids(g) == {b \in Bids : g.bats[b] = Absent}
NewBid(g) == CHOOSE b \in FreeBids(g) : \A c \in FreeBids(g) : b <= c

InsertRow(c, v) == Append(c, v)
UpdateRow(c, v) == IF c = <<>> THEN <<v>> ELSE [c EXCEPT ![1] = v]

-----------------------------------------------------------------------------
(***************************************************************************)
(* Reading a log.  A record is collected with its transaction and applied  *)
(* when the LOG_END of the transaction is read; LOG_SEQ is applied at      *)
(* once.  err is "OK", "EOF" (stop reading) or "ERR" (the start fails).    *)
(***************************************************************************)
avoid_snapshot(g, b) == g.snaps[b] # 0 /\ g.tid <= g.snaps[b]

la_bat_updates(g, c) ==
    LET b == g.catalog[c.name]
    IN  IF b = 0 \/ avoid_snapshot(g, b) THEN g
        ELSE IF g.bats[b] = Absent THEN [g EXCEPT !.err = "ERR"]
        ELSE [g EXCEPT !.bats[b] = IF c.flag = "INSERT" THEN InsertRow(@, c.row)
                                   ELSE UpdateRow(@, c.row)]

la_bat_clear(g, c) ==
    LET b == g.catalog[c.name]
    IN  IF b = 0 \/ avoid_snapshot(g, b) \/ g.bats[b] = Absent THEN g
        ELSE [g EXCEPT !.bats[b] = <<>>]

la_bat_create(g, c) ==
    LET b == NewBid(g) IN logger_add_bat([g EXCEPT !.bats[b] = <<>>], b, c.name)

la_bat_use(g, c) ==
    IF g.bats[c.bid] = Absent THEN [g EXCEPT !.err = "ERR"]
    ELSE [logger_add_bat(g, c.bid, c.name) EXCEPT !.snaps[c.bid] = g.tid]

la_bat_destroy(g, c) ==
    LET b == g.catalog[c.name]
    IN  IF b = 0 THEN g ELSE [logger_del_bat(g, b) EXCEPT !.snaps[b] = 0]

la_apply(g, c) ==
    IF g.err # "OK" THEN g
    ELSE [(CASE c.flag \in {"INSERT", "UPDATE"} -> la_bat_updates(g, c)
             [] c.flag = "CREATE"  -> la_bat_create(g, c)
             [] c.flag = "USE"     -> la_bat_use(g, c)
             [] c.flag = "DESTROY" -> la_bat_destroy(g, c)
             [] c.flag = "CLEAR"   -> la_bat_clear(g, c)) EXCEPT !.changes = TRUE]

Applied(g, changes) ==
    LET after[k \in 0 .. Len(changes)] ==
            IF k = 0 THEN g ELSE la_apply(after[k - 1], changes[k])
    IN  after[Len(changes)]

tr_commit(g) == Applied([g EXCEPT !.tr = NoTr], g.tr.changes)

(* log_read_updates needs the type of the bat: that of the catalog, or of  *)
(* a LOG_CREATE of the same transaction.                                   *)
Typed(g, n) ==
    \/ g.catalog[n] # 0 /\ g.bats[g.catalog[n]] # Absent
    \/ \E i \in 1 .. Len(g.tr.changes) :
          g.tr.changes[i].flag = "CREATE" /\ g.tr.changes[i].name = n

AppliedAtOnce(g, r) ==                \* mutant: a record does not wait for its LOG_END
    CASE r.flag = "START" -> [g EXCEPT !.tid = IF r.tid > @ THEN r.tid ELSE @]
      [] r.flag = "SEQ"   -> [g EXCEPT !.seqs[r.seq] = r.val]
      [] r.flag = "END"   -> g
      [] OTHER            -> la_apply(g, r)

logger_readlog(g, r) ==
    LET h == IF r.flag = "START" \/ g.tr.tid = r.tid THEN g ELSE [g EXCEPT !.tr = NoTr]
    IN  CASE g.err # "OK"      -> g
          [] r.flag = "START"  -> [g EXCEPT !.tid = IF r.tid > @ THEN r.tid ELSE @,
                                            !.tr = [tid |-> r.tid, changes |-> <<>>]]
          [] r.flag = "SEQ"    -> [h EXCEPT !.seqs[r.seq] = r.val]
          [] h.tr = NoTr /\ r.flag # "START" /\ r.flag # "SEQ" -> [h EXCEPT !.err = "EOF"]
          [] h.tr # NoTr /\ r.flag = "END" -> tr_commit(h)
          [] h.tr # NoTr /\ r.flag \in {"INSERT", "UPDATE"} /\ ~Typed(h, r.name)
                               -> [h EXCEPT !.err = "ERR"]
          [] OTHER             -> [h EXCEPT !.tr.changes = Append(@, r)]

Replayed(g, records) ==
    LET after[k \in 0 .. Len(records)] ==
            IF k = 0 THEN g ELSE logger_readlog(after[k - 1], records[k])
    IN  after[Len(records)]

(* What is left open at the end of the log was not committed.              *)
NotAborted(g) == g                      \* mutant: the open transaction is kept
tr_abort(g) == [g EXCEPT !.tr = NoTr, !.err = "OK"]

(* The state of the logger before it reads a log: what the BBP recovered.  *)
Loaded(id) ==
    [id |-> id, tid |-> 0, changes |-> FALSE, seqs |-> NoSeqs,
     catalog |-> ckpt.catalog, old |-> CatalogBats(ckpt), bats |-> ckpt.bats,
     snaps |-> ckpt.snaps, freed |-> {}, tr |-> NoTr, err |-> "OK"]

(* logger_load restores log.bak if there is one and reads the file named   *)
(* in log; a file that does not exist has nothing to read back.            *)
LogList == IF bak # Absent THEN bak ELSE master
LogRecords(k) == IF k \in Ids /\ wal[k] # Absent THEN wal[k] ELSE <<>>

Recovered == Replayed(Loaded(LogList), LogRecords(LogList))

-----------------------------------------------------------------------------
(***************************************************************************)
(* The windows in which the code relies on not being interrupted.          *)
(*   created    log is written, the catalog and its tables are not yet in  *)
(*              a checkpoint                                               *)
(*   truncated  recovery has opened the log it has read for writing, and   *)
(*              has not yet taken a checkpoint of what was in it           *)
(*   committed  the checkpoint holds the changes of the log, and log.bak   *)
(*              still names that log                                       *)
(*   reopened   log names the new log, which has no sequence numbers yet   *)
(*   cleaned    some of the old logs are removed, others are not (only in  *)
(*              Crash: the state is as good as any other for a recovery)   *)
(***************************************************************************)
Window ==
    CASE pc = "create" -> "created"
      [] pc \in {"opening", "exit", "newlog", "bmcommit"} /\ boot /\ lg.changes -> "truncated"
      [] pc \in {"writeid", "switch"} /\ ~boot -> "committed"
      [] pc \in {"opening", "reopen", "reopening"} -> "reopened"
      [] pc = "open" /\ wal[lg.id] = Absent -> "reopened"
      [] OTHER -> "none"

Init ==
    /\ master = Absent /\ bak = Absent
    /\ baks = [k \in Ids |-> Absent] /\ wal = [k \in Ids |-> Absent]
    /\ ckpt = NoCkpt
    /\ lg = Loaded(1)
    /\ buf = <<>> /\ pc = "down" /\ boot = FALSE /\ tx = NoTx /\ cleaning = "none" /\ oldId = 0
    /\ col = NoColumns /\ seq = 0
    /\ ntx = 0 /\ stops = 0 /\ flushes = 0

bounds == <<ntx, stops, flushes>>

-----------------------------------------------------------------------------
(***************************************************************************)
(* Start: logger_create                                                    *)
(***************************************************************************)
(* No catalog yet: write the file log.  With a log file but no catalog, or *)
(* a catalog but no log file, the start is refused.                        *)
CreateLog ==
    /\ pc = "down" /\ ~ckpt.exists
    /\ master' = IF LogList = Absent THEN 2 ELSE LogList
    /\ bak' = Absent
    /\ pc' = IF LogList = Absent THEN "create" ELSE "refused"
    /\ boot' = TRUE
    /\ UNCHANGED <<baks, wal, ckpt, lg, buf, tx, cleaning, oldId, col, seq, bounds>>

(* Two subcommits: of the empty catalog, then of the snapshots table that  *)
(* logger_add_bat has entered in it.  They are a change, so that this      *)
(* start goes on to restart its log, in which there is nothing.            *)
CreateCatalog ==
    /\ pc = "create"
    /\ ckpt' = [ckpt EXCEPT !.exists = TRUE]
    /\ lg' = [Loaded(2) EXCEPT !.seqs[LOG_SID] = 2, !.changes = TRUE]
    /\ pc' = "open"
    /\ UNCHANGED <<dirVars, buf, boot, tx, cleaning, oldId, col, seq, bounds>>

logger_load ==
    /\ pc = "down" /\ ckpt.exists
    /\ master' = LogList /\ bak' = Absent
    /\ boot' = TRUE
    /\ IF LogList \in Ids /\ Recovered.err # "ERR"
       THEN /\ lg' = tr_abort(Recovered)
            /\ col' = Columns(Recovered)
            /\ seq' = Recovered.seqs[OBJ_SID]
            /\ pc' = "open"
       ELSE /\ pc' = "refused"
            /\ UNCHANGED <<lg, col, seq>>
    /\ UNCHANGED <<baks, wal, ckpt, buf, tx, cleaning, oldId, bounds>>

-----------------------------------------------------------------------------
(***************************************************************************)
(* logger_open: opening the file truncates it; then all sequence numbers   *)
(* are written to it and synced.                                           *)
(***************************************************************************)
SeqRecord(s, v, t) == [flag |-> "SEQ", tid |-> t, seq |-> s, val |-> v]

SeqRecords(g, s) == IF g.seqs[s] = 0 THEN <<>> ELSE <<SeqRecord(s, g.seqs[s], g.tid)>>

NoLogSid(g) == SeqRecords(g, OBJ_SID)   \* mutant: LOG_SID, being known, is not written
OnlyLogSid(g) ==                        \* mutant: the numbers of the store are not carried over
    <<SeqRecord(LOG_SID, g.seqs[LOG_SID], g.tid)>>

log_sequence_nrs(g) == SeqRecords(g, LOG_SID) \o SeqRecords(g, OBJ_SID)

logger_open ==
    /\ pc \in {"open", "reopen"}
    /\ wal' = [wal EXCEPT ![lg.id] = <<>>]
    /\ buf' = log_sequence_nrs(lg)
    /\ pc' = IF pc = "open" THEN "opening" ELSE "reopening"
    /\ UNCHANGED <<master, bak, baks, ckpt, lg, boot, tx, cleaning, oldId, col, seq, bounds>>

SyncLog(records) ==
    /\ wal' = [wal EXCEPT ![lg.id] = @ \o records]
    /\ buf' = <<>>

(* After a start that replayed changes, and after the first, logger_create *)
(* restarts the log; a restart is followed by the clean-up.                *)
OpenSynced ==
    /\ pc \in {"opening", "reopening"}
    /\ SyncLog(buf)
    /\ pc' = IF pc = "opening" /\ lg.changes THEN "exit" ELSE "idle"
    /\ cleaning' = IF pc = "reopening" THEN "log" ELSE "none"
    /\ boot' = (boot /\ (pc = "reopening" \/ lg.changes))
    /\ UNCHANGED <<master, bak, baks, ckpt, lg, tx, oldId, col, seq, bounds>>

-----------------------------------------------------------------------------
(***************************************************************************)
(* logger_exit and the restart of the log by the store manager             *)
(***************************************************************************)
(* store_manager: when no transaction is active, gtr_update merges the     *)
(* deltas into the bats of the catalog and the log is restarted.           *)
store_manager ==
    /\ pc = "idle" /\ ~boot /\ cleaning = "none" /\ flushes < MaxFlushes
    /\ lg' = [lg EXCEPT !.bats = [b \in Bids |->
                 IF b \in CatalogBats(lg)
                 THEN col[CHOOSE n \in Names : lg.catalog[n] = b] ELSE @[b]]]
    /\ flushes' = flushes + 1
    /\ pc' = "exit"
    /\ UNCHANGED <<dirVars, ckpt, buf, boot, tx, cleaning, oldId, col, seq, ntx, stops>>

ExitRename ==
    /\ pc = "exit"
    /\ bak' = master /\ master' = Absent
    /\ pc' = "newlog"
    /\ UNCHANGED <<baks, wal, ckpt, lg, buf, boot, tx, cleaning, oldId, col, seq, bounds>>

ExitNewFile ==
    /\ pc = "newlog"
    /\ master' = 0
    /\ lg' = [lg EXCEPT !.id = @ + 1]
    /\ pc' = "bmcommit"
    /\ UNCHANGED <<bak, baks, wal, ckpt, buf, boot, tx, cleaning, oldId, col, seq, bounds>>

(* logger_commit and bm_commit: the freed bats become transient, and the   *)
(* whole catalog with its bats is subcommitted.                            *)
Subcommitted(g, bats) == [b \in Bids |-> IF b \in bats THEN g.bats[b]
                                         ELSE IF b \in g.freed THEN Absent
                                         ELSE ckpt.bats[b]]

SnapshotsStay == lg.snaps               \* mutant: the snapshots table is not emptied
SnapshotsDone == NoSnapshots

logger_commit ==
    /\ pc = "bmcommit"
    /\ ckpt' = [ckpt EXCEPT !.catalog = lg.catalog, !.snaps = SnapshotsDone,
                            !.bats = Subcommitted(lg, CatalogBats(lg))]
    /\ lg' = [lg EXCEPT !.seqs[LOG_SID] = lg.id, !.snaps = SnapshotsDone,
                        !.old = CatalogBats(lg), !.freed = {},
                        !.bats = [b \in Bids |-> IF b \in lg.freed THEN Absent ELSE @[b]]]
    /\ pc' = "writeid"
    /\ UNCHANGED <<dirVars, buf, boot, tx, cleaning, oldId, col, seq, bounds>>

ExitWriteId ==
    /\ pc = "writeid"
    /\ master' = lg.id
    /\ pc' = "switch"
    /\ UNCHANGED <<bak, baks, wal, ckpt, lg, buf, boot, tx, cleaning, oldId, col, seq, bounds>>

ExitSwitch ==
    /\ pc = "switch"
    /\ baks' = [baks EXCEPT ![lg.id] = bak] /\ bak' = Absent
    /\ lg' = [lg EXCEPT !.changes = FALSE]
    /\ pc' = "reopen"
    /\ UNCHANGED <<master, wal, ckpt, buf, boot, tx, cleaning, oldId, col, seq, bounds>>

-----------------------------------------------------------------------------
(***************************************************************************)
(* logger_cleanup: without bs_lock, so that transactions go on.            *)
(***************************************************************************)
CleanupLog ==
    /\ cleaning = "log"
    /\ wal' = IF KeepLogs = 0 THEN [wal EXCEPT ![baks[lg.id]] = Absent] ELSE wal
    /\ cleaning' = "bak"
    /\ UNCHANGED <<master, bak, baks, ckpt, lg, buf, pc, boot, tx, oldId, col, seq, bounds>>

OneTooMany == lg.id - KeepLogs          \* mutant: one log less is kept
FirstOld == lg.id - KeepLogs - 1

CleanupBak ==
    /\ cleaning = "bak"
    /\ baks' = [baks EXCEPT ![lg.id] = Absent]
    /\ cleaning' = IF KeepLogs > 0 THEN "old" ELSE "none"
    /\ oldId' = IF KeepLogs > 0 THEN FirstOld ELSE 0
    /\ boot' = (boot /\ KeepLogs > 0)
    /\ UNCHANGED <<master, bak, wal, ckpt, lg, buf, pc, tx, col, seq, bounds>>

(* logger_cleanup_old: downwards from the first file not to be kept, until *)
(* neither a log nor a bak file of that number is found.                   *)
CleanupOld ==
    /\ cleaning = "old"
    /\ IF oldId \in Ids /\ (wal[oldId] # Absent \/ baks[oldId] # Absent)
       THEN /\ wal' = [wal EXCEPT ![oldId] = Absent]
            /\ baks' = [baks EXCEPT ![oldId] = Absent]
            /\ oldId' = oldId - 1
            /\ UNCHANGED <<cleaning, boot>>
       ELSE /\ cleaning' = "none" /\ oldId' = 0
            /\ boot' = FALSE
            /\ UNCHANGED <<wal, baks>>
    /\ UNCHANGED <<master, bak, ckpt, lg, buf, pc, tx, col, seq, bounds>>

-----------------------------------------------------------------------------
(***************************************************************************)
(* A transaction: sql_trans_commit                                         *)
(***************************************************************************)
Rec(flag, n) == [flag |-> flag, tid |-> lg.tid, name |-> n, row |-> ntx]
Use(b, n)    == [flag |-> "USE", tid |-> lg.tid, name |-> n, bid |-> b]
Write(records) == buf' = buf \o records

(* alone: is this the only active transaction (store_nr_active = 1)?       *)
log_tstart ==
    /\ pc = "idle" /\ ~boot /\ ntx < MaxTx
    /\ \E alone \in BOOLEAN : tx' = [NoTx EXCEPT !.alone = alone, !.col = col]
    /\ lg' = [lg EXCEPT !.tid = @ + 1]
    /\ Write(<<[flag |-> "START", tid |-> lg.tid + 1]>>)
    /\ ntx' = ntx + 1
    /\ pc' = "tx"
    /\ UNCHANGED <<dirVars, ckpt, boot, cleaning, oldId, col, seq, stops, flushes>>

(* log_bat_persists with a bat that is already PERSISTENT: a snapshot.     *)
Snapshot(g, b, n, contents) ==
    [logger_add_bat([g EXCEPT !.bats[b] = contents], b, n) EXCEPT !.snaps[b] = g.tid]

(* A new column; a large one is logged as a snapshot.                      *)
log_create_delta(n) ==
    /\ pc = "tx" /\ tx.col[n] = Absent /\ FreeBids(lg) # {}
    /\ \E large, filled \in BOOLEAN :
         LET b == NewBid(lg)
             contents == IF filled THEN <<ntx>> ELSE <<>>
         IN  /\ large => filled
             /\ lg' = IF large THEN Snapshot(lg, b, n, contents)
                      ELSE logger_add_bat([lg EXCEPT !.bats[b] = contents], b, n)
             /\ Write(IF large THEN <<Use(b, n)>>
                      ELSE IF filled THEN <<Rec("CREATE", n), Rec("INSERT", n)>>
                      ELSE <<Rec("CREATE", n)>>)
             /\ tx' = [tx EXCEPT !.touched = @ \cup {n}, !.col[n] = contents,
                                 !.dirty = @ \/ large]
    /\ UNCHANGED <<dirVars, ckpt, pc, boot, cleaning, oldId, col, seq, bounds>>

(* A changed column.  A large insert into an empty column makes the bat    *)
(* with the inserted rows the new bat of the column.                       *)
tr_log_delta(n) ==
    /\ pc = "tx" /\ n \notin tx.touched /\ tx.col[n] # Absent /\ FreeBids(lg) # {}
    /\ \E cleared, inserted, updated, large \in BOOLEAN :
         LET base == IF cleared THEN <<>> ELSE lg.bats[lg.catalog[n]]
             snapshot == inserted /\ large /\ tx.alone /\ base = <<>>
             ins == IF inserted THEN InsertRow(IF cleared THEN <<>> ELSE col[n], ntx)
                    ELSE IF cleared THEN <<>> ELSE col[n]
             b == NewBid(lg)
         IN  /\ cleared \/ inserted \/ updated
             /\ large => snapshot
             /\ updated => base # <<>>
             /\ lg' = IF snapshot THEN Snapshot(lg, b, n, ins)
                      ELSE [lg EXCEPT !.changes = TRUE]
             /\ Write((IF cleared THEN <<Rec("CLEAR", n)>> ELSE <<>>) \o
                      (IF snapshot THEN <<Use(b, n)>>
                       ELSE IF inserted THEN <<Rec("INSERT", n)>> ELSE <<>>) \o
                      (IF updated THEN <<Rec("UPDATE", n)>> ELSE <<>>))
             /\ tx' = [tx EXCEPT !.touched = @ \cup {n},
                                 !.cleared = IF cleared /\ ~snapshot THEN Append(@, n) ELSE @,
                                 !.col[n] = IF updated THEN UpdateRow(ins, ntx) ELSE ins,
                                 !.dirty = @ \/ snapshot]
    /\ UNCHANGED <<dirVars, ckpt, pc, boot, cleaning, oldId, col, seq, bounds>>

(* A dropped column: log_bat_transient, which marks the entry of a         *)
(* snapshot with this transaction, then logger_del_bat.                    *)
log_destroy_delta(n) ==
    /\ pc = "tx" /\ n \notin tx.touched /\ tx.col[n] # Absent
    /\ LET b == lg.catalog[n]
           g == [lg EXCEPT !.snaps[b] = IF @ # 0 THEN lg.tid ELSE 0]
       IN  /\ lg' = logger_del_bat(g, b)
           /\ tx' = [tx EXCEPT !.touched = @ \cup {n}, !.col[n] = Absent,
                               !.dirty = @ \/ lg.snaps[b] # 0]
    /\ Write(<<Rec("DESTROY", n)>>)
    /\ UNCHANGED <<dirVars, ckpt, pc, boot, cleaning, oldId, col, seq, bounds>>

(* log_tend: first the new snapshots are subcommitted, then the LOG_END is *)
(* written, then the log is flushed and synced.                            *)
NeverDirty == FALSE                     \* mutant: bats of snapshots are left to the next commit
SnapshotsDirty == tx.dirty

TendSnapshots ==
    /\ pc \in {"tx", "txlogged"}
    /\ ckpt' = IF SnapshotsDirty
               THEN [ckpt EXCEPT !.snaps = lg.snaps,
                                 !.bats = [b \in Bids |-> IF lg.snaps[b] = lg.tid
                                                          THEN lg.bats[b] ELSE @[b]]]
               ELSE ckpt
    /\ pc' = "tend"
    /\ UNCHANGED <<dirVars, lg, buf, boot, tx, cleaning, oldId, col, seq, bounds>>

TendWrite ==
    /\ pc = "tend"
    /\ Write(<<[flag |-> "END", tid |-> lg.tid]>>)
    /\ pc' = "sync"
    /\ UNCHANGED <<dirVars, ckpt, lg, boot, tx, cleaning, oldId, col, seq, bounds>>

NotSynced ==                            \* mutant: the log is not flushed
    /\ pc = "sync"
    /\ col' = tx.col
    /\ pc' = "apply"
    /\ UNCHANGED <<dirVars, buf, ckpt, lg, boot, tx, cleaning, oldId, seq, bounds>>

TendSync ==
    /\ pc = "sync"
    /\ SyncLog(buf)
    /\ col' = tx.col
    /\ pc' = "apply"
    /\ UNCHANGED <<master, bak, baks, ckpt, lg, boot, tx, cleaning, oldId, seq, bounds>>

(* rollforward_trans(R_APPLY), update_table: a transaction that is alone   *)
(* merges its changes into the bats; otherwise they stay in the deltas,    *)
(* but a cleared column gets a new bat in the catalog (empty_col).         *)
empty_col(g, n) ==
    LET b == NewBid(g) IN logger_add_bat([g EXCEPT !.bats[b] = tx.col[n]], b, n)
NewBats(g, names) ==
    LET after[k \in 0 .. Len(names)] ==
            IF k = 0 THEN g ELSE empty_col(after[k - 1], names[k])
    IN  after[Len(names)]

RollforwardApply ==
    /\ pc = "apply"
    /\ lg' = IF tx.alone
             THEN [lg EXCEPT !.bats = [b \in Bids |->
                      IF \E n \in tx.touched : lg.catalog[n] = b
                      THEN tx.col[CHOOSE n \in tx.touched : lg.catalog[n] = b] ELSE @[b]]]
             ELSE NewBats(lg, tx.cleared)
    /\ tx' = NoTx
    /\ pc' = "idle"
    /\ UNCHANGED <<dirVars, ckpt, buf, boot, cleaning, oldId, col, seq, bounds>>

(* log_sequence: by itself, or in sql_trans_commit just before log_tend.   *)
log_sequence ==
    /\ pc \in {"idle", "tx"} /\ ~boot /\ lg.seqs[OBJ_SID] < MaxSeq
    /\ lg' = [lg EXCEPT !.seqs[OBJ_SID] = @ + 1]
    /\ Write(<<SeqRecord(OBJ_SID, lg.seqs[OBJ_SID] + 1, lg.tid)>>)
    /\ pc' = IF pc = "idle" THEN "seq" ELSE "txseq"
    /\ UNCHANGED <<dirVars, ckpt, boot, tx, cleaning, oldId, col, seq, bounds>>

SequenceSync ==
    /\ pc \in {"seq", "txseq"}
    /\ SyncLog(buf)
    /\ seq' = lg.seqs[OBJ_SID]
    /\ pc' = IF pc = "seq" THEN "idle" ELSE "txlogged"
    /\ UNCHANGED <<master, bak, baks, ckpt, lg, boot, tx, cleaning, oldId, col, bounds>>

-----------------------------------------------------------------------------
(* The memory is gone; the log keeps the first k of the records that were  *)
(* not synced.  A transaction or a sequence number that was being synced   *)
(* is committed if all of them made it.                                    *)
Stop(k) ==
    /\ wal' = IF k = 0 THEN wal ELSE [wal EXCEPT ![lg.id] = @ \o SubSeq(buf, 1, k)]
    /\ col' = IF pc = "sync" /\ k = Len(buf) THEN tx.col ELSE col
    /\ seq' = IF pc \in {"seq", "txseq"} /\ k = Len(buf) THEN lg.seqs[OBJ_SID] ELSE seq
    /\ lg' = Loaded(1)
    /\ buf' = <<>> /\ pc' = "down" /\ boot' = FALSE /\ tx' = NoTx /\ cleaning' = "none" /\ oldId' = 0
    /\ stops' = stops + 1
    /\ UNCHANGED <<master, bak, baks, ckpt, ntx, flushes>>

Crash ==
    /\ pc \notin {"down", "refused"} /\ stops < MaxStops
    /\ Window \in CrashWindows \cup {"none"}
    /\ cleaning = "old" /\ oldId < FirstOld => "cleaned" \in CrashWindows
    /\ \E k \in 0 .. Len(buf) : Stop(k)

(* store_exit waits for the store manager, then bl_destroy closes the log. *)
Shutdown ==
    /\ pc = "idle" /\ ~boot /\ cleaning = "none" /\ stops < MaxStops
    /\ Stop(Len(buf))

Start == CreateLog \/ CreateCatalog \/ logger_load \/ logger_open \/ OpenSynced
Restart == store_manager \/ ExitRename \/ ExitNewFile \/ logger_commit \/ ExitWriteId \/ ExitSwitch
Cleanup == CleanupLog \/ CleanupBak \/ CleanupOld
Transaction ==
    \/ log_tstart
    \/ \E n \in Names : log_create_delta(n) \/ tr_log_delta(n) \/ log_destroy_delta(n)
    \/ TendSnapshots \/ TendWrite \/ TendSync \/ RollforwardApply
    \/ log_sequence \/ SequenceSync

Next == Start \/ Restart \/ Cleanup \/ Transaction \/ Crash \/ Shutdown

Spec == Init /\ [][Next]_vars

-----------------------------------------------------------------------------
(***************************************************************************)
(* Properties                                                              *)
(***************************************************************************)
LogIds == Ids \cup {Absent}
Pcs == {"down", "refused", "create", "open", "opening", "reopen", "reopening", "exit", "newlog",
        "bmcommit", "writeid", "switch", "idle", "tx", "tend", "sync", "apply", "seq", "txseq",
        "txlogged"}

TypeOK ==
    /\ master \in LogIds \cup {0} /\ bak \in LogIds /\ baks \in [Ids -> LogIds]
    /\ wal \in [Ids -> Seq(Records) \cup {Absent}]
    /\ ckpt.catalog \in [Names -> Bids \cup {0}] /\ ckpt.snaps \in [Bids -> 0 .. MaxTx]
    /\ ckpt.bats \in [Bids -> Contents \cup {Absent}]
    /\ lg.catalog \in [Names -> Bids \cup {0}] /\ lg.snaps \in [Bids -> 0 .. MaxTx]
    /\ lg.bats \in [Bids -> Contents \cup {Absent}]
    /\ lg.old \subseteq Bids /\ lg.freed \subseteq Bids
    /\ lg.id \in Ids \cup {1} /\ lg.tid \in 0 .. MaxTx
    /\ lg.tr = NoTr /\ lg.err = "OK"
    /\ pc \in Pcs /\ cleaning \in {"none", "log", "bak", "old"}
    /\ oldId \in -KeepLogs .. 3 + MaxStops + MaxFlushes
    /\ col \in [Names -> Contents \cup {Absent}] /\ seq \in 0 .. MaxSeq

(* "In case of failure, the log will be replayed" (sql_trans_commit): at   *)
(* every moment a restart finds exactly the committed transactions, each   *)
(* applied once, and nothing of the others.  The replay does not fail: it   *)
(* finds every bat it needs, also the snapshots that were dropped later.   *)
Durable ==
    Window = "none" => LET r == Recovered
                       IN  r.err # "ERR" /\ Columns(r) = col

(* A restart finds the last value that log_sequence has recorded: numbers  *)
(* that were handed out are not handed out again (gdk_logger.h).           *)
SequencesSurvive == Window = "none" => Recovered.seqs[OBJ_SID] = seq

(* The start after a stop is never refused: at every moment log and        *)
(* catalog exist both or neither, and the log names its file.              *)
Bootable ==
    /\ pc # "refused"
    /\ Window = "none" => /\ ckpt.exists <=> LogList # Absent
                          /\ ckpt.exists => LogList \in Ids

(* logger_commit finds the LOG_SID entry it overwrites, and the clean-up   *)
(* finds the file that names the log to remove.                            *)
EntriesFound ==
    /\ pc = "bmcommit" => lg.seqs[LOG_SID] # 0
    /\ cleaning \in {"log", "bak"} => baks[lg.id] \in Ids

(* Transaction numbers start again at 1 after a restart with an empty log, *)
(* and avoid_snapshot compares them with numbers in the checkpoint: no     *)
(* column has a snapshot from a transaction that is still to come, whose   *)
(* changes a replay would skip.                                            *)
SnapshotsPast ==
    pc \notin {"down", "refused"} =>
        \A b \in CatalogBats(lg) : lg.snaps[b] <= lg.tid

(* "Keeps only the number of files set in lg->keep_persisted_log_files":   *)
(* the clean-up ends with the log in use and as many older ones, whatever  *)
(* was left behind by processes that died before their clean-up.           *)
CleanupExact ==
    [][(CleanupBak \/ CleanupOld) /\ cleaning' = "none" =>
            {k \in Ids : wal'[k] # Absent} =
            {k \in Ids : lg.id - KeepLogs <= k /\ k <= lg.id}]_vars
=============================================================================
