------------------------------ MODULE SQLTrans ------------------------------
(***************************************************************************)
(* The transactions of the SQL store (store.c, bat_storage.c, sql_mvc.c).  *)
(*                                                                         *)
(* The global transaction holds for every column a chain of versions, the  *)
(* newest first.  A session works on a private copy of the catalog: it     *)
(* binds a column to a version when it first needs it, and makes a delta   *)
(* of its own when it first changes it.  Columns and tables carry the time *)
(* they were last read and written, in the private copies and in the       *)
(* global one; a commit compares them.                                     *)
(*                                                                         *)
(* store_lock is held from the beginning to the end of Begin, mvc_commit,  *)
(* mvc_rollback and store_apply_deltas; the other operations take no lock. *)
(* The rows of a column are the set of the write stamps of the             *)
(* transactions that added some.                                           *)
(***************************************************************************)
EXTENDS Naturals, Sequences, FiniteSets

CONSTANTS
    Sessions,
    Columns,
    Tables,
    TableOf,      \* the table of each column
    Uses,         \* what the sessions do with each column: some of "bind",
                  \* "count", "append", "update", "clear" (its table)
    Reopened,     \* no transaction has committed since the database was opened
    Overtaking,   \* a transaction may commit although younger ones have
                  \* committed and a session has begun since
    MaxStamp,     \* bound on the time stamps
    MaxEffort,    \* bound on the distinct operations of a transaction
    MaxSchema     \* bound on the changes of the schema

ASSUME SQLTransAssumption ==
    /\ TableOf \in [Columns -> Tables]
    /\ Uses \in [Columns -> SUBSET {"bind", "count", "append", "update", "clear"}]
    /\ Reopened \in BOOLEAN /\ Overtaking \in BOOLEAN
    /\ MaxStamp \in Nat \ {0} /\ MaxEffort \in Nat /\ MaxSchema \in Nat

VARIABLES
    stamp,    \* the last time stamp given out
    gtrans,   \* [wtime, wstime, schema_number] of the global transaction
    chain,    \* its versions of each column
    cwtime,   \* its write time of each column
    gtab,     \* its read and write time of each table
    tr,       \* the transaction of each session
    hist      \* history: what each session has done since it began, and the
              \* contents that were committed then

vars == <<stamp, gtrans, chain, cwtime, gtab, tr, hist>>

Stamps == 0..MaxStamp
Larger(a, b) == IF a > b THEN a ELSE b

-----------------------------------------------------------------------------
(* Versions                                                                 *)

Version(wtime, rows, ins) == [wtime |-> wtime, rows |-> rows, ins |-> ins]

Unbound      == [at |-> "none", v |-> Version(0, {}, FALSE)]
Shared(v)    == [at |-> "chain", v |-> v]     \* only v.wtime counts: a pointer
Own(v)       == [at |-> "own", v |-> v]

Pointer(v) == Shared(Version(v.wtime, {}, FALSE))

NewestAlways(versions, ts) == Head(versions)    \* mutant: reads what is committed last

\* The first version not younger than ts, or the oldest there is.
timestamp_delta(versions, ts) ==
    LET old == {i \in DOMAIN versions : versions[i].wtime <= ts}
    IN versions[IF old = {} THEN Len(versions)
                            ELSE CHOOSE i \in old : \A j \in old : i <= j]

\* The version a session works on: its own delta, the one it is bound to, or
\* the one it would be bound to now.
Found(s, c) == {v \in {chain[c][i] : i \in DOMAIN chain[c]} :
                    v.wtime = tr[s].data[c].v.wtime}

Bound(s, c) ==
    CASE tr[s].data[c].at = "own"   -> tr[s].data[c].v
      [] tr[s].data[c].at = "chain" -> CHOOSE v \in Found(s, c) : TRUE
      [] OTHER                      -> timestamp_delta(chain[c], tr[s].stime)

\* The delta of a session's own: a copy of the version of its start time.
dup_bat(s, c) == IF tr[s].data[c].at = "own" THEN tr[s].data[c].v
                 ELSE timestamp_delta(chain[c], tr[s].stime)

-----------------------------------------------------------------------------
(* Begin                                                                    *)

Times == [rtime |-> 0, wtime |-> 0]

NewTrans == [active |-> FALSE, stime |-> 0, wstime |-> 0, wtime |-> 0,
             schema_number |-> 0, schema_updates |-> FALSE,
             tab  |-> [t \in Tables |-> Times],
             col  |-> [c \in Columns |-> Times],
             data |-> [c \in Columns |-> Unbound]]

Committed == [rows   |-> [c \in Columns |-> Head(chain[c]).rows],
              schema |-> gtrans.schema_number]

Store == INSTANCE SerialStore
             WITH Marks <- Stamps, db <- Committed, work <- hist

Init ==
    /\ stamp = 1
    /\ gtrans = [wtime |-> IF Reopened THEN 0 ELSE 1, wstime |-> 1, schema_number |-> 0]
    /\ chain = [c \in Columns |-> <<Version(0, {0}, FALSE)>>]
    /\ cwtime = [c \in Columns |-> 0]
    /\ gtab = [t \in Tables |-> Times]
    /\ tr = [s \in Sessions |-> NewTrans]
    /\ hist = [s \in Sessions |-> Store!Idle]

Touched(times) == times.rtime # 0 \/ times.wtime # 0

\* Forgets what the last transaction of the session did, and what others
\* have changed since it began.
ResetTable(x, t)  == Touched(x.tab[t]) \/ x.stime < gtab[t].wtime

ResetColumn(x, c) == /\ ResetTable(x, TableOf[c])
                     /\ Touched(x.col[c]) \/ x.stime < cwtime[c]

reset_trans(x) ==
    [x EXCEPT !.wtime = 0,
              !.tab  = [t \in Tables |-> Times],
              !.col  = [c \in Columns |-> Times],
              !.data = [c \in Columns |-> IF ResetColumn(x, c) THEN Unbound
                                                               ELSE @[c]]]

MustReset(x) == \/ x.stime < gtrans.wstime
                \/ x.wtime # 0
                \/ x.schema_number # gtrans.schema_number

trans_init(x) ==
    [x EXCEPT !.active = TRUE, !.wtime = 0, !.stime = gtrans.wtime,
              !.wstime = stamp + 1, !.schema_updates = FALSE,
              !.schema_number = gtrans.schema_number]

sql_trans_begin(s) ==
    /\ ~tr[s].active
    /\ stamp < MaxStamp
    /\ stamp' = stamp + 1
    /\ tr' = [tr EXCEPT ![s] = trans_init(IF MustReset(@) THEN reset_trans(@) ELSE @)]
    /\ hist' = [hist EXCEPT ![s] = Store!Begun(stamp + 1, Committed)]
    /\ UNCHANGED <<gtrans, chain, cwtime, gtab>>

-----------------------------------------------------------------------------
(* Reads and writes of a session, without a lock                            *)

BindTo(s, c) == IF tr[s].data[c].at = "none"
                THEN Pointer(timestamp_delta(chain[c], tr[s].stime))
                ELSE tr[s].data[c]

\* Bounds what a transaction does.
Effort(s) == Cardinality(hist[s].read) + Cardinality(hist[s].added)
                + Cardinality({TableOf[c] : c \in hist[s].cleared})
                + Cardinality({c \in Columns \ hist[s].read : tr[s].data[c].at = "chain"})
                + (IF hist[s].altered THEN 1 ELSE 0)

Operating(s) == /\ tr[s].active
                /\ Effort(s) < MaxEffort
                /\ UNCHANGED <<stamp, gtrans, chain, cwtime, gtab>>

Working(s, use, c) == use \in Uses[c] /\ Operating(s)

bind_col(s, c) ==
    /\ Working(s, "bind", c)
    /\ tr' = [tr EXCEPT ![s].data[c] = BindTo(s, c),
                        ![s].col[c].rtime = tr[s].stime,
                        ![s].tab[TableOf[c]].rtime = tr[s].stime]
    /\ hist' = [hist EXCEPT ![s].read = @ \union {c}]

\* The number of rows of a column: binds it, but leaves no read time.
count_col(s, c) ==
    /\ Working(s, "count", c)
    /\ tr' = [tr EXCEPT ![s].data[c] = BindTo(s, c)]
    /\ UNCHANGED hist

Inserted(s, c) ==
    LET v == dup_bat(s, c)
    IN Own(Version(tr[s].wstime, v.rows \union {tr[s].wstime}, TRUE))

append_col(s, c) ==
    /\ Working(s, "append", c)
    /\ tr' = [tr EXCEPT ![s].data[c] = Inserted(s, c),
                        ![s].wtime = tr[s].wstime,
                        ![s].col[c].wtime = tr[s].wstime,
                        ![s].tab[TableOf[c]] = [rtime |-> tr[s].stime,
                                                wtime |-> tr[s].wstime]]
    /\ hist' = [hist EXCEPT ![s].added = @ \union {c}]

update_col(s, c) ==
    /\ Working(s, "update", c)
    /\ LET now == [rtime |-> tr[s].stime, wtime |-> tr[s].wstime] IN
       tr' = [tr EXCEPT ![s].data[c] = Inserted(s, c),
                        ![s].wtime = tr[s].wstime,
                        ![s].col[c] = now,
                        ![s].tab[TableOf[c]] = now]
    /\ hist' = [hist EXCEPT ![s].added = @ \union {c}, ![s].read = @ \union {c}]

sql_trans_clear_table(s, t) ==
    LET cleared == {c \in Columns : TableOf[c] = t} IN
    /\ \E c \in cleared : Working(s, "clear", c)
    /\ tr' = [tr EXCEPT
                ![s].data = [c \in Columns |->
                    IF c \in cleared THEN Own(Version(tr[s].wstime, {}, FALSE)) ELSE @[c]],
                ![s].col = [c \in Columns |->
                    IF c \in cleared THEN [@[c] EXCEPT !.wtime = tr[s].wstime] ELSE @[c]],
                ![s].tab[t].wtime = tr[s].wstime,
                ![s].wtime = tr[s].wstime]
    /\ hist' = [hist EXCEPT ![s].added = @ \ cleared, ![s].cleared = @ \union cleared]

\* A change of the catalog.
schema_update(s) ==
    /\ Operating(s)
    /\ gtrans.schema_number < MaxSchema
    /\ tr' = [tr EXCEPT ![s].schema_updates = TRUE, ![s].wtime = tr[s].wstime]
    /\ hist' = [hist EXCEPT ![s].altered = TRUE]

-----------------------------------------------------------------------------
(* The end of a transaction                                                 *)

Ended(x) == [x EXCEPT !.active = FALSE]

\* No other transaction is active: store_nr_active = 1.
Alone(s) == \A o \in Sessions \ {s} : ~tr[o].active

WritesOnly(x, t) ==                   \* mutant: reads are not validated
    x.tab[t].wtime # 0 => /\ x.tab[t].wtime >= gtab[t].rtime
                          /\ x.tab[t].wtime >= gtab[t].wtime

validate_table(x, t) ==
    /\ x.tab[t].wtime # 0 => /\ x.tab[t].wtime >= gtab[t].rtime
                             /\ x.tab[t].wtime >= gtab[t].wtime
    /\ x.tab[t].rtime # 0 => x.tab[t].rtime >= gtab[t].wtime

sql_trans_validate(s) ==
    /\ tr[s].schema_number = gtrans.schema_number
    /\ \A t \in Tables : validate_table(tr[s], t)

\* Nothing to commit: the transaction just ends.
CommitNothing(s) ==
    /\ tr[s].active /\ tr[s].wtime = 0
    /\ tr' = [tr EXCEPT ![s] = Ended(@)]
    /\ hist' = [hist EXCEPT ![s] = Store!Idle]
    /\ UNCHANGED <<stamp, gtrans, chain, cwtime, gtab>>

Restamped(c, rows) == <<Version(stamp, rows, FALSE)>>   \* mutant: the merged version gets a new time
\* Merging makes the rows those of the head, which keeps its time, and destroys
\* the versions below it.
Merged(c, rows)    == <<Version(Head(chain[c]).wtime, rows, FALSE)>>
tr_update_delta(c, own) == Merged(c, own.rows)
tr_merge_delta(c)       == Merged(c, Head(chain[c]).rows)
gtr_update_delta(c)     == Merged(c, Head(chain[c]).rows)

\* A column of a table that was written: merged in place if the session is
\* alone, else its delta becomes the head of the chain.
update_table(s, c) ==
    LET own == tr[s].data[c].v IN
    IF tr[s].data[c].at = "own"
    THEN IF Alone(s) THEN tr_update_delta(c, own) ELSE <<own>> \o chain[c]
    ELSE IF Alone(s) THEN tr_merge_delta(c) ELSE chain[c]

\* Somebody began after a younger transaction than s had committed.
Overtaken(s) == \E o \in Sessions \ {s} : tr[o].stime >= tr[s].wstime

NoWriteStamp(x) ==                    \* mutant: wstime is not raised
    [gtrans EXCEPT !.wtime = Larger(@, x.wtime),
                   !.schema_number = @ + (IF x.schema_updates THEN 1 ELSE 0)]

rollforward_trans(x) ==
    [wtime  |-> Larger(gtrans.wtime, x.wtime),
     wstime |-> Larger(gtrans.wstime, x.wstime),
     schema_number |-> gtrans.schema_number + (IF x.schema_updates THEN 1 ELSE 0)]

sql_trans_commit(s) ==
    LET x       == tr[s]
        written == {t \in Tables : x.tab[t].wtime # 0}
        Moved(c) == TableOf[c] \in written
    IN
    /\ x.active /\ x.wtime # 0
    /\ sql_trans_validate(s)
    /\ Overtaken(s) => Overtaking
    /\ chain' = [c \in Columns |-> IF Moved(c) THEN update_table(s, c) ELSE chain[c]]
    /\ cwtime' = [c \in Columns |-> IF Moved(c) THEN Larger(cwtime[c], x.col[c].wtime)
                                                ELSE cwtime[c]]
    /\ gtab' = [t \in Tables |-> IF t \in written
                    THEN [rtime |-> Larger(gtab[t].rtime, x.tab[t].rtime),
                          wtime |-> Larger(gtab[t].wtime, x.tab[t].wtime)]
                    ELSE gtab[t]]
    /\ gtrans' = rollforward_trans(x)
    /\ tr' = [tr EXCEPT ![s] =
                [Ended(x) EXCEPT
                    !.schema_number = gtrans.schema_number,
                    !.tab  = [t \in Tables |-> IF t \in written THEN Times ELSE @[t]],
                    !.col  = [c \in Columns |-> IF Moved(c) THEN Times ELSE @[c]],
                    !.data = [c \in Columns |-> IF Moved(c) THEN Unbound ELSE @[c]]]]
    /\ hist' = [hist EXCEPT ![s] = Store!Idle]
    /\ UNCHANGED stamp

\* On request, after an error, or when the validation fails.  What was written
\* stays until the session begins again.
mvc_rollback(s) ==
    /\ tr[s].active
    /\ tr' = [tr EXCEPT ![s] = Ended(@)]
    /\ hist' = [hist EXCEPT ![s] = Store!Idle]
    /\ UNCHANGED <<stamp, gtrans, chain, cwtime, gtab>>

mvc_commit(s) == CommitNothing(s) \/ sql_trans_commit(s)
                     \/ (tr[s].wtime # 0 /\ ~sql_trans_validate(s) /\ mvc_rollback(s))

\* The store manager, when no transaction is active: the newest versions are
\* merged into the bats, the older ones go.
store_apply_deltas ==
    LET changed == {c \in Columns : Head(chain[c]).ins}
        tables  == {TableOf[c] : c \in changed} IN
    /\ \A s \in Sessions : ~tr[s].active
    /\ stamp < MaxStamp
    /\ stamp' = stamp + 1
    /\ chain' = [c \in Columns |-> gtr_update_delta(c)]
    /\ cwtime' = [c \in Columns |-> IF c \in changed THEN stamp + 1 ELSE cwtime[c]]
    /\ gtab' = [t \in Tables |-> IF t \in tables THEN [gtab[t] EXCEPT !.wtime = stamp + 1]
                                                 ELSE gtab[t]]
    /\ gtrans' = [gtrans EXCEPT !.wstime = stamp + 1,
                                !.wtime = IF changed = {} THEN @ ELSE stamp + 1]
    /\ UNCHANGED <<tr, hist>>

-----------------------------------------------------------------------------
SessionStep(s) ==
    \/ sql_trans_begin(s)
    \/ \E c \in Columns : bind_col(s, c) \/ count_col(s, c) \/ append_col(s, c)
                              \/ update_col(s, c)
    \/ \E t \in Tables : sql_trans_clear_table(s, t)
    \/ schema_update(s)
    \/ mvc_commit(s)
    \/ mvc_rollback(s)

Next == store_apply_deltas \/ \E s \in Sessions : SessionStep(s)

Spec == Init /\ [][Next]_vars

-----------------------------------------------------------------------------
(* Properties                                                               *)

VersionOK(v) == v.wtime \in Stamps /\ v.rows \subseteq Stamps /\ v.ins \in BOOLEAN

\* Types, and the order of time: a transaction is younger than all it sees and
\* than every stamp that is committed when it begins.
TypeOK ==
    /\ stamp \in Stamps
    /\ gtrans.wtime \in Stamps /\ gtrans.wstime \in Stamps /\ gtrans.wtime <= gtrans.wstime
    /\ gtrans.schema_number \in 0..MaxSchema
    /\ \A c \in Columns : /\ cwtime[c] \in Stamps
                          /\ chain[c] # <<>>
                          /\ \A i \in DOMAIN chain[c] : VersionOK(chain[c][i])
    /\ \A t \in Tables : gtab[t] \in [rtime : Stamps, wtime : Stamps]
    /\ \A s \in Sessions :
        /\ tr[s].active \in BOOLEAN /\ tr[s].active = hist[s].active
        /\ tr[s].active => tr[s].stime < tr[s].wstime
        /\ \A c \in Columns : /\ tr[s].data[c].at \in {"none", "chain", "own"}
                              /\ tr[s].active /\ tr[s].data[c].at = "own" =>
                                    VersionOK(tr[s].data[c].v)

\* The versions an active session is bound to exist: merging the versions of a
\* column (tr_update_delta, tr_merge_delta, gtr_update_delta) destroys only
\* those that no session will use, also when the session bound itself in an
\* earlier transaction and kept the binding.
NoDangling ==
    \A s \in Sessions, c \in Columns :
        tr[s].active /\ tr[s].data[c].at = "chain" => Found(s, c) # {}

\* Whatever others commit, merge or roll back, a session finds in every column
\* what was committed when it began, changed by itself only.
SnapshotReads ==
    \A s \in Sessions : tr[s].active => \A c \in Columns :
        Bound(s, c).rows = Store!Applied(hist[s], c, hist[s].snap.rows[c])

\* A committed row only disappears when a transaction that cleared its table
\* commits: the appends of two transactions to the same version cannot both
\* succeed, which is what marking an append as a read is for (append_col).
NothingLost ==
    [][\A c \in Columns : Committed.rows[c] \subseteq Committed'.rows[c]
                             \/ \E s \in Sessions : /\ hist[s].active /\ ~hist'[s].active
                                                    /\ c \in hist[s].cleared]_vars

\* The newest versions are the effect of the committed transactions, one after
\* the other, each on contents it had read: none is lost, none that was rolled
\* back leaves a trace, and a committed writer has read nothing stale.
Serializable == Store!Spec
=============================================================================
