---------------------------- MODULE LoggerProofs ----------------------------
(***************************************************************************)
(* The write-ahead log loses nothing: proofs about Logger.                 *)
(*                                                                         *)
(* The log is read back onto the last checkpoint, and the checkpoint grows *)
(* while the log does: log_tend saves the bats of a snapshot before the    *)
(* LOG_END is written.  The invariant therefore says what a log gives on   *)
(* every checkpoint K that holds what the current one holds and perhaps    *)
(* more bats; then nothing about a record needs to be said again when the  *)
(* checkpoint changes, and a record is looked at once, when it is written. *)
(*                                                                         *)
(* Two hypotheses: the process dies only outside the windows in which the  *)
(* code relies on not being interrupted (Orderly; the runs show what is    *)
(* lost inside one of them), and the BBP can always grow (Unlimited).      *)
(***************************************************************************)
EXTENDS Logger, SequenceTheorems, WellFoundedInduction, NaturalsInduction, TLAPS

Orderly == CrashWindows \subseteq {"cleaned"}
Unlimited == \A m \in Nat : \E b \in Bids : b > m

-----------------------------------------------------------------------------
(***************************************************************************)
(* Loggers and checkpoints.                                                *)
(***************************************************************************)
Cells == Contents \cup {Absent}
Catalogs == [Names -> Bids \cup {0}]
Bats == [Bids -> Cells]
Snaps == [Bids -> Tids]
Trs == [tid : Tids, changes : Seq(Changes)]
Loggers == [id : Nat, tid : Tids, changes : BOOLEAN, seqs : [Sids -> Nat],
            catalog : Catalogs, old : SUBSET Bids, bats : Bats, snaps : Snaps,
            freed : SUBSET Bids, tr : Trs, err : {"OK", "EOF", "ERR"}]
Checkpoints == [exists : BOOLEAN, catalog : Catalogs, bats : Bats, snaps : Snaps]
Txs == [alone : BOOLEAN, touched : SUBSET Names, cleared : Seq(Names), dirty : BOOLEAN,
        col : [Names -> Cells]]

Named(cat, b) == \E n \in Names : cat[n] = b

(* The bats of a logger that started from a checkpoint with the catalog    *)
(* kcat and the bats kbats: the catalog names bats that are there and no   *)
(* bat twice, and a bat of the checkpoint is neither lost nor changed nor  *)
(* used for anything else, so that the log can be read again from there.   *)
Heap(cat, old, bats, snaps, freed, kcat, kbats) ==
    /\ \E m \in Nat : \A b \in Bids : b > m => bats[b] = Absent
    /\ \A n \in Names : cat[n] # 0 => bats[cat[n]] # Absent
    /\ \A m, n \in Names : cat[m] = cat[n] /\ cat[m] # 0 => m = n
    /\ \A b \in freed : bats[b] # Absent /\ ~Named(cat, b) /\ snaps[b] = 0
    /\ \A b \in old : Named(cat, b) /\ snaps[b] = 0
    /\ \A b \in Bids : snaps[b] # 0 => kbats[b] # Absent
    /\ \A n \in Names : kcat[n] # 0 => snaps[kcat[n]] = 0
    /\ \A b \in Bids : kbats[b] # Absent =>
          /\ bats[b] # Absent
          /\ Named(cat, b) => b \in old \/ snaps[b] # 0
          /\ ~Named(cat, b) /\ b \notin freed => bats[b] = kbats[b]
Sound(g, K) ==
    /\ g \in Loggers
    /\ Heap(g.catalog, g.old, g.bats, g.snaps, g.freed, K.catalog, K.bats)

(* A checkpoint a log can be read onto, and one that holds no less than F. *)
Based(kcat, kbats, ksnaps) ==
    /\ \E m \in Nat : \A b \in Bids : b > m => kbats[b] = Absent
    /\ \A n \in Names : kcat[n] # 0 => kbats[kcat[n]] # Absent /\ ksnaps[kcat[n]] = 0
    /\ \A m, n \in Names : kcat[m] = kcat[n] /\ kcat[m] # 0 => m = n
    /\ \A b \in Bids : ksnaps[b] # 0 => kbats[b] # Absent
Base(K) == K \in Checkpoints /\ Based(K.catalog, K.bats, K.snaps)
Extends(K, F) ==
    /\ K.catalog = F.catalog
    /\ \A b \in Bids : F.bats[b] # Absent => K.bats[b] = F.bats[b]

(* The logger after it has read records from checkpoint K.                 *)
From(K, id) ==
    [id |-> id, tid |-> 0, changes |-> FALSE, seqs |-> NoSeqs,
     catalog |-> K.catalog, old |-> CatalogBats(K), bats |-> K.bats,
     snaps |-> K.snaps, freed |-> {}, tr |-> NoTr, err |-> "OK"]
Replay(K, id, records) == Replayed(From(K, id), records)

(* Reading a log finds the columns c; the bats of K it uses are bats of F. *)
Found(K, g, F, c) ==
    /\ Sound(g, K)
    /\ \A b \in Bids : K.bats[b] # Absent /\ (Named(g.catalog, b) \/ b \in g.freed)
                          => F.bats[b] # Absent
    /\ g.err = "OK" /\ Columns(g) = c
    /\ ~g.changes => Columns(K) = c
    /\ \A n \in Names : g.catalog[n] # 0 => g.snaps[g.catalog[n]] <= g.tid

(* Reading it finds c, the sequence number s, and transactions up to t.    *)
Finds(K, id, g, F, c, s, t) ==
    /\ Found(K, g, F, c) /\ g.id = id
    /\ g.seqs[OBJ_SID] = s /\ g.seqs[LOG_SID] # 0
    /\ g.tid <= t

(* The log holds the transaction t, which waits for its LOG_END: then it   *)
(* makes the columns c of what is there, and those that it has not touched *)
(* are none of its snapshots.                                              *)
Ended(P, s) == Applied([P EXCEPT !.tr = NoTr, !.seqs = s], P.tr.changes)
Makes(K, id, g, F, c, s, t, touched) ==
    /\ Found(K, g, F, c) /\ g.id = id
    /\ g.tid = t /\ g.tr = NoTr /\ g.seqs = s
    /\ \A n \in Names \ touched : g.catalog[n] # 0 => g.snaps[g.catalog[n]] < t

(* The same of every checkpoint that holds no less than F.  Torn: of the   *)
(* log recs and a proper part of the records b.                            *)
Torn(id, recs, b, F, c, s, t) ==
    \A K : Base(K) /\ Extends(K, F) =>
        \A k \in 0 .. Len(b) - 1 :
            Finds(K, id, Replay(K, id, recs \o SubSeq(b, 1, k)), F, c, s, t)
Whole(id, recs, F, c, s, t) ==
    \A K : Base(K) /\ Extends(K, F) => Finds(K, id, Replay(K, id, recs), F, c, s, t)
Collects(id, recs, F, t) ==
    \A K : Base(K) /\ Extends(K, F) => Replay(K, id, recs).tr.tid = t
Awaits(id, recs, F, c, t, touched) ==
    \A K : Base(K) /\ Extends(K, F) =>
        /\ Replay(K, id, recs).tid = t
        /\ \A s \in [Sids -> Nat] : Makes(K, id, Ended(Replay(K, id, recs), s), F, c, s, t, touched)

(* A log and a buffer of which the first records give c and s, and all of  *)
(* them d and v.                                                           *)
Gives(id, recs, b, F, c, d, s, v, t) ==
    /\ recs \in Seq(Records) /\ b \in Seq(Records)
    /\ Torn(id, recs, b, F, c, s, t) /\ Whole(id, recs \o b, F, d, v, t)

-----------------------------------------------------------------------------
(***************************************************************************)
(* The invariant.                                                          *)
(***************************************************************************)
Collecting == {"tx", "txseq", "txlogged", "tend"}
Running == Collecting \cup {"idle", "sync", "apply", "seq"}
Restarting == {"exit", "newlog", "bmcommit", "writeid", "switch", "reopen", "reopening"}

TypeInv ==
    /\ master \in LogIds \cup {0} /\ bak \in LogIds /\ baks \in [Ids -> LogIds]
    /\ wal \in [Ids -> Seq(Records) \cup {Absent}]
    /\ ckpt \in Checkpoints /\ lg \in Loggers /\ buf \in Seq(Records)
    /\ lg.tr = NoTr /\ lg.err = "OK" /\ lg.seqs[OBJ_SID] \in 0 .. MaxSeq
    /\ pc \in Pcs /\ boot \in BOOLEAN /\ tx \in Txs
    /\ cleaning \in {"none", "log", "bak", "old"}
    /\ oldId \in -KeepLogs .. 3 + MaxStops + MaxFlushes
    /\ col \in [Names -> Cells] /\ seq \in 0 .. MaxSeq
    /\ ntx \in 0 .. MaxTx /\ stops \in 0 .. MaxStops /\ flushes \in 0 .. MaxFlushes

(* Which files there are: at most one of log and log.bak names a log, and  *)
(* every change of log leaves the other in place.                          *)
FilesInv ==
    /\ pc # "refused"
    /\ ~ckpt.exists => /\ pc \in {"down", "create"} /\ ckpt = NoCkpt /\ wal = [k \in Ids |-> Absent]
                       /\ col = NoColumns /\ seq = 0
    /\ pc = "down" => ~boot /\ IF ckpt.exists THEN LogList \in Ids ELSE LogList = Absent
    /\ pc = "create" => ~ckpt.exists /\ master = 2 /\ bak = Absent
    /\ pc \in Running \cup {"open", "opening", "reopen", "reopening", "exit"}
          => master = lg.id /\ bak = Absent
    /\ pc = "newlog" => bak = lg.id /\ master = Absent
    /\ pc \in {"bmcommit", "writeid"} => bak = lg.id - 1 /\ master = 0
    /\ pc = "switch" => bak = lg.id - 1 /\ master = lg.id
    /\ pc \in {"reopen", "reopening"} => baks[lg.id] = lg.id - 1
    /\ pc \notin {"down", "create"} => lg.id \in Ids
    /\ pc \in {"down", "create"} => lg = Loaded(1)

(* The bounds leave room for the number of the next log.                   *)
RoomInv ==
    LET room == 2 + stops + flushes
    IN  /\ pc = "down" /\ ckpt.exists => LogList <= room
        /\ pc \in {"exit", "newlog"} => lg.id <= room
        /\ pc \in {"open", "opening"} /\ lg.changes => lg.id <= room
        /\ pc \notin {"down", "create"} => lg.id <= room + 1

(* What runs when, and what is in the files while it does.                 *)
PhaseInv ==
    /\ boot => pc \in {"create", "open", "opening", "idle"} \cup Restarting
    /\ pc \in {"create", "open", "opening"} => boot
    /\ boot /\ pc \in {"exit", "newlog", "bmcommit"} => lg.changes
    /\ boot /\ pc = "idle" => cleaning # "none"
    /\ cleaning # "none" => pc \in Running
    /\ cleaning \in {"log", "bak"} => baks[lg.id] \in Ids /\ baks[lg.id] # lg.id
    /\ cleaning = "old" => oldId < lg.id
    /\ buf # <<>> => pc \in Collecting \cup {"sync", "seq", "opening", "reopening"}
    /\ pc \in {"sync", "seq", "txseq"} => buf # <<>>
    /\ pc \in {"opening", "reopening"} => wal[lg.id] = <<>> /\ buf = log_sequence_nrs(lg)
    /\ pc \in Running \cup {"exit"} => wal[lg.id] # Absent
    /\ pc \in {"newlog", "bmcommit", "writeid", "switch"} => wal[bak] # Absent
    /\ pc = "down" /\ ckpt.exists => wal[LogList] # Absent
    /\ boot /\ pc \in {"exit", "newlog", "bmcommit"} => LogRecords(LogList) = log_sequence_nrs(lg)
    /\ boot /\ pc \in {"writeid", "switch"} => \E g \in Loggers :
          /\ LogRecords(LogList) = log_sequence_nrs(g)
          /\ g.seqs[OBJ_SID] = seq /\ g.seqs[LOG_SID] # 0

(* The checkpoint the next LOG_END will be read onto, and the columns and  *)
(* the number that are committed when all of buf is on the disk.           *)
Saved(K, g) == [K EXCEPT !.bats = [b \in Bids |-> IF g.snaps[b] = g.tid THEN g.bats[b] ELSE @[b]]]
Future == IF pc \in {"tx", "txseq", "txlogged"} THEN Saved(ckpt, lg) ELSE ckpt
Current == IF pc \in Collecting \cup {"sync", "apply"} THEN tx.col ELSE col
LastTid == IF pc \in {"down", "open"} THEN ntx ELSE lg.tid

(* The logger in memory: it can be checkpointed and its columns are named. *)
MemoryInv ==
    /\ Base(ckpt)
    /\ pc \notin {"down", "create"} =>
          /\ Sound(lg, Future)
          /\ lg.tid <= ntx
          /\ \A n \in Names : lg.catalog[n] # 0 => lg.snaps[lg.catalog[n]] <= lg.tid
          /\ lg.seqs[LOG_SID] # 0
          /\ pc \notin {"seq", "txseq"} => lg.seqs[OBJ_SID] = seq
          /\ \A n \in Names : lg.catalog[n] # 0 <=> Current[n] # Absent
    /\ pc \in {"open", "opening", "exit", "newlog", "bmcommit"} => Columns(lg) = col
    /\ pc \in {"writeid", "switch", "reopen", "reopening"} => Columns(ckpt) = col
    /\ pc \in {"open", "opening"} /\ ~lg.changes => Columns(ckpt) = col

(* The transaction in memory.                                              *)
TxInv ==
    /\ pc \in Collecting \cup {"sync", "apply"} =>
          \A i \in 1 .. Len(tx.cleared) :
             tx.cleared[i] \in tx.touched /\ tx.col[tx.cleared[i]] # Absent
    /\ pc \in Collecting => lg.tid >= 1 /\ ntx >= 1
    /\ pc = "apply" => tx.col = col
    /\ pc \in {"tx", "txseq", "txlogged"} =>
          /\ Extends(Future, ckpt)
          /\ ~tx.dirty => Future.bats = ckpt.bats
          /\ \A n \in Names \ tx.touched :
                tx.col[n] = col[n] /\ (lg.catalog[n] # 0 => lg.snaps[lg.catalog[n]] < lg.tid)

(* What the log gives.                                                     *)
Log == LogRecords(LogList)
LogInv ==
    /\ Window = "none" /\ ckpt.exists =>
          Gives(LogList, Log, buf, ckpt, col, IF pc = "sync" THEN tx.col ELSE col,
                seq, IF pc \in {"seq", "txseq"} THEN lg.seqs[OBJ_SID] ELSE seq, LastTid)
    /\ pc \in Collecting =>
          /\ Collects(LogList, Log \o buf, ckpt, lg.tid)
          /\ Awaits(LogList, Log \o buf, Future, tx.col, lg.tid, tx.touched)

IInv == TypeInv /\ FilesInv /\ RoomInv /\ PhaseInv /\ MemoryInv /\ TxInv /\ LogInv

-----------------------------------------------------------------------------
(***************************************************************************)
(* Numbers, and reading one record after the other.                        *)
(***************************************************************************)
(* The first of some numbers (the first free slot of the BBP).             *)
LEMMA Least ==
  ASSUME NEW S, S \subseteq Nat, S # {}
  PROVE  \E n \in S : \A m \in S : n <= m
<1>1. \E R : IsWellFoundedOn(R, Nat) /\ \A x, y \in Nat : x < y => <<x, y>> \in R
  BY NatLessThanWellFounded DEF OpToRel
<1>2. ASSUME NEW R, IsWellFoundedOn(R, Nat), \A x, y \in Nat : x < y => <<x, y>> \in R
      PROVE  \E n \in S : \A m \in S : n <= m
  <2>1. \E x \in S : \A y \in S : ~(<<y, x>> \in R)
    BY <1>2, WFMin, ZenonT(300)
  <2>2. PICK n \in S : \A y \in S : ~(<<y, n>> \in R)
    BY <2>1
  <2>3. ASSUME NEW m \in S PROVE n <= m
    <3>1. m \in Nat /\ n \in Nat
      OBVIOUS
    <3>2. ~(m < n)
      BY <3>1, <2>2, <1>2
    <3> QED  BY <3>1, <3>2
  <2> QED  BY <2>3
<1> QED  BY <1>1, <1>2, ZenonT(30)

(* Applying the changes of a transaction, one after the other.              *)
AppliedTo(f, g, s, n) ==
    f = [k \in 0 .. n |-> IF k = 0 THEN g ELSE la_apply(f[k - 1], s[k])]

LEMMA AppliedFold ==
  ASSUME NEW g, NEW s, NEW n \in Nat
  PROVE  \E f : AppliedTo(f, g, s, n)
<1> DEFINE R(f, m) == f = [k \in 0 .. m |-> IF k = 0 THEN g ELSE la_apply(f[k - 1], s[k])]
           T == {m \in Nat : ~ \E f : R(f, m)}
<1>1. SUFFICES ASSUME T # {} PROVE FALSE
  BY DEF AppliedTo
<1>2. PICK m \in T : \A i \in T : m <= i
  <2> HIDE DEF T
  <2>1. T \subseteq Nat
    BY DEF T
  <2> QED  BY <1>1, <2>1, Least
<1>3. m # 0
  <2>1. R([k \in 0 .. 0 |-> g], 0)
    OBVIOUS
  <2> QED  BY <2>1, <1>2
<1>4. PICK f : R(f, m - 1)
  <2>1. m - 1 \in Nat /\ ~(m <= m - 1)
    BY <1>2, <1>3
  <2> QED  BY <1>2, <2>1
<1>5. R([k \in 0 .. m |-> IF k = m THEN la_apply(f[m - 1], s[m]) ELSE f[k]], m)
  <2> DEFINE h == [k \in 0 .. m |-> IF k = m THEN la_apply(f[m - 1], s[m]) ELSE f[k]]
  <2>1. ASSUME NEW k \in 0 .. m
        PROVE  h[k] = IF k = 0 THEN g ELSE la_apply(h[k - 1], s[k])
    <3>1. CASE k = 0
      BY <3>1, <1>3, <1>4, <1>2
    <3>2. CASE k # 0 /\ k # m
      <4>1. k \in 0 .. m - 1 /\ k - 1 \in 0 .. m /\ k - 1 # m
        BY <3>2, <1>2
      <4>2. h[k] = f[k] /\ h[k - 1] = f[k - 1]
        BY <4>1, <3>2
      <4>3. f[k] = la_apply(f[k - 1], s[k])
        BY <1>4, <4>1, <3>2
      <4> QED  BY <4>2, <4>3, <3>2
    <3>3. CASE k = m
      <4>1. k - 1 \in 0 .. m /\ k - 1 # m
        BY <3>3, <1>2, <1>3
      <4> QED  BY <4>1, <3>3, <1>3
    <3> QED  BY <3>1, <3>2, <3>3
  <2>2. h = [k \in 0 .. m |-> IF k = 0 THEN g ELSE la_apply(h[k - 1], s[k])]
    BY <2>1
  <2> QED  BY <2>2
<1> QED  BY <1>2, <1>5 DEF AppliedTo

LEMMA AppliedAgree ==
  ASSUME NEW g, NEW s, NEW z, NEW n \in Nat, NEW m \in Nat, n <= m,
         NEW f, AppliedTo(f, g, s, n), NEW h, AppliedTo(h, g, z, m),
         \A k \in 1 .. n : s[k] = z[k]
  PROVE  f[n] = h[n]
<1> DEFINE T == {k \in 0 .. n : f[k] # h[k]}
<1>1. SUFFICES ASSUME T # {} PROVE FALSE
  <2>1. n \in 0 .. n
    OBVIOUS
  <2> QED  BY <2>1
<1>2. PICK k \in T : \A i \in T : k <= i
  <2> HIDE DEF T
  <2>1. T \subseteq Nat
    BY DEF T
  <2> QED  BY <1>1, <2>1, Least
<1>3. k \in 0 .. n /\ k \in 0 .. m /\ f[k] # h[k]
  BY <1>2
<1>4. k # 0
  <2>1. 0 \in 0 .. n /\ 0 \in 0 .. m
    OBVIOUS
  <2>2. f[0] = g /\ h[0] = g
    BY <2>1 DEF AppliedTo
  <2> QED  BY <1>3, <2>2
<1>5. k - 1 \in 0 .. n /\ k - 1 \in 0 .. m /\ ~(k <= k - 1) /\ k \in 1 .. n
  BY <1>3, <1>4
<1>6. f[k - 1] = h[k - 1]
  BY <1>2, <1>5
<1>7. f[k] = la_apply(f[k - 1], s[k]) /\ h[k] = la_apply(h[k - 1], z[k])
  BY <1>3, <1>4 DEF AppliedTo
<1> QED  BY <1>3, <1>5, <1>6, <1>7

LEMMA AppliedIs ==
  ASSUME NEW g, NEW s, Len(s) \in Nat
  PROVE  \E f : AppliedTo(f, g, s, Len(s)) /\ Applied(g, s) = f[Len(s)]
<1> DEFINE R(f) == AppliedTo(f, g, s, Len(s))
           f == CHOOSE r : R(r)
<1>1. R(f)
  <2>1. \E r : R(r)
    BY AppliedFold
  <2> QED  BY <2>1
<1>2. Applied(g, s) = f[Len(s)]
  BY DEF Applied, AppliedTo
<1> QED  BY <1>1, <1>2

LEMMA AppliedEmpty ==
  ASSUME NEW g
  PROVE  Applied(g, <<>>) = g
<1>1. Len(<<>>) = 0 /\ 0 \in 0 .. 0 /\ 0 \in Nat
  OBVIOUS
<1>2. PICK f : AppliedTo(f, g, <<>>, 0) /\ Applied(g, <<>>) = f[0]
  BY <1>1, AppliedIs
<1>3. f[0] = g
  BY <1>1, <1>2 DEF AppliedTo
<1> QED  BY <1>2, <1>3

LEMMA AppliedAppend ==
  ASSUME NEW g, NEW S, NEW s \in Seq(S), NEW x \in S
  PROVE  Applied(g, Append(s, x)) = la_apply(Applied(g, s), x)
<1> DEFINE z == Append(s, x)
<1>1. Len(s) \in Nat /\ Len(z) \in Nat /\ Len(z) = Len(s) + 1 /\ z[Len(s) + 1] = x
      /\ \A k \in 1 .. Len(s) : s[k] = z[k]
  OBVIOUS
<1> HIDE DEF z
<1>2. PICK f : AppliedTo(f, g, s, Len(s)) /\ Applied(g, s) = f[Len(s)]
  BY <1>1, AppliedIs
<1>3. PICK h : AppliedTo(h, g, z, Len(z)) /\ Applied(g, z) = h[Len(z)]
  BY <1>1, AppliedIs
<1>4. f[Len(s)] = h[Len(s)]
  <2>1. Len(s) <= Len(z)
    BY <1>1
  <2> QED  BY <2>1, <1>1, <1>2, <1>3, AppliedAgree
<1>5. h[Len(z)] = la_apply(h[Len(s)], x)
  <2>1. Len(z) \in 0 .. Len(z) /\ Len(z) # 0 /\ Len(z) - 1 = Len(s) /\ z[Len(z)] = x
    BY <1>1
  <2> QED  BY <2>1, <1>3 DEF AppliedTo
<1> QED  BY <1>2, <1>3, <1>4, <1>5 DEF z

(* Reading the records of a log, one after the other.                       *)
ReplayedTo(f, g, s, n) ==
    f = [k \in 0 .. n |-> IF k = 0 THEN g ELSE logger_readlog(f[k - 1], s[k])]

LEMMA ReplayedFold ==
  ASSUME NEW g, NEW s, NEW n \in Nat
  PROVE  \E f : ReplayedTo(f, g, s, n)
<1> DEFINE R(f, m) == f = [k \in 0 .. m |-> IF k = 0 THEN g ELSE logger_readlog(f[k - 1], s[k])]
           T == {m \in Nat : ~ \E f : R(f, m)}
<1>1. SUFFICES ASSUME T # {} PROVE FALSE
  BY DEF ReplayedTo
<1>2. PICK m \in T : \A i \in T : m <= i
  <2> HIDE DEF T
  <2>1. T \subseteq Nat
    BY DEF T
  <2> QED  BY <1>1, <2>1, Least
<1>3. m # 0
  <2>1. R([k \in 0 .. 0 |-> g], 0)
    OBVIOUS
  <2> QED  BY <2>1, <1>2
<1>4. PICK f : R(f, m - 1)
  <2>1. m - 1 \in Nat /\ ~(m <= m - 1)
    BY <1>2, <1>3
  <2> QED  BY <1>2, <2>1
<1>5. R([k \in 0 .. m |-> IF k = m THEN logger_readlog(f[m - 1], s[m]) ELSE f[k]], m)
  <2> DEFINE h == [k \in 0 .. m |-> IF k = m THEN logger_readlog(f[m - 1], s[m]) ELSE f[k]]
  <2>1. ASSUME NEW k \in 0 .. m
        PROVE  h[k] = IF k = 0 THEN g ELSE logger_readlog(h[k - 1], s[k])
    <3>1. CASE k = 0
      BY <3>1, <1>3, <1>4, <1>2
    <3>2. CASE k # 0 /\ k # m
      <4>1. k \in 0 .. m - 1 /\ k - 1 \in 0 .. m /\ k - 1 # m
        BY <3>2, <1>2
      <4>2. h[k] = f[k] /\ h[k - 1] = f[k - 1]
        BY <4>1, <3>2
      <4>3. f[k] = logger_readlog(f[k - 1], s[k])
        BY <1>4, <4>1, <3>2
      <4> QED  BY <4>2, <4>3, <3>2
    <3>3. CASE k = m
      <4>1. k - 1 \in 0 .. m /\ k - 1 # m
        BY <3>3, <1>2, <1>3
      <4> QED  BY <4>1, <3>3, <1>3
    <3> QED  BY <3>1, <3>2, <3>3
  <2>2. h = [k \in 0 .. m |-> IF k = 0 THEN g ELSE logger_readlog(h[k - 1], s[k])]
    BY <2>1
  <2> QED  BY <2>2
<1> QED  BY <1>2, <1>5 DEF ReplayedTo

LEMMA ReplayedAgree ==
  ASSUME NEW g, NEW s, NEW z, NEW n \in Nat, NEW m \in Nat, n <= m,
         NEW f, ReplayedTo(f, g, s, n), NEW h, ReplayedTo(h, g, z, m),
         \A k \in 1 .. n : s[k] = z[k]
  PROVE  f[n] = h[n]
<1> DEFINE T == {k \in 0 .. n : f[k] # h[k]}
<1>1. SUFFICES ASSUME T # {} PROVE FALSE
  <2>1. n \in 0 .. n
    OBVIOUS
  <2> QED  BY <2>1
<1>2. PICK k \in T : \A i \in T : k <= i
  <2> HIDE DEF T
  <2>1. T \subseteq Nat
    BY DEF T
  <2> QED  BY <1>1, <2>1, Least
<1>3. k \in 0 .. n /\ k \in 0 .. m /\ f[k] # h[k]
  BY <1>2
<1>4. k # 0
  <2>1. 0 \in 0 .. n /\ 0 \in 0 .. m
    OBVIOUS
  <2>2. f[0] = g /\ h[0] = g
    BY <2>1 DEF ReplayedTo
  <2> QED  BY <1>3, <2>2
<1>5. k - 1 \in 0 .. n /\ k - 1 \in 0 .. m /\ ~(k <= k - 1) /\ k \in 1 .. n
  BY <1>3, <1>4
<1>6. f[k - 1] = h[k - 1]
  BY <1>2, <1>5
<1>7. f[k] = logger_readlog(f[k - 1], s[k]) /\ h[k] = logger_readlog(h[k - 1], z[k])
  BY <1>3, <1>4 DEF ReplayedTo
<1> QED  BY <1>3, <1>5, <1>6, <1>7

LEMMA ReplayedIs ==
  ASSUME NEW g, NEW s, Len(s) \in Nat
  PROVE  \E f : ReplayedTo(f, g, s, Len(s)) /\ Replayed(g, s) = f[Len(s)]
<1> DEFINE R(f) == ReplayedTo(f, g, s, Len(s))
           f == CHOOSE r : R(r)
<1>1. R(f)
  <2>1. \E r : R(r)
    BY ReplayedFold
  <2> QED  BY <2>1
<1>2. Replayed(g, s) = f[Len(s)]
  BY DEF Replayed, ReplayedTo
<1> QED  BY <1>1, <1>2

LEMMA ReplayedEmpty ==
  ASSUME NEW g
  PROVE  Replayed(g, <<>>) = g
<1>1. Len(<<>>) = 0 /\ 0 \in 0 .. 0 /\ 0 \in Nat
  OBVIOUS
<1>2. PICK f : ReplayedTo(f, g, <<>>, 0) /\ Replayed(g, <<>>) = f[0]
  BY <1>1, ReplayedIs
<1>3. f[0] = g
  BY <1>1, <1>2 DEF ReplayedTo
<1> QED  BY <1>2, <1>3

LEMMA ReplayedAppend ==
  ASSUME NEW g, NEW S, NEW s \in Seq(S), NEW x \in S
  PROVE  Replayed(g, Append(s, x)) = logger_readlog(Replayed(g, s), x)
<1> DEFINE z == Append(s, x)
<1>1. Len(s) \in Nat /\ Len(z) \in Nat /\ Len(z) = Len(s) + 1 /\ z[Len(s) + 1] = x
      /\ \A k \in 1 .. Len(s) : s[k] = z[k]
  OBVIOUS
<1> HIDE DEF z
<1>2. PICK f : ReplayedTo(f, g, s, Len(s)) /\ Replayed(g, s) = f[Len(s)]
  BY <1>1, ReplayedIs
<1>3. PICK h : ReplayedTo(h, g, z, Len(z)) /\ Replayed(g, z) = h[Len(z)]
  BY <1>1, ReplayedIs
<1>4. f[Len(s)] = h[Len(s)]
  <2>1. Len(s) <= Len(z)
    BY <1>1
  <2> QED  BY <2>1, <1>1, <1>2, <1>3, ReplayedAgree
<1>5. h[Len(z)] = logger_readlog(h[Len(s)], x)
  <2>1. Len(z) \in 0 .. Len(z) /\ Len(z) # 0 /\ Len(z) - 1 = Len(s) /\ z[Len(z)] = x
    BY <1>1
  <2> QED  BY <2>1, <1>3 DEF ReplayedTo
<1> QED  BY <1>2, <1>3, <1>4, <1>5 DEF z

(* New bats for cleared columns, one after the other.                       *)
NewBatsTo(f, g, s, n) ==
    f = [k \in 0 .. n |-> IF k = 0 THEN g ELSE empty_col(f[k - 1], s[k])]

LEMMA NewBatsFold ==
  ASSUME NEW g, NEW s, NEW n \in Nat
  PROVE  \E f : NewBatsTo(f, g, s, n)
<1> DEFINE R(f, m) == f = [k \in 0 .. m |-> IF k = 0 THEN g ELSE empty_col(f[k - 1], s[k])]
           T == {m \in Nat : ~ \E f : R(f, m)}
<1>1. SUFFICES ASSUME T # {} PROVE FALSE
  BY DEF NewBatsTo
<1>2. PICK m \in T : \A i \in T : m <= i
  <2> HIDE DEF T
  <2>1. T \subseteq Nat
    BY DEF T
  <2> QED  BY <1>1, <2>1, Least
<1>3. m # 0
  <2>1. R([k \in 0 .. 0 |-> g], 0)
    OBVIOUS
  <2> QED  BY <2>1, <1>2
<1>4. PICK f : R(f, m - 1)
  <2>1. m - 1 \in Nat /\ ~(m <= m - 1)
    BY <1>2, <1>3
  <2> QED  BY <1>2, <2>1
<1>5. R([k \in 0 .. m |-> IF k = m THEN empty_col(f[m - 1], s[m]) ELSE f[k]], m)
  <2> DEFINE h == [k \in 0 .. m |-> IF k = m THEN empty_col(f[m - 1], s[m]) ELSE f[k]]
  <2>1. ASSUME NEW k \in 0 .. m
        PROVE  h[k] = IF k = 0 THEN g ELSE empty_col(h[k - 1], s[k])
    <3>1. CASE k = 0
      BY <3>1, <1>3, <1>4, <1>2
    <3>2. CASE k # 0 /\ k # m
      <4>1. k \in 0 .. m - 1 /\ k - 1 \in 0 .. m /\ k - 1 # m
        BY <3>2, <1>2
      <4>2. h[k] = f[k] /\ h[k - 1] = f[k - 1]
        BY <4>1, <3>2
      <4>3. f[k] = empty_col(f[k - 1], s[k])
        BY <1>4, <4>1, <3>2
      <4> QED  BY <4>2, <4>3, <3>2
    <3>3. CASE k = m
      <4>1. k - 1 \in 0 .. m /\ k - 1 # m
        BY <3>3, <1>2, <1>3
      <4> QED  BY <4>1, <3>3, <1>3
    <3> QED  BY <3>1, <3>2, <3>3
  <2>2. h = [k \in 0 .. m |-> IF k = 0 THEN g ELSE empty_col(h[k - 1], s[k])]
    BY <2>1
  <2> QED  BY <2>2
<1> QED  BY <1>2, <1>5 DEF NewBatsTo

LEMMA NewBatsAgree ==
  ASSUME NEW g, NEW s, NEW z, NEW n \in Nat, NEW m \in Nat, n <= m,
         NEW f, NewBatsTo(f, g, s, n), NEW h, NewBatsTo(h, g, z, m),
         \A k \in 1 .. n : s[k] = z[k]
  PROVE  f[n] = h[n]
<1> DEFINE T == {k \in 0 .. n : f[k] # h[k]}
<1>1. SUFFICES ASSUME T # {} PROVE FALSE
  <2>1. n \in 0 .. n
    OBVIOUS
  <2> QED  BY <2>1
<1>2. PICK k \in T : \A i \in T : k <= i
  <2> HIDE DEF T
  <2>1. T \subseteq Nat
    BY DEF T
  <2> QED  BY <1>1, <2>1, Least
<1>3. k \in 0 .. n /\ k \in 0 .. m /\ f[k] # h[k]
  BY <1>2
<1>4. k # 0
  <2>1. 0 \in 0 .. n /\ 0 \in 0 .. m
    OBVIOUS
  <2>2. f[0] = g /\ h[0] = g
    BY <2>1 DEF NewBatsTo
  <2> QED  BY <1>3, <2>2
<1>5. k - 1 \in 0 .. n /\ k - 1 \in 0 .. m /\ ~(k <= k - 1) /\ k \in 1 .. n
  BY <1>3, <1>4
<1>6. f[k - 1] = h[k - 1]
  BY <1>2, <1>5
<1>7. f[k] = empty_col(f[k - 1], s[k]) /\ h[k] = empty_col(h[k - 1], z[k])
  BY <1>3, <1>4 DEF NewBatsTo
<1> QED  BY <1>3, <1>5, <1>6, <1>7

LEMMA NewBatsIs ==
  ASSUME NEW g, NEW s, Len(s) \in Nat
  PROVE  \E f : NewBatsTo(f, g, s, Len(s)) /\ NewBats(g, s) = f[Len(s)]
<1> DEFINE R(f) == NewBatsTo(f, g, s, Len(s))
           f == CHOOSE r : R(r)
<1>1. R(f)
  <2>1. \E r : R(r)
    BY NewBatsFold
  <2> QED  BY <2>1
<1>2. NewBats(g, s) = f[Len(s)]
  BY DEF NewBats, NewBatsTo
<1> QED  BY <1>1, <1>2

LEMMA NewBatsEmpty ==
  ASSUME NEW g
  PROVE  NewBats(g, <<>>) = g
<1>1. Len(<<>>) = 0 /\ 0 \in 0 .. 0 /\ 0 \in Nat
  OBVIOUS
<1>2. PICK f : NewBatsTo(f, g, <<>>, 0) /\ NewBats(g, <<>>) = f[0]
  BY <1>1, NewBatsIs
<1>3. f[0] = g
  BY <1>1, <1>2 DEF NewBatsTo
<1> QED  BY <1>2, <1>3

LEMMA NewBatsAppend ==
  ASSUME NEW g, NEW S, NEW s \in Seq(S), NEW x \in S
  PROVE  NewBats(g, Append(s, x)) = empty_col(NewBats(g, s), x)
<1> DEFINE z == Append(s, x)
<1>1. Len(s) \in Nat /\ Len(z) \in Nat /\ Len(z) = Len(s) + 1 /\ z[Len(s) + 1] = x
      /\ \A k \in 1 .. Len(s) : s[k] = z[k]
  OBVIOUS
<1> HIDE DEF z
<1>2. PICK f : NewBatsTo(f, g, s, Len(s)) /\ NewBats(g, s) = f[Len(s)]
  BY <1>1, NewBatsIs
<1>3. PICK h : NewBatsTo(h, g, z, Len(z)) /\ NewBats(g, z) = h[Len(z)]
  BY <1>1, NewBatsIs
<1>4. f[Len(s)] = h[Len(s)]
  <2>1. Len(s) <= Len(z)
    BY <1>1
  <2> QED  BY <2>1, <1>1, <1>2, <1>3, NewBatsAgree
<1>5. h[Len(z)] = empty_col(h[Len(s)], x)
  <2>1. Len(z) \in 0 .. Len(z) /\ Len(z) # 0 /\ Len(z) - 1 = Len(s) /\ z[Len(z)] = x
    BY <1>1
  <2> QED  BY <2>1, <1>3 DEF NewBatsTo
<1> QED  BY <1>2, <1>3, <1>4, <1>5 DEF z

-----------------------------------------------------------------------------
(***************************************************************************)
(* The bats of a logger: a bat leaves the catalog, its contents are        *)
(* replaced, a bat enters the catalog.                                     *)
(***************************************************************************)
LEMMA AbsentIs ==
  /\ Absent \notin Contents /\ Absent \notin Nat /\ Absent \notin Seq(Records)
BY AbsentAssumption

(* Operators of typed functions, so that the lemmas name their types once. *)
Heaped(cat, old, bats, snaps, freed, kcat, kbats) ==
    /\ cat \in Catalogs /\ old \in SUBSET Bids /\ bats \in Bats /\ snaps \in Snaps
    /\ freed \in SUBSET Bids /\ kcat \in Catalogs /\ kbats \in Bats
    /\ Heap(cat, old, bats, snaps, freed, kcat, kbats)

LEMMA HeapOf ==
  ASSUME NEW g, NEW K, K \in Checkpoints
  PROVE  Sound(g, K) <=>
            /\ g \in Loggers
            /\ Heaped(g.catalog, g.old, g.bats, g.snaps, g.freed, K.catalog, K.bats)
BY DEF Sound, Heaped, Loggers, Checkpoints

LEMMA SlotsPositive == 0 \notin Bids /\ Bids \subseteq Nat
BY LoggerAssumption

(* What logger_del_bat makes of the catalog, the bats, the snapshots and   *)
(* the freed bats.                                                         *)
Release(old, snaps, b) == b \notin old /\ snaps[b] = 0
DelCatalog(cat, b) == [n \in Names |-> IF cat[n] = b THEN 0 ELSE cat[n]]
DelBats(bats, b, release) == [bats EXCEPT ![b] = IF release THEN Absent ELSE bats[b]]
DelSnaps(snaps, old, b) == [snaps EXCEPT ![b] = IF b \in old THEN snaps[b] ELSE 0]
DelFreed(freed, b, release) == IF release THEN freed ELSE freed \cup {b}

LEMMA HeapDel ==
  ASSUME NEW cat, NEW old, NEW bats, NEW snaps, NEW freed, NEW kcat, NEW kbats,
         Heaped(cat, old, bats, snaps, freed, kcat, kbats),
         NEW b \in Bids, Named(cat, b),
         NEW release, release = Release(old, snaps, b)
  PROVE  /\ Heaped(DelCatalog(cat, b), old \ {b}, DelBats(bats, b, release),
                   DelSnaps(snaps, old, b), DelFreed(freed, b, release), kcat, kbats)
         /\ b \in old => snaps[b] = 0
<1> DEFINE cat2 == DelCatalog(cat, b)
           old2 == old \ {b}
           bats2 == DelBats(bats, b, release)
           snaps2 == DelSnaps(snaps, old, b)
           freed2 == DelFreed(freed, b, release)
<1>0. /\ cat \in [Names -> Bids \cup {0}] /\ old \subseteq Bids /\ bats \in [Bids -> Cells]
      /\ snaps \in [Bids -> Tids] /\ freed \subseteq Bids
      /\ kcat \in [Names -> Bids \cup {0}] /\ kbats \in [Bids -> Cells]
      /\ Heap(cat, old, bats, snaps, freed, kcat, kbats)
  BY DEF Heaped, Catalogs, Bats, Snaps
<1>1. /\ \A n \in Names : cat2[n] = IF cat[n] = b THEN 0 ELSE cat[n]
      /\ \A c \in Bids : c # b => bats2[c] = bats[c] /\ snaps2[c] = snaps[c]
      /\ bats2[b] = (IF release THEN Absent ELSE bats[b])
      /\ snaps2[b] = 0
  <2>1. b \in old => snaps[b] = 0
    BY <1>0 DEF Heap
  <2> QED  BY <2>1, <1>0 DEF DelCatalog, DelBats, DelSnaps
<1>2. /\ cat2 \in Catalogs /\ old2 \in SUBSET Bids /\ bats2 \in Bats /\ snaps2 \in Snaps
      /\ freed2 \in SUBSET Bids
  <2>1. Absent \in Cells /\ 0 \in Tids
    BY LoggerAssumption DEF Cells, Tids
  <2> QED  BY <1>0, <2>1 DEF Catalogs, Bats, Snaps, DelCatalog, DelBats, DelSnaps, DelFreed
<1>3. \A c \in Bids : Named(cat2, c) <=> Named(cat, c) /\ c # b
  BY <1>1, SlotsPositive DEF Named
<1>4. bats[b] # Absent /\ b \notin freed
  BY <1>0, SlotsPositive DEF Heap, Named
<1> HIDE DEF cat2, old2, bats2, snaps2, freed2
<1>5. Heap(cat2, old2, bats2, snaps2, freed2, kcat, kbats)
  <2>1. \E m \in Nat : \A c \in Bids : c > m => bats2[c] = Absent
    <3>1. PICK m \in Nat : \A c \in Bids : c > m => bats[c] = Absent
      BY <1>0 DEF Heap
    <3> QED  BY <3>1, <1>1, <1>4
  <2>2. ASSUME NEW n \in Names, cat2[n] # 0 PROVE bats2[cat2[n]] # Absent
    <3>1. cat[n] = cat2[n] /\ cat[n] # b /\ cat[n] \in Bids /\ bats[cat[n]] # Absent
      BY <2>2, <1>0, <1>1 DEF Heap
    <3> QED  BY <3>1, <1>1
  <2>3. ASSUME NEW m \in Names, NEW n \in Names, cat2[m] = cat2[n], cat2[m] # 0 PROVE m = n
    <3>1. cat[m] = cat[n] /\ cat[m] # 0
      BY <2>3, <1>1
    <3> QED  BY <3>1, <1>0 DEF Heap
  <2>4. \A c \in freed2 : bats2[c] # Absent /\ ~Named(cat2, c) /\ snaps2[c] = 0
    BY <1>0, <1>1, <1>3, <1>4 DEF Heap, freed2, DelFreed, Release
  <2>5. \A c \in old2 : Named(cat2, c) /\ snaps2[c] = 0
    BY <1>0, <1>1, <1>3 DEF Heap, old2
  <2>6. \A c \in Bids : snaps2[c] # 0 => kbats[c] # Absent
    BY <1>0, <1>1 DEF Heap
  <2>7. \A n \in Names : kcat[n] # 0 => snaps2[kcat[n]] = 0
    BY <1>0, <1>1 DEF Heap
  <2>8. ASSUME NEW c \in Bids, kbats[c] # Absent
        PROVE  /\ bats2[c] # Absent
               /\ Named(cat2, c) => c \in old2 \/ snaps2[c] # 0
               /\ ~Named(cat2, c) /\ c \notin freed2 => bats2[c] = kbats[c]
    <3>1. /\ bats[c] # Absent
          /\ Named(cat, c) => c \in old \/ snaps[c] # 0
          /\ ~Named(cat, c) /\ c \notin freed => bats[c] = kbats[c]
      BY <1>0, <2>8 DEF Heap
    <3>2. CASE c = b
      BY <3>1, <3>2, <1>1, <1>3 DEF freed2, DelFreed, Release
    <3>3. CASE c # b
      BY <3>1, <3>3, <1>1, <1>3 DEF freed2, old2, DelFreed
    <3> QED  BY <3>2, <3>3
  <2> QED  BY <2>1, <2>2, <2>3, <2>4, <2>5, <2>6, <2>7, <2>8 DEF Heap
<1>6. b \in old => snaps[b] = 0
  BY <1>0 DEF Heap
<1> QED  BY <1>0, <1>2, <1>5, <1>6 DEF Heaped, Catalogs, Bats, cat2, old2, bats2, snaps2, freed2

(* The contents of a bat that the catalog does not name yet.               *)
LEMMA HeapPut ==
  ASSUME NEW cat, NEW old, NEW bats, NEW snaps, NEW freed, NEW kcat, NEW kbats, NEW kbats2,
         Heaped(cat, old, bats, snaps, freed, kcat, kbats), kbats2 \in Bats,
         NEW b \in Bids, NEW x \in Contents, ~Named(cat, b), b \notin freed,
         \A c \in Bids : c # b => kbats2[c] = kbats[c],
         kbats[b] # Absent => kbats2[b] # Absent,
         kbats2[b] # Absent => kbats2[b] = x
  PROVE  Heaped(cat, old, [bats EXCEPT ![b] = x], snaps, freed, kcat, kbats2)
<1> DEFINE bats2 == [bats EXCEPT ![b] = x]
<1>0. /\ cat \in [Names -> Bids \cup {0}] /\ old \subseteq Bids /\ bats \in [Bids -> Cells]
      /\ snaps \in [Bids -> Tids] /\ freed \subseteq Bids
      /\ kcat \in [Names -> Bids \cup {0}] /\ kbats \in [Bids -> Cells]
      /\ Heap(cat, old, bats, snaps, freed, kcat, kbats)
  BY DEF Heaped, Catalogs, Bats, Snaps
<1>1. /\ \A c \in Bids : c # b => bats2[c] = bats[c]
      /\ bats2[b] = x /\ x # Absent
  BY <1>0, AbsentIs
<1>2. bats2 \in Bats
  BY <1>0 DEF Bats, Cells
<1> HIDE DEF bats2
<1>3. Heap(cat, old, bats2, snaps, freed, kcat, kbats2)
  <2>1. \E m \in Nat : \A c \in Bids : c > m => bats2[c] = Absent
    <3>1. PICK m \in Nat : \A c \in Bids : c > m => bats[c] = Absent
      BY <1>0 DEF Heap
    <3>2. \E k \in Nat : k >= m /\ k >= b
      <4>1. b \in Nat
        BY SlotsPositive
      <4>2. CASE m >= b
        BY <4>1, <4>2
      <4>3. CASE ~(m >= b)
        BY <4>1, <4>3
      <4> QED  BY <4>2, <4>3
    <3>3. PICK k \in Nat : k >= m /\ k >= b
      BY <3>2
    <3>4. \A c \in Bids : c > k => c > m /\ c # b
      BY <3>3, SlotsPositive
    <3> QED  BY <3>1, <3>3, <3>4, <1>1
  <2>2. \A n \in Names : cat[n] # 0 => bats2[cat[n]] # Absent
    BY <1>0, <1>1 DEF Heap
  <2>4. \A c \in freed : bats2[c] # Absent
    BY <1>0, <1>1 DEF Heap
  <2>6. \A c \in Bids : snaps[c] # 0 => kbats2[c] # Absent
    BY <1>0, <1>1 DEF Heap
  <2>8. ASSUME NEW c \in Bids, kbats2[c] # Absent
        PROVE  /\ bats2[c] # Absent
               /\ Named(cat, c) => c \in old \/ snaps[c] # 0
               /\ ~Named(cat, c) /\ c \notin freed => bats2[c] = kbats2[c]
    <3>1. CASE c = b
      BY <3>1, <2>8, <1>1
    <3>2. CASE c # b
      BY <3>2, <2>8, <1>0, <1>1 DEF Heap
    <3> QED  BY <3>1, <3>2
  <2> QED  BY <1>0, <2>1, <2>2, <2>4, <2>6, <2>8 DEF Heap
<1> QED  BY <1>0, <1>2, <1>3 DEF Heaped, Catalogs, Bats, Snaps, bats2

LEMMA HeapEnter ==
  ASSUME NEW cat, NEW old, NEW bats, NEW snaps, NEW freed, NEW kcat, NEW kbats,
         Heaped(cat, old, bats, snaps, freed, kcat, kbats),
         NEW b \in Bids, NEW n \in Names, NEW v \in Tids,
         ~Named(cat, b), b \notin freed, bats[b] # Absent, cat[n] = 0,
         v # 0 <=> kbats[b] # Absent, ~Named(kcat, b)
  PROVE  Heaped([cat EXCEPT ![n] = b], old, bats, [snaps EXCEPT ![b] = v], freed, kcat, kbats)
<1> DEFINE cat2 == [cat EXCEPT ![n] = b]
           snaps2 == [snaps EXCEPT ![b] = v]
<1>0. /\ cat \in [Names -> Bids \cup {0}] /\ old \subseteq Bids /\ bats \in [Bids -> Cells]
      /\ snaps \in [Bids -> Tids] /\ freed \subseteq Bids
      /\ kcat \in [Names -> Bids \cup {0}] /\ kbats \in [Bids -> Cells]
      /\ Heap(cat, old, bats, snaps, freed, kcat, kbats)
  BY DEF Heaped, Catalogs, Bats, Snaps
<1>1. /\ \A c \in Bids : c # b => snaps2[c] = snaps[c]
      /\ snaps2[b] = v
      /\ \A m \in Names : m # n => cat2[m] = cat[m]
      /\ cat2[n] = b
  BY <1>0
<1>2. cat2 \in Catalogs /\ snaps2 \in Snaps
  BY <1>0 DEF Catalogs, Snaps
<1>3. \A c \in Bids : Named(cat2, c) <=> Named(cat, c) \/ c = b
  BY <1>0, <1>1, SlotsPositive DEF Named
<1> HIDE DEF cat2, snaps2
<1>4. Heap(cat2, old, bats, snaps2, freed, kcat, kbats)
  <2>1. \E m \in Nat : \A c \in Bids : c > m => bats[c] = Absent
    BY <1>0 DEF Heap
  <2>2. ASSUME NEW m \in Names, cat2[m] # 0 PROVE bats[cat2[m]] # Absent
    <3>1. CASE m = n
      BY <3>1, <1>1
    <3>2. CASE m # n
      BY <3>2, <2>2, <1>0, <1>1 DEF Heap
    <3> QED  BY <3>1, <3>2
  <2>3. ASSUME NEW k \in Names, NEW m \in Names, cat2[k] = cat2[m], cat2[k] # 0 PROVE k = m
    <3>1. CASE k # n /\ m # n
      <4>1. cat[k] = cat[m] /\ cat[k] # 0
        BY <2>3, <3>1, <1>1
      <4> QED  BY <4>1, <1>0 DEF Heap
    <3>2. CASE k = n \/ m = n
      BY <2>3, <3>2, <1>1 DEF Named
    <3> QED  BY <3>1, <3>2
  <2>4. \A c \in freed : bats[c] # Absent /\ ~Named(cat2, c) /\ snaps2[c] = 0
    BY <1>0, <1>1, <1>3 DEF Heap
  <2>5. \A c \in old : Named(cat2, c) /\ snaps2[c] = 0
    BY <1>0, <1>1, <1>3 DEF Heap
  <2>6. \A c \in Bids : snaps2[c] # 0 => kbats[c] # Absent
    BY <1>0, <1>1 DEF Heap
  <2>7. ASSUME NEW m \in Names, kcat[m] # 0 PROVE snaps2[kcat[m]] = 0
    <3>1. kcat[m] \in Bids /\ kcat[m] # b
      BY <2>7, <1>0 DEF Named
    <3>2. snaps[kcat[m]] = 0
      BY <2>7, <1>0 DEF Heap
    <3> QED  BY <3>1, <3>2, <1>1
  <2>8. \A c \in Bids : kbats[c] # Absent =>
           /\ bats[c] # Absent
           /\ Named(cat2, c) => c \in old \/ snaps2[c] # 0
           /\ ~Named(cat2, c) /\ c \notin freed => bats[c] = kbats[c]
    BY <1>0, <1>1, <1>3 DEF Heap
  <2> QED  BY <2>1, <2>2, <2>3, <2>4, <2>5, <2>6, <2>7, <2>8 DEF Heap
<1> QED  BY <1>0, <1>2, <1>4 DEF Heaped, Catalogs, Bats, Snaps, cat2, snaps2

(* The contents of a bat that the catalog names.                           *)
LEMMA HeapWrite ==
  ASSUME NEW cat, NEW old, NEW bats, NEW snaps, NEW freed, NEW kcat, NEW kbats, NEW bats2,
         Heaped(cat, old, bats, snaps, freed, kcat, kbats), bats2 \in Bats,
         \A c \in Bids : bats2[c] = bats[c] \/ (Named(cat, c) /\ bats2[c] # Absent)
  PROVE  Heaped(cat, old, bats2, snaps, freed, kcat, kbats)
<1>0. /\ cat \in [Names -> Bids \cup {0}] /\ old \subseteq Bids /\ bats \in [Bids -> Cells]
      /\ snaps \in [Bids -> Tids] /\ freed \subseteq Bids
      /\ kcat \in [Names -> Bids \cup {0}] /\ kbats \in [Bids -> Cells]
      /\ Heap(cat, old, bats, snaps, freed, kcat, kbats)
  BY DEF Heaped, Catalogs, Bats, Snaps
<1>1. ASSUME NEW c \in Bids, Named(cat, c) PROVE bats[c] # Absent
  BY <1>0, <1>1, SlotsPositive DEF Heap, Named
<1>2. Heap(cat, old, bats2, snaps, freed, kcat, kbats)
  <2>1. \E m \in Nat : \A c \in Bids : c > m => bats2[c] = Absent
    BY <1>0, <1>1 DEF Heap
  <2>2. \A n \in Names : cat[n] # 0 => bats2[cat[n]] # Absent
    BY <1>0 DEF Heap
  <2>4. \A c \in freed : bats2[c] # Absent /\ ~Named(cat, c) /\ snaps[c] = 0
    BY <1>0 DEF Heap
  <2>8. \A c \in Bids : kbats[c] # Absent =>
           /\ bats2[c] # Absent
           /\ Named(cat, c) => c \in old \/ snaps[c] # 0
           /\ ~Named(cat, c) /\ c \notin freed => bats2[c] = kbats[c]
    BY <1>0 DEF Heap
  <2> QED  BY <1>0, <2>1, <2>2, <2>4, <2>8 DEF Heap
<1> QED  BY <1>0, <1>2 DEF Heaped, Catalogs, Bats, Snaps

-----------------------------------------------------------------------------
(***************************************************************************)
(* logger_del_bat and logger_add_bat.                                      *)
(***************************************************************************)
Same(h, g) == h.id = g.id /\ h.tid = g.tid /\ h.seqs = g.seqs /\ h.tr = g.tr /\ h.err = g.err

(* h is g without the bat b.                                               *)
Leaves(g, b, h) ==
    /\ h \in Loggers /\ Same(h, g) /\ h.changes = TRUE
    /\ h.catalog = DelCatalog(g.catalog, b) /\ h.old = g.old \ {b}
    /\ h.bats = DelBats(g.bats, b, Release(g.old, g.snaps, b))
    /\ h.snaps = DelSnaps(g.snaps, g.old, b)
    /\ h.freed = DelFreed(g.freed, b, Release(g.old, g.snaps, b))

LEMMA DelFields ==
  ASSUME NEW g \in Loggers, NEW b \in Bids, NEW h, h = logger_del_bat(g, b)
  PROVE  Leaves(g, b, h)
<1> DEFINE release == Release(g.old, g.snaps, b)
<1> USE DEF DelCatalog, DelBats, DelSnaps, DelFreed
<1> DEFINE cat == DelCatalog(g.catalog, b)
           snaps == DelSnaps(g.snaps, g.old, b)
           freed == DelFreed(g.freed, b, release)
           bats == DelBats(g.bats, b, release)
<1>1. /\ g.catalog \in [Names -> Bids \cup {0}] /\ g.old \subseteq Bids
      /\ g.bats \in [Bids -> Cells] /\ g.snaps \in [Bids -> Tids] /\ g.freed \subseteq Bids
  BY DEF Loggers, Catalogs, Bats, Snaps
<1>2. cat \in Catalogs /\ snaps \in Snaps /\ freed \in SUBSET Bids /\ bats \in Bats
      /\ g.old \ {b} \in SUBSET Bids
  <2>1. Absent \in Cells /\ 0 \in Tids
    BY LoggerAssumption DEF Cells, Tids
  <2> QED  BY <1>1, <2>1 DEF Catalogs, Bats, Snaps
<1>3. h = [g EXCEPT !.catalog = cat, !.old = g.old \ {b}, !.snaps = snaps,
                    !.freed = freed, !.bats = bats, !.changes = TRUE]
  BY <1>1 DEF logger_del_bat, Loggers, Release
<1> HIDE DEF cat, snaps, freed, bats
<1>4. h \in Loggers
  BY <1>2, <1>3, ZenonT(60) DEF Loggers
<1>5. /\ h.catalog = cat /\ h.old = g.old \ {b} /\ h.snaps = snaps /\ h.freed = freed
      /\ h.bats = bats /\ h.changes = TRUE
  BY <1>3 DEF Loggers
<1>6. Same(h, g)
  BY <1>3 DEF Loggers, Same
<1> QED  BY <1>4, <1>5, <1>6 DEF Leaves, cat, snaps, freed, bats

(* h is g with the bat b, which holds x and is marked v, as the bat of n:  *)
(* with logger_add_bat and, of what was the bat of n, logger_del_bat.      *)
Enters(g, b, n, x, v, h) ==
    LET d == g.catalog[n]
        bats == [g.bats EXCEPT ![b] = x]
        release == Release(g.old, g.snaps, d)
    IN  /\ h \in Loggers /\ Same(h, g) /\ h.changes = TRUE
        /\ d = 0 => /\ h.catalog = [g.catalog EXCEPT ![n] = b]
                    /\ h.old = g.old /\ h.freed = g.freed /\ h.bats = bats
                    /\ h.snaps = [g.snaps EXCEPT ![b] = v]
        /\ d # 0 => /\ h.catalog = [DelCatalog(g.catalog, d) EXCEPT ![n] = b]
                    /\ h.old = g.old \ {d} /\ h.freed = DelFreed(g.freed, d, release)
                    /\ h.bats = DelBats(bats, d, release)
                    /\ h.snaps = [DelSnaps(g.snaps, g.old, d) EXCEPT ![b] = v]

LEMMA AddFields ==
  ASSUME NEW g \in Loggers, NEW b \in Bids, NEW n \in Names, NEW x \in Contents, NEW v \in Tids,
         ~Named(g.catalog, b),
         NEW g1 \in Loggers, Same(g1, g), g1.catalog = g.catalog, g1.old = g.old,
         g1.freed = g.freed, g1.snaps = g.snaps, g1.bats = [g.bats EXCEPT ![b] = x],
         NEW a, a = logger_add_bat(g1, b, n)
  PROVE  /\ Enters(g, b, n, x, v, [a EXCEPT !.snaps[b] = v])
         /\ v = g.snaps[b] => Enters(g, b, n, x, v, a)
<1>1. /\ g.catalog \in [Names -> Bids \cup {0}] /\ g.old \subseteq Bids
      /\ g.bats \in [Bids -> Cells] /\ g.snaps \in [Bids -> Tids] /\ g.freed \subseteq Bids
      /\ g.catalog[n] # b
  BY DEF Loggers, Catalogs, Bats, Snaps, Named
<1> DEFINE d == g.catalog[n]
<1>2. PICK h : h = IF d = 0 THEN g1 ELSE logger_del_bat(g1, d)
  OBVIOUS
<1>3. a = [h EXCEPT !.catalog[n] = b, !.changes = TRUE]
  BY <1>1, <1>2 DEF logger_add_bat
<1> DEFINE release == Release(g.old, g.snaps, d)
           s == IF d = 0 THEN g.snaps ELSE DelSnaps(g.snaps, g.old, d)
<1>4. /\ h \in Loggers /\ Same(h, g)
      /\ d = 0 => h.catalog = g.catalog /\ h.old = g.old /\ h.freed = g.freed
                  /\ h.bats = [g.bats EXCEPT ![b] = x]
      /\ d # 0 => /\ h.catalog = DelCatalog(g.catalog, d) /\ h.old = g.old \ {d}
                  /\ h.freed = DelFreed(g.freed, d, release)
                  /\ h.bats = DelBats([g.bats EXCEPT ![b] = x], d, release)
      /\ h.snaps = s
  <2>1. CASE d = 0
    BY <2>1, <1>2
  <2>2. CASE d # 0
    <3>1. d \in Bids /\ h = logger_del_bat(g1, d)
      BY <2>2, <1>1, <1>2
    <3> HIDE DEF d
    <3>2. Leaves(g1, d, h)
      BY <3>1, DelFields
    <3>3. /\ h \in Loggers /\ Same(h, g1)
          /\ h.catalog = DelCatalog(g.catalog, d) /\ h.old = g.old \ {d}
          /\ h.bats = DelBats(g1.bats, d, release) /\ h.snaps = DelSnaps(g.snaps, g.old, d)
          /\ h.freed = DelFreed(g.freed, d, release)
      BY <3>2 DEF Leaves
    <3> HIDE DEF release
    <3>4. Same(h, g)
      BY <3>3 DEF Same
    <3> QED  BY <2>2, <3>3, <3>4 DEF d
  <2> QED  BY <2>1, <2>2
<1> DEFINE cat2 == [h.catalog EXCEPT ![n] = b]
           snaps2 == [h.snaps EXCEPT ![b] = v]
<1>5. cat2 \in Catalogs /\ snaps2 \in Snaps /\ snaps2 = [s EXCEPT ![b] = v]
  BY <1>4 DEF Loggers, Catalogs, Snaps
<1>6. a = [h EXCEPT !.catalog = cat2, !.changes = TRUE]
  BY <1>3, <1>4 DEF Loggers
<1> HIDE DEF cat2, snaps2, s, release
<1>7. /\ a \in Loggers /\ a.catalog = cat2 /\ a.changes = TRUE /\ a.old = h.old
      /\ a.freed = h.freed /\ a.bats = h.bats /\ a.snaps = h.snaps /\ Same(a, h)
  BY <1>4, <1>5, <1>6 DEF Loggers, Same
<1>8. PICK e : e = [a EXCEPT !.snaps[b] = v]
  OBVIOUS
<1>9. e = [a EXCEPT !.snaps = snaps2]
  BY <1>7, <1>8 DEF Loggers, snaps2
<1>10. /\ e \in Loggers /\ e.catalog = cat2 /\ e.changes = TRUE /\ e.old = h.old
       /\ e.freed = h.freed /\ e.bats = h.bats /\ e.snaps = snaps2 /\ Same(e, h)
  BY <1>5, <1>7, <1>9, ZenonT(60) DEF Loggers, Same
<1>11. Same(e, g) /\ Same(a, g)
  BY <1>4, <1>7, <1>10 DEF Same
<1>12. Enters(g, b, n, x, v, e)
  BY <1>4, <1>5, <1>10, <1>11 DEF Enters, cat2, s, release
<1>13. ASSUME v = g.snaps[b] PROVE Enters(g, b, n, x, v, a)
  <2>1. snaps2 = h.snaps
    <3>1. CASE d = 0
      BY <3>1, <1>13, <1>1, <1>4, <1>5 DEF s, snaps2
    <3>2. CASE d # 0
      BY <3>2, <1>13, <1>1, <1>4, <1>5 DEF s, snaps2, DelSnaps
    <3> QED  BY <3>1, <3>2
  <2> QED  BY <2>1, <1>4, <1>5, <1>7, <1>11 DEF Enters, cat2, s, release
<1> QED  BY <1>8, <1>12, <1>13

(* What the bats of h are then, for a checkpoint K2 that holds what K does *)
(* and perhaps b.                                                          *)
MayEnter(K, K2, g, b, n, x, v) ==
    /\ K \in Checkpoints /\ K2 \in Checkpoints /\ Sound(g, K)
    /\ b \in Bids /\ n \in Names /\ x \in Contents /\ v \in Tids
    /\ ~Named(g.catalog, b) /\ b \notin g.freed /\ ~Named(K.catalog, b)
    /\ K2.catalog = K.catalog /\ \A c \in Bids : c # b => K2.bats[c] = K.bats[c]
    /\ K.bats[b] # Absent => K2.bats[b] # Absent
    /\ K2.bats[b] # Absent => K2.bats[b] = x
    /\ v # 0 <=> K2.bats[b] # Absent
HasEntered(K2, g, b, n, x, v, h) ==
    /\ Sound(h, K2) /\ Same(h, g) /\ h.changes = TRUE
    /\ h.catalog = [g.catalog EXCEPT ![n] = b]
    /\ \A m \in Names : h.catalog[m] = IF m = n THEN b ELSE g.catalog[m]
    /\ \A c \in Bids : c # b /\ c # g.catalog[n] =>
           h.bats[c] = g.bats[c] /\ h.snaps[c] = g.snaps[c]
    /\ h.bats[b] = x /\ h.snaps[b] = v
    /\ \A c \in Bids : c # b /\ h.snaps[c] # 0 => h.snaps[c] = g.snaps[c] /\ h.bats[c] = g.bats[c]
    /\ \A c \in Bids : Named(h.catalog, c) \/ c \in h.freed =>
           c = b \/ Named(g.catalog, c) \/ c \in g.freed

LEMMA Entered ==
  ASSUME NEW K, NEW K2, NEW g, NEW b, NEW n, NEW x, NEW v, NEW h,
         MayEnter(K, K2, g, b, n, x, v), Enters(g, b, n, x, v, h)
  PROVE  HasEntered(K2, g, b, n, x, v, h)
<1> USE DEF MayEnter
<1> /\ K \in Checkpoints /\ K2 \in Checkpoints /\ Sound(g, K)
    /\ b \in Bids /\ n \in Names /\ x \in Contents /\ v \in Tids
  OBVIOUS
<1> DEFINE d == g.catalog[n]
           bats1 == [g.bats EXCEPT ![b] = x]
<1>0. /\ g \in Loggers /\ g.catalog \in [Names -> Bids \cup {0}] /\ g.old \subseteq Bids
      /\ g.bats \in [Bids -> Cells] /\ g.snaps \in [Bids -> Tids] /\ g.freed \subseteq Bids
      /\ K2.bats \in Bats /\ d # b
  BY DEF Sound, Loggers, Catalogs, Bats, Snaps, Checkpoints, Named
<1>1. Heaped(g.catalog, g.old, bats1, g.snaps, g.freed, K.catalog, K2.bats)
  <2>1. Heaped(g.catalog, g.old, g.bats, g.snaps, g.freed, K.catalog, K.bats)
    BY HeapOf
  <2> QED  BY <2>1, <1>0, HeapPut
<1>2. \A m \in Names : m # n /\ d # 0 => g.catalog[m] # d
  BY <1>0 DEF Sound, Heap
<1>3. h \in Loggers /\ Same(h, g) /\ h.changes = TRUE
  BY DEF Enters
<1>4. CASE d = 0
  <2>1. /\ h.catalog = [g.catalog EXCEPT ![n] = b]
        /\ h.old = g.old /\ h.freed = g.freed /\ h.bats = bats1
        /\ h.snaps = [g.snaps EXCEPT ![b] = v]
    BY <1>4 DEF Enters
  <2>2. bats1[b] # Absent
    BY <1>0, AbsentIs
  <2>3. Heaped([g.catalog EXCEPT ![n] = b], g.old, bats1, [g.snaps EXCEPT ![b] = v], g.freed,
               K.catalog, K2.bats)
    <3> HIDE DEF bats1
    <3> QED  BY <1>1, <1>4, <2>2, HeapEnter
  <2>4. Sound(h, K2)
    BY <1>3, <2>1, <2>3, HeapOf
  <2>5. \A c \in Bids : Named(h.catalog, c) \/ c \in h.freed =>
                c = b \/ Named(g.catalog, c) \/ c \in g.freed
    BY <2>1, <1>0 DEF Named
  <2> QED  BY <1>0, <1>3, <1>4, <2>1, <2>4, <2>5, SlotsPositive DEF HasEntered
<1>5. CASE d # 0
  <2> DEFINE out == DelCatalog(g.catalog, d)
             snaps1 == DelSnaps(g.snaps, g.old, d)
  <2>1. PICK release : release = Release(g.old, g.snaps, d)
    OBVIOUS
  <2> DEFINE bats2 == DelBats(bats1, d, release)
             freed2 == DelFreed(g.freed, d, release)
  <2>2. /\ h.catalog = [out EXCEPT ![n] = b]
        /\ h.old = g.old \ {d} /\ h.freed = freed2 /\ h.bats = bats2
        /\ h.snaps = [snaps1 EXCEPT ![b] = v]
    BY <1>5, <2>1 DEF Enters
  <2>3. d \in Bids /\ Named(g.catalog, d)
    BY <1>0, <1>5 DEF Named
  <2>4. /\ Heaped(out, g.old \ {d}, bats2, snaps1, freed2, K.catalog, K2.bats)
        /\ d \in g.old => g.snaps[d] = 0
    <3> HIDE DEF bats1
    <3> QED  BY <1>1, <2>1, <2>3, HeapDel
  <2>5. bats2[b] = x /\ bats2[b] # Absent /\ out[n] = 0
    BY <1>0, AbsentIs DEF DelBats, DelCatalog
  <2>6. ~Named(out, b) /\ b \notin freed2
    BY <1>0, SlotsPositive DEF Named, DelCatalog, DelFreed
  <2>7. Heaped([out EXCEPT ![n] = b], g.old \ {d}, bats2, [snaps1 EXCEPT ![b] = v], freed2,
               K.catalog, K2.bats)
    <3> HIDE DEF bats2, out, snaps1, freed2
    <3> QED  BY <2>4, <2>5, <2>6, HeapEnter
  <2>8. Sound(h, K2)
    BY <1>3, <2>2, <2>7, HeapOf
  <2>9. h.catalog = [g.catalog EXCEPT ![n] = b]
    <3>1. out \in [Names -> Bids \cup {0}]
      BY <1>0 DEF DelCatalog
    <3>2. \A m \in Names : m # n => out[m] = g.catalog[m]
      BY <1>0, <1>2, <1>5 DEF DelCatalog
    <3> HIDE DEF out
    <3> QED  BY <1>0, <2>2, <3>1, <3>2, ZenonT(60)
  <2>10. \A c \in Bids : Named(h.catalog, c) \/ c \in h.freed =>
                c = b \/ Named(g.catalog, c) \/ c \in g.freed
    BY <2>2, <2>3, <2>9, <1>0 DEF Named, DelFreed
  <2>11. /\ h.bats[b] = x /\ h.snaps[b] = v /\ h.snaps[d] = 0
         /\ \A c \in Bids : c # b /\ c # d => h.bats[c] = g.bats[c] /\ h.snaps[c] = g.snaps[c]
    BY <1>0, <2>2, <2>3, <2>4, ZenonT(30) DEF DelBats, DelSnaps
  <2> QED  BY <1>0, <1>3, <2>8, <2>9, <2>10, <2>11 DEF HasEntered
<1> QED  BY <1>4, <1>5

-----------------------------------------------------------------------------
(***************************************************************************)
(* What applying one record makes of the columns a log gives.              *)
(***************************************************************************)
LEMMA ChangedIs ==
  ASSUME NEW h \in Loggers, h.changes = TRUE
  PROVE  [h EXCEPT !.changes = TRUE] = h
BY DEF Loggers

LEMMA NewBidFree ==
  ASSUME Unlimited, NEW g, g.bats \in Bats,
         \E m \in Nat : \A b \in Bids : b > m => g.bats[b] = Absent
  PROVE  NewBid(g) \in Bids /\ g.bats[NewBid(g)] = Absent
<1>1. PICK m \in Nat : \A b \in Bids : b > m => g.bats[b] = Absent
  OBVIOUS
<1>2. PICK c \in Bids : c > m
  BY DEF Unlimited
<1>3. FreeBids(g) \subseteq Nat /\ c \in FreeBids(g)
  BY <1>1, <1>2, SlotsPositive DEF FreeBids
<1> DEFINE S == FreeBids(g)
<1>4. \E b \in S : \A d \in S : b <= d
  <2> HIDE DEF S
  <2>1. S \subseteq Nat /\ S # {}
    BY <1>3 DEF S
  <2> QED  BY <2>1, Least
<1>5. NewBid(g) \in FreeBids(g)
  BY <1>4 DEF NewBid
<1> QED  BY <1>5 DEF FreeBids

LEMMA FreeBat ==
  ASSUME NEW K, NEW g, Sound(g, K), Base(K), NEW b \in Bids, g.bats[b] = Absent
  PROVE  /\ ~Named(g.catalog, b) /\ b \notin g.freed /\ ~Named(K.catalog, b)
         /\ K.bats[b] = Absent /\ g.snaps[b] = 0
<1>1. Heap(g.catalog, g.old, g.bats, g.snaps, g.freed, K.catalog, K.bats)
  BY DEF Sound
<1>2. ~Named(g.catalog, b) /\ b \notin g.freed
  BY <1>1, SlotsPositive DEF Heap, Named
<1>3. K.bats[b] = Absent
  BY <1>1 DEF Heap
<1>4. g.snaps[b] = 0
  BY <1>1, <1>3 DEF Heap
<1>5. ~Named(K.catalog, b)
  BY <1>3, SlotsPositive DEF Base, Based, Named
<1> QED  BY <1>2, <1>3, <1>4, <1>5

LEMMA ColumnsAre ==
  ASSUME NEW K, NEW g, Sound(g, K)
  PROVE  /\ \A n \in Names : g.catalog[n] \in Bids \cup {0}
         /\ \A n \in Names : Columns(g)[n] = IF g.catalog[n] = 0 THEN Absent ELSE g.bats[g.catalog[n]]
         /\ \A n \in Names : g.catalog[n] # 0 <=> Columns(g)[n] # Absent
         /\ Columns(g) \in [Names -> Cells]
         /\ \A m, n \in Names : g.catalog[m] # 0 /\ m # n => g.catalog[m] # g.catalog[n]
<1>1. /\ g.catalog \in [Names -> Bids \cup {0}] /\ g.bats \in [Bids -> Cells]
      /\ \A n \in Names : g.catalog[n] # 0 => g.bats[g.catalog[n]] # Absent
      /\ \A m, n \in Names : g.catalog[m] = g.catalog[n] /\ g.catalog[m] # 0 => m = n
  BY DEF Sound, Loggers, Heap, Catalogs, Bats
<1>2. Columns(g) = [n \in Names |-> IF g.catalog[n] = 0 THEN Absent ELSE g.bats[g.catalog[n]]]
  BY DEF Columns
<1>3. Absent \in Cells
  BY DEF Cells
<1>4. Columns(g) \in [Names -> Cells]
  BY <1>1, <1>2, <1>3
<1> QED  BY <1>1, <1>2, <1>4

With(c, n, x) == [c EXCEPT ![n] = x]

(* h is what applying a record for column n has made of g.                 *)
Applies(K, g, h, F, c, n) ==
    /\ Found(K, h, F, c) /\ Same(h, g)
    /\ \A m \in Names \ {n} : h.catalog[m] = g.catalog[m]
    /\ \A m \in Names \ {n} : h.catalog[m] # 0 => h.snaps[h.catalog[m]] = g.snaps[g.catalog[m]]

(* A bat b enters the catalog.                                             *)
EntersFound(K, g, F, F2, c, b, n, x, v, h) ==
    /\ Base(K) /\ Found(K, g, F, c)
    /\ MayEnter(K, K, g, b, n, x, v) /\ Enters(g, b, n, x, v, h)
    /\ v <= g.tid
    /\ K.bats[b] # Absent => F2.bats[b] # Absent
    /\ \A d \in Bids : F.bats[d] # Absent => F2.bats[d] # Absent

EnteredFound(K, g, F2, c, b, n, x, v, h) ==
    /\ Applies(K, g, h, F2, With(c, n, x), n)
    /\ h.catalog[n] = b /\ h.snaps[b] = v /\ h.changes = TRUE

LEMMA ApplyEnters ==
  ASSUME NEW K, NEW g, NEW F, NEW F2, NEW c, NEW b, NEW n, NEW x, NEW v, NEW h,
         EntersFound(K, g, F, F2, c, b, n, x, v, h)
  PROVE  EnteredFound(K, g, F2, c, b, n, x, v, h)
<1> USE DEF EntersFound
<1>0. b \in Bids /\ n \in Names /\ x \in Contents /\ v \in Tids
  BY DEF MayEnter
<1>1. Sound(g, K) /\ K \in Checkpoints /\ g.err = "OK" /\ c = Columns(g) /\ x # Absent
  BY <1>0, AbsentIs DEF Found, Base
<1>2. /\ Sound(h, K) /\ Same(h, g) /\ h.changes = TRUE
      /\ \A m \in Names : h.catalog[m] = IF m = n THEN b ELSE g.catalog[m]
      /\ \A d \in Bids : d # b /\ d # g.catalog[n] =>
                h.bats[d] = g.bats[d] /\ h.snaps[d] = g.snaps[d]
      /\ h.bats[b] = x /\ h.snaps[b] = v
      /\ \A d \in Bids : Named(h.catalog, d) \/ d \in h.freed =>
                d = b \/ Named(g.catalog, d) \/ d \in g.freed
  <2>1. HasEntered(K, g, b, n, x, v, h)
    BY Entered
  <2> QED  BY <2>1 DEF HasEntered
<1>3. /\ \A m \in Names : g.catalog[m] \in Bids \cup {0}
      /\ \A m \in Names : c[m] = IF g.catalog[m] = 0 THEN Absent ELSE g.bats[g.catalog[m]]
      /\ c \in [Names -> Cells]
      /\ \A m \in Names : g.catalog[m] # 0 /\ m # n => g.catalog[m] # g.catalog[n]
  BY <1>0, <1>1, ColumnsAre
<1>4. \A m \in Names \ {n} : h.catalog[m] = g.catalog[m] /\ (g.catalog[m] # 0 =>
         h.bats[g.catalog[m]] = g.bats[g.catalog[m]] /\ h.snaps[g.catalog[m]] = g.snaps[g.catalog[m]])
  <2>1. TAKE m \in Names \ {n}
  <2>2. g.catalog[m] # b
    BY <1>0 DEF Named, MayEnter
  <2> QED  BY <1>0, <1>2, <1>3, <2>2
<1>5. Columns(h) = With(c, n, x)
  <2>1. Columns(h) = [m \in Names |-> IF h.catalog[m] = 0 THEN Absent ELSE h.bats[h.catalog[m]]]
    BY DEF Columns
  <2>2. ASSUME NEW m \in Names PROVE Columns(h)[m] = With(c, n, x)[m]
    <3>1. CASE m = n
      BY <3>1, <1>0, <2>1, <1>2, <1>3, SlotsPositive DEF With
    <3>2. CASE m # n
      BY <1>0, <3>2, <2>1, <1>3, <1>4 DEF With
    <3> QED  BY <3>1, <3>2
  <2>3. With(c, n, x) \in [Names -> Cells]
    BY <1>0, <1>3 DEF With, Cells
  <2> QED  BY <2>1, <2>2, <2>3
<1>6. \A d \in Bids : K.bats[d] # Absent /\ (Named(h.catalog, d) \/ d \in h.freed) => F2.bats[d] # Absent
  BY <1>0, <1>2 DEF Found
<1>7. \A m \in Names : h.catalog[m] # 0 => h.snaps[h.catalog[m]] <= h.tid
  <2>1. h.tid = g.tid /\ \A m \in Names : g.catalog[m] # 0 => g.snaps[g.catalog[m]] <= g.tid
    BY <1>2 DEF Same, Found
  <2> QED  BY <1>0, <2>1, <1>2, <1>4
<1>8. h.err = "OK"
  BY <1>1, <1>2 DEF Same
<1>9. Found(K, h, F2, With(c, n, x))
  BY <1>2, <1>5, <1>6, <1>7, <1>8 DEF Found
<1> QED  BY <1>0, <1>2, <1>4, <1>9 DEF Applies, EnteredFound

Changing(r, flag, n) == r \in Changes /\ r.flag = flag /\ r.name = n

Empties(x, v) == x = <<>> /\ v = 0

LEMMA CreateEnters ==
  ASSUME Unlimited, NEW K, Base(K), NEW g, NEW F, NEW c, Found(K, g, F, c),
         NEW r, NEW n \in Names, Changing(r, "CREATE", n), g.tid >= 1,
         NEW h, h = la_apply(g, r)
  PROVE  \E b, x, v : Empties(x, v) /\ EntersFound(K, g, F, F, c, b, n, x, v, h)
<1>1. Sound(g, K) /\ g \in Loggers /\ g.err = "OK"
  BY DEF Found, Sound
<1> DEFINE b == NewBid(g)
           g1 == [g EXCEPT !.bats[b] = <<>>]
           a == logger_add_bat(g1, b, n)
<1>2. b \in Bids /\ g.bats[b] = Absent
  BY <1>1, NewBidFree DEF Sound, Heap, Loggers
<1> HIDE DEF b
<1>3. /\ ~Named(g.catalog, b) /\ b \notin g.freed /\ ~Named(K.catalog, b)
      /\ K.bats[b] = Absent /\ g.snaps[b] = 0
  BY <1>1, <1>2, FreeBat
<1>4. <<>> \in Contents /\ 0 \in Tids
  BY LoggerAssumption DEF Contents, Tids
<1>5. /\ g1 \in Loggers /\ Same(g1, g) /\ g1.catalog = g.catalog /\ g1.old = g.old
      /\ g1.freed = g.freed /\ g1.snaps = g.snaps /\ g1.bats = [g.bats EXCEPT ![b] = <<>>]
  <2> DEFINE bats == [g.bats EXCEPT ![b] = <<>>]
  <2>1. bats \in Bats
    BY <1>1, <1>4 DEF Loggers, Bats, Cells
  <2>2. g1 = [g EXCEPT !.bats = bats]
    BY <1>1 DEF Loggers
  <2> HIDE DEF bats, g1
  <2>3. g1 \in Loggers
    BY <1>1, <2>1, <2>2 DEF Loggers
  <2> QED  BY <1>1, <2>2, <2>3 DEF Loggers, Same, bats
<1>6. Enters(g, b, n, <<>>, 0, a)
  <2> HIDE DEF g1
  <2> QED  BY <1>1, <1>2, <1>3, <1>4, <1>5, AddFields
<1>7. h = a
  <2>1. la_bat_create(g, r) = a
    BY DEF la_bat_create, b, Changing
  <2>2. h = [a EXCEPT !.changes = TRUE]
    BY <1>1, <2>1 DEF la_apply, Changing
  <2> HIDE DEF a
  <2> QED  BY <2>2, <1>6, ChangedIs DEF Enters
<1> HIDE DEF a, g1
<1>8. PICK x, v : Empties(x, v)
  BY DEF Empties
<1>9. v <= g.tid
  BY <1>1, <1>8, LoggerAssumption DEF Loggers, Tids, Empties
<1>10. MayEnter(K, K, g, b, n, x, v)
  BY <1>1, <1>2, <1>3, <1>4, <1>8 DEF MayEnter, Base, Empties
<1>11. Enters(g, b, n, x, v, h)
  BY <1>6, <1>7, <1>8 DEF Empties
<1>12. EntersFound(K, g, F, F, c, b, n, x, v, h)
  BY <1>3, <1>9, <1>10, <1>11 DEF EntersFound
<1> QED  BY <1>8, <1>12

(* For n: its bat is new to the snapshots that h.tid will make.            *)
Creates(K, g, F, c, n, h) ==
    /\ \E x : x = <<>> /\ Applies(K, g, h, F, With(c, n, x), n)
    /\ h.catalog[n] # 0 /\ h.snaps[h.catalog[n]] < h.tid

LEMMA ApplyCreate ==
  ASSUME Unlimited, NEW K, Base(K), NEW g, NEW F, NEW c, Found(K, g, F, c),
         NEW r, NEW n \in Names, Changing(r, "CREATE", n), g.tid >= 1,
         NEW h, h = la_apply(g, r)
  PROVE  Creates(K, g, F, c, n, h)
<1>1. PICK b, x, v : Empties(x, v) /\ EntersFound(K, g, F, F, c, b, n, x, v, h)
  BY CreateEnters
<1>2. EnteredFound(K, g, F, c, b, n, x, v, h)
  BY <1>1, ApplyEnters
<1>3. b # 0 /\ v < h.tid
  <2>1. b \in Bids
    BY <1>1 DEF EntersFound, MayEnter
  <2>2. h.tid >= 1 /\ h.tid \in Int
    BY <1>2, LoggerAssumption DEF EnteredFound, Applies, Same, Loggers, Tids, Found, Sound
  <2> QED  BY <2>1, <2>2, <1>1, SlotsPositive DEF Empties
<1> QED  BY <1>1, <1>2, <1>3 DEF Creates, Empties, EnteredFound

(* A bat that was saved as a snapshot: F2 holds it and F does not yet.     *)
Using(K, F, F2, r, n, b, x) ==
    /\ Changing(r, "USE", n) /\ r.bid = b
    /\ b \in Bids /\ n \in Names /\ x \in Contents
    /\ F.bats[b] = Absent /\ F2.bats[b] # Absent /\ K.bats[b] = x /\ ~Named(K.catalog, b)
    /\ \A d \in Bids : F.bats[d] # Absent => F2.bats[d] # Absent

LEMMA ApplyUse ==
  ASSUME NEW K, Base(K), NEW g, NEW F, NEW F2, NEW c, Found(K, g, F, c),
         NEW r, NEW n, NEW b, NEW x, Using(K, F, F2, r, n, b, x), g.tid >= 1,
         NEW h, h = la_apply(g, r)
  PROVE  Applies(K, g, h, F2, With(c, n, x), n)
<1>0. b \in Bids /\ n \in Names /\ x \in Contents
  BY DEF Using
<1>1. Sound(g, K) /\ g \in Loggers /\ g.err = "OK" /\ x # Absent /\ K.bats[b] # Absent
  BY AbsentIs DEF Found, Sound, Using
<1>2. ~Named(g.catalog, b) /\ b \notin g.freed
  BY <1>0, <1>1 DEF Found, Using
<1>3. g.bats[b] = x /\ g.bats \in [Bids -> Cells] /\ g.tid \in Tids
  BY <1>0, <1>1, <1>2 DEF Sound, Heap, Loggers, Bats, Using
<1> DEFINE a == logger_add_bat(g, b, n)
<1>4. g.bats = [g.bats EXCEPT ![b] = x] /\ Same(g, g)
  BY <1>0, <1>3 DEF Same
<1>5. Enters(g, b, n, x, g.tid, [a EXCEPT !.snaps[b] = g.tid])
  BY <1>0, <1>1, <1>2, <1>3, <1>4, AddFields
<1>6. h = [a EXCEPT !.snaps[b] = g.tid]
  <2>1. la_bat_use(g, r) = [a EXCEPT !.snaps[b] = g.tid]
    BY <1>1, <1>3 DEF la_bat_use, Using, Changing
  <2>2. PICK e : e = [a EXCEPT !.snaps[b] = g.tid]
    OBVIOUS
  <2>3. h = [e EXCEPT !.changes = TRUE]
    BY <1>1, <2>1, <2>2 DEF la_apply, Using, Changing
  <2>4. e \in Loggers /\ e.changes = TRUE
    BY <1>5, <2>2 DEF Enters
  <2> QED  BY <2>2, <2>3, <2>4, ChangedIs
<1> HIDE DEF a
<1>7. g.tid <= g.tid /\ (g.tid # 0 <=> K.bats[b] # Absent)
  BY <1>1, <1>3, LoggerAssumption DEF Tids
<1>8. MayEnter(K, K, g, b, n, x, g.tid)
  BY <1>0, <1>1, <1>2, <1>3, <1>7 DEF MayEnter, Base, Using
<1>9. Enters(g, b, n, x, g.tid, h)
  BY <1>5, <1>6
<1>10. EntersFound(K, g, F, F2, c, b, n, x, g.tid, h)
  BY <1>7, <1>8, <1>9 DEF EntersFound, Using
<1>11. EnteredFound(K, g, F2, c, b, n, x, g.tid, h)
  BY <1>10, ApplyEnters
<1> QED  BY <1>11 DEF EnteredFound


(* A destroyed column.                                                     *)
Destroys(K, g, F, c, n, h) == Applies(K, g, h, F, With(c, n, Absent), n) /\ h.catalog[n] = 0

LEMMA ApplyDestroy ==
  ASSUME NEW K, Base(K), NEW g, NEW F, NEW c, Found(K, g, F, c),
         NEW r, NEW n \in Names, Changing(r, "DESTROY", n), c[n] # Absent,
         NEW h, h = la_apply(g, r)
  PROVE  Destroys(K, g, F, c, n, h)
<1>1. Sound(g, K) /\ g \in Loggers /\ g.err = "OK" /\ c = Columns(g) /\ K \in Checkpoints
  BY DEF Found, Sound, Base
<1>2. /\ \A m \in Names : g.catalog[m] \in Bids \cup {0}
      /\ \A m \in Names : c[m] = IF g.catalog[m] = 0 THEN Absent ELSE g.bats[g.catalog[m]]
      /\ c \in [Names -> Cells]
      /\ \A k, m \in Names : g.catalog[k] # 0 /\ k # m => g.catalog[k] # g.catalog[m]
  BY <1>1, ColumnsAre
<1> DEFINE b == g.catalog[n]
           d == logger_del_bat(g, b)
<1>3. b \in Bids /\ b # 0 /\ Named(g.catalog, b)
  BY <1>2 DEF Named
<1> HIDE DEF b
<1>4. Leaves(g, b, d)
  BY <1>1, <1>3, DelFields
<1>5. PICK release : release = Release(g.old, g.snaps, b)
  OBVIOUS
<1>6. /\ d \in Loggers /\ Same(d, g) /\ d.changes = TRUE /\ d.catalog = DelCatalog(g.catalog, b)
      /\ d.old = g.old \ {b} /\ d.bats = DelBats(g.bats, b, release)
      /\ d.snaps = DelSnaps(g.snaps, g.old, b) /\ d.freed = DelFreed(g.freed, b, release)
  BY <1>4, <1>5 DEF Leaves
<1>7. /\ Heaped(d.catalog, d.old, d.bats, d.snaps, d.freed, K.catalog, K.bats)
      /\ b \in g.old => g.snaps[b] = 0
  <2>1. Heaped(g.catalog, g.old, g.bats, g.snaps, g.freed, K.catalog, K.bats)
    BY <1>1, HeapOf
  <2> QED  BY <2>1, <1>3, <1>5, <1>6, HeapDel
<1>8. Sound(d, K)
  BY <1>1, <1>6, <1>7, HeapOf
<1>9. /\ g.catalog \in [Names -> Bids \cup {0}] /\ g.bats \in [Bids -> Cells]
      /\ g.snaps \in [Bids -> Tids]
  BY <1>1 DEF Loggers, Catalogs, Bats, Snaps
<1>10. /\ \A m \in Names : d.catalog[m] = IF m = n THEN 0 ELSE g.catalog[m]
       /\ \A m \in Bids : m # b => d.bats[m] = g.bats[m] /\ d.snaps[m] = g.snaps[m]
       /\ d.snaps[b] = 0
       /\ d.freed \subseteq g.freed \cup {b}
  BY <1>2, <1>3, <1>6, <1>7, <1>9 DEF DelCatalog, DelBats, DelSnaps, DelFreed, b
<1>11. h = d
  <2>1. la_bat_destroy(g, r) = [d EXCEPT !.snaps[b] = 0]
    BY <1>3 DEF la_bat_destroy, Changing, b
  <2> HIDE DEF d
  <2>2. [d EXCEPT !.snaps[b] = 0] = d
    <3>1. [d.snaps EXCEPT ![b] = 0] = d.snaps
      BY <1>3, <1>6, <1>10 DEF Loggers, Snaps
    <3> QED  BY <3>1, <1>6 DEF Loggers
  <2>3. h = [d EXCEPT !.changes = TRUE]
    BY <1>1, <2>1, <2>2 DEF la_apply, Changing
  <2> QED  BY <2>3, <1>6, ChangedIs
<1> HIDE DEF d
<1>12. Columns(d) = With(c, n, Absent)
  <2>1. Columns(d) = [m \in Names |-> IF d.catalog[m] = 0 THEN Absent ELSE d.bats[d.catalog[m]]]
    BY DEF Columns
  <2>2. ASSUME NEW m \in Names PROVE Columns(d)[m] = With(c, n, Absent)[m]
    BY <2>1, <1>2, <1>3, <1>10 DEF With, b
  <2>3. With(c, n, Absent) \in [Names -> Cells]
    BY <1>2 DEF With, Cells
  <2> QED  BY <2>1, <2>2, <2>3
<1>13. \A m \in Bids : Named(d.catalog, m) \/ m \in d.freed => Named(g.catalog, m) \/ m \in g.freed
  BY <1>3, <1>10, SlotsPositive DEF Named
<1>14. \A m \in Names \ {n} : d.catalog[m] = g.catalog[m]
          /\ (d.catalog[m] # 0 => d.snaps[d.catalog[m]] = g.snaps[g.catalog[m]])
  BY <1>2, <1>10, ZenonT(60) DEF b
<1>15. \A m \in Names : d.catalog[m] # 0 => d.snaps[d.catalog[m]] <= d.tid
  <2>1. d.tid = g.tid /\ \A m \in Names : g.catalog[m] # 0 => g.snaps[g.catalog[m]] <= g.tid
    BY <1>6 DEF Same, Found
  <2> QED  BY <2>1, <1>10, <1>14
<1>16. Found(K, d, F, With(c, n, Absent))
  BY <1>1, <1>6, <1>8, <1>12, <1>13, <1>15 DEF Found, Same
<1> QED  BY <1>6, <1>10, <1>11, <1>14, <1>16 DEF Destroys, Applies

(* Rows that are written to the bat of a column, which is no snapshot of   *)
(* this transaction.                                                       *)
Rewritten(r, x) ==
    IF r.flag = "INSERT" THEN InsertRow(x, r.row)
    ELSE IF r.flag = "UPDATE" THEN UpdateRow(x, r.row) ELSE <<>>
Rewriting(r, n) == r \in Changes /\ r.flag \in {"INSERT", "UPDATE", "CLEAR"} /\ r.name = n
Rewrites(K, g, r, F, c, n, h) ==
    /\ Applies(K, g, h, F, With(c, n, Rewritten(r, c[n])), n)
    /\ h.catalog[n] = g.catalog[n] /\ h.snaps = g.snaps

LEMMA RewrittenType ==
  ASSUME NEW r, NEW n, Rewriting(r, n), NEW x \in Contents
  PROVE  Rewritten(r, x) \in Contents
<1> DEFINE T == 1 .. MaxTx
<1>1. r.flag \in {"INSERT", "UPDATE"} => r.row \in T
  BY DEF Rewriting, Changes
<1> HIDE DEF T
<1>2. x \in Seq(T)
  BY DEF Contents, T
<1>3. CASE r.flag = "INSERT"
  <2>1. Rewritten(r, x) = Append(x, r.row)
    BY <1>3 DEF Rewritten, InsertRow
  <2>2. r.row \in T
    BY <1>1, <1>3
  <2>3. Append(x, r.row) \in Seq(T)
    BY <2>2, <1>2
  <2> QED  BY <2>1, <2>3 DEF Contents, T
<1>4. CASE r.flag = "UPDATE"
  <2>1. CASE x = <<>>
    <3>1. Rewritten(r, x) = <<r.row>>
      BY <1>4, <2>1 DEF Rewritten, UpdateRow
    <3> QED  BY <3>1, <1>1, <1>4 DEF Contents, T
  <2>2. CASE x # <<>>
    <3>1. Rewritten(r, x) = [x EXCEPT ![1] = r.row]
      BY <1>4, <2>2 DEF Rewritten, UpdateRow
    <3>2. r.row \in T
      BY <1>1, <1>4
    <3>3. [x EXCEPT ![1] = r.row] \in Seq(T)
      BY <3>2, <1>2, <2>2
    <3> QED  BY <3>1, <3>3 DEF Contents, T
  <2> QED  BY <2>1, <2>2
<1>5. CASE r.flag \notin {"INSERT", "UPDATE"}
  <2>1. Rewritten(r, x) = <<>>
    BY <1>5 DEF Rewritten
  <2> QED  BY <2>1 DEF Contents
<1> QED  BY <1>3, <1>4, <1>5

LEMMA ApplyRow ==
  ASSUME NEW K, Base(K), NEW g, NEW F, NEW c, Found(K, g, F, c),
         NEW r, NEW n \in Names, Rewriting(r, n), c[n] # Absent,
         g.snaps[g.catalog[n]] < g.tid,
         NEW h, h = la_apply(g, r)
  PROVE  Rewrites(K, g, r, F, c, n, h)
<1>1. Sound(g, K) /\ g \in Loggers /\ g.err = "OK" /\ c = Columns(g) /\ K \in Checkpoints
  BY DEF Found, Sound, Base
<1>2. /\ \A m \in Names : g.catalog[m] \in Bids \cup {0}
      /\ \A m \in Names : c[m] = IF g.catalog[m] = 0 THEN Absent ELSE g.bats[g.catalog[m]]
      /\ c \in [Names -> Cells]
      /\ \A k, m \in Names : g.catalog[k] # 0 /\ k # m => g.catalog[k] # g.catalog[m]
  BY <1>1, ColumnsAre
<1> DEFINE b == g.catalog[n]
           x == Rewritten(r, c[n])
           bats == [g.bats EXCEPT ![b] = x]
<1>3. b \in Bids /\ b # 0 /\ Named(g.catalog, b) /\ g.bats[b] = c[n] /\ c[n] \in Contents
  BY <1>2 DEF Named, Cells
<1>4. x \in Contents /\ x # Absent
  <2> HIDE DEF x
  <2> QED  BY <1>3, RewrittenType, AbsentIs DEF x
<1>5. g.bats \in [Bids -> Cells] /\ g.tid \in Nat /\ g.snaps[b] \in Nat
  BY <1>1, <1>3, LoggerAssumption DEF Loggers, Bats, Snaps, Tids
<1>6. ~avoid_snapshot(g, b)
  <2> HIDE DEF b
  <2>1. g.snaps[b] < g.tid
    BY DEF b
  <2> QED  BY <2>1, <1>5 DEF avoid_snapshot
<1> HIDE DEF x
<1>7. bats \in Bats /\ bats[b] = x /\ \A m \in Bids : m # b => bats[m] = g.bats[m]
  BY <1>3, <1>4, <1>5 DEF Bats, Cells
<1>8. h = [g EXCEPT !.bats = bats, !.changes = TRUE]
  <2>1. CASE r.flag \in {"INSERT", "UPDATE"}
    <3>1. la_bat_updates(g, r) = [g EXCEPT !.bats[b] = IF r.flag = "INSERT" THEN InsertRow(@, r.row)
                                                     ELSE UpdateRow(@, r.row)]
      BY <1>3, <1>6, <2>1 DEF la_bat_updates, Rewriting
    <3>2. (IF r.flag = "INSERT" THEN InsertRow(g.bats[b], r.row) ELSE UpdateRow(g.bats[b], r.row)) = x
      BY <1>3, <2>1 DEF x, Rewritten
    <3>3. la_bat_updates(g, r) = [g EXCEPT !.bats = bats]
      BY <3>1, <3>2, <1>1, <1>3 DEF Loggers
    <3> HIDE DEF bats
    <3>4. h = [la_bat_updates(g, r) EXCEPT !.changes = TRUE]
      BY <1>1, <2>1 DEF la_apply, Rewriting
    <3> QED  BY <3>3, <3>4, <1>1 DEF Loggers
  <2>2. CASE r.flag = "CLEAR"
    <3>1. la_bat_clear(g, r) = [g EXCEPT !.bats[b] = <<>>]
      BY <1>3, <1>6, <2>2 DEF la_bat_clear, Rewriting
    <3>2. x = <<>>
      BY <2>2 DEF x, Rewritten
    <3>3. la_bat_clear(g, r) = [g EXCEPT !.bats = bats]
      BY <3>1, <3>2, <1>1, <1>3 DEF Loggers
    <3> HIDE DEF bats
    <3>4. h = [la_bat_clear(g, r) EXCEPT !.changes = TRUE]
      BY <1>1, <2>2 DEF la_apply, Rewriting
    <3> QED  BY <3>3, <3>4, <1>1 DEF Loggers
  <2> QED  BY <2>1, <2>2 DEF Rewriting
<1> HIDE DEF bats
<1>9. /\ h \in Loggers /\ Same(h, g) /\ h.catalog = g.catalog /\ h.old = g.old
      /\ h.bats = bats /\ h.snaps = g.snaps /\ h.freed = g.freed /\ h.changes = TRUE
  BY <1>1, <1>7, <1>8, ZenonT(60) DEF Loggers, Same
<1>10. Sound(h, K)
  <2>1. Heaped(g.catalog, g.old, g.bats, g.snaps, g.freed, K.catalog, K.bats)
    BY <1>1, HeapOf
  <2>2. \A m \in Bids : bats[m] = g.bats[m] \/ (Named(g.catalog, m) /\ bats[m] # Absent)
    <3> HIDE DEF b
    <3> QED  BY <1>3, <1>4, <1>7
  <2>3. Heaped(g.catalog, g.old, bats, g.snaps, g.freed, K.catalog, K.bats)
    BY <2>1, <2>2, <1>7, HeapWrite
  <2> QED  BY <2>3, <1>1, <1>9, HeapOf
<1>11. Columns(h) = With(c, n, x)
  <2>1. Columns(h) = [m \in Names |-> IF g.catalog[m] = 0 THEN Absent ELSE bats[g.catalog[m]]]
    BY <1>9 DEF Columns
  <2>2. ASSUME NEW m \in Names PROVE Columns(h)[m] = With(c, n, x)[m]
    BY <2>1, <1>2, <1>3, <1>7 DEF With, b
  <2>3. With(c, n, x) \in [Names -> Cells]
    BY <1>2, <1>4 DEF With, Cells
  <2> QED  BY <2>1, <2>2, <2>3
<1>12. Found(K, h, F, With(c, n, x))
  BY <1>1, <1>9, <1>10, <1>11 DEF Found, Same
<1> QED  BY <1>9, <1>12 DEF Rewrites, Applies, x

-----------------------------------------------------------------------------
(***************************************************************************)
(* Reading one more record of a log.                                       *)
(***************************************************************************)
LEMMA ReplayAppend ==
  ASSUME NEW K, NEW id, NEW q \in Seq(Records), NEW r \in Records
  PROVE  Replay(K, id, Append(q, r)) = logger_readlog(Replay(K, id, q), r)
<1>1. PICK g : g = From(K, id)
  OBVIOUS
<1>2. Replayed(g, Append(q, r)) = logger_readlog(Replayed(g, q), r)
  BY ReplayedAppend
<1> QED  BY <1>1, <1>2 DEF Replay

(* The catalog of h is that of g, and h is not behind g.                   *)
Alike(h, g) ==
    /\ h \in Loggers /\ h.id = g.id /\ h.catalog = g.catalog /\ h.old = g.old /\ h.bats = g.bats
    /\ h.snaps = g.snaps /\ h.freed = g.freed /\ h.err = g.err /\ h.changes = g.changes
    /\ g.tid <= h.tid

LEMMA TidsNat == Tids \subseteq Nat /\ 0 \in Tids
BY LoggerAssumption DEF Tids

LEMMA TidsOrdered ==
  /\ \A t, u \in Tids : t <= t /\ (t < u => t <= u)
  /\ \A t, u, v \in Tids : t <= u /\ u <= v => t <= v
  /\ \A t, u, v \in Tids : t <= u /\ u < v => t < v
  /\ \A t, u, v \in Tids : t < u /\ u <= v => t < v
BY LoggerAssumption DEF Tids

LEMMA FoundAlike ==
  ASSUME NEW K, NEW g, NEW F, NEW c, Found(K, g, F, c), NEW h, Alike(h, g)
  PROVE  Found(K, h, F, c)
<1>1. Sound(h, K)
  BY DEF Found, Alike, Sound
<1>2. Columns(h) = Columns(g)
  BY DEF Alike, Columns
<1>3. \A n \in Names : h.catalog[n] # 0 => h.snaps[h.catalog[n]] <= h.tid
  <2>1. ASSUME NEW n \in Names, h.catalog[n] # 0 PROVE h.snaps[h.catalog[n]] <= h.tid
    <3>1. h.snaps[h.catalog[n]] <= g.tid /\ g.tid <= h.tid
      BY <2>1 DEF Found, Alike
    <3>2. g.tid \in Tids /\ h.tid \in Tids /\ h.snaps \in [Bids -> Tids]
          /\ h.catalog[n] \in Bids
      BY <2>1 DEF Found, Sound, Alike, Loggers, Catalogs, Snaps
    <3>3. h.snaps[h.catalog[n]] \in Tids
      BY <3>2
    <3> QED  BY <3>1, <3>2, <3>3, TidsOrdered
  <2> QED  BY <2>1
<1> QED  BY <1>1, <1>2, <1>3 DEF Found, Alike

(* A checkpoint that holds more.                                           *)
LEMMA FoundMore ==
  ASSUME NEW K, NEW g, NEW F, NEW F2, NEW c, Found(K, g, F, c), Extends(F2, F)
  PROVE  Found(K, g, F2, c)
BY DEF Found, Extends

LEMMA ExtendsTrans ==
  ASSUME NEW K, NEW F2, NEW F, Extends(K, F2), Extends(F2, F)
  PROVE  Extends(K, F)
BY DEF Extends

(* The transaction that is open in h is g's, with one change more.         *)
Collected(g, r, h) ==
    /\ Alike(h, g) /\ h.tid = g.tid /\ h.seqs = g.seqs
    /\ h.tr.tid = g.tr.tid /\ h.tr.changes = Append(g.tr.changes, r)

Collecting1(g, r, t) ==
    /\ g \in Loggers /\ g.err = "OK" /\ g.tr.tid = t /\ t # 0
    /\ r \in Changes /\ r.tid = t /\ (r.flag \in {"INSERT", "UPDATE"} => Typed(g, r.name))

LEMMA ReadChange ==
  ASSUME NEW g, NEW r, NEW t, Collecting1(g, r, t), NEW h, h = logger_readlog(g, r)
  PROVE  Collected(g, r, h)
<1> USE DEF Collecting1
<1>1. g.tr # NoTr
  BY DEF NoTr
<1>2. r.flag \in {"CREATE", "INSERT", "UPDATE", "DESTROY", "CLEAR", "USE"}
  BY DEF Changes
<1>3. h = [g EXCEPT !.tr.changes = Append(@, r)]
  BY <1>1, <1>2 DEF logger_readlog
<1> DEFINE tr == [g.tr EXCEPT !.changes = Append(g.tr.changes, r)]
<1>4. g.tr \in Trs /\ g.tr.changes \in Seq(Changes)
  BY DEF Loggers, Trs
<1>5. tr \in Trs /\ tr.tid = g.tr.tid /\ tr.changes = Append(g.tr.changes, r)
  <2>1. Append(g.tr.changes, r) \in Seq(Changes)
    BY <1>4
  <2> QED  BY <1>4, <2>1 DEF Trs
<1>6. h = [g EXCEPT !.tr = tr]
  BY <1>3
<1> HIDE DEF tr
<1>7. h \in Loggers
  BY <1>5, <1>6, SMTT(60) DEF Loggers
<1>8. g.tid <= g.tid
  BY LoggerAssumption DEF Loggers, Tids
<1> QED  BY <1>5, <1>6, <1>7, <1>8 DEF Loggers, Collected, Alike

LEMMA EndedChange ==
  ASSUME NEW g \in Loggers, NEW r \in Changes, NEW h, Collected(g, r, h), NEW s
  PROVE  Ended(h, s) = la_apply(Ended(g, s), r)
<1>1. [h EXCEPT !.tr = NoTr, !.seqs = s] = [g EXCEPT !.tr = NoTr, !.seqs = s]
  BY DEF Collected, Alike, Loggers
<1>2. g.tr.changes \in Seq(Changes) /\ h.tr.changes = Append(g.tr.changes, r)
  BY DEF Loggers, Trs, Collected
<1> DEFINE e == [g EXCEPT !.tr = NoTr, !.seqs = s]
           q == g.tr.changes
<1> HIDE DEF e, q
<1>3. Applied(e, Append(q, r)) = la_apply(Applied(e, q), r)
  BY <1>2, AppliedAppend DEF q
<1> QED  BY <1>1, <1>2, <1>3 DEF Ended, e, q

-----------------------------------------------------------------------------
(***************************************************************************)
(* A record more in the log, from every checkpoint.                        *)
(***************************************************************************)
LEMMA SeqAppend ==
  ASSUME NEW S, NEW p \in Seq(S), NEW b \in Seq(S), NEW r \in S, NEW z, z = Append(b, r)
  PROVE  /\ z \in Seq(S) /\ p \o b \in Seq(S) /\ p \o z = Append(p \o b, r)
         /\ Len(b) \in Nat /\ Len(z) = Len(b) + 1
         /\ \A k \in 0 .. Len(b) : SubSeq(z, 1, k) = SubSeq(b, 1, k)
         /\ SubSeq(b, 1, Len(b)) = b
<1>1. z \in Seq(S) /\ p \o b \in Seq(S) /\ Len(b) \in Nat /\ Len(z) = Len(b) + 1
  OBVIOUS
<1>2. p \o z = Append(p \o b, r)
  OBVIOUS
<1>3. ASSUME NEW k \in 0 .. Len(b) PROVE SubSeq(z, 1, k) = SubSeq(b, 1, k)
  OBVIOUS
<1>4. SubSeq(b, 1, Len(b)) = b
  OBVIOUS
<1> QED  BY <1>1, <1>2, <1>3, <1>4

LEMMA SubSeqWhole ==
  ASSUME NEW S, NEW b \in Seq(S)
  PROVE  SubSeq(b, 1, Len(b)) = b
OBVIOUS

(* The log recs and the buffer b give c and s, and no less if b is torn.   *)
Holds(id, recs, b, F, c, s, t) ==
    /\ recs \in Seq(Records) /\ b \in Seq(Records)
    /\ Torn(id, recs, b, F, c, s, t) /\ Whole(id, recs \o b, F, c, s, t)

(* The record r is written to the buffer b.                                *)
Adds(z, b, r) == r \in Records /\ z = Append(b, r)
Tears(id, recs, b, r, z, F, c, s, t) ==
    /\ z \in Seq(Records) /\ recs \o z = Append(recs \o b, r) /\ recs \o b \in Seq(Records)
    /\ recs \in Seq(Records) /\ Torn(id, recs, z, F, c, s, t)

LEMMA TornAppend ==
  ASSUME NEW id, NEW recs, NEW b, NEW F, NEW c, NEW s, NEW t, Holds(id, recs, b, F, c, s, t),
         NEW r, NEW z, Adds(z, b, r)
  PROVE  Tears(id, recs, b, r, z, F, c, s, t)
<1>1. recs \in Seq(Records) /\ b \in Seq(Records) /\ r \in Records /\ z = Append(b, r)
  BY DEF Holds, Adds
<1>2. /\ z \in Seq(Records) /\ recs \o b \in Seq(Records) /\ recs \o z = Append(recs \o b, r)
      /\ Len(b) \in Nat /\ Len(z) = Len(b) + 1
      /\ \A k \in 0 .. Len(b) : SubSeq(z, 1, k) = SubSeq(b, 1, k)
      /\ SubSeq(b, 1, Len(b)) = b
  BY <1>1, SeqAppend
<1>3. ASSUME NEW K, Base(K) /\ Extends(K, F), NEW k \in 0 .. Len(z) - 1
      PROVE  Finds(K, id, Replay(K, id, recs \o SubSeq(z, 1, k)), F, c, s, t)
  <2>0. Len(b) \in Nat /\ Len(z) = Len(b) + 1
    BY <1>2
  <2>1. CASE k = Len(b)
    <3>0. k \in 0 .. Len(b)
      BY <2>0, <2>1
    <3>1. SubSeq(z, 1, k) = b
      <4>1. SubSeq(z, 1, k) = SubSeq(b, 1, k)
        BY <1>2, <3>0
      <4> QED  BY <4>1, <1>2, <2>1, Zenon
    <3>2. Finds(K, id, Replay(K, id, recs \o b), F, c, s, t)
      BY <1>3 DEF Holds, Whole
    <3> QED  BY <3>1, <3>2
  <2>2. CASE k # Len(b)
    <3>1. k \in 0 .. Len(b) /\ k \in 0 .. Len(b) - 1
      BY <2>0, <2>2
    <3>2. SubSeq(z, 1, k) = SubSeq(b, 1, k)
      BY <1>2, <3>1
    <3>3. Finds(K, id, Replay(K, id, recs \o SubSeq(b, 1, k)), F, c, s, t)
      BY <1>3, <3>1 DEF Holds, Torn
    <3> QED  BY <3>2, <3>3
  <2> QED  BY <2>1, <2>2
<1> QED  BY <1>1, <1>2, <1>3 DEF Torn, Tears

LEMMA FindsLater ==
  ASSUME NEW K, NEW id, NEW g, NEW F, NEW c, NEW s, NEW t \in Tids, Finds(K, id, g, F, c, s, t),
         NEW u \in Tids, t <= u
  PROVE  Finds(K, id, g, F, c, s, u)
<1>1. g.tid \in Tids /\ g.tid <= t
  BY DEF Finds, Found, Sound, Loggers
<1>2. g.tid <= u
  BY <1>1, TidsOrdered
<1> QED  BY <1>2 DEF Finds

LEMMA HoldsLater ==
  ASSUME NEW id, NEW recs, NEW b, NEW F, NEW c, NEW s, NEW t \in Tids,
         Holds(id, recs, b, F, c, s, t), NEW u \in Tids, t <= u
  PROVE  Holds(id, recs, b, F, c, s, u)
<1>1. Torn(id, recs, b, F, c, s, u)
  <2> SUFFICES ASSUME NEW K, Base(K) /\ Extends(K, F), NEW k \in 0 .. Len(b) - 1
               PROVE  Finds(K, id, Replay(K, id, recs \o SubSeq(b, 1, k)), F, c, s, u)
    BY DEF Torn
  <2>1. Finds(K, id, Replay(K, id, recs \o SubSeq(b, 1, k)), F, c, s, t)
    BY DEF Holds, Torn
  <2> QED  BY <2>1, FindsLater
<1>2. Whole(id, recs \o b, F, c, s, u)
  <2> SUFFICES ASSUME NEW K, Base(K) /\ Extends(K, F)
               PROVE  Finds(K, id, Replay(K, id, recs \o b), F, c, s, u)
    BY DEF Whole
  <2>1. Finds(K, id, Replay(K, id, recs \o b), F, c, s, t)
    BY DEF Holds, Whole
  <2> QED  BY <2>1, FindsLater
<1> QED  BY <1>1, <1>2 DEF Holds

LEMMA HoldsMore ==
  ASSUME NEW id, NEW recs, NEW b, NEW F, NEW F2, NEW c, NEW s, NEW t,
         Holds(id, recs, b, F, c, s, t), Extends(F2, F)
  PROVE  Holds(id, recs, b, F2, c, s, t)
<1>1. Torn(id, recs, b, F2, c, s, t)
  <2> SUFFICES ASSUME NEW K, Base(K), Extends(K, F2), NEW k \in 0 .. Len(b) - 1
               PROVE  Finds(K, id, Replay(K, id, recs \o SubSeq(b, 1, k)), F2, c, s, t)
    BY DEF Torn
  <2>1. Finds(K, id, Replay(K, id, recs \o SubSeq(b, 1, k)), F, c, s, t)
    BY ExtendsTrans DEF Holds, Torn
  <2> QED  BY <2>1, FoundMore DEF Finds
<1>2. Whole(id, recs \o b, F2, c, s, t)
  <2> SUFFICES ASSUME NEW K, Base(K), Extends(K, F2)
               PROVE  Finds(K, id, Replay(K, id, recs \o b), F2, c, s, t)
    BY DEF Whole
  <2>1. Finds(K, id, Replay(K, id, recs \o b), F, c, s, t)
    BY ExtendsTrans DEF Holds, Whole
  <2> QED  BY <2>1, FoundMore DEF Finds
<1> QED  BY <1>1, <1>2 DEF Holds

(* The start of a transaction.                                             *)
Starts(g, u, h) ==
    /\ Alike(h, g) /\ h.tid = u /\ h.seqs = g.seqs /\ h.tr.tid = u
    /\ \A s \in [Sids -> Nat] : \E e : /\ e = Ended(h, s) /\ Alike(e, g)
                                       /\ e.tid = u /\ e.tr = NoTr /\ e.seqs = s
StartRecord(r, u) == r = [flag |-> "START", tid |-> u] /\ u \in Tids

LEMMA ReadStart ==
  ASSUME NEW g \in Loggers, g.err = "OK", NEW u, NEW r, StartRecord(r, u), g.tid < u,
         NEW h, h = logger_readlog(g, r)
  PROVE  Starts(g, u, h)
<1>1. r.flag = "START" /\ r.tid = u /\ u \in Tids
  BY DEF StartRecord
<1>2. g.tid \in Nat /\ u \in Nat /\ g.tid <= u
  <2>1. g.tid \in Nat /\ u \in Nat
    BY <1>1, TidsNat DEF Loggers
  <2> QED  BY <2>1
<1> DEFINE tr == [tid |-> u, changes |-> <<>>]
<1>3. h = [g EXCEPT !.tid = u, !.tr = tr]
  BY <1>1, <1>2 DEF logger_readlog
<1>4. tr \in Trs /\ tr.tid = u /\ tr.changes = <<>>
  BY <1>1 DEF Trs
<1> HIDE DEF tr
<1>5. Alike(h, g) /\ h.tid = u /\ h.seqs = g.seqs /\ h.tr = tr
  BY <1>1, <1>2, <1>3, <1>4 DEF Loggers, Alike
<1>6. ASSUME NEW s \in [Sids -> Nat]
      PROVE  \E e : e = Ended(h, s) /\ Alike(e, g) /\ e.tid = u /\ e.tr = NoTr /\ e.seqs = s
  <2>1. PICK e : e = [h EXCEPT !.tr = NoTr, !.seqs = s]
    OBVIOUS
  <2>2. Ended(h, s) = e
    BY <2>1, <1>4, <1>5, AppliedEmpty DEF Ended
  <2>3. NoTr \in Trs
    BY TidsNat DEF NoTr, Trs
  <2>4. Alike(e, g) /\ e.tid = u /\ e.tr = NoTr /\ e.seqs = s
    BY <1>1, <1>5, <2>1, <2>3, ZenonT(60) DEF Loggers, Alike
  <2> QED  BY <2>2, <2>4
<1> QED  BY <1>4, <1>5, <1>6 DEF Starts

(* What a log with an open transaction gives: Finds without it, Makes with *)
(* it.                                                                     *)
Opens(K, id, h, F, Fu, c, d, s, t, touched) ==
    /\ Finds(K, id, h, F, c, s, t)
    /\ h.tr.tid = t /\ h.tid = t
    /\ \A v \in [Sids -> Nat] : Makes(K, id, Ended(h, v), Fu, d, v, t, touched)

LEMMA OpensStart ==
  ASSUME NEW K, NEW id, NEW g, NEW F, NEW c, NEW s, NEW t \in Tids, Finds(K, id, g, F, c, s, t),
         NEW u, NEW r, StartRecord(r, u), t < u, NEW h, h = logger_readlog(g, r)
  PROVE  Opens(K, id, h, F, F, c, c, s, u, {})
<1>1. Found(K, g, F, c) /\ g \in Loggers /\ g.err = "OK" /\ g.tid \in Tids /\ g.tid <= t
  BY DEF Finds, Found, Sound, Loggers
<1>2. u \in Tids
  BY DEF StartRecord
<1>3. g.tid < u
  BY <1>1, <1>2, TidsOrdered
<1>4. Starts(g, u, h)
  BY <1>1, <1>3, ReadStart
<1>5. Found(K, h, F, c)
  BY <1>1, <1>4, FoundAlike DEF Starts
<1>6. u <= u
  BY <1>2, TidsNat
<1>7. Finds(K, id, h, F, c, s, u)
  BY <1>4, <1>5, <1>6 DEF Finds, Starts, Alike
<1>8. ASSUME NEW v \in [Sids -> Nat] PROVE Makes(K, id, Ended(h, v), F, c, v, u, {})
  <2>1. PICK e : e = Ended(h, v) /\ Alike(e, g) /\ e.tid = u /\ e.tr = NoTr /\ e.seqs = v
    BY <1>4 DEF Starts
  <2>2. Found(K, e, F, c)
    BY <1>1, <2>1, FoundAlike
  <2>3. \A n \in Names \ {} : e.catalog[n] # 0 => e.snaps[e.catalog[n]] < u
    <3>1. ASSUME NEW n \in Names, g.catalog[n] # 0 PROVE g.snaps[g.catalog[n]] < u
      <4>1. g.snaps[g.catalog[n]] <= g.tid
        BY <1>1, <3>1 DEF Found
      <4>2. g.snaps \in [Bids -> Tids] /\ g.catalog[n] \in Bids
        BY <1>1, <3>1 DEF Loggers, Catalogs, Snaps
      <4>3. g.snaps[g.catalog[n]] \in Tids
        BY <4>2
      <4> QED  BY <4>1, <4>3, <1>1, <1>2, <1>3, TidsOrdered
    <3>2. e.catalog = g.catalog /\ e.snaps = g.snaps
      BY <2>1 DEF Alike
    <3> QED  BY <3>1, <3>2
  <2>4. e.id = id
    BY <2>1 DEF Finds, Alike
  <2> QED  BY <2>1, <2>2, <2>3, <2>4 DEF Makes
<1> QED  BY <1>4, <1>7, <1>8 DEF Opens, Starts

(* A transaction is being written to the log: t is open in it.             *)
Writing(id, recs, b, F, Fu, c, d, s, t, touched) ==
    /\ Holds(id, recs, b, F, c, s, t)
    /\ Collects(id, recs \o b, F, t)
    /\ Awaits(id, recs \o b, Fu, d, t, touched)

LEMMA HoldsStart ==
  ASSUME NEW id, NEW recs, NEW b, NEW F, NEW c, NEW s, NEW t \in Tids,
         Holds(id, recs, b, F, c, s, t),
         NEW u, NEW r, StartRecord(r, u), t < u, NEW z, Adds(z, b, r)
  PROVE  Writing(id, recs, z, F, F, c, c, s, u, {})
<1>1. r \in Records /\ u \in Tids
  BY DEF StartRecord, Records
<1>2. Tears(id, recs, b, r, z, F, c, s, t)
  BY TornAppend
<1>3. t <= u
  BY <1>1, TidsOrdered, Zenon
<1>4. Torn(id, recs, z, F, c, s, u)
  <2> SUFFICES ASSUME NEW K, Base(K) /\ Extends(K, F), NEW k \in 0 .. Len(z) - 1
               PROVE  Finds(K, id, Replay(K, id, recs \o SubSeq(z, 1, k)), F, c, s, u)
    BY DEF Torn
  <2>1. Finds(K, id, Replay(K, id, recs \o SubSeq(z, 1, k)), F, c, s, t)
    BY <1>2 DEF Torn, Tears
  <2> QED  BY <2>1, <1>1, <1>3, FindsLater
<1>5. ASSUME NEW K, Base(K) /\ Extends(K, F)
      PROVE  Opens(K, id, Replay(K, id, recs \o z), F, F, c, c, s, u, {})
  <2>1. PICK g : g = Replay(K, id, recs \o b)
    OBVIOUS
  <2>2. Finds(K, id, g, F, c, s, t)
    BY <2>1, <1>5 DEF Holds, Whole
  <2>3. PICK h : h = logger_readlog(g, r)
    OBVIOUS
  <2>4. Replay(K, id, recs \o z) = h
    <3>1. Replay(K, id, Append(recs \o b, r)) = logger_readlog(Replay(K, id, recs \o b), r)
      BY <1>1, <1>2, ReplayAppend, ZenonT(60) DEF Tears
    <3> QED  BY <3>1, <1>2, <2>1, <2>3, Zenon DEF Tears
  <2>5. Opens(K, id, h, F, F, c, c, s, u, {})
    BY <2>2, <2>3, OpensStart
  <2> QED  BY <2>4, <2>5
<1>6. Whole(id, recs \o z, F, c, s, u)
  BY <1>5 DEF Whole, Opens
<1>7. Collects(id, recs \o z, F, u)
  BY <1>5 DEF Collects, Opens
<1>8. Awaits(id, recs \o z, F, c, u, {})
  BY <1>5 DEF Awaits, Opens
<1> QED  BY <1>2, <1>4, <1>6, <1>7, <1>8 DEF Writing, Holds, Tears

-----------------------------------------------------------------------------
(***************************************************************************)
(* A change of the open transaction.                                       *)
(***************************************************************************)
Goes(K, id, g, r, F, c, s, t, h) ==
    /\ Finds(K, id, h, F, c, s, t) /\ h.tr.tid = t /\ h.tid = g.tid
    /\ \A v : Ended(h, v) = la_apply(Ended(g, v), r)
    /\ r.flag = "CREATE" => Typed(h, r.name)

LEMMA ReadGoes ==
  ASSUME NEW K, NEW id, NEW g, NEW F, NEW c, NEW s, NEW t, Finds(K, id, g, F, c, s, t),
         NEW r, Collecting1(g, r, t), NEW h, h = logger_readlog(g, r)
  PROVE  Goes(K, id, g, r, F, c, s, t, h)
<1>1. Collected(g, r, h)
  BY ReadChange
<1>2. Found(K, h, F, c)
  BY <1>1, FoundAlike DEF Finds, Collected
<1>3. Finds(K, id, h, F, c, s, t)
  BY <1>1, <1>2 DEF Finds, Collected, Alike
<1>4. g \in Loggers /\ r \in Changes /\ g.tr.tid = t
  BY DEF Collecting1
<1>5. \A v : Ended(h, v) = la_apply(Ended(g, v), r)
  BY <1>1, <1>4, EndedChange
<1>6. ASSUME r.flag = "CREATE" PROVE Typed(h, r.name)
  <2> DEFINE q == g.tr.changes
             i == Len(q) + 1
  <2>1. q \in Seq(Changes) /\ h.tr.changes = Append(q, r)
    BY <1>1, <1>4 DEF Collected, Loggers, Trs
  <2> HIDE DEF q
  <2>2. i \in 1 .. Len(Append(q, r)) /\ Append(q, r)[i] = r
    BY <1>4, <2>1
  <2> HIDE DEF i
  <2>3. i \in 1 .. Len(h.tr.changes) /\ h.tr.changes[i] = r
    BY <2>1, <2>2
  <2> QED  BY <1>6, <2>3 DEF Typed
<1> QED  BY <1>1, <1>3, <1>4, <1>5, <1>6 DEF Goes, Collected

(* Applying r makes of the columns d the columns d2.                       *)
Takes(r, Fu, Fu2, d, d2, t, touched, touched2) ==
    \A K, id, e, v : Base(K) /\ Extends(K, Fu2) /\ Makes(K, id, e, Fu, d, v, t, touched)
                    => Makes(K, id, la_apply(e, r), Fu2, d2, v, t, touched2)

(* The type of the column is known where the log is read.                  *)
Typable(id, q, F, n) ==
    \A K : Base(K) /\ Extends(K, F) => Typed(Replay(K, id, q), n)
Change(id, q, F, Fu, Fu2, r, t) ==
    /\ r \in Changes /\ r.tid = t /\ t # 0
    /\ r.flag \in {"INSERT", "UPDATE"} => Typable(id, q, F, r.name)
    /\ Extends(Fu, F) /\ Extends(Fu2, Fu)

LEMMA WritingChange ==
  ASSUME NEW id, NEW recs, NEW b, NEW F, NEW Fu, NEW Fu2, NEW c, NEW d, NEW d2, NEW s, NEW t,
         NEW touched, NEW touched2,
         Writing(id, recs, b, F, Fu, c, d, s, t, touched),
         NEW r, Change(id, recs \o b, F, Fu, Fu2, r, t),
         Takes(r, Fu, Fu2, d, d2, t, touched, touched2),
         NEW z, Adds(z, b, r)
  PROVE  /\ Writing(id, recs, z, F, Fu2, c, d2, s, t, touched2)
         /\ r.flag = "CREATE" => Typable(id, recs \o z, F, r.name)
<1>1. r \in Changes /\ r \in Records /\ r.tid = t /\ t # 0
  BY DEF Change, Records
<1>2. Tears(id, recs, b, r, z, F, c, s, t)
  BY TornAppend DEF Writing
<1>3. ASSUME NEW K, Base(K), Extends(K, F)
      PROVE  \E g, h : /\ g = Replay(K, id, recs \o b) /\ h = Replay(K, id, recs \o z)
                       /\ Goes(K, id, g, r, F, c, s, t, h)
  <2>1. PICK g : g = Replay(K, id, recs \o b)
    OBVIOUS
  <2>2. Finds(K, id, g, F, c, s, t)
    BY <2>1, <1>3 DEF Writing, Holds, Whole
  <2>3. PICK h : h = logger_readlog(g, r)
    OBVIOUS
  <2>4. Replay(K, id, recs \o z) = h
    <3>1. Replay(K, id, Append(recs \o b, r)) = logger_readlog(Replay(K, id, recs \o b), r)
      BY <1>1, <1>2, ReplayAppend, ZenonT(60) DEF Tears
    <3> QED  BY <3>1, <1>2, <2>1, <2>3, Zenon DEF Tears
  <2>5. Collecting1(g, r, t)
    <3>1. g \in Loggers /\ g.err = "OK"
      BY <2>2 DEF Finds, Found, Sound
    <3>2. g.tr.tid = t
      BY <2>1, <1>3 DEF Writing, Collects
    <3>3. r.flag \in {"INSERT", "UPDATE"} => Typed(g, r.name)
      BY <2>1, <1>3 DEF Change, Typable
    <3> QED  BY <1>1, <3>1, <3>2, <3>3 DEF Collecting1
  <2>6. Goes(K, id, g, r, F, c, s, t, h)
    BY <2>2, <2>3, <2>5, ReadGoes
  <2> QED  BY <2>1, <2>4, <2>6
<1>4. Whole(id, recs \o z, F, c, s, t)
  <2> SUFFICES ASSUME NEW K, Base(K), Extends(K, F)
               PROVE  Finds(K, id, Replay(K, id, recs \o z), F, c, s, t)
    BY DEF Whole
  <2> QED  BY <1>3 DEF Goes
<1>5. Collects(id, recs \o z, F, t)
  <2> SUFFICES ASSUME NEW K, Base(K), Extends(K, F)
               PROVE  Replay(K, id, recs \o z).tr.tid = t
    BY DEF Collects
  <2> QED  BY <1>3 DEF Goes
<1>6. Awaits(id, recs \o z, Fu2, d2, t, touched2)
  <2> SUFFICES ASSUME NEW K, Base(K), Extends(K, Fu2)
               PROVE  /\ Replay(K, id, recs \o z).tid = t
                      /\ \A v \in [Sids -> Nat] :
                            Makes(K, id, Ended(Replay(K, id, recs \o z), v), Fu2, d2, v, t, touched2)
    BY DEF Awaits
  <2>1. Extends(K, Fu) /\ Extends(K, F)
    <3>1. Extends(K, Fu)
      BY ExtendsTrans DEF Change
    <3> QED  BY <3>1, ExtendsTrans DEF Change
  <2>2. PICK g, h : /\ g = Replay(K, id, recs \o b) /\ h = Replay(K, id, recs \o z)
                    /\ Goes(K, id, g, r, F, c, s, t, h)
    BY <1>3, <2>1
  <2>3. g.tid = t /\ \A v \in [Sids -> Nat] : Makes(K, id, Ended(g, v), Fu, d, v, t, touched)
    BY <2>1, <2>2 DEF Writing, Awaits
  <2>4. ASSUME NEW v \in [Sids -> Nat] PROVE Makes(K, id, Ended(h, v), Fu2, d2, v, t, touched2)
    <3>1. PICK e : e = Ended(g, v)
      OBVIOUS
    <3>2. Makes(K, id, e, Fu, d, v, t, touched)
      BY <2>3, <3>1
    <3>3. Makes(K, id, la_apply(e, r), Fu2, d2, v, t, touched2)
      BY <3>2 DEF Takes
    <3>4. Ended(h, v) = la_apply(e, r)
      BY <2>2, <3>1 DEF Goes
    <3> QED  BY <3>3, <3>4
  <2> QED  BY <2>2, <2>3, <2>4 DEF Goes
<1>7. ASSUME r.flag = "CREATE" PROVE Typable(id, recs \o z, F, r.name)
  <2> SUFFICES ASSUME NEW K, Base(K), Extends(K, F)
               PROVE  Typed(Replay(K, id, recs \o z), r.name)
    BY DEF Typable
  <2> QED  BY <1>3, <1>7 DEF Goes
<1> QED  BY <1>2, <1>4, <1>5, <1>6, <1>7 DEF Writing, Holds, Tears

LEMMA TypableColumn ==
  ASSUME NEW id, NEW recs, NEW b, NEW F, NEW c, NEW s, NEW t,
         Holds(id, recs, b, F, c, s, t), NEW n \in Names, c[n] # Absent
  PROVE  Typable(id, recs \o b, F, n)
<1> SUFFICES ASSUME NEW K, Base(K), Extends(K, F)
             PROVE  Typed(Replay(K, id, recs \o b), n)
  BY DEF Typable
<1>1. PICK g : g = Replay(K, id, recs \o b)
  OBVIOUS
<1>2. Finds(K, id, g, F, c, s, t)
  BY <1>1 DEF Holds, Whole
<1>3. Sound(g, K) /\ c = Columns(g)
  BY <1>2 DEF Finds, Found
<1>4. c[n] = IF g.catalog[n] = 0 THEN Absent ELSE g.bats[g.catalog[n]]
  BY <1>3, ColumnsAre
<1> QED  BY <1>1, <1>4 DEF Typed

(* The kinds of changes.                                                   *)
LEMMA TakesCreate ==
  ASSUME Unlimited, NEW r, NEW n \in Names, Changing(r, "CREATE", n), NEW t, t >= 1,
         NEW Fu, NEW d, NEW d2, d2 = With(d, n, <<>>), NEW touched
  PROVE  Takes(r, Fu, Fu, d, d2, t, touched, touched \ {n})
<1> SUFFICES ASSUME NEW K, NEW id, NEW e, NEW v, Base(K), Makes(K, id, e, Fu, d, v, t, touched)
             PROVE  Makes(K, id, la_apply(e, r), Fu, d2, v, t, touched \ {n})
  BY DEF Takes
<1>1. PICK h : h = la_apply(e, r)
  OBVIOUS
<1>2. Found(K, e, Fu, d) /\ e.tid = t /\ e.tid >= 1
  BY DEF Makes
<1>3. Creates(K, e, Fu, d, n, h)
  BY <1>1, <1>2, ApplyCreate
<1>4. Applies(K, e, h, Fu, d2, n) /\ h.snaps[h.catalog[n]] < h.tid
  BY <1>3 DEF Creates
<1>5. \A m \in Names \ (touched \ {n}) : h.catalog[m] # 0 => h.snaps[h.catalog[m]] < t
  BY <1>2, <1>4 DEF Applies, Same, Makes
<1> QED  BY <1>1, <1>4, <1>5 DEF Applies, Same, Makes

LEMMA TakesDestroy ==
  ASSUME NEW r, NEW n \in Names, Changing(r, "DESTROY", n), NEW t,
         NEW Fu, NEW d, d[n] # Absent, NEW d2, d2 = With(d, n, Absent), NEW touched
  PROVE  Takes(r, Fu, Fu, d, d2, t, touched, touched)
<1> SUFFICES ASSUME NEW K, NEW id, NEW e, NEW v, Base(K), Makes(K, id, e, Fu, d, v, t, touched)
             PROVE  Makes(K, id, la_apply(e, r), Fu, d2, v, t, touched)
  BY DEF Takes
<1>1. PICK h : h = la_apply(e, r)
  OBVIOUS
<1>2. Found(K, e, Fu, d) /\ e.tid = t
  BY DEF Makes
<1>3. Destroys(K, e, Fu, d, n, h)
  BY <1>1, <1>2, ApplyDestroy
<1>4. Applies(K, e, h, Fu, d2, n) /\ h.catalog[n] = 0
  BY <1>3 DEF Destroys
<1>5. \A m \in Names \ touched : h.catalog[m] # 0 => h.snaps[h.catalog[m]] < t
  BY <1>4 DEF Applies, Same, Makes
<1> QED  BY <1>1, <1>4, <1>5 DEF Applies, Same, Makes

LEMMA TakesRow ==
  ASSUME NEW r, NEW n \in Names, Rewriting(r, n), NEW t, NEW touched, n \notin touched,
         NEW Fu, NEW d, d[n] # Absent, NEW d2, d2 = With(d, n, Rewritten(r, d[n]))
  PROVE  Takes(r, Fu, Fu, d, d2, t, touched, touched)
<1> SUFFICES ASSUME NEW K, NEW id, NEW e, NEW v, Base(K), Makes(K, id, e, Fu, d, v, t, touched)
             PROVE  Makes(K, id, la_apply(e, r), Fu, d2, v, t, touched)
  BY DEF Takes
<1>1. PICK h : h = la_apply(e, r)
  OBVIOUS
<1>2. Found(K, e, Fu, d) /\ e.tid = t /\ d = Columns(e) /\ Sound(e, K)
  BY DEF Makes, Found
<1>3. e.catalog[n] # 0
  BY <1>2, ColumnsAre
<1>4. e.snaps[e.catalog[n]] < e.tid
  BY <1>2, <1>3 DEF Makes
<1>5. Rewrites(K, e, r, Fu, d, n, h)
  BY <1>1, <1>2, <1>4, ApplyRow
<1>6. Applies(K, e, h, Fu, d2, n) /\ h.catalog[n] = e.catalog[n] /\ h.snaps = e.snaps
  BY <1>5 DEF Rewrites
<1>7. \A m \in Names \ touched : h.catalog[m] # 0 => h.snaps[h.catalog[m]] < t
  BY <1>6 DEF Applies, Same, Makes
<1> QED  BY <1>1, <1>6, <1>7 DEF Applies, Same, Makes

(* A bat b that holds x and is saved with the snapshots of t.              *)
Saving(Fu, Fu2, r, n, b, x) ==
    /\ Changing(r, "USE", n) /\ r.bid = b
    /\ b \in Bids /\ n \in Names /\ x \in Contents
    /\ Fu.bats[b] = Absent /\ Fu2.bats[b] = x /\ ~Named(Fu2.catalog, b)
    /\ \A a \in Bids : Fu.bats[a] # Absent => Fu2.bats[a] # Absent

LEMMA TakesUse ==
  ASSUME NEW r, NEW n, NEW b, NEW x, NEW t, t >= 1, NEW touched,
         NEW Fu, NEW Fu2, Saving(Fu, Fu2, r, n, b, x),
         NEW d, NEW d2, d2 = With(d, n, x)
  PROVE  Takes(r, Fu, Fu2, d, d2, t, touched, touched \cup {n})
<1> SUFFICES ASSUME NEW K, NEW id, NEW e, NEW v, Base(K), Extends(K, Fu2),
                    Makes(K, id, e, Fu, d, v, t, touched)
             PROVE  Makes(K, id, la_apply(e, r), Fu2, d2, v, t, touched \cup {n})
  BY DEF Takes
<1>1. PICK h : h = la_apply(e, r)
  OBVIOUS
<1>2. Found(K, e, Fu, d) /\ e.tid = t /\ e.tid >= 1
  BY DEF Makes
<1>3. Using(K, Fu, Fu2, r, n, b, x)
  <2>1. x # Absent
    BY AbsentIs DEF Saving
  <2> QED  BY <2>1 DEF Saving, Using, Extends
<1>4. Applies(K, e, h, Fu2, With(d, n, x), n)
  BY <1>1, <1>2, <1>3, ApplyUse
<1>5. \A m \in Names \ (touched \cup {n}) : h.catalog[m] # 0 => h.snaps[h.catalog[m]] < t
  BY <1>4 DEF Applies, Same, Makes
<1> QED  BY <1>1, <1>4, <1>5 DEF Applies, Same, Makes

LEMMA AwaitsTouched ==
  ASSUME NEW id, NEW recs, NEW b, NEW F, NEW Fu, NEW c, NEW d, NEW s, NEW t, NEW touched,
         Writing(id, recs, b, F, Fu, c, d, s, t, touched), NEW more, touched \subseteq more
  PROVE  Writing(id, recs, b, F, Fu, c, d, s, t, more)
BY DEF Writing, Awaits, Makes

-----------------------------------------------------------------------------
(***************************************************************************)
(* The end of a transaction, and sequence numbers.                         *)
(***************************************************************************)
EndRecord(r, t) == r = [flag |-> "END", tid |-> t] /\ t \in Tids /\ t # 0

LEMMA ReadEnd ==
  ASSUME NEW g \in Loggers, g.err = "OK", NEW t, NEW r, EndRecord(r, t), g.tr.tid = t,
         NEW h, h = logger_readlog(g, r)
  PROVE  h = Ended(g, g.seqs)
<1>1. r.flag = "END" /\ r.tid = t /\ t # 0
  BY DEF EndRecord
<1>2. g.tr # NoTr
  BY <1>1 DEF NoTr
<1>3. h = tr_commit(g)
  BY <1>1, <1>2 DEF logger_readlog
<1>4. [g EXCEPT !.tr = NoTr, !.seqs = g.seqs] = [g EXCEPT !.tr = NoTr]
  BY DEF Loggers
<1> QED  BY <1>3, <1>4 DEF tr_commit, Ended

LEMMA GivesEnd ==
  ASSUME NEW id, NEW recs, NEW b, NEW F, NEW c, NEW d, NEW s, NEW t, NEW touched,
         Writing(id, recs, b, F, F, c, d, s, t, touched),
         NEW r, EndRecord(r, t), NEW z, Adds(z, b, r)
  PROVE  Gives(id, recs, z, F, c, d, s, s, t)
<1>1. r \in Records /\ t \in Tids
  BY DEF EndRecord, Records
<1>2. Tears(id, recs, b, r, z, F, c, s, t)
  BY TornAppend DEF Writing
<1>3. Whole(id, recs \o z, F, d, s, t)
  <2> SUFFICES ASSUME NEW K, Base(K), Extends(K, F)
               PROVE  Finds(K, id, Replay(K, id, recs \o z), F, d, s, t)
    BY DEF Whole
  <2>1. PICK g : g = Replay(K, id, recs \o b)
    OBVIOUS
  <2>2. Finds(K, id, g, F, c, s, t) /\ g.tr.tid = t
    BY <2>1 DEF Writing, Holds, Whole, Collects
  <2>3. PICK h : h = logger_readlog(g, r)
    OBVIOUS
  <2>4. Replay(K, id, recs \o z) = h
    <3>1. Replay(K, id, Append(recs \o b, r)) = logger_readlog(Replay(K, id, recs \o b), r)
      BY <1>1, <1>2, ReplayAppend, ZenonT(60) DEF Tears
    <3> QED  BY <3>1, <1>2, <2>1, <2>3, Zenon DEF Tears
  <2>5. g \in Loggers /\ g.err = "OK" /\ g.seqs[OBJ_SID] = s /\ g.seqs[LOG_SID] # 0
    BY <2>2 DEF Finds, Found, Sound
  <2>6. h = Ended(g, g.seqs)
    BY <2>2, <2>3, <2>5, ReadEnd
  <2>7. g.seqs \in [Sids -> Nat]
    BY <2>5 DEF Loggers
  <2>8. Makes(K, id, h, F, d, g.seqs, t, touched)
    BY <2>1, <2>6, <2>7 DEF Writing, Awaits
  <2>9. t <= t
    BY <1>1, TidsOrdered, Zenon
  <2> QED  BY <2>4, <2>5, <2>8, <2>9 DEF Finds, Makes
<1> QED  BY <1>2, <1>3 DEF Gives, Tears

NumberRecord(r, o, v, t) == r = SeqRecord(o, v, t) /\ o \in Sids /\ v \in Nat /\ t \in Tids
Numbered(g, o, v, t, h) ==
    /\ Alike(h, g) /\ h.tid = g.tid
    /\ h.seqs[o] = v /\ \A p \in Sids \ {o} : h.seqs[p] = g.seqs[p]
    /\ g.tr.tid = t => h.tr = g.tr /\ \A w : Ended(h, w) = Ended(g, w)

LEMMA ReadNumber ==
  ASSUME NEW g \in Loggers, g.err = "OK", NEW o, NEW v, NEW t, NEW r, NumberRecord(r, o, v, t),
         NEW h, h = logger_readlog(g, r)
  PROVE  Numbered(g, o, v, t, h)
<1>1. r.flag = "SEQ" /\ r.tid = t /\ r.seq = o /\ o \in Sids /\ r.val = v /\ v \in Nat
  BY DEF NumberRecord, SeqRecord
<1>2. PICK tr : tr = IF g.tr.tid = t THEN g.tr ELSE NoTr
  OBVIOUS
<1> DEFINE seqs == [g.seqs EXCEPT ![o] = v]
<1>3. /\ seqs \in [Sids -> Nat] /\ seqs[o] = v /\ \A p \in Sids \ {o} : seqs[p] = g.seqs[p]
  BY <1>1 DEF Loggers
<1>4. h = [g EXCEPT !.seqs = seqs, !.tr = tr]
  <2>1. PICK k : k = IF g.tr.tid = t THEN g ELSE [g EXCEPT !.tr = NoTr]
    OBVIOUS
  <2>2. h = [k EXCEPT !.seqs[o] = v]
    BY <1>1, <2>1 DEF logger_readlog
  <2>3. k = [g EXCEPT !.tr = tr]
    BY <1>2, <2>1 DEF Loggers
  <2>4. k.seqs = g.seqs
    BY <2>3 DEF Loggers
  <2>5. h = [k EXCEPT !.seqs = seqs]
    BY <2>2, <2>3, <2>4 DEF Loggers
  <2> HIDE DEF seqs
  <2> QED  BY <2>3, <2>5 DEF Loggers
<1> HIDE DEF seqs
<1>5. tr \in Trs
  BY <1>2, TidsNat DEF Loggers, NoTr, Trs
<1>6. h \in Loggers /\ h.seqs = seqs /\ h.tr = tr
  BY <1>3, <1>4, <1>5 DEF Loggers
<1>7. g.tid <= g.tid
  BY TidsOrdered, Zenon DEF Loggers
<1>8. Alike(h, g) /\ h.tid = g.tid
  BY <1>4, <1>6, <1>7 DEF Loggers, Alike
<1>9. ASSUME g.tr.tid = t, NEW w PROVE Ended(h, w) = Ended(g, w)
  <2>1. h.tr = g.tr
    BY <1>2, <1>6, <1>9
  <2>2. [h EXCEPT !.tr = NoTr, !.seqs = w] = [g EXCEPT !.tr = NoTr, !.seqs = w]
    BY <1>4 DEF Loggers
  <2> QED  BY <2>1, <2>2 DEF Ended
<1> QED  BY <1>2, <1>3, <1>6, <1>8, <1>9 DEF Numbered

(* The transaction u that is open in the log q is open in p.               *)
Stays(id, q, p, F, u) ==
    /\ Collects(id, p, F, u)
    /\ \A Fu, d, touched : Extends(Fu, F) /\ Awaits(id, q, Fu, d, u, touched)
                              => Awaits(id, p, Fu, d, u, touched)

LEMMA GivesNumber ==
  ASSUME NEW id, NEW recs, NEW b, NEW F, NEW c, NEW s, NEW t, Holds(id, recs, b, F, c, s, t),
         NEW u, NEW v, NEW r, NumberRecord(r, OBJ_SID, v, u), NEW z, Adds(z, b, r)
  PROVE  /\ Gives(id, recs, z, F, c, c, s, v, t)
         /\ Collects(id, recs \o b, F, u) => Stays(id, recs \o b, recs \o z, F, u)
<1>1. r \in Records
  BY DEF NumberRecord, SeqRecord, Records
<1>2. Tears(id, recs, b, r, z, F, c, s, t)
  BY TornAppend
<1>3. ASSUME NEW K, Base(K), Extends(K, F)
      PROVE  \E g, h : /\ g = Replay(K, id, recs \o b) /\ h = Replay(K, id, recs \o z)
                       /\ Finds(K, id, g, F, c, s, t) /\ Numbered(g, OBJ_SID, v, u, h)
  <2>1. PICK g : g = Replay(K, id, recs \o b)
    OBVIOUS
  <2>2. Finds(K, id, g, F, c, s, t)
    BY <2>1, <1>3 DEF Holds, Whole
  <2>3. PICK h : h = logger_readlog(g, r)
    OBVIOUS
  <2>4. Replay(K, id, recs \o z) = h
    <3>1. Replay(K, id, Append(recs \o b, r)) = logger_readlog(Replay(K, id, recs \o b), r)
      BY <1>1, <1>2, ReplayAppend, ZenonT(60) DEF Tears
    <3> QED  BY <3>1, <1>2, <2>1, <2>3, Zenon DEF Tears
  <2>5. g \in Loggers /\ g.err = "OK"
    BY <2>2 DEF Finds, Found, Sound
  <2>6. Numbered(g, OBJ_SID, v, u, h)
    BY <2>3, <2>5, ReadNumber
  <2> QED  BY <2>1, <2>2, <2>4, <2>6
<1>4. Whole(id, recs \o z, F, c, v, t)
  <2> SUFFICES ASSUME NEW K, Base(K), Extends(K, F)
               PROVE  Finds(K, id, Replay(K, id, recs \o z), F, c, v, t)
    BY DEF Whole
  <2>1. PICK g, h : /\ h = Replay(K, id, recs \o z)
                    /\ Finds(K, id, g, F, c, s, t) /\ Numbered(g, OBJ_SID, v, u, h)
    BY <1>3
  <2>2. Found(K, h, F, c)
    BY <2>1, FoundAlike DEF Finds, Numbered
  <2>3. LOG_SID \in Sids \ {OBJ_SID}
    BY DEF Sids, LOG_SID, OBJ_SID
  <2> QED  BY <2>1, <2>2, <2>3 DEF Finds, Numbered, Alike
<1>5. ASSUME Collects(id, recs \o b, F, u) PROVE Collects(id, recs \o z, F, u)
  <2> SUFFICES ASSUME NEW K, Base(K), Extends(K, F)
               PROVE  Replay(K, id, recs \o z).tr.tid = u
    BY DEF Collects
  <2> QED  BY <1>3, <1>5 DEF Collects, Numbered
<1>6. ASSUME NEW Fu, NEW d, NEW touched, Extends(Fu, F),
             Collects(id, recs \o b, F, u), Awaits(id, recs \o b, Fu, d, u, touched)
      PROVE  Awaits(id, recs \o z, Fu, d, u, touched)
  <2> SUFFICES ASSUME NEW K, Base(K), Extends(K, Fu)
               PROVE  /\ Replay(K, id, recs \o z).tid = u
                      /\ \A w \in [Sids -> Nat] :
                            Makes(K, id, Ended(Replay(K, id, recs \o z), w), Fu, d, w, u, touched)
    BY DEF Awaits
  <2>1. Extends(K, F)
    BY <1>6, ExtendsTrans
  <2>2. PICK g, h : /\ g = Replay(K, id, recs \o b) /\ h = Replay(K, id, recs \o z)
                    /\ Numbered(g, OBJ_SID, v, u, h)
    BY <1>3, <2>1
  <2>3. g.tr.tid = u
    BY <1>6, <2>1, <2>2 DEF Collects
  <2>4. g.tid = u /\ \A w \in [Sids -> Nat] : Makes(K, id, Ended(g, w), Fu, d, w, u, touched)
    BY <1>6, <2>2 DEF Awaits
  <2> QED  BY <2>2, <2>3, <2>4 DEF Numbered
<1> QED  BY <1>2, <1>4, <1>5, <1>6 DEF Gives, Tears, Stays

-----------------------------------------------------------------------------
(***************************************************************************)
(* A new log: it holds the sequence numbers, the checkpoint the columns.   *)
(***************************************************************************)
LEMMA FromFound ==
  ASSUME NEW F, Base(F), NEW K, Base(K), Extends(K, F), NEW id \in Nat, NEW g, g = From(K, id)
  PROVE  /\ Found(K, g, F, Columns(F)) /\ g.id = id /\ g.tid = 0 /\ g.seqs = NoSeqs /\ g.tid \in Tids
<1>1. /\ K.catalog \in [Names -> Bids \cup {0}] /\ K.bats \in [Bids -> Cells]
      /\ K.snaps \in [Bids -> Tids] /\ K \in Checkpoints
  BY DEF Base, Checkpoints, Catalogs, Bats, Snaps
<1>2. /\ g.id = id /\ g.tid = 0 /\ g.changes = FALSE /\ g.seqs = NoSeqs /\ g.catalog = K.catalog
      /\ g.old = CatalogBats(K) /\ g.bats = K.bats /\ g.snaps = K.snaps /\ g.freed = {}
      /\ g.tr = NoTr /\ g.err = "OK"
  BY DEF From
<1>3. g \in Loggers
  <2>1. NoTr \in Trs /\ 0 \in Tids
    BY TidsNat DEF NoTr, Trs
  <2>2. NoSeqs \in [Sids -> Nat]
    BY DEF NoSeqs
  <2>3. CatalogBats(K) \in SUBSET Bids
    BY <1>1 DEF CatalogBats
  <2>4. K.catalog \in Catalogs /\ K.bats \in Bats /\ K.snaps \in Snaps
    BY <1>1 DEF Catalogs, Bats, Snaps
  <2> QED  BY <2>1, <2>2, <2>3, <2>4 DEF From, Loggers
<1>4. Based(K.catalog, K.bats, K.snaps)
  BY DEF Base
<1>5. \A b \in Bids : b \in CatalogBats(K) <=> Named(K.catalog, b)
  BY <1>1, SlotsPositive DEF CatalogBats, Named
<1>6. \A b \in Bids : Named(K.catalog, b) => K.bats[b] # Absent /\ K.snaps[b] = 0
  BY <1>1, <1>4, SlotsPositive DEF Based, Named
<1>7. CatalogBats(K) \subseteq Bids
  BY <1>1 DEF CatalogBats
<1>8. Heap(K.catalog, CatalogBats(K), K.bats, K.snaps, {}, K.catalog, K.bats)
  BY <1>1, <1>4, <1>5, <1>6, <1>7 DEF Based, Heap
<1>9. Sound(g, K)
  BY <1>2, <1>3, <1>8 DEF Sound
<1>10. /\ F.catalog = K.catalog
       /\ \A n \in Names : K.catalog[n] # 0 => /\ F.bats[K.catalog[n]] # Absent
                                               /\ F.bats[K.catalog[n]] = K.bats[K.catalog[n]]
  BY <1>1 DEF Base, Based, Extends
<1>11. Columns(g) = Columns(F) /\ Columns(K) = Columns(F)
  <2>1. /\ Columns(g) = [n \in Names |-> IF K.catalog[n] = 0 THEN Absent ELSE K.bats[K.catalog[n]]]
        /\ Columns(K) = [n \in Names |-> IF K.catalog[n] = 0 THEN Absent ELSE K.bats[K.catalog[n]]]
        /\ Columns(F) = [n \in Names |-> IF K.catalog[n] = 0 THEN Absent ELSE F.bats[K.catalog[n]]]
    BY <1>2, <1>10 DEF Columns
  <2>2. \A n \in Names : (IF K.catalog[n] = 0 THEN Absent ELSE F.bats[K.catalog[n]])
                       = (IF K.catalog[n] = 0 THEN Absent ELSE K.bats[K.catalog[n]])
    BY <1>10
  <2> QED  BY <2>1, <2>2
<1>12. \A b \in Bids : K.bats[b] # Absent /\ (Named(g.catalog, b) \/ b \in g.freed)
                          => F.bats[b] # Absent
  BY <1>2, <1>10, SlotsPositive DEF Named
<1>13. \A n \in Names : g.catalog[n] # 0 => g.snaps[g.catalog[n]] <= g.tid
  <2>1. \A n \in Names : g.catalog[n] # 0 => g.snaps[g.catalog[n]] = 0
    BY <1>2, <1>4 DEF Based
  <2> QED  BY <1>2, <2>1
<1> QED  BY <1>2, <1>9, <1>11, <1>12, <1>13, TidsNat DEF Found

LEMMA FreshFinds ==
  ASSUME NEW K, NEW g, NEW F, NEW c, Found(K, g, F, c), g.tid = 0, g.tid \in Tids,
         NEW o, NEW v, NEW t, NEW r, NumberRecord(r, o, v, t),
         NEW h, h = logger_readlog(g, r)
  PROVE  /\ Found(K, h, F, c) /\ h.id = g.id /\ h.tid = 0 /\ h.tid \in Tids
         /\ h.seqs[o] = v /\ \A p \in Sids \ {o} : h.seqs[p] = g.seqs[p]
<1>1. g \in Loggers /\ g.err = "OK"
  BY DEF Found, Sound
<1>2. Numbered(g, o, v, t, h)
  BY <1>1, ReadNumber
<1>3. Found(K, h, F, c)
  BY <1>2, FoundAlike DEF Numbered
<1> QED  BY <1>2, <1>3 DEF Numbered, Alike

LEMMA Fresh ==
  ASSUME NEW F, Base(F), NEW g \in Loggers, g.seqs[LOG_SID] # 0, NEW t \in Tids, NEW id \in Nat
  PROVE  /\ log_sequence_nrs(g) \in Seq(Records)
         /\ Whole(id, log_sequence_nrs(g), F, Columns(F), g.seqs[OBJ_SID], t)
<1> DEFINE v == g.seqs[LOG_SID]
           w == g.seqs[OBJ_SID]
<1>1. PICK r : r = SeqRecord(LOG_SID, v, g.tid)
  OBVIOUS
<1>2. PICK y : y = SeqRecord(OBJ_SID, w, g.tid)
  OBVIOUS
<1>3. v \in Nat /\ w \in Nat /\ v # 0
  BY DEF Loggers, Sids
<1>4. /\ w = 0 => log_sequence_nrs(g) = <<r>> \o <<>>
      /\ w # 0 => log_sequence_nrs(g) = <<r>> \o <<y>>
  BY <1>1, <1>2 DEF log_sequence_nrs, SeqRecords
<1> HIDE DEF v, w
<1>5. NumberRecord(r, LOG_SID, v, g.tid) /\ NumberRecord(y, OBJ_SID, w, g.tid)
  BY <1>1, <1>2, <1>3 DEF NumberRecord, Sids, Loggers
<1>6. r \in Records /\ y \in Records
  BY <1>5 DEF NumberRecord, SeqRecord, Records
<1>7. PICK q : q = <<r>>
  OBVIOUS
<1>8. /\ <<>> \in Seq(Records) /\ q \in Seq(Records) /\ q = Append(<<>>, r)
      /\ Append(q, y) \in Seq(Records)
  BY <1>6, <1>7
<1>9. /\ w = 0 => log_sequence_nrs(g) = q
      /\ w # 0 => log_sequence_nrs(g) = Append(q, y)
  BY <1>4, <1>6, <1>7
<1>10. log_sequence_nrs(g) \in Seq(Records)
  BY <1>8, <1>9
<1>11. Whole(id, log_sequence_nrs(g), F, Columns(F), w, t)
  <2> SUFFICES ASSUME NEW K, Base(K), Extends(K, F)
               PROVE  Finds(K, id, Replay(K, id, log_sequence_nrs(g)), F, Columns(F), w, t)
    BY DEF Whole
  <2>1. PICK g0 : g0 = From(K, id)
    OBVIOUS
  <2>2. /\ Found(K, g0, F, Columns(F)) /\ g0.id = id /\ g0.tid = 0 /\ g0.seqs = NoSeqs /\ g0.tid \in Tids
    BY <2>1, FromFound
  <2>3. Replay(K, id, <<>>) = g0
    BY <2>1, ReplayedEmpty DEF Replay
  <2>4. PICK g1 : g1 = logger_readlog(g0, r)
    OBVIOUS
  <2>5. Replay(K, id, q) = g1
    <3>1. Replay(K, id, Append(<<>>, r)) = logger_readlog(Replay(K, id, <<>>), r)
      BY <1>6, <1>8, ReplayAppend, ZenonT(60)
    <3> QED  BY <3>1, <2>3, <2>4, <1>8, Zenon
  <2>6. /\ Found(K, g1, F, Columns(F)) /\ g1.id = g0.id /\ g1.tid = 0 /\ g1.tid \in Tids
        /\ g1.seqs[LOG_SID] = v /\ \A p \in Sids \ {LOG_SID} : g1.seqs[p] = g0.seqs[p]
    BY <1>5, <2>2, <2>4, FreshFinds
  <2>7. g1.seqs[OBJ_SID] = 0 /\ OBJ_SID \in Sids \ {LOG_SID} /\ LOG_SID \in Sids \ {OBJ_SID}
    BY <2>2, <2>6 DEF Sids, OBJ_SID, LOG_SID, NoSeqs
  <2>8. 0 <= t
    BY TidsNat
  <2>9. CASE w = 0
    <3>1. Finds(K, id, g1, F, Columns(F), w, t)
      BY <1>3, <2>2, <2>6, <2>7, <2>8, <2>9 DEF Finds
    <3> QED  BY <3>1, <2>5, <2>9, <1>9, Zenon
  <2>10. CASE w # 0
    <3>1. PICK g2 : g2 = logger_readlog(g1, y)
      OBVIOUS
    <3>2. Replay(K, id, Append(q, y)) = g2
      <4>1. Replay(K, id, Append(q, y)) = logger_readlog(Replay(K, id, q), y)
        BY <1>6, <1>8, ReplayAppend, ZenonT(60)
      <4> QED  BY <4>1, <2>5, <3>1, Zenon
    <3>3. /\ Found(K, g2, F, Columns(F)) /\ g2.id = g1.id /\ g2.tid = 0 /\ g2.tid \in Tids
          /\ g2.seqs[OBJ_SID] = w /\ \A p \in Sids \ {OBJ_SID} : g2.seqs[p] = g1.seqs[p]
      BY <1>5, <2>6, <3>1, FreshFinds
    <3>4. Finds(K, id, g2, F, Columns(F), w, t)
      BY <1>3, <2>2, <2>6, <2>7, <2>8, <3>3 DEF Finds
    <3> QED  BY <3>4, <3>2, <2>10, <1>9, Zenon
  <2> QED  BY <2>9, <2>10
<1> QED  BY <1>10, <1>11 DEF w

-----------------------------------------------------------------------------
(***************************************************************************)
(* The logger in memory, and the checkpoint with the snapshots of the      *)
(* transaction that is being logged.                                       *)
(***************************************************************************)
LEMMA SavedIs ==
  ASSUME NEW K \in Checkpoints, NEW g \in Loggers, NEW F, F = Saved(K, g)
  PROVE  /\ F \in Checkpoints /\ F.exists = K.exists /\ F.catalog = K.catalog /\ F.snaps = K.snaps
         /\ \A b \in Bids : F.bats[b] = IF g.snaps[b] = g.tid THEN g.bats[b] ELSE K.bats[b]
<1> DEFINE bats == [b \in Bids |-> IF g.snaps[b] = g.tid THEN g.bats[b] ELSE K.bats[b]]
<1>1. bats \in Bats
  BY DEF Loggers, Checkpoints, Bats
<1>2. F = [K EXCEPT !.bats = bats]
  BY DEF Saved, Checkpoints
<1> HIDE DEF bats
<1>3. F \in Checkpoints /\ F.exists = K.exists /\ F.catalog = K.catalog /\ F.snaps = K.snaps /\ F.bats = bats
  BY <1>1, <1>2 DEF Checkpoints
<1> QED  BY <1>3 DEF bats

LEMMA CheckpointEqual ==
  ASSUME NEW K \in Checkpoints, NEW F \in Checkpoints, F.exists = K.exists,
         F.catalog = K.catalog, F.snaps = K.snaps, \A b \in Bids : F.bats[b] = K.bats[b]
  PROVE  F = K
<1>1. F.bats = K.bats
  BY DEF Checkpoints, Bats
<1> QED  BY <1>1 DEF Checkpoints

(* Nothing is marked with the number of a transaction that starts but what *)
(* an earlier one of that number has left in the checkpoint.               *)
LEMMA SavedNothing ==
  ASSUME NEW K \in Checkpoints, NEW g, Sound(g, K), NEW h \in Loggers,
         h.snaps = g.snaps, h.bats = g.bats, h.tid # 0,
         \A n \in Names : g.catalog[n] # 0 => g.snaps[g.catalog[n]] # h.tid
  PROVE  Saved(K, h) = K
<1>1. Heap(g.catalog, g.old, g.bats, g.snaps, g.freed, K.catalog, K.bats)
  BY DEF Sound
<1>2. PICK F : F = Saved(K, h)
  OBVIOUS
<1>3. ASSUME NEW b \in Bids, h.snaps[b] = h.tid PROVE h.bats[b] = K.bats[b]
  <2>1. ~Named(g.catalog, b)
    BY <1>3, SlotsPositive DEF Named
  <2>2. b \notin g.freed /\ K.bats[b] # Absent
    BY <1>1, <1>3 DEF Heap
  <2> QED  BY <1>1, <2>1, <2>2 DEF Heap
<1>4. \A b \in Bids : F.bats[b] = K.bats[b]
  BY <1>2, <1>3, SavedIs
<1>5. F \in Checkpoints /\ F.exists = K.exists /\ F.catalog = K.catalog /\ F.snaps = K.snaps
  BY <1>2, SavedIs
<1> QED  BY <1>2, <1>4, <1>5, CheckpointEqual

(* Marked(K, g, F): F is K with the snapshots of g, and still a base.      *)
Marked(K, g, F) ==
    /\ Base(K) /\ Sound(g, F) /\ F = Saved(K, g) /\ Extends(F, K) /\ g.tid >= 1

LEMMA MarkedBase ==
  ASSUME NEW K, NEW g, NEW F, Marked(K, g, F), NEW L, L = [F EXCEPT !.snaps = g.snaps]
  PROVE  /\ Base(F) /\ F.catalog = K.catalog
         /\ Base(L) /\ L.exists = F.exists /\ L.catalog = F.catalog /\ L.bats = F.bats /\ L.snaps = g.snaps
<1>1. K \in Checkpoints /\ Based(K.catalog, K.bats, K.snaps)
  BY DEF Marked, Base
<1>2. g \in Loggers /\ Heap(g.catalog, g.old, g.bats, g.snaps, g.freed, F.catalog, F.bats)
  BY DEF Marked, Sound
<1>3. F \in Checkpoints /\ F.exists = K.exists /\ F.catalog = K.catalog /\ F.snaps = K.snaps
  BY <1>1, <1>2, SavedIs DEF Marked
<1>4. \A b \in Bids : K.bats[b] # Absent => F.bats[b] # Absent
  BY DEF Marked, Extends
<1>5. K.catalog \in [Names -> Bids \cup {0}]
  BY <1>1 DEF Checkpoints, Catalogs
<1>6. \E m \in Nat : \A b \in Bids : b > m => F.bats[b] = Absent
  BY <1>2 DEF Heap
<1>7. Based(F.catalog, F.bats, F.snaps)
  BY <1>1, <1>3, <1>4, <1>5, <1>6 DEF Based
<1>8. Based(F.catalog, F.bats, g.snaps)
  BY <1>1, <1>2, <1>3, <1>4, <1>5, <1>6 DEF Based, Heap
<1>9. /\ L \in Checkpoints /\ L.exists = F.exists /\ L.catalog = F.catalog /\ L.bats = F.bats
      /\ L.snaps = g.snaps
  BY <1>2, <1>3 DEF Checkpoints, Loggers
<1> QED  BY <1>3, <1>7, <1>8, <1>9 DEF Base

(* A new bat of the transaction.                                           *)
MayMark(K, g, F, b, n, x, v, h) ==
    /\ Marked(K, g, F) /\ b \in Bids /\ g.bats[b] = Absent /\ n \in Names /\ x \in Contents
    /\ v \in {0, g.tid} /\ Enters(g, b, n, x, v, h)
    /\ g.catalog[n] # 0 => g.snaps[g.catalog[n]] < g.tid
HasMarked(K, g, F, b, n, x, v, h, F2) ==
    /\ Marked(K, h, F2) /\ HasEntered(F2, g, b, n, x, v, h) /\ Extends(F2, F)
    /\ v # 0 => F.bats[b] = Absent /\ F2.bats[b] = x /\ ~Named(F2.catalog, b)
    /\ v = 0 => F2 = F

LEMMA MarkEnters ==
  ASSUME NEW K, NEW g, NEW F, NEW b, NEW n, NEW x, NEW v, NEW h,
         MayMark(K, g, F, b, n, x, v, h), NEW F2, F2 = Saved(K, h)
  PROVE  HasMarked(K, g, F, b, n, x, v, h, F2)
<1> USE DEF MayMark
<1>1. /\ g \in Loggers /\ h \in Loggers /\ K \in Checkpoints /\ h.tid = g.tid /\ F = Saved(K, g)
      /\ g.tid \in Tids /\ g.tid # 0 /\ Sound(g, F) /\ v \in Tids
  BY TidsNat DEF Marked, Sound, Base, Enters, Same, Loggers
<1>2. /\ F \in Checkpoints /\ F.exists = K.exists /\ F.catalog = K.catalog /\ F.snaps = K.snaps
      /\ \A c \in Bids : F.bats[c] = IF g.snaps[c] = g.tid THEN g.bats[c] ELSE K.bats[c]
  BY <1>1, SavedIs
<1>3. Base(F)
  BY MarkedBase
<1>4. /\ ~Named(g.catalog, b) /\ b \notin g.freed /\ ~Named(F.catalog, b)
      /\ F.bats[b] = Absent /\ g.snaps[b] = 0
  BY <1>1, <1>3, FreeBat
<1> DEFINE L == [F EXCEPT !.bats = [@ EXCEPT ![b] = IF v = 0 THEN Absent ELSE x]]
<1>5. /\ L \in Checkpoints /\ L.exists = F.exists /\ L.catalog = F.catalog /\ L.snaps = F.snaps
      /\ \A c \in Bids : c # b => L.bats[c] = F.bats[c]
      /\ L.bats[b] = IF v = 0 THEN Absent ELSE x
  <2> DEFINE bats == [F.bats EXCEPT ![b] = IF v = 0 THEN Absent ELSE x]
  <2>1. bats \in Bats /\ (\A c \in Bids : c # b => bats[c] = F.bats[c])
        /\ bats[b] = IF v = 0 THEN Absent ELSE x
    BY <1>2 DEF Checkpoints, Bats, Cells
  <2>2. L = [F EXCEPT !.bats = bats]
    BY <1>2 DEF Checkpoints
  <2> HIDE DEF bats, L
  <2>3. L \in Checkpoints /\ L.exists = F.exists /\ L.catalog = F.catalog /\ L.snaps = F.snaps /\ L.bats = bats
    BY <1>2, <2>1, <2>2 DEF Checkpoints
  <2> QED  BY <2>1, <2>3
<1> HIDE DEF L
<1>6. MayEnter(F, L, g, b, n, x, v)
  <2>1. x # Absent
    BY AbsentIs
  <2> QED  BY <1>1, <1>2, <1>4, <1>5, <2>1 DEF MayEnter
<1>7. HasEntered(L, g, b, n, x, v, h)
  BY <1>6, Entered
<1>8. /\ F2 \in Checkpoints /\ F2.exists = K.exists /\ F2.catalog = K.catalog /\ F2.snaps = K.snaps
      /\ \A c \in Bids : F2.bats[c] = IF h.snaps[c] = h.tid THEN h.bats[c] ELSE K.bats[c]
  BY <1>1, SavedIs, SMTT(60)
<1>9. ASSUME NEW c \in Bids PROVE F2.bats[c] = L.bats[c]
  <2>1. CASE c = b
    <3>1. h.snaps[b] = v /\ h.bats[b] = x
      BY <1>7 DEF HasEntered
    <3>2. K.bats[b] = Absent
      BY <1>2, <1>4, <1>1
    <3> QED  BY <2>1, <3>1, <3>2, <1>1, <1>5, <1>8
  <2>2. CASE c # b /\ c # g.catalog[n]
    <3>1. h.bats[c] = g.bats[c] /\ h.snaps[c] = g.snaps[c]
      BY <1>7, <2>2 DEF HasEntered
    <3> QED  BY <3>1, <2>2, <1>1, <1>2, <1>5, <1>8
  <2>3. CASE c # b /\ c = g.catalog[n]
    <3>1. g.snaps[c] # g.tid
      <4>1. g.snaps[c] < g.tid /\ g.snaps[c] \in Tids
        BY <2>3, <1>1, SlotsPositive DEF Loggers, Snaps
      <4> QED  BY <4>1, <1>1, TidsNat
    <3>2. h.snaps[c] # h.tid
      BY <3>1, <2>3, <1>1, <1>7 DEF HasEntered
    <3> QED  BY <3>1, <3>2, <2>3, <1>2, <1>5, <1>8
  <2> QED  BY <2>1, <2>2, <2>3
<1>10. F2 = L
  BY <1>2, <1>5, <1>8, <1>9, CheckpointEqual
<1>11. Extends(F2, F)
  BY <1>4, <1>5, <1>10 DEF Extends
<1>12. Extends(F2, K)
  BY <1>11, ExtendsTrans DEF Marked
<1>13. Marked(K, h, F2)
  BY <1>1, <1>7, <1>10, <1>12 DEF Marked, HasEntered
<1>14. ASSUME v = 0 PROVE F2 = F
  <2>1. \A c \in Bids : L.bats[c] = F.bats[c]
    BY <1>4, <1>5, <1>14
  <2>2. L = F
    BY <2>1, <1>2, <1>5, CheckpointEqual
  <2> QED  BY <2>2, <1>10
<1> QED  BY <1>2, <1>4, <1>5, <1>7, <1>10, <1>11, <1>13, <1>14 DEF HasMarked

(* log_bat_transient and logger_del_bat: the bat of a column is dropped.   *)
Mark(g, b) == [g.snaps EXCEPT ![b] = IF g.snaps[b] # 0 THEN g.tid ELSE 0]

LEMMA HeapMark ==
  ASSUME NEW cat, NEW old, NEW bats, NEW snaps, NEW freed, NEW kcat, NEW kbats, NEW snaps2,
         Heaped(cat, old, bats, snaps, freed, kcat, kbats), snaps2 \in Snaps,
         \A c \in Bids : snaps2[c] = 0 <=> snaps[c] = 0
  PROVE  Heaped(cat, old, bats, snaps2, freed, kcat, kbats)
<1>1. /\ kcat \in [Names -> Bids \cup {0}] /\ freed \subseteq Bids /\ old \subseteq Bids
      /\ Heap(cat, old, bats, snaps, freed, kcat, kbats)
  BY DEF Heaped, Catalogs
<1>2. Heap(cat, old, bats, snaps2, freed, kcat, kbats)
  BY <1>1 DEF Heap
<1> QED  BY <1>2 DEF Heaped

MayDrop(K, g, F, n, h) ==
    /\ Marked(K, g, F) /\ n \in Names /\ g.catalog[n] # 0 /\ g.snaps[g.catalog[n]] < g.tid
    /\ h = logger_del_bat([g EXCEPT !.snaps[g.catalog[n]] = IF @ # 0 THEN g.tid ELSE 0], g.catalog[n])
HasDropped(K, g, F, n, h) ==
    /\ Marked(K, h, F) /\ F = Saved(K, h) /\ Same(h, g) /\ h.changes = TRUE
    /\ \A m \in Names : h.catalog[m] = IF m = n THEN 0 ELSE g.catalog[m]
    /\ \A m \in Names \ {n} : h.catalog[m] # 0 => h.snaps[h.catalog[m]] = g.snaps[g.catalog[m]]

LEMMA DropMarks ==
  ASSUME NEW K, NEW g, NEW F, NEW n, NEW h, MayDrop(K, g, F, n, h)
  PROVE  HasDropped(K, g, F, n, h)
<1>1. /\ g \in Loggers /\ K \in Checkpoints /\ F = Saved(K, g) /\ Sound(g, F) /\ n \in Names
      /\ g.tid \in Tids /\ g.tid # 0 /\ g.tid \in Nat
  BY TidsNat DEF MayDrop, Marked, Sound, Base, Loggers
<1>2. /\ F \in Checkpoints /\ F.exists = K.exists /\ F.catalog = K.catalog /\ F.snaps = K.snaps
      /\ \A c \in Bids : F.bats[c] = IF g.snaps[c] = g.tid THEN g.bats[c] ELSE K.bats[c]
  BY <1>1, SavedIs
<1>3. PICK b : b = g.catalog[n]
  OBVIOUS
<1>4. /\ g.catalog \in [Names -> Bids \cup {0}] /\ g.snaps \in [Bids -> Tids] /\ g.bats \in [Bids -> Cells]
  BY <1>1 DEF Loggers, Catalogs, Snaps, Bats
<1>5. b \in Bids /\ b # 0 /\ Named(g.catalog, b) /\ g.snaps[b] < g.tid
  BY <1>1, <1>3, <1>4 DEF MayDrop, Named
<1>6. \A m \in Names : g.catalog[m] = b => m = n
  BY <1>1, <1>3, <1>5 DEF Sound, Heap
<1> DEFINE snaps2 == Mark(g, b)
<1>7. /\ snaps2 \in Snaps /\ (\A c \in Bids : c # b => snaps2[c] = g.snaps[c])
      /\ snaps2[b] = IF g.snaps[b] # 0 THEN g.tid ELSE 0
  BY <1>1, <1>4, <1>5, TidsNat DEF Mark, Snaps
<1> HIDE DEF snaps2
<1>8. PICK e : e = [g EXCEPT !.snaps = snaps2]
  OBVIOUS
<1>9. /\ e \in Loggers /\ Same(e, g) /\ e.catalog = g.catalog /\ e.old = g.old /\ e.bats = g.bats
      /\ e.snaps = snaps2 /\ e.freed = g.freed
  BY <1>1, <1>7, <1>8 DEF Loggers, Same
<1>10. h = logger_del_bat(e, b)
  <2>1. [g EXCEPT !.snaps[b] = IF @ # 0 THEN g.tid ELSE 0] = e
    BY <1>1, <1>8 DEF Loggers, snaps2, Mark
  <2>2. h = logger_del_bat([g EXCEPT !.snaps[g.catalog[n]] = IF @ # 0 THEN g.tid ELSE 0], g.catalog[n])
    BY DEF MayDrop
  <2> QED  BY <2>1, <2>2, <1>3, Zenon
<1>11. Leaves(e, b, h)
  BY <1>5, <1>9, <1>10, DelFields
<1>12. PICK release : release = Release(g.old, snaps2, b)
  OBVIOUS
<1>13. /\ h \in Loggers /\ Same(h, e) /\ h.changes = TRUE /\ h.catalog = DelCatalog(g.catalog, b)
       /\ h.old = g.old \ {b} /\ h.bats = DelBats(g.bats, b, release)
       /\ h.snaps = DelSnaps(snaps2, g.old, b) /\ h.freed = DelFreed(g.freed, b, release)
  BY <1>9, <1>11, <1>12 DEF Leaves
<1>14. Heaped(g.catalog, g.old, g.bats, snaps2, g.freed, F.catalog, F.bats)
  <2>1. Heaped(g.catalog, g.old, g.bats, g.snaps, g.freed, F.catalog, F.bats)
    BY <1>1, <1>2, HeapOf
  <2>2. \A c \in Bids : snaps2[c] = 0 <=> g.snaps[c] = 0
    <3>1. ASSUME NEW c \in Bids PROVE snaps2[c] = 0 <=> g.snaps[c] = 0
      <4>1. CASE c = b
        BY <4>1, <1>1, <1>7
      <4>2. CASE c # b
        BY <4>2, <1>7
      <4> QED  BY <4>1, <4>2
    <3> QED  BY <3>1
  <2> QED  BY <2>1, <2>2, <1>7, HeapMark
<1>15. /\ Heaped(h.catalog, h.old, h.bats, h.snaps, h.freed, F.catalog, F.bats)
       /\ b \in g.old => snaps2[b] = 0
  BY <1>5, <1>12, <1>13, <1>14, HeapDel
<1>16. Sound(h, F)
  BY <1>2, <1>13, <1>15, HeapOf
<1>17. /\ \A m \in Names : h.catalog[m] = IF m = n THEN 0 ELSE g.catalog[m]
       /\ \A c \in Bids : c # b => h.bats[c] = g.bats[c] /\ h.snaps[c] = g.snaps[c]
       /\ h.snaps[b] = 0
  BY <1>3, <1>4, <1>5, <1>6, <1>7, <1>13, <1>15 DEF DelCatalog, DelBats, DelSnaps, Snaps
<1>18. Same(h, g) /\ h.tid = g.tid
  BY <1>9, <1>13 DEF Same
<1>19. Saved(K, h) = F
  <2>1. PICK L : L = Saved(K, h)
    OBVIOUS
  <2>2. /\ L \in Checkpoints /\ L.exists = K.exists /\ L.catalog = K.catalog /\ L.snaps = K.snaps
        /\ \A c \in Bids : L.bats[c] = IF h.snaps[c] = h.tid THEN h.bats[c] ELSE K.bats[c]
    BY <1>1, <1>13, <2>1, SavedIs, SMTT(60)
  <2>3. g.snaps[b] # g.tid
    <3>1. g.snaps[b] \in Nat
      BY <1>4, <1>5, TidsNat
    <3> QED  BY <3>1, <1>1, <1>5
  <2>4. ASSUME NEW c \in Bids PROVE L.bats[c] = F.bats[c]
    <3>1. CASE c = b
      BY <3>1, <2>2, <2>3, <1>1, <1>2, <1>17, <1>18
    <3>2. CASE c # b
      BY <3>2, <2>2, <1>2, <1>17, <1>18
    <3> QED  BY <3>1, <3>2
  <2>5. L = F
    BY <2>2, <2>4, <1>2, CheckpointEqual
  <2> QED  BY <2>1, <2>5
<1>20. \A m \in Names \ {n} : h.catalog[m] # 0 => h.snaps[h.catalog[m]] = g.snaps[g.catalog[m]]
  BY <1>4, <1>6, <1>17
<1>21. Marked(K, h, F)
  BY <1>16, <1>18, <1>19 DEF MayDrop, Marked
<1> QED  BY <1>13, <1>17, <1>18, <1>19, <1>20, <1>21 DEF HasDropped

(* The contents of the bats of the catalog.                                *)
LEMMA Rewritten2 ==
  ASSUME NEW g, NEW K \in Checkpoints, Sound(g, K), NEW bats2 \in Bats,
         \A c \in Bids : bats2[c] = g.bats[c] \/ (Named(g.catalog, c) /\ bats2[c] # Absent),
         NEW h, h = [g EXCEPT !.bats = bats2]
  PROVE  /\ Sound(h, K) /\ Same(h, g) /\ h.catalog = g.catalog /\ h.snaps = g.snaps
         /\ h.bats = bats2 /\ h.changes = g.changes
<1>1. g \in Loggers
  BY DEF Sound
<1>2. /\ h \in Loggers /\ h.catalog = g.catalog /\ h.old = g.old /\ h.bats = bats2
      /\ h.snaps = g.snaps /\ h.freed = g.freed /\ h.changes = g.changes
  BY <1>1 DEF Loggers
<1>3. Same(h, g)
  BY <1>1 DEF Loggers, Same
<1>4. Heaped(g.catalog, g.old, g.bats, g.snaps, g.freed, K.catalog, K.bats)
  BY <1>1, HeapOf
<1>5. Heaped(g.catalog, g.old, bats2, g.snaps, g.freed, K.catalog, K.bats)
  BY <1>4, HeapWrite
<1>6. Sound(h, K)
  BY <1>2, <1>5, HeapOf
<1> QED  BY <1>2, <1>3, <1>6

(* logger_commit: the catalog and its bats are the new checkpoint.         *)
MayCommit(K, g, K2, h, bats2, kbats2, s) ==
    /\ Base(K) /\ Sound(g, K)
    /\ \A b \in Bids : bats2[b] = IF b \in g.freed THEN Absent ELSE g.bats[b]
    /\ \A b \in Bids : kbats2[b] = IF b \in CatalogBats(g) THEN g.bats[b]
                                   ELSE IF b \in g.freed THEN Absent ELSE K.bats[b]
    /\ bats2 \in [Bids -> Cells] /\ kbats2 \in [Bids -> Cells]
    /\ K2 = [K EXCEPT !.catalog = g.catalog, !.snaps = NoSnapshots, !.bats = kbats2]
    /\ h = [g EXCEPT !.seqs = s, !.snaps = NoSnapshots, !.old = CatalogBats(g), !.freed = {},
                     !.bats = bats2]
    /\ s \in [Sids -> Nat]
HasCommitted(K, g, K2, h, s) ==
    /\ Base(K2) /\ Sound(h, K2) /\ K2.exists = K.exists
    /\ Columns(K2) = Columns(g) /\ Columns(h) = Columns(g)
    /\ h.id = g.id /\ h.tid = g.tid /\ h.changes = g.changes /\ h.seqs = s /\ h.tr = g.tr /\ h.err = g.err
    /\ h.catalog = g.catalog /\ \A b \in Bids : h.snaps[b] = 0

LEMMA Committed ==
  ASSUME NEW K, NEW g, NEW K2, NEW h, NEW bats2, NEW kbats2, NEW s,
         MayCommit(K, g, K2, h, bats2, kbats2, s)
  PROVE  HasCommitted(K, g, K2, h, s)
<1> USE DEF MayCommit
<1>1. /\ g \in Loggers /\ K \in Checkpoints /\ Based(K.catalog, K.bats, K.snaps)
      /\ Heap(g.catalog, g.old, g.bats, g.snaps, g.freed, K.catalog, K.bats)
  BY DEF Sound, Base
<1>2. /\ g.catalog \in [Names -> Bids \cup {0}] /\ g.bats \in [Bids -> Cells] /\ g.freed \subseteq Bids
      /\ K.bats \in [Bids -> Cells]
  BY <1>1 DEF Loggers, Checkpoints, Catalogs, Bats
<1>3. /\ CatalogBats(g) \in SUBSET Bids /\ NoSnapshots \in Snaps
      /\ \A b \in Bids : b \in CatalogBats(g) <=> Named(g.catalog, b)
      /\ \A b \in Bids : NoSnapshots[b] = 0
  BY <1>2, SlotsPositive, TidsNat DEF CatalogBats, Named, NoSnapshots, Snaps
<1>4. /\ K2 \in Checkpoints /\ K2.exists = K.exists /\ K2.catalog = g.catalog
      /\ K2.snaps = NoSnapshots /\ K2.bats = kbats2
  <2>1. kbats2 \in Bats
    BY DEF Bats
  <2> QED  BY <2>1, <1>1, <1>3 DEF Checkpoints, Loggers
<1>5. /\ h \in Loggers /\ h.catalog = g.catalog /\ h.old = CatalogBats(g) /\ h.bats = bats2
      /\ h.snaps = NoSnapshots /\ h.freed = {} /\ h.seqs = s
      /\ h.id = g.id /\ h.tid = g.tid /\ h.changes = g.changes /\ h.tr = g.tr /\ h.err = g.err
  <2>1. bats2 \in Bats
    BY DEF Bats
  <2> QED  BY <2>1, <1>1, <1>3 DEF Loggers
<1>6. \A b \in Bids : Named(g.catalog, b) => /\ g.bats[b] # Absent /\ b \notin g.freed
                                             /\ bats2[b] = g.bats[b] /\ kbats2[b] = g.bats[b]
  BY <1>1, <1>3, SlotsPositive DEF Heap, Named
<1>7. ASSUME NEW b \in Bids, kbats2[b] # Absent
      PROVE  bats2[b] # Absent /\ bats2[b] = kbats2[b]
  <2>1. CASE Named(g.catalog, b)
    BY <2>1, <1>6
  <2>2. CASE ~Named(g.catalog, b)
    <3>1. b \notin g.freed /\ K.bats[b] # Absent /\ kbats2[b] = K.bats[b] /\ bats2[b] = g.bats[b]
      BY <1>7, <2>2, <1>3
    <3>2. g.bats[b] # Absent /\ g.bats[b] = K.bats[b]
      BY <1>1, <2>2, <3>1 DEF Heap
    <3> QED  BY <3>1, <3>2
  <2> QED  BY <2>1, <2>2
<1>8. PICK m \in Nat : \A b \in Bids : b > m => g.bats[b] = Absent
  BY <1>1 DEF Heap
<1>9. \A b \in Bids : b > m => bats2[b] = Absent /\ kbats2[b] = Absent
  <2>1. \A b \in Bids : b > m => bats2[b] = Absent
    BY <1>8
  <2> QED  BY <2>1, <1>7
<1>10. \A n \in Names : g.catalog[n] # 0 => /\ g.catalog[n] \in Bids /\ Named(g.catalog, g.catalog[n])
                                            /\ g.bats[g.catalog[n]] # Absent
                                            /\ bats2[g.catalog[n]] = g.bats[g.catalog[n]]
                                            /\ kbats2[g.catalog[n]] = g.bats[g.catalog[n]]
  <2>1. \A n \in Names : g.catalog[n] # 0 => g.catalog[n] \in Bids /\ Named(g.catalog, g.catalog[n])
    BY <1>2 DEF Named
  <2> QED  BY <2>1, <1>6
<1>11. \A k, n \in Names : g.catalog[k] = g.catalog[n] /\ g.catalog[k] # 0 => k = n
  BY <1>1 DEF Heap
<1>12. Heap(g.catalog, CatalogBats(g), bats2, NoSnapshots, {}, g.catalog, kbats2)
  BY <1>3, <1>7, <1>9, <1>10, <1>11 DEF Heap
<1>13. Based(g.catalog, kbats2, NoSnapshots)
  BY <1>3, <1>9, <1>10, <1>11 DEF Based
<1>14. Columns(K2) = Columns(g) /\ Columns(h) = Columns(g)
  <2>1. /\ Columns(g) = [n \in Names |-> IF g.catalog[n] = 0 THEN Absent ELSE g.bats[g.catalog[n]]]
        /\ Columns(K2) = [n \in Names |-> IF g.catalog[n] = 0 THEN Absent ELSE kbats2[g.catalog[n]]]
        /\ Columns(h) = [n \in Names |-> IF g.catalog[n] = 0 THEN Absent ELSE bats2[g.catalog[n]]]
    BY <1>4, <1>5 DEF Columns
  <2>2. \A n \in Names :
          /\ (IF g.catalog[n] = 0 THEN Absent ELSE g.bats[g.catalog[n]])
                = (IF g.catalog[n] = 0 THEN Absent ELSE kbats2[g.catalog[n]])
          /\ (IF g.catalog[n] = 0 THEN Absent ELSE g.bats[g.catalog[n]])
                = (IF g.catalog[n] = 0 THEN Absent ELSE bats2[g.catalog[n]])
    BY <1>10
  <2> QED  BY <2>1, <2>2
<1> QED  BY <1>3, <1>4, <1>5, <1>12, <1>13, <1>14 DEF Sound, Base, HasCommitted

(* empty_col: the new bats of cleared columns.                             *)
Kept(K, g, h) ==
    /\ Base(K) /\ Sound(h, K) /\ Same(h, g) /\ g.tid \in Tids
    /\ \A n \in Names : h.catalog[n] # 0 => h.snaps[h.catalog[n]] <= h.tid
    /\ \A n \in Names : h.catalog[n] # 0 <=> g.catalog[n] # 0

LEMMA EmptyCol ==
  ASSUME Unlimited, NEW K, NEW g, NEW h, Kept(K, g, h),
         NEW n \in Names, tx.col[n] \in Contents, g.catalog[n] # 0
  PROVE  Kept(K, g, empty_col(h, n))
<1>1. PICK x : x = tx.col[n]
  OBVIOUS
<1>2. PICK b : b = NewBid(h)
  OBVIOUS
<1>3. /\ h \in Loggers /\ Sound(h, K) /\ Base(K) /\ K \in Checkpoints /\ x \in Contents
      /\ h.tid \in Tids
  BY <1>1 DEF Kept, Sound, Base, Loggers
<1>4. b \in Bids /\ h.bats[b] = Absent
  BY <1>2, <1>3, NewBidFree DEF Sound, Heap, Loggers
<1>5. /\ ~Named(h.catalog, b) /\ b \notin h.freed /\ ~Named(K.catalog, b)
      /\ K.bats[b] = Absent /\ h.snaps[b] = 0
  BY <1>3, <1>4, FreeBat
<1>6. PICK h1 : h1 = [h EXCEPT !.bats[b] = x]
  OBVIOUS
<1>7. /\ h1 \in Loggers /\ Same(h1, h) /\ h1.catalog = h.catalog /\ h1.old = h.old
      /\ h1.freed = h.freed /\ h1.snaps = h.snaps /\ h1.bats = [h.bats EXCEPT ![b] = x]
  <2> DEFINE bats == [h.bats EXCEPT ![b] = x]
  <2>1. bats \in Bats
    BY <1>3 DEF Loggers, Bats, Cells
  <2>2. h1 = [h EXCEPT !.bats = bats]
    BY <1>3, <1>6 DEF Loggers
  <2> HIDE DEF bats
  <2>3. h1 \in Loggers
    BY <1>3, <2>1, <2>2 DEF Loggers
  <2> QED  BY <1>3, <2>2, <2>3 DEF Loggers, Same, bats
<1>8. PICK a : a = logger_add_bat(h1, b, n)
  OBVIOUS
<1>9. Enters(h, b, n, x, 0, a)
  BY <1>3, <1>4, <1>5, <1>7, <1>8, TidsNat, AddFields
<1>10. empty_col(h, n) = a
  BY <1>1, <1>2, <1>6, <1>8, Zenon DEF empty_col
<1>11. MayEnter(K, K, h, b, n, x, 0)
  BY <1>3, <1>4, <1>5, TidsNat DEF MayEnter
<1>12. HasEntered(K, h, b, n, x, 0, a)
  BY <1>9, <1>11, Entered
<1>13. /\ Sound(a, K) /\ Same(a, h)
       /\ \A m \in Names : a.catalog[m] = IF m = n THEN b ELSE h.catalog[m]
       /\ \A c \in Bids : c # b /\ a.snaps[c] # 0 => a.snaps[c] = h.snaps[c]
       /\ a.snaps[b] = 0
  BY <1>12 DEF HasEntered
<1>14. Same(a, g) /\ a.tid = h.tid
  BY <1>13 DEF Kept, Same
<1>15. ASSUME NEW m \in Names, a.catalog[m] # 0 PROVE a.snaps[a.catalog[m]] <= a.tid
  <2>1. CASE a.snaps[a.catalog[m]] = 0
    <3>1. a.tid \in Nat
      BY <1>3, <1>14, TidsNat
    <3>2. 0 <= a.tid
      BY <3>1
    <3> QED  BY <2>1, <3>2
  <2>2. CASE a.snaps[a.catalog[m]] # 0
    <3>1. m # n /\ a.catalog[m] = h.catalog[m] /\ a.catalog[m] # b
      BY <1>13, <2>2
    <3>2. a.catalog[m] \in Bids
      BY <1>13, <1>15 DEF Sound, Loggers, Catalogs
    <3>3. a.snaps[a.catalog[m]] = h.snaps[h.catalog[m]]
      BY <1>13, <2>2, <3>1, <3>2
    <3>4. h.snaps[h.catalog[m]] <= h.tid
      BY <1>15, <3>1 DEF Kept
    <3> QED  BY <3>3, <3>4, <1>14
  <2> QED  BY <2>1, <2>2
<1>16. \A m \in Names : a.catalog[m] # 0 <=> g.catalog[m] # 0
  <2>1. b # 0
    BY <1>4, SlotsPositive
  <2> QED  BY <1>13, <2>1 DEF Kept
<1> QED  BY <1>10, <1>13, <1>14, <1>15, <1>16 DEF Kept

LEMMA NewBatsKept ==
  ASSUME Unlimited, NEW K, NEW g, Kept(K, g, g), NEW names \in Seq(Names),
         \A i \in 1 .. Len(names) : tx.col[names[i]] \in Contents /\ g.catalog[names[i]] # 0
  PROVE  Kept(K, g, NewBats(g, names))
<1>1. Len(names) \in Nat
  OBVIOUS
<1>2. PICK f : NewBatsTo(f, g, names, Len(names)) /\ NewBats(g, names) = f[Len(names)]
  BY <1>1, NewBatsIs
<1> DEFINE T == {k \in 0 .. Len(names) : ~Kept(K, g, f[k])}
<1>3. SUFFICES ASSUME T # {} PROVE FALSE
  <2>1. Len(names) \in 0 .. Len(names)
    BY <1>1
  <2> QED  BY <1>2, <2>1
<1>4. PICK k \in T : \A i \in T : k <= i
  <2> HIDE DEF T
  <2>1. T \subseteq Nat
    BY DEF T
  <2> QED  BY <1>3, <2>1, Least
<1>5. k \in 0 .. Len(names) /\ ~Kept(K, g, f[k])
  BY <1>4
<1>6. k # 0
  <2>1. 0 \in 0 .. Len(names)
    BY <1>1
  <2>2. f[0] = g
    BY <1>2, <2>1 DEF NewBatsTo
  <2> QED  BY <2>2, <1>5
<1>7. k - 1 \in 0 .. Len(names) /\ ~(k <= k - 1) /\ k \in 1 .. Len(names)
  BY <1>1, <1>5, <1>6
<1>8. Kept(K, g, f[k - 1])
  BY <1>4, <1>7
<1>9. f[k] = empty_col(f[k - 1], names[k])
  BY <1>2, <1>5, <1>6 DEF NewBatsTo
<1>10. names[k] \in Names /\ tx.col[names[k]] \in Contents /\ g.catalog[names[k]] # 0
  BY <1>7
<1>11. PICK n : n = names[k]
  OBVIOUS
<1>12. PICK h : h = f[k - 1]
  OBVIOUS
<1>13. Kept(K, g, empty_col(h, n))
  BY <1>8, <1>10, <1>11, <1>12, EmptyCol
<1> QED  BY <1>5, <1>9, <1>11, <1>12, <1>13

-----------------------------------------------------------------------------
(***************************************************************************)
(* The steps of logger_cleanup: they touch no file that a start reads.     *)
(***************************************************************************)
(* The log a start would read, and what is there, stay the same.           *)
Untouched ==
    /\ LogList' = LogList /\ Log' = Log /\ UNCHANGED <<ckpt, lg, buf, pc, tx, col, seq, bounds>>
    /\ boot' = boot \/ pc \in Running
    /\ pc \notin Running => wal' = wal

LEMMA UntouchedMemory ==
  ASSUME MemoryInv, TxInv, LogInv, Untouched
  PROVE  MemoryInv' /\ TxInv' /\ LogInv'
<1> USE DEF Untouched, bounds
<1>1. Future' = Future /\ Current' = Current /\ LastTid' = LastTid
  BY DEF Future, Current, LastTid, Saved
<1>2. MemoryInv'
  BY <1>1 DEF MemoryInv, Columns
<1>3. TxInv'
  BY <1>1 DEF TxInv
<1>4. Window' = "none" => Window = "none"
  BY DEF Window, Running, Collecting
<1>5. LogInv'
  BY <1>1, <1>4 DEF LogInv
<1> QED  BY <1>2, <1>3, <1>5

LEMMA CleanupLogStep ==
  ASSUME IInv, CleanupLog
  PROVE  IInv'
<1> USE DEF CleanupLog, bounds
<1>1. /\ cleaning = "log" /\ cleaning' = "bak"
      /\ UNCHANGED <<master, bak, baks, ckpt, lg, buf, pc, boot, tx, oldId, col, seq, bounds>>
      /\ pc \in Running /\ baks[lg.id] \in Ids /\ baks[lg.id] # lg.id /\ master = lg.id /\ bak = Absent
      /\ lg.id \in Ids
  BY DEF IInv, PhaseInv, FilesInv, Running, Collecting
<1>2. /\ wal' \in [Ids -> Seq(Records) \cup {Absent}]
      /\ wal'[lg.id] = wal[lg.id]
  BY <1>1 DEF IInv, TypeInv
<1>3. LogList = lg.id /\ LogList' = lg.id
  BY <1>1 DEF LogList
<1>4. Log' = Log
  BY <1>1, <1>2, <1>3 DEF Log, LogRecords
<1>5. TypeInv'
  BY <1>1, <1>2 DEF IInv, TypeInv
<1>6. FilesInv' /\ RoomInv' /\ PhaseInv'
  <2>1. FilesInv'
    BY <1>1, <1>2, <1>3 DEF IInv, FilesInv, Running, Collecting
  <2>2. RoomInv'
    BY <1>1, <1>3 DEF IInv, RoomInv
  <2>3. PhaseInv'
    BY <1>1, <1>2, <1>3, <1>4 DEF IInv, PhaseInv, Running, Collecting
  <2> QED  BY <2>1, <2>2, <2>3
<1>7. Untouched
  BY <1>1, <1>3, <1>4 DEF Untouched
<1> QED  BY <1>5, <1>6, <1>7, UntouchedMemory DEF IInv

LEMMA CleanupBakStep ==
  ASSUME IInv, CleanupBak
  PROVE  IInv'
<1> USE DEF CleanupBak, bounds
<1>1. /\ cleaning = "bak" /\ cleaning' \in {"old", "none"} /\ boot' \in {boot, FALSE}
      /\ cleaning' = "none" => ~boot' /\ oldId' = 0
      /\ cleaning' = "old" => oldId' = FirstOld
      /\ UNCHANGED <<master, bak, wal, ckpt, lg, buf, pc, tx, col, seq, bounds>>
      /\ pc \in Running /\ master = lg.id /\ bak = Absent /\ lg.id \in Ids
  BY DEF IInv, TypeInv, PhaseInv, FilesInv, Running, Collecting
<1>2. baks' \in [Ids -> LogIds]
  BY <1>1 DEF IInv, TypeInv, LogIds
<1>3. LogList = lg.id /\ LogList' = lg.id /\ Log' = Log
  BY <1>1 DEF LogList, Log, LogRecords
<1>4. oldId' \in -KeepLogs .. 3 + MaxStops + MaxFlushes /\ oldId' < lg.id
  <2>1. lg.id \in 2 .. 3 + MaxStops + MaxFlushes /\ KeepLogs \in Nat /\ MaxStops \in Nat /\ MaxFlushes \in Nat
    BY <1>1, LoggerAssumption DEF Ids
  <2>2. oldId' = 0 \/ oldId' = lg.id - KeepLogs - 1
    BY <1>1 DEF FirstOld
  <2> QED  BY <2>1, <2>2
<1>5. TypeInv'
  BY <1>1, <1>2, <1>4 DEF IInv, TypeInv
<1>6. FilesInv' /\ RoomInv' /\ PhaseInv'
  <2>1. FilesInv'
    BY <1>1, <1>3 DEF IInv, FilesInv, Running, Collecting
  <2>2. RoomInv'
    BY <1>1, <1>3 DEF IInv, RoomInv
  <2>3. PhaseInv'
    BY <1>1, <1>3, <1>4 DEF IInv, PhaseInv, Running, Collecting
  <2> QED  BY <2>1, <2>2, <2>3
<1>7. Untouched
  BY <1>1, <1>3 DEF Untouched
<1> QED  BY <1>5, <1>6, <1>7, UntouchedMemory DEF IInv

LEMMA CleanupOldStep ==
  ASSUME IInv, CleanupOld
  PROVE  IInv'
<1> USE DEF CleanupOld, bounds
<1>1. /\ cleaning = "old" /\ cleaning' \in {"old", "none"} /\ boot' \in {boot, FALSE}
      /\ cleaning' = "none" => ~boot' /\ oldId' = 0 /\ UNCHANGED <<wal, baks>>
      /\ cleaning' = "old" => /\ oldId' = oldId - 1 /\ oldId \in Ids
                              /\ wal' = [wal EXCEPT ![oldId] = Absent]
                              /\ baks' = [baks EXCEPT ![oldId] = Absent]
      /\ UNCHANGED <<master, bak, ckpt, lg, buf, pc, tx, col, seq, bounds>>
      /\ pc \in Running /\ master = lg.id /\ bak = Absent /\ lg.id \in Ids /\ oldId < lg.id
  BY DEF IInv, TypeInv, PhaseInv, FilesInv, Running, Collecting
<1>2. /\ baks' \in [Ids -> LogIds] /\ wal' \in [Ids -> Seq(Records) \cup {Absent}]
      /\ wal'[lg.id] = wal[lg.id]
  <2>1. lg.id \in Nat /\ (oldId \in Ids => oldId \in Nat) /\ oldId # lg.id
    BY <1>1 DEF IInv, TypeInv, Ids
  <2> QED  BY <1>1, <2>1 DEF IInv, TypeInv, LogIds
<1>3. LogList = lg.id /\ LogList' = lg.id
  BY <1>1 DEF LogList
<1>8. Log' = Log
  BY <1>1, <1>2, <1>3 DEF Log, LogRecords
<1>4. oldId' \in -KeepLogs .. 3 + MaxStops + MaxFlushes /\ (cleaning' = "old" => oldId' < lg.id)
  <2>1. /\ lg.id \in 2 .. 3 + MaxStops + MaxFlushes /\ KeepLogs \in Nat /\ MaxStops \in Nat
        /\ MaxFlushes \in Nat /\ (oldId \in Ids => oldId >= 2)
        /\ oldId \in -KeepLogs .. 3 + MaxStops + MaxFlushes
    BY <1>1, LoggerAssumption DEF Ids, IInv, TypeInv
  <2>2. oldId' = 0 \/ (oldId' = oldId - 1 /\ oldId \in Ids)
    BY <1>1
  <2> QED  BY <1>1, <2>1, <2>2
<1>5. TypeInv'
  BY <1>1, <1>2, <1>4 DEF IInv, TypeInv
<1>6. FilesInv' /\ RoomInv' /\ PhaseInv'
  <2>1. FilesInv'
    BY <1>1, <1>2, <1>3 DEF IInv, FilesInv, Running, Collecting
  <2>2. RoomInv'
    BY <1>1, <1>3 DEF IInv, RoomInv
  <2>3. PhaseInv'
    BY <1>1, <1>2, <1>3, <1>4, <1>8 DEF IInv, PhaseInv, Running, Collecting
  <2> QED  BY <2>1, <2>2, <2>3
<1>7. Untouched
  BY <1>1, <1>3, <1>8 DEF Untouched
<1> QED  BY <1>5, <1>6, <1>7, UntouchedMemory DEF IInv

-----------------------------------------------------------------------------
(***************************************************************************)
(* The steps of logger_create.                                             *)
(***************************************************************************)
LEMMA CreateLogStep ==
  ASSUME IInv, CreateLog
  PROVE  IInv'
<1> USE DEF CreateLog, bounds
<1>1. /\ pc = "down" /\ ~ckpt.exists /\ LogList = Absent /\ master' = 2 /\ bak' = Absent
      /\ pc' = "create" /\ boot' = TRUE
      /\ UNCHANGED <<baks, wal, ckpt, lg, buf, tx, cleaning, oldId, col, seq, bounds>>
  BY DEF IInv, FilesInv
<1>2. buf = <<>> /\ cleaning = "none" /\ lg = Loaded(1) /\ lg' = Loaded(1)'
  BY <1>1 DEF IInv, FilesInv, PhaseInv, Running, Collecting, Loaded, CatalogBats
<1>3. TypeInv'
  <2>1. 2 \in LogIds /\ Absent \in LogIds
    BY LoggerAssumption DEF LogIds, Ids
  <2> QED  BY <1>1, <2>1 DEF IInv, TypeInv, Pcs
<1>4. FilesInv' /\ RoomInv' /\ PhaseInv'
  <2>1. FilesInv'
    BY <1>1, <1>2 DEF IInv, FilesInv, Running, Collecting
  <2>2. RoomInv'
    BY <1>1 DEF IInv, RoomInv
  <2>3. PhaseInv'
    BY <1>1, <1>2 DEF IInv, PhaseInv, Running, Collecting, Restarting
  <2> QED  BY <2>1, <2>2, <2>3
<1>5. MemoryInv'
  BY <1>1 DEF IInv, MemoryInv
<1>6. TxInv' /\ LogInv'
  BY <1>1 DEF TxInv, LogInv, Collecting
<1> QED  BY <1>3, <1>4, <1>5, <1>6 DEF IInv

LEMMA CreateCatalogStep ==
  ASSUME IInv, CreateCatalog
  PROVE  IInv'
<1> USE DEF CreateCatalog, bounds
<1>1. /\ pc = "create" /\ ckpt = NoCkpt /\ wal = [k \in Ids |-> Absent] /\ col = NoColumns /\ seq = 0
      /\ master = 2 /\ bak = Absent /\ pc' = "open" /\ boot /\ buf = <<>> /\ cleaning = "none"
      /\ UNCHANGED <<master, bak, baks, wal, buf, boot, tx, cleaning, oldId, col, seq, bounds>>
  BY DEF IInv, FilesInv, PhaseInv, dirVars, Running, Collecting
<1>2. PICK K : K = ckpt'
  OBVIOUS
<1>3. /\ K = [exists |-> TRUE, catalog |-> EmptyCatalog, bats |-> NoBats, snaps |-> NoSnapshots]
  BY <1>1, <1>2 DEF NoCkpt
<1>4. Base(K) /\ K.exists /\ \A n \in Names : K.catalog[n] = 0
  <2>1. /\ EmptyCatalog \in Catalogs /\ NoBats \in Bats /\ NoSnapshots \in Snaps
        /\ \A n \in Names : EmptyCatalog[n] = 0
        /\ \A b \in Bids : NoBats[b] = Absent /\ NoSnapshots[b] = 0
    BY TidsNat DEF EmptyCatalog, Catalogs, NoBats, Bats, Cells, NoSnapshots, Snaps
  <2>2. K \in Checkpoints
    BY <1>3, <2>1 DEF Checkpoints
  <2> QED  BY <1>3, <2>1, <2>2 DEF Base, Based
<1>5. PICK g : g = From(K, 2)
  OBVIOUS
<1>6. Found(K, g, K, Columns(K)) /\ g.id = 2 /\ g.tid = 0 /\ g.seqs = NoSeqs /\ g.tid \in Tids
  <2>1. Extends(K, K)
    BY DEF Extends
  <2> QED  BY <1>4, <1>5, <2>1, FromFound
<1>7. PICK s : s = [NoSeqs EXCEPT ![LOG_SID] = 2]
  OBVIOUS
<1>8. s \in [Sids -> Nat] /\ s[LOG_SID] = 2 /\ s[OBJ_SID] = 0
  BY <1>7 DEF NoSeqs, Sids, LOG_SID, OBJ_SID
<1>9. PICK h : h = lg'
  OBVIOUS
<1>10. h = [g EXCEPT !.seqs = s, !.changes = TRUE]
  <2>1. Loaded(2) = g
    BY <1>1, <1>3, <1>5 DEF Loaded, From, NoCkpt, CatalogBats
  <2> QED  BY <1>6, <1>7, <1>9, <2>1 DEF Found, Sound, Loggers
<1>11. /\ Sound(g, K) /\ g \in Loggers /\ g.err = "OK"
  BY <1>6 DEF Found, Sound
<1>12. /\ h \in Loggers /\ h.catalog = g.catalog /\ h.old = g.old /\ h.bats = g.bats /\ h.snaps = g.snaps
       /\ h.freed = g.freed /\ h.id = g.id /\ h.tid = g.tid /\ h.changes /\ h.seqs = s
       /\ h.tr = g.tr /\ h.err = g.err
  BY <1>8, <1>10, <1>11 DEF Loggers
<1>13. Sound(h, K)
  BY <1>11, <1>12 DEF Sound
<1>14. h.catalog = K.catalog /\ h.tr = NoTr
  BY <1>5, <1>12 DEF From
<1>15. Columns(h) = NoColumns /\ Columns(K) = NoColumns
  BY <1>4, <1>14 DEF Columns, NoColumns
<1>16. TypeInv'
  <2>1. K \in Checkpoints /\ 0 \in 0 .. MaxSeq
    BY <1>4, LoggerAssumption DEF Base
  <2> QED  BY <1>1, <1>2, <1>8, <1>9, <1>11, <1>12, <1>14, <2>1 DEF IInv, TypeInv, Pcs
<1>17. 2 \in Ids /\ wal'[lg'.id] = Absent /\ lg'.id = 2
  <2>1. 2 \in Ids
    BY LoggerAssumption DEF Ids
  <2> QED  BY <1>1, <1>6, <1>9, <1>12, <2>1
<1>18. FilesInv' /\ RoomInv' /\ PhaseInv'
  <2>1. FilesInv'
    BY <1>1, <1>2, <1>4, <1>17 DEF FilesInv, Running, Collecting
  <2>2. RoomInv'
    BY <1>1, <1>9, <1>14, <1>17 DEF IInv, TypeInv, RoomInv
  <2>3. PhaseInv'
    BY <1>1, <1>17 DEF IInv, PhaseInv, Running, Collecting, Restarting
  <2> QED  BY <2>1, <2>2, <2>3
<1>19. MemoryInv'
  <2>1. Future' = K /\ Current' = NoColumns
    BY <1>1, <1>2 DEF Future, Current, Collecting
  <2>2. h.tid <= ntx'
    BY <1>1, <1>6, <1>12 DEF IInv, TypeInv
  <2>3. \A n \in Names : h.catalog[n] = 0 /\ NoColumns[n] = Absent
    BY <1>4, <1>14 DEF NoColumns
  <2>4. h.seqs[LOG_SID] # 0 /\ h.seqs[OBJ_SID] = seq'
    BY <1>1, <1>8, <1>12
  <2> QED  BY <1>1, <1>2, <1>4, <1>9, <1>13, <1>15, <2>1, <2>2, <2>3, <2>4 DEF MemoryInv
<1>20. TxInv' /\ LogInv'
  <2>1. Window' = "reopened"
    BY <1>1, <1>17 DEF Window
  <2> QED  BY <1>1, <2>1 DEF TxInv, LogInv, Collecting
<1> QED  BY <1>16, <1>18, <1>19, <1>20 DEF IInv

(* What a start finds of a log that gives the columns c and the number s.  *)
LEMMA GivesFinds ==
  ASSUME NEW id, NEW recs, NEW b, NEW F, NEW c, NEW d, NEW s, NEW v, NEW t,
         Gives(id, recs, b, F, c, d, s, v, t), Base(F)
  PROVE  /\ b = <<>> => Finds(F, id, Replay(F, id, recs), F, d, v, t)
         /\ b # <<>> => Finds(F, id, Replay(F, id, recs), F, c, s, t)
<1>1. Extends(F, F)
  BY DEF Extends
<1>2. recs \in Seq(Records) /\ b \in Seq(Records)
  BY DEF Gives
<1>3. ASSUME b = <<>> PROVE Finds(F, id, Replay(F, id, recs), F, d, v, t)
  <2>1. recs \o b = recs
    BY <1>2, <1>3
  <2>2. Finds(F, id, Replay(F, id, recs \o b), F, d, v, t)
    BY <1>1 DEF Gives, Whole
  <2> QED  BY <2>1, <2>2
<1>4. ASSUME b # <<>> PROVE Finds(F, id, Replay(F, id, recs), F, c, s, t)
  <2>1. 0 \in 0 .. Len(b) - 1
    BY <1>2, <1>4
  <2>2. Finds(F, id, Replay(F, id, recs \o SubSeq(b, 1, 0)), F, c, s, t)
    BY <1>1, <2>1 DEF Gives, Torn
  <2>3. recs \o SubSeq(b, 1, 0) = recs
    BY <1>2
  <2> QED  BY <2>2, <2>3
<1> QED  BY <1>3, <1>4

(* A log that is on the disk.                                              *)
LEMMA GivesWhole ==
  ASSUME NEW id, NEW recs \in Seq(Records), NEW F, NEW c, NEW s, NEW t,
         Whole(id, recs, F, c, s, t)
  PROVE  Gives(id, recs, <<>>, F, c, c, s, s, t)
<1>1. recs \o <<>> = recs /\ <<>> \in Seq(Records) /\ Len(<<>>) = 0
  OBVIOUS
<1>2. Torn(id, recs, <<>>, F, c, s, t)
  <2> SUFFICES ASSUME NEW K, NEW k \in 0 .. Len(<<>>) - 1
               PROVE  Finds(K, id, Replay(K, id, recs \o SubSeq(<<>>, 1, k)), F, c, s, t)
    BY DEF Torn
  <2> QED  BY <1>1
<1>3. Whole(id, recs \o <<>>, F, c, s, t)
  BY <1>1
<1> QED  BY <1>1, <1>2, <1>3 DEF Gives

LEMMA LoggerLoadStep ==
  ASSUME IInv, logger_load
  PROVE  IInv'
<1> USE DEF bounds
<1>1. /\ pc = "down" /\ ckpt.exists /\ master' = LogList /\ bak' = Absent /\ boot' = TRUE
      /\ UNCHANGED <<baks, wal, ckpt, buf, tx, cleaning, oldId, bounds>>
      /\ LogList \in Ids /\ wal[LogList] # Absent /\ buf = <<>> /\ cleaning = "none"
      /\ ~boot /\ LogList <= 2 + stops + flushes
  BY DEF logger_load, IInv, FilesInv, PhaseInv, RoomInv, Running, Collecting
<1>2. PICK R : R = Recovered
  OBVIOUS
<1>3. R = Replay(ckpt, LogList, Log)
  BY <1>2 DEF Recovered, Replay, Loaded, From, Log
<1>4. Gives(LogList, Log, buf, ckpt, col, col, seq, seq, ntx)
  <2>1. Window = "none" /\ LastTid = ntx
    BY <1>1 DEF Window, LastTid
  <2> QED  BY <1>1, <2>1 DEF IInv, LogInv
<1>5. Base(ckpt)
  BY DEF IInv, MemoryInv
<1>6. Finds(ckpt, LogList, R, ckpt, col, seq, ntx)
  BY <1>1, <1>3, <1>4, <1>5, GivesFinds
<1>7. /\ R \in Loggers /\ R.err = "OK" /\ Sound(R, ckpt) /\ Columns(R) = col /\ R.id = LogList
      /\ R.seqs[OBJ_SID] = seq /\ R.seqs[LOG_SID] # 0 /\ R.tid <= ntx
      /\ ~R.changes => Columns(ckpt) = col
      /\ \A n \in Names : R.catalog[n] # 0 => R.snaps[R.catalog[n]] <= R.tid
  BY <1>6 DEF Finds, Found, Sound
<1>8. PICK h : h = tr_abort(R)
  OBVIOUS
<1>9. lg' = h /\ col' = col /\ seq' = seq /\ pc' = "open"
  BY <1>1, <1>2, <1>7, <1>8 DEF logger_load
<1>10. /\ h \in Loggers /\ h.catalog = R.catalog /\ h.old = R.old /\ h.bats = R.bats /\ h.snaps = R.snaps
       /\ h.freed = R.freed /\ h.id = R.id /\ h.tid = R.tid /\ h.changes = R.changes /\ h.seqs = R.seqs
       /\ h.tr = NoTr /\ h.err = "OK"
  <2>1. NoTr \in Trs
    BY TidsNat DEF NoTr, Trs
  <2>2. h = [R EXCEPT !.tr = NoTr, !.err = "OK"]
    BY <1>8 DEF tr_abort
  <2> QED  BY <1>7, <2>1, <2>2 DEF Loggers
<1>11. Sound(h, ckpt) /\ Columns(h) = col
  BY <1>7, <1>10 DEF Sound, Columns
<1>12. TypeInv'
  <2>1. LogList \in LogIds /\ Absent \in LogIds
    BY <1>1 DEF LogIds
  <2> QED  BY <1>1, <1>7, <1>9, <1>10, <2>1 DEF IInv, TypeInv, Pcs
<1>13. LogList' = LogList /\ Log' = Log /\ lg'.id = LogList
  <2>1. LogList # Absent
    BY <1>1, AbsentIs DEF Ids
  <2> QED  BY <1>1, <1>7, <1>9, <1>10, <2>1 DEF LogList, Log, LogRecords
<1>14. FilesInv' /\ RoomInv' /\ PhaseInv'
  <2>1. FilesInv'
    BY <1>1, <1>9, <1>13 DEF FilesInv, Running, Collecting
  <2>2. RoomInv'
    <3>1. stops \in Nat /\ flushes \in Nat /\ LogList \in Nat
      BY <1>1, LoggerAssumption DEF IInv, TypeInv, Ids
    <3>2. LogList <= 2 + stops + flushes + 1
      BY <1>1, <3>1
    <3> QED  BY <1>1, <1>9, <1>13, <3>2 DEF RoomInv
  <2>3. PhaseInv'
    BY <1>1, <1>9, <1>13 DEF IInv, PhaseInv, Running, Collecting, Restarting
  <2> QED  BY <2>1, <2>2, <2>3
<1>15. MemoryInv'
  <2>1. Future' = ckpt /\ Current' = col
    BY <1>1, <1>9 DEF Future, Current, Collecting
  <2>2. \A n \in Names : h.catalog[n] # 0 <=> col[n] # Absent
    BY <1>11, ColumnsAre
  <2>3. Base(ckpt)' /\ Columns(lg)' = col' /\ (~lg.changes => Columns(ckpt) = col)'
    <3>1. Columns(lg)' = Columns(h) /\ Columns(ckpt)' = Columns(ckpt)
      BY <1>1, <1>9 DEF Columns
    <3> QED  BY <1>1, <1>5, <1>7, <1>9, <1>10, <1>11, <3>1
  <2> QED  BY <1>1, <1>7, <1>9, <1>10, <1>11, <2>1, <2>2, <2>3 DEF MemoryInv
<1>16. TxInv' /\ LogInv'
  <2>1. LastTid' = ntx
    BY <1>1, <1>9 DEF LastTid
  <2> QED  BY <1>1, <1>4, <1>9, <1>13, <2>1 DEF TxInv, LogInv, Collecting
<1> QED  BY <1>12, <1>14, <1>15, <1>16 DEF IInv

LEMMA LoggerOpenStep ==
  ASSUME IInv, logger_open
  PROVE  IInv'
<1> USE DEF logger_open, bounds
<1>1. /\ pc \in {"open", "reopen"}
      /\ wal' = [wal EXCEPT ![lg.id] = <<>>] /\ buf' = log_sequence_nrs(lg)
      /\ pc' = IF pc = "open" THEN "opening" ELSE "reopening"
      /\ UNCHANGED <<master, bak, baks, ckpt, lg, boot, tx, cleaning, oldId, col, seq, bounds>>
      /\ lg.id \in Ids /\ cleaning = "none" /\ ckpt.exists
  BY DEF IInv, FilesInv, PhaseInv, Running, Collecting
<1>2. log_sequence_nrs(lg) \in Seq(Records)
  <2>1. lg \in Loggers /\ Base(ckpt) /\ lg.seqs[LOG_SID] # 0 /\ 0 \in Tids /\ 2 \in Nat
    BY <1>1, TidsNat DEF IInv, TypeInv, MemoryInv
  <2> QED  BY <2>1, Fresh
<1>3. wal' \in [Ids -> Seq(Records) \cup {Absent}] /\ wal'[lg.id] = <<>>
  BY <1>1 DEF IInv, TypeInv
<1>4. TypeInv'
  BY <1>1, <1>2, <1>3 DEF IInv, TypeInv, Pcs
<1>5. log_sequence_nrs(lg)' = log_sequence_nrs(lg)
  BY <1>1, ZenonT(30) DEF log_sequence_nrs, SeqRecords, SeqRecord
<1>6. FilesInv' /\ RoomInv' /\ PhaseInv'
  <2>1. FilesInv'
    BY <1>1 DEF IInv, FilesInv, Running, Collecting
  <2>2. RoomInv'
    BY <1>1 DEF IInv, RoomInv
  <2>3. PhaseInv'
    BY <1>1, <1>3, <1>5 DEF IInv, PhaseInv, Running, Collecting, Restarting
  <2> QED  BY <2>1, <2>2, <2>3
<1>7. MemoryInv'
  <2>1. Future' = Future /\ Current' = Current
    BY <1>1 DEF Future, Current, Collecting, Saved
  <2> QED  BY <1>1, <2>1 DEF IInv, MemoryInv, Columns
<1>8. TxInv' /\ LogInv'
  <2>1. Window' # "none"
    BY <1>1 DEF Window
  <2> QED  BY <1>1, <2>1 DEF TxInv, LogInv, Collecting
<1> QED  BY <1>4, <1>6, <1>7, <1>8 DEF IInv

LEMMA OpenSyncedStep ==
  ASSUME IInv, OpenSynced
  PROVE  IInv'
<1> USE DEF bounds
<1>1. /\ pc \in {"opening", "reopening"} /\ ckpt.exists
      /\ wal' = [wal EXCEPT ![lg.id] = @ \o buf] /\ buf' = <<>>
      /\ pc' = IF pc = "opening" /\ lg.changes THEN "exit" ELSE "idle"
      /\ cleaning' = IF pc = "reopening" THEN "log" ELSE "none"
      /\ boot' = (boot /\ (pc = "reopening" \/ lg.changes))
      /\ UNCHANGED <<master, bak, baks, ckpt, lg, tx, oldId, col, seq, bounds>>
      /\ lg.id \in Ids /\ cleaning = "none" /\ master = lg.id /\ bak = Absent
      /\ wal[lg.id] = <<>> /\ buf = log_sequence_nrs(lg)
  BY DEF OpenSynced, SyncLog, IInv, FilesInv, PhaseInv, Running, Collecting
<1>2. /\ buf \in Seq(Records) /\ buf' \in Seq(Records) /\ <<>> \o buf = buf /\ wal \in [Ids -> Seq(Records) \cup {Absent}]
      /\ pc = "reopening" => baks[lg.id] \in Ids /\ baks[lg.id] # lg.id
  <2>1. /\ buf \in Seq(Records) /\ baks \in [Ids -> LogIds] /\ wal \in [Ids -> Seq(Records) \cup {Absent}]
    BY DEF IInv, TypeInv
  <2>2. <<>> \o buf = buf /\ <<>> \in Seq(Records)
    BY <2>1
  <2>3. ASSUME pc = "reopening" PROVE baks[lg.id] \in Ids /\ baks[lg.id] # lg.id
    <3>1. baks[lg.id] = lg.id - 1 /\ lg.id \in Nat /\ baks[lg.id] \in LogIds
      BY <1>1, <2>1, <2>3, LoggerAssumption DEF IInv, FilesInv, Ids
    <3>2. baks[lg.id] # Absent /\ baks[lg.id] # lg.id
      <4>1. lg.id - 1 \in Int /\ lg.id - 1 # lg.id /\ lg.id # 0
        BY <3>1, <1>1, LoggerAssumption DEF Ids
      <4>2. lg.id - 1 \in Nat
        BY <3>1, <4>1
      <4> QED  BY <3>1, <4>1, <4>2, AbsentIs
    <3> QED  BY <3>1, <3>2 DEF LogIds
  <2> QED  BY <1>1, <2>1, <2>2, <2>3
<1>3. wal' \in [Ids -> Seq(Records) \cup {Absent}] /\ wal'[lg.id] = log_sequence_nrs(lg)
  BY <1>1, <1>2
<1>4. lg.id # Absent /\ wal'[lg.id] # Absent
  <2>1. lg.id \in Nat
    BY <1>1, LoggerAssumption DEF Ids
  <2>2. log_sequence_nrs(lg) \in Seq(Records)
    BY <1>1, <1>2
  <2> QED  BY <1>3, <2>1, <2>2, AbsentIs
<1>5. LogList' = lg.id /\ Log' = log_sequence_nrs(lg) /\ log_sequence_nrs(lg)' = log_sequence_nrs(lg)
  BY <1>1, <1>3, <1>4, ZenonT(60) DEF LogList, Log, LogRecords, log_sequence_nrs, SeqRecords, SeqRecord
<1>6. TypeInv'
  BY <1>1, <1>2, <1>3 DEF IInv, TypeInv, Pcs
<1>7. boot \in BOOLEAN /\ lg.changes \in BOOLEAN /\ (pc = "opening" => boot)
  BY DEF IInv, TypeInv, PhaseInv, Loggers
<1>8. FilesInv' /\ RoomInv' /\ PhaseInv'
  <2>1. FilesInv'
    BY <1>1, <1>5 DEF IInv, FilesInv, Running, Collecting
  <2>2. RoomInv'
    <3>1. /\ pc \in {"opening", "reopening"} /\ pc' \in {"exit", "idle"}
          /\ pc' = "exit" => pc = "opening" /\ lg.changes
          /\ lg' = lg /\ stops' = stops /\ flushes' = flushes
      BY <1>1
    <3> QED  BY <3>1 DEF IInv, RoomInv
  <2>3. PhaseInv'
    <3>1. \/ pc' = "exit" /\ cleaning' = "none" /\ lg'.changes
          \/ pc' = "idle" /\ cleaning' = "none" /\ ~boot'
          \/ pc' = "idle" /\ cleaning' = "log" /\ baks'[lg'.id] \in Ids /\ baks'[lg'.id] # lg'.id
      BY <1>1, <1>2, <1>7
    <3>2. buf' = <<>> /\ wal'[lg'.id] # Absent /\ Log' = log_sequence_nrs(lg)'
      BY <1>1, <1>4, <1>5
    <3> QED  BY <3>1, <3>2 DEF PhaseInv, Running, Collecting, Restarting, Log
  <2> QED  BY <2>1, <2>2, <2>3
<1>9. MemoryInv'
  <2>1. Future' = Future /\ Current' = Current
    BY <1>1 DEF Future, Current, Collecting, Saved
  <2>2. Columns(lg)' = Columns(lg) /\ Columns(ckpt)' = Columns(ckpt)
    BY <1>1 DEF Columns
  <2> QED  BY <1>1, <2>1, <2>2 DEF IInv, MemoryInv
<1>10. TxInv'
  BY <1>1 DEF TxInv, Collecting
<1>11. LogInv'
  <2>1. CASE pc = "opening" /\ lg.changes
    <3>1. Window' # "none"
      BY <1>1, <1>7, <2>1 DEF Window
    <3> QED  BY <1>1, <3>1 DEF LogInv, Collecting
  <2>2. CASE ~(pc = "opening" /\ lg.changes)
    <3>1. pc' = "idle" /\ LastTid' = lg.tid
      BY <1>1, <2>2 DEF LastTid
    <3>2. Base(ckpt) /\ lg \in Loggers /\ lg.seqs[LOG_SID] # 0 /\ lg.seqs[OBJ_SID] = seq /\ lg.tid \in Tids /\ lg.id \in Nat
      BY <1>1 DEF IInv, TypeInv, MemoryInv, Loggers
    <3>3. Columns(ckpt) = col
      BY <1>1, <2>2 DEF IInv, MemoryInv
    <3>4. Whole(lg.id, log_sequence_nrs(lg), ckpt, col, seq, lg.tid)
      BY <3>2, <3>3, Fresh
    <3>5. Gives(lg.id, log_sequence_nrs(lg), <<>>, ckpt, col, col, seq, seq, lg.tid)
      BY <1>1, <1>2, <3>4, GivesWhole
    <3> QED  BY <1>1, <1>5, <3>1, <3>5 DEF LogInv, Collecting
  <2> QED  BY <2>1, <2>2
<1> QED  BY <1>6, <1>8, <1>9, <1>10, <1>11 DEF IInv

-----------------------------------------------------------------------------
(***************************************************************************)
(* The steps of logger_exit and of the store manager.                      *)
(***************************************************************************)
LEMMA StoreManagerStep ==
  ASSUME IInv, store_manager
  PROVE  IInv'
<1> USE DEF bounds
<1>1. /\ pc = "idle" /\ ~boot /\ cleaning = "none" /\ flushes < MaxFlushes
      /\ flushes' = flushes + 1 /\ pc' = "exit" /\ ckpt.exists
      /\ UNCHANGED <<dirVars, ckpt, buf, boot, tx, cleaning, oldId, col, seq, ntx, stops>>
      /\ lg.id \in Ids /\ master = lg.id /\ bak = Absent /\ buf = <<>> /\ wal[lg.id] # Absent
  BY DEF store_manager, IInv, FilesInv, PhaseInv, Running, Collecting
<1>2. UNCHANGED <<master, bak, baks, wal>>
  BY <1>1 DEF dirVars
<1>3. PICK g : g = lg
  OBVIOUS
<1>4. PICK h : h = lg'
  OBVIOUS
<1>5. PICK bats2 : bats2 = [b \in Bids |-> IF b \in CatalogBats(g)
                                           THEN col[CHOOSE n \in Names : g.catalog[n] = b] ELSE g.bats[b]]
  OBVIOUS
<1>6. /\ g \in Loggers /\ Sound(g, ckpt) /\ ckpt \in Checkpoints /\ col \in [Names -> Cells]
      /\ \A n \in Names : g.catalog[n] # 0 <=> col[n] # Absent
  BY <1>1, <1>3 DEF IInv, TypeInv, MemoryInv, Future, Current, Collecting, Base
<1>7. /\ \A n \in Names : g.catalog[n] \in Bids \cup {0}
      /\ \A m, n \in Names : g.catalog[m] # 0 /\ m # n => g.catalog[m] # g.catalog[n]
  BY <1>6, ColumnsAre
<1>8. ASSUME NEW n \in Names, g.catalog[n] # 0
      PROVE  bats2[g.catalog[n]] = col[n] /\ g.catalog[n] \in CatalogBats(g) /\ g.catalog[n] \in Bids
  <2>1. g.catalog[n] \in CatalogBats(g) /\ g.catalog[n] \in Bids
    BY <1>7, <1>8 DEF CatalogBats
  <2>2. (CHOOSE m \in Names : g.catalog[m] = g.catalog[n]) = n
    BY <1>7, <1>8
  <2> QED  BY <2>1, <2>2, <1>5
<1>9. \A b \in CatalogBats(g) : \E n \in Names : g.catalog[n] = b /\ g.catalog[n] # 0
  BY DEF CatalogBats
<1>10. \A b \in Bids : bats2[b] = g.bats[b] \/ (Named(g.catalog, b) /\ bats2[b] # Absent)
  <2>1. TAKE b \in Bids
  <2>2. CASE b \in CatalogBats(g)
    <3>1. PICK n \in Names : g.catalog[n] = b /\ g.catalog[n] # 0
      BY <1>9, <2>2
    <3> QED  BY <1>6, <1>8, <3>1 DEF Named
  <2>3. CASE b \notin CatalogBats(g)
    BY <2>3, <1>5
  <2> QED  BY <2>2, <2>3
<1>11. bats2 \in Bats
  <2>1. ASSUME NEW b \in Bids PROVE bats2[b] \in Cells
    <3>1. CASE b \in CatalogBats(g)
      <4>1. PICK n \in Names : g.catalog[n] = b /\ g.catalog[n] # 0
        BY <1>9, <3>1
      <4> QED  BY <1>6, <1>8, <4>1
    <3>2. CASE b \notin CatalogBats(g)
      BY <3>2, <1>5, <1>6 DEF Loggers, Bats
    <3> QED  BY <3>1, <3>2
  <2> QED  BY <1>5, <2>1 DEF Bats
<1>12. h = [g EXCEPT !.bats = bats2]
  <2>1. h = [g EXCEPT !.bats = [b \in Bids |-> IF b \in CatalogBats(g)
                 THEN col[CHOOSE n \in Names : g.catalog[n] = b] ELSE @[b]]]
    BY <1>3, <1>4 DEF store_manager
  <2> QED  BY <1>5, <1>6, <2>1 DEF Loggers
<1>13. /\ Sound(h, ckpt) /\ Same(h, g) /\ h.catalog = g.catalog /\ h.snaps = g.snaps
       /\ h.bats = bats2 /\ h.changes = g.changes
  BY <1>6, <1>10, <1>11, <1>12, Rewritten2
<1>14. Columns(h) = col
  <2>1. Columns(h) = [n \in Names |-> IF g.catalog[n] = 0 THEN Absent ELSE bats2[g.catalog[n]]]
    BY <1>13 DEF Columns
  <2>2. \A n \in Names : (IF g.catalog[n] = 0 THEN Absent ELSE bats2[g.catalog[n]]) = col[n]
    BY <1>6, <1>8
  <2> QED  BY <1>6, <2>1, <2>2
<1>15. h \in Loggers /\ h.id = g.id /\ h.tid = g.tid /\ h.seqs = g.seqs /\ h.tr = g.tr /\ h.err = g.err
  BY <1>13 DEF Same, Sound
<1>16. flushes' \in 0 .. MaxFlushes /\ stops \in Nat /\ flushes \in Nat /\ g.id \in Nat
  BY <1>1, <1>3, LoggerAssumption, SMTT(60) DEF IInv, TypeInv, Ids
<1>17. LogList' = LogList /\ Log' = Log
  BY <1>2 DEF LogList, Log, LogRecords
<1>18. TypeInv'
  BY <1>1, <1>2, <1>3, <1>4, <1>15, <1>16 DEF IInv, TypeInv, Pcs
<1>19. FilesInv' /\ RoomInv' /\ PhaseInv'
  <2>1. FilesInv'
    BY <1>1, <1>2, <1>3, <1>4, <1>15, <1>17 DEF IInv, FilesInv, Running, Collecting
  <2>2. RoomInv'
    <3>1. g.id <= 2 + stops + flushes + 1
      BY <1>1, <1>3 DEF IInv, RoomInv
    <3>2. g.id <= 2 + stops + (flushes + 1)
      BY <3>1, <1>16
    <3>3. g.id <= 2 + stops + (flushes + 1) + 1
      BY <3>2, <1>16
    <3> QED  BY <1>1, <1>2, <1>3, <1>4, <1>15, <3>2, <3>3 DEF RoomInv
  <2>3. PhaseInv'
    BY <1>1, <1>2, <1>3, <1>4, <1>15, <1>17 DEF IInv, PhaseInv, Running, Collecting, Restarting
  <2> QED  BY <2>1, <2>2, <2>3
<1>20. MemoryInv'
  <2>1. Future' = ckpt /\ Current' = col
    BY <1>1, ZenonT(30) DEF Future, Current, Collecting
  <2>2. Base(ckpt)' /\ Columns(lg)' = col'
    <3>1. Columns(lg)' = Columns(h)
      BY <1>4 DEF Columns
    <3> QED  BY <1>1, <1>14, <3>1 DEF IInv, MemoryInv
  <2> QED  BY <1>1, <1>3, <1>4, <1>6, <1>13, <1>15, <2>1, <2>2 DEF IInv, MemoryInv
<1>21. TxInv' /\ LogInv'
  <2>1. LastTid' = LastTid /\ Window = "none"
    BY <1>1, <1>3, <1>4, <1>15 DEF LastTid, Window
  <2> QED  BY <1>1, <1>17, <2>1 DEF IInv, TxInv, LogInv, Collecting
<1> QED  BY <1>18, <1>19, <1>20, <1>21 DEF IInv

LEMMA ExitRenameStep ==
  ASSUME IInv, ExitRename
  PROVE  IInv'
<1> USE DEF bounds
<1>1. /\ pc = "exit" /\ ckpt.exists /\ bak' = master /\ master' = Absent /\ pc' = "newlog"
      /\ UNCHANGED <<baks, wal, ckpt, lg, buf, boot, tx, cleaning, oldId, col, seq, bounds>>
      /\ lg.id \in Ids /\ cleaning = "none" /\ master = lg.id /\ bak = Absent /\ buf = <<>>
      /\ wal[lg.id] # Absent
  BY DEF ExitRename, IInv, FilesInv, PhaseInv, Running, Collecting
<1>2. lg.id # Absent
  BY <1>1, AbsentIs, LoggerAssumption DEF Ids
<1>3. LogList' = LogList /\ Log' = Log /\ log_sequence_nrs(lg)' = log_sequence_nrs(lg)
  BY <1>1, <1>2 DEF LogList, Log, LogRecords, log_sequence_nrs, SeqRecords, SeqRecord
<1>4. TypeInv'
  BY <1>1 DEF IInv, TypeInv, Pcs, LogIds
<1>5. FilesInv' /\ RoomInv' /\ PhaseInv'
  <2>1. FilesInv'
    BY <1>1 DEF IInv, FilesInv, Running, Collecting
  <2>2. RoomInv'
    BY <1>1 DEF IInv, RoomInv
  <2>3. PhaseInv'
    BY <1>1, <1>3 DEF IInv, PhaseInv, Running, Collecting, Restarting, Log
  <2> QED  BY <2>1, <2>2, <2>3
<1>6. MemoryInv'
  <2>1. Future' = Future /\ Current' = Current
    BY <1>1 DEF Future, Current, Collecting, Saved
  <2>2. Columns(lg)' = Columns(lg) /\ Columns(ckpt)' = Columns(ckpt)
    BY <1>1 DEF Columns
  <2> QED  BY <1>1, <2>1, <2>2 DEF IInv, MemoryInv
<1>7. TxInv' /\ LogInv'
  <2>1. LastTid' = LastTid /\ (Window' = "none" => Window = "none")
    BY <1>1 DEF LastTid, Window
  <2> QED  BY <1>1, <1>3, <2>1 DEF IInv, TxInv, LogInv, Collecting
<1> QED  BY <1>4, <1>5, <1>6, <1>7 DEF IInv

LEMMA ExitNewFileStep ==
  ASSUME IInv, ExitNewFile
  PROVE  IInv'
<1> USE DEF bounds
<1>1. /\ pc = "newlog" /\ ckpt.exists /\ master' = 0 /\ pc' = "bmcommit"
      /\ UNCHANGED <<bak, baks, wal, ckpt, buf, boot, tx, cleaning, oldId, col, seq, bounds>>
      /\ lg.id \in Ids /\ cleaning = "none" /\ bak = lg.id /\ buf = <<>>
      /\ wal[lg.id] # Absent /\ lg.id <= 2 + stops + flushes
  BY DEF ExitNewFile, IInv, FilesInv, PhaseInv, RoomInv, Running, Collecting
<1>2. PICK h : h = lg'
  OBVIOUS
<1>3. /\ stops \in Nat /\ flushes \in Nat /\ stops <= MaxStops /\ flushes <= MaxFlushes /\ lg.id \in Nat /\ lg \in Loggers
      /\ MaxStops \in Nat /\ MaxFlushes \in Nat /\ lg.id >= 2
  BY <1>1, LoggerAssumption, SMTT(60) DEF IInv, TypeInv, Ids
<1>4. lg.id # Absent /\ lg.id + 1 \in Ids /\ lg.id + 1 \in Nat
      /\ lg.id + 1 <= 2 + stops + flushes + 1
  BY <1>1, <1>3, AbsentIs DEF Ids
<1>5. /\ h \in Loggers /\ h.catalog = lg.catalog /\ h.old = lg.old /\ h.bats = lg.bats /\ h.snaps = lg.snaps
      /\ h.freed = lg.freed /\ h.id = lg.id + 1 /\ h.tid = lg.tid /\ h.changes = lg.changes /\ h.seqs = lg.seqs
      /\ h.tr = lg.tr /\ h.err = lg.err
  <2>1. PICK k : k = lg.id + 1
    OBVIOUS
  <2>2. h = [lg EXCEPT !.id = k]
    BY <1>2, <1>3, <2>1 DEF ExitNewFile, Loggers
  <2>3. k \in Nat
    BY <1>4, <2>1
  <2> QED  BY <1>3, <2>1, <2>2, <2>3 DEF Loggers
<1>6. LogList' = LogList /\ Log' = Log
  BY <1>1, <1>4 DEF LogList, Log, LogRecords
<1>7. log_sequence_nrs(lg)' = log_sequence_nrs(lg)
  BY <1>2, <1>5 DEF log_sequence_nrs, SeqRecords, SeqRecord
<1>8. TypeInv'
  <2>1. 0 \in LogIds \cup {0}
    OBVIOUS
  <2> QED  BY <1>1, <1>2, <1>5, <2>1 DEF IInv, TypeInv, Pcs
<1>9. FilesInv' /\ RoomInv' /\ PhaseInv'
  <2>1. FilesInv'
    <3>1. bak' = lg'.id - 1 /\ lg'.id \in Ids
      <4>1. lg'.id = lg.id + 1 /\ lg.id \in Nat /\ bak' = lg.id
        BY <1>1, <1>2, <1>3, <1>5
      <4> QED  BY <4>1, <1>4
    <3> QED  BY <1>1, <3>1 DEF FilesInv, Running, Collecting
  <2>2. RoomInv'
    BY <1>1, <1>2, <1>4, <1>5 DEF RoomInv
  <2>3. PhaseInv'
    BY <1>1, <1>2, <1>5, <1>6, <1>7 DEF IInv, PhaseInv, Running, Collecting, Restarting, Log
  <2> QED  BY <2>1, <2>2, <2>3
<1>10. MemoryInv'
  <2>1. Future = ckpt /\ Current = col /\ Future' = ckpt /\ Current' = col
    BY <1>1 DEF Future, Current, Collecting
  <2>2. Columns(lg)' = Columns(lg) /\ Columns(ckpt)' = Columns(ckpt)
    BY <1>1, <1>2, <1>5 DEF Columns
  <2>3. Sound(h, ckpt)
    BY <1>1, <1>5, <2>1 DEF IInv, MemoryInv, Sound
  <2> QED  BY <1>1, <1>2, <1>5, <2>1, <2>2, <2>3 DEF IInv, MemoryInv
<1>11. TxInv' /\ LogInv'
  <2>1. LastTid' = LastTid /\ (Window' = "none" => Window = "none")
    BY <1>1, <1>2, <1>5 DEF LastTid, Window
  <2> QED  BY <1>1, <1>6, <2>1 DEF IInv, TxInv, LogInv, Collecting
<1> QED  BY <1>8, <1>9, <1>10, <1>11 DEF IInv

LEMMA ExitWriteIdStep ==
  ASSUME IInv, ExitWriteId
  PROVE  IInv'
<1> USE DEF bounds
<1>1. /\ pc = "writeid" /\ ckpt.exists /\ master' = lg.id /\ pc' = "switch"
      /\ UNCHANGED <<bak, baks, wal, ckpt, lg, buf, boot, tx, cleaning, oldId, col, seq, bounds>>
      /\ lg.id \in Ids /\ cleaning = "none" /\ bak = lg.id - 1 /\ buf = <<>> /\ wal[bak] # Absent
  BY DEF ExitWriteId, IInv, FilesInv, PhaseInv, Running, Collecting
<1>2. bak # Absent
  <2>1. lg.id - 1 \in Nat
    BY <1>1, LoggerAssumption, SMTT(60) DEF Ids
  <2> QED  BY <1>1, <2>1, AbsentIs
<1>3. LogList' = LogList /\ Log' = Log
  BY <1>1, <1>2 DEF LogList, Log, LogRecords
<1>4. TypeInv'
  BY <1>1 DEF IInv, TypeInv, Pcs, LogIds
<1>5. FilesInv' /\ RoomInv' /\ PhaseInv'
  <2>1. FilesInv'
    BY <1>1 DEF IInv, FilesInv, Running, Collecting
  <2>2. RoomInv'
    BY <1>1 DEF IInv, RoomInv
  <2>3. PhaseInv'
    BY <1>1, <1>3 DEF IInv, PhaseInv, Running, Collecting, Restarting, Log
  <2> QED  BY <2>1, <2>2, <2>3
<1>6. MemoryInv'
  <2>1. Future' = Future /\ Current' = Current
    BY <1>1 DEF Future, Current, Collecting, Saved
  <2>2. Columns(lg)' = Columns(lg) /\ Columns(ckpt)' = Columns(ckpt)
    BY <1>1 DEF Columns
  <2> QED  BY <1>1, <2>1, <2>2 DEF IInv, MemoryInv
<1>7. TxInv' /\ LogInv'
  <2>1. LastTid' = LastTid /\ (Window' = "none" => Window = "none")
    BY <1>1 DEF LastTid, Window
  <2> QED  BY <1>1, <1>3, <2>1 DEF IInv, TxInv, LogInv, Collecting
<1> QED  BY <1>4, <1>5, <1>6, <1>7 DEF IInv

LEMMA ExitSwitchStep ==
  ASSUME IInv, ExitSwitch
  PROVE  IInv'
<1> USE DEF bounds
<1>1. /\ pc = "switch" /\ ckpt.exists /\ baks' = [baks EXCEPT ![lg.id] = bak] /\ bak' = Absent
      /\ pc' = "reopen"
      /\ UNCHANGED <<master, wal, ckpt, buf, boot, tx, cleaning, oldId, col, seq, bounds>>
      /\ lg.id \in Ids /\ cleaning = "none" /\ master = lg.id /\ bak = lg.id - 1 /\ buf = <<>>
  BY DEF ExitSwitch, IInv, FilesInv, PhaseInv, Running, Collecting
<1>2. PICK h : h = lg'
  OBVIOUS
<1>3. /\ h \in Loggers /\ h.catalog = lg.catalog /\ h.old = lg.old /\ h.bats = lg.bats /\ h.snaps = lg.snaps
      /\ h.freed = lg.freed /\ h.id = lg.id /\ h.tid = lg.tid /\ ~h.changes /\ h.seqs = lg.seqs
      /\ h.tr = lg.tr /\ h.err = lg.err
  BY <1>2 DEF ExitSwitch, Loggers, IInv, TypeInv
<1>4. baks' \in [Ids -> LogIds] /\ baks'[lg.id] = lg.id - 1
  BY <1>1 DEF IInv, TypeInv
<1>5. TypeInv'
  <2>1. Absent \in LogIds
    BY DEF LogIds
  <2> QED  BY <1>1, <1>2, <1>3, <1>4, <2>1 DEF IInv, TypeInv, Pcs
<1>6. FilesInv' /\ RoomInv' /\ PhaseInv'
  <2>1. FilesInv'
    BY <1>1, <1>2, <1>3, <1>4 DEF FilesInv, Running, Collecting
  <2>2. RoomInv'
    BY <1>1, <1>2, <1>3 DEF IInv, RoomInv
  <2>3. PhaseInv'
    BY <1>1, <1>2, <1>3 DEF IInv, PhaseInv, Running, Collecting, Restarting
  <2> QED  BY <2>1, <2>2, <2>3
<1>7. MemoryInv'
  <2>1. Future = ckpt /\ Current = col /\ Future' = ckpt /\ Current' = col
    BY <1>1 DEF Future, Current, Collecting
  <2>2. Columns(ckpt)' = Columns(ckpt)
    BY <1>1 DEF Columns
  <2>3. Sound(h, ckpt)
    BY <1>1, <1>3, <2>1 DEF IInv, MemoryInv, Sound
  <2> QED  BY <1>1, <1>2, <1>3, <2>1, <2>2, <2>3 DEF IInv, MemoryInv
<1>8. TxInv' /\ LogInv'
  <2>1. Window' # "none"
    BY <1>1 DEF Window
  <2> QED  BY <1>1, <2>1 DEF TxInv, LogInv, Collecting
<1> QED  BY <1>5, <1>6, <1>7, <1>8 DEF IInv

LEMMA LoggerCommitStep ==
  ASSUME IInv, logger_commit
  PROVE  IInv'
<1> USE DEF bounds
<1>1. /\ pc = "bmcommit" /\ ckpt.exists /\ pc' = "writeid"
      /\ UNCHANGED <<dirVars, buf, boot, tx, cleaning, oldId, col, seq, bounds>>
      /\ lg.id \in Ids /\ cleaning = "none" /\ bak = lg.id - 1 /\ master = 0 /\ buf = <<>> /\ wal[bak] # Absent
  BY DEF logger_commit, IInv, FilesInv, PhaseInv, Running, Collecting
<1>2. UNCHANGED <<master, bak, baks, wal>>
  BY <1>1 DEF dirVars
<1>3. PICK g : g = lg
  OBVIOUS
<1>4. PICK h : h = lg'
  OBVIOUS
<1>5. PICK L : L = ckpt'
  OBVIOUS
<1>6. /\ g \in Loggers /\ Sound(g, ckpt) /\ Base(ckpt) /\ g.id \in Nat /\ g.id >= 2 /\ Columns(g) = col
      /\ g.tr = NoTr /\ g.err = "OK" /\ g.seqs[OBJ_SID] = seq /\ g.seqs[LOG_SID] # 0
      /\ \A n \in Names : g.catalog[n] # 0 <=> col[n] # Absent
      /\ g.tid <= ntx /\ g.tid \in Tids
  BY <1>1, <1>3, LoggerAssumption, SMTT(60) DEF IInv, TypeInv, MemoryInv, Future, Current, Collecting, Loggers, Ids
<1>7. PICK s : s = [g.seqs EXCEPT ![LOG_SID] = g.id]
  OBVIOUS
<1>8. s \in [Sids -> Nat] /\ s[LOG_SID] = g.id /\ s[OBJ_SID] = seq
  BY <1>6, <1>7 DEF Loggers, Sids, LOG_SID, OBJ_SID
<1>9. PICK bats2 : bats2 = [b \in Bids |-> IF b \in g.freed THEN Absent ELSE g.bats[b]]
  OBVIOUS
<1>10. PICK kbats2 : kbats2 = [b \in Bids |-> IF b \in CatalogBats(g) THEN g.bats[b]
                                              ELSE IF b \in g.freed THEN Absent ELSE ckpt.bats[b]]
  OBVIOUS
<1>11. bats2 \in [Bids -> Cells] /\ kbats2 \in [Bids -> Cells]
  <2>1. Absent \in Cells /\ g.bats \in [Bids -> Cells] /\ ckpt.bats \in [Bids -> Cells]
    BY <1>6 DEF Cells, Loggers, Bats, Base, Checkpoints
  <2> QED  BY <2>1, <1>9, <1>10
<1>12. h = [g EXCEPT !.seqs = s, !.snaps = NoSnapshots, !.old = CatalogBats(g), !.freed = {},
                     !.bats = bats2]
  <2>1. h = [g EXCEPT !.seqs[LOG_SID] = g.id, !.snaps = NoSnapshots,
                      !.old = CatalogBats(g), !.freed = {},
                      !.bats = [b \in Bids |-> IF b \in g.freed THEN Absent ELSE @[b]]]
    BY <1>3, <1>4, Zenon DEF logger_commit, SnapshotsDone
  <2> QED  BY <1>6, <1>7, <1>9, <2>1 DEF Loggers
<1>13. L = [ckpt EXCEPT !.catalog = g.catalog, !.snaps = NoSnapshots, !.bats = kbats2]
  <2>1. L = [ckpt EXCEPT !.catalog = lg.catalog, !.snaps = SnapshotsDone,
                         !.bats = Subcommitted(lg, CatalogBats(lg))]
    BY <1>5 DEF logger_commit
  <2>2. Subcommitted(lg, CatalogBats(lg)) = kbats2
    BY <1>3, <1>10 DEF Subcommitted
  <2> QED  BY <1>3, <2>1, <2>2 DEF SnapshotsDone
<1>14. MayCommit(ckpt, g, L, h, bats2, kbats2, s)
  BY <1>6, <1>8, <1>9, <1>10, <1>11, <1>12, <1>13 DEF MayCommit
<1>15. /\ Base(L) /\ Sound(h, L) /\ L.exists
       /\ Columns(L) = col /\ Columns(h) = col
       /\ h.id = g.id /\ h.tid = g.tid /\ h.changes = g.changes /\ h.seqs = s /\ h.tr = g.tr /\ h.err = g.err
       /\ h.catalog = g.catalog /\ \A b \in Bids : h.snaps[b] = 0
  BY <1>1, <1>6, <1>14, Committed DEF HasCommitted
<1>16. /\ h \in Loggers /\ L \in Checkpoints /\ g.catalog \in [Names -> Bids \cup {0}]
  BY <1>6, <1>15 DEF Sound, Base, Loggers, Catalogs
<1>17. LogList' = LogList /\ Log' = Log
  BY <1>2 DEF LogList, Log, LogRecords
<1>18. TypeInv'
  BY <1>1, <1>2, <1>3, <1>4, <1>5, <1>6, <1>8, <1>15, <1>16 DEF IInv, TypeInv, Pcs
<1>19. FilesInv' /\ RoomInv' /\ PhaseInv'
  <2>1. FilesInv'
    BY <1>1, <1>2, <1>3, <1>4, <1>5, <1>15 DEF FilesInv, Running, Collecting
  <2>2. RoomInv'
    BY <1>1, <1>3, <1>4, <1>15 DEF IInv, RoomInv
  <2>3. PhaseInv'
    <3>1. ASSUME boot
          PROVE  \E e \in Loggers : /\ LogRecords(LogList) = log_sequence_nrs(e)
                                    /\ e.seqs[OBJ_SID] = seq /\ e.seqs[LOG_SID] # 0
      <4>1. LogRecords(LogList) = log_sequence_nrs(g)
        BY <1>1, <1>3, <3>1 DEF IInv, PhaseInv
      <4> QED  BY <1>6, <4>1
    <3>2. ASSUME boot'
          PROVE  (\E e \in Loggers : /\ LogRecords(LogList) = log_sequence_nrs(e)
                                     /\ e.seqs[OBJ_SID] = seq /\ e.seqs[LOG_SID] # 0)'
      BY <1>1, <1>17, <3>1, <3>2 DEF Log, log_sequence_nrs, SeqRecords, SeqRecord
    <3> QED  BY <1>1, <1>2, <3>2 DEF PhaseInv, Running, Collecting, Restarting
  <2> QED  BY <2>1, <2>2, <2>3
<1>20. MemoryInv'
  <2>1. Future' = L /\ Current' = col
    BY <1>1, <1>5 DEF Future, Current, Collecting
  <2>2. Columns(ckpt)' = col
    BY <1>5, <1>15 DEF Columns
  <2>3. \A n \in Names : h.catalog[n] # 0 => h.snaps[h.catalog[n]] <= h.tid
    <3>1. h.tid \in Nat
      BY <1>6, <1>15, TidsNat
    <3>2. 0 <= h.tid
      BY <3>1
    <3>3. \A n \in Names : h.catalog[n] # 0 => h.snaps[h.catalog[n]] = 0
      BY <1>15, <1>16
    <3> QED  BY <3>2, <3>3
  <2>4. h.seqs[LOG_SID] # 0 /\ h.seqs[OBJ_SID] = seq
    BY <1>6, <1>8, <1>15
  <2> QED  BY <1>1, <1>4, <1>5, <1>6, <1>15, <2>1, <2>2, <2>3, <2>4 DEF MemoryInv
<1>21. TxInv' /\ LogInv'
  <2>1. CASE ~boot
    <3>1. Window' # "none"
      BY <1>1, <2>1 DEF Window
    <3> QED  BY <1>1, <3>1 DEF TxInv, LogInv, Collecting
  <2>2. CASE boot
    <3>1. Log = log_sequence_nrs(g)
      BY <1>1, <1>3, <2>2 DEF IInv, PhaseInv, Log
    <3>2. PICK id \in Nat : id = LogList
      <4>1. g.id - 1 \in Nat
        BY <1>6
      <4>2. bak \in Nat /\ bak # Absent
        BY <1>1, <1>3, <4>1, AbsentIs
      <4> QED  BY <4>2 DEF LogList
    <3>3. Log \in Seq(Records) /\ Whole(id, Log, L, col, seq, g.tid)
      BY <1>6, <1>15, <3>1, Fresh
    <3>4. Gives(LogList, Log, <<>>, L, col, col, seq, seq, g.tid)
      BY <3>2, <3>3, GivesWhole
    <3>5. LastTid' = g.tid
      BY <1>1, <1>4, <1>15 DEF LastTid
    <3> QED  BY <1>1, <1>5, <1>17, <3>4, <3>5 DEF TxInv, LogInv, Collecting
  <2> QED  BY <2>1, <2>2
<1> QED  BY <1>18, <1>19, <1>20, <1>21 DEF IInv

-----------------------------------------------------------------------------
(***************************************************************************)
(* The steps of a transaction.                                             *)
(***************************************************************************)
LEMMA HoldsGives ==
  ASSUME NEW id, NEW recs, NEW b, NEW F, NEW c, NEW s, NEW t
  PROVE  Holds(id, recs, b, F, c, s, t) <=> Gives(id, recs, b, F, c, c, s, s, t)
BY DEF Holds, Gives

(* Where the log of a running transaction is.                              *)
LEMMA RunningFacts ==
  ASSUME IInv, pc \in Running
  PROVE  /\ ckpt.exists /\ lg.id \in Ids /\ lg.id \in Nat /\ lg.id # Absent /\ master = lg.id /\ bak = Absent
         /\ LogList = lg.id /\ wal[lg.id] # Absent /\ Log = wal[lg.id] /\ Log \in Seq(Records)
         /\ Window = "none" /\ LastTid = lg.tid
         /\ lg \in Loggers /\ lg.tid \in Tids /\ lg.tid <= ntx /\ buf \in Seq(Records)
         /\ Base(ckpt) /\ ckpt \in Checkpoints /\ Sound(lg, Future)
<1>1. /\ ckpt.exists /\ lg.id \in Ids /\ master = lg.id /\ bak = Absent /\ wal[lg.id] # Absent
      /\ lg \in Loggers /\ buf \in Seq(Records) /\ Base(ckpt) /\ lg.tid <= ntx /\ Sound(lg, Future)
      /\ wal \in [Ids -> Seq(Records) \cup {Absent}]
  BY DEF IInv, TypeInv, FilesInv, PhaseInv, MemoryInv, Running, Collecting
<1>2. lg.id \in Nat /\ lg.id # Absent
  BY <1>1, AbsentIs, LoggerAssumption, SMTT(60) DEF Ids
<1>3. LogList = lg.id /\ Log = wal[lg.id] /\ Log \in Seq(Records)
  BY <1>1 DEF LogList, Log, LogRecords
<1>4. Window = "none" /\ LastTid = lg.tid
  BY DEF Window, LastTid, Running, Collecting
<1>5. ckpt \in Checkpoints /\ lg.tid \in Tids
  BY <1>1 DEF Base, Loggers
<1> QED  BY <1>1, <1>2, <1>3, <1>4, <1>5

(* A step of a running transaction that writes to the buffer.              *)
Buffers ==
    /\ UNCHANGED <<dirVars, boot, cleaning, oldId, stops, flushes>>
    /\ pc \in Running /\ pc' \in Running /\ (boot => pc' = "idle")
    /\ ckpt'.exists = ckpt.exists /\ lg' \in Loggers /\ lg'.id = lg.id
    /\ buf' # <<>> => pc' \in Collecting \cup {"sync", "seq"}
    /\ pc' \in {"sync", "seq", "txseq"} => buf' # <<>>

LEMMA BuffersFrame ==
  ASSUME IInv, Buffers
  PROVE  FilesInv' /\ RoomInv' /\ PhaseInv' /\ LogList' = LogList /\ Log' = Log
<1> USE DEF Buffers
<1>1. /\ UNCHANGED <<master, bak, baks, wal, boot, cleaning, oldId, stops, flushes>>
      /\ pc \in Running /\ pc' \in Running /\ ckpt'.exists = ckpt.exists /\ lg'.id = lg.id
  BY DEF dirVars
<1>2. /\ ckpt.exists /\ lg.id \in Ids /\ master = lg.id /\ bak = Absent /\ wal[lg.id] # Absent
  BY <1>1, RunningFacts
<1>3. FilesInv'
  BY <1>1, <1>2 DEF FilesInv, Running, Collecting
<1>4. RoomInv'
  BY <1>1, <1>2 DEF IInv, RoomInv, Running, Collecting
<1>5. PhaseInv'
  <2>1. /\ boot' => pc' = "idle" /\ cleaning' # "none"
        /\ cleaning' \in {"log", "bak"} => baks'[lg'.id] \in Ids /\ baks'[lg'.id] # lg'.id
        /\ cleaning' = "old" => oldId' < lg'.id
        /\ buf' # <<>> => pc' \in Collecting \cup {"sync", "seq"}
        /\ pc' \in {"sync", "seq", "txseq"} => buf' # <<>>
        /\ pc' \in Running /\ wal'[lg'.id] # Absent
    <3>1. boot => cleaning # "none"
      BY <1>1 DEF IInv, PhaseInv, Running, Collecting, Restarting
    <3> QED  BY <1>1, <1>2, <3>1 DEF IInv, PhaseInv
  <2> QED  BY <2>1 DEF PhaseInv, Running, Collecting, Restarting
<1>6. LogList' = LogList /\ Log' = Log
  BY <1>1 DEF LogList, Log, LogRecords
<1> QED  BY <1>3, <1>4, <1>5, <1>6

LEMMA LogTstartStep ==
  ASSUME IInv, log_tstart
  PROVE  IInv'
<1> USE DEF bounds
<1>1. /\ pc = "idle" /\ pc' = "tx" /\ ~boot /\ ntx < MaxTx /\ ntx' = ntx + 1
      /\ UNCHANGED <<dirVars, ckpt, boot, cleaning, oldId, col, seq, stops, flushes>>
      /\ pc \in Running /\ buf = <<>>
  BY DEF log_tstart, IInv, PhaseInv, Running, Collecting
<1>2. PICK g : g = lg
  OBVIOUS
<1>3. PICK h : h = lg'
  OBVIOUS
<1>4. PICK u : u = g.tid + 1
  OBVIOUS
<1>5. PICK r : r = [flag |-> "START", tid |-> u]
  OBVIOUS
<1>6. PICK z : z = buf'
  OBVIOUS
<1>7. /\ g \in Loggers /\ g.tid \in Tids /\ g.tid <= ntx /\ Sound(g, ckpt) /\ Base(ckpt) /\ ckpt \in Checkpoints
      /\ LogList = g.id /\ Log \in Seq(Records) /\ Window = "none" /\ LastTid = g.tid /\ ckpt.exists
      /\ g.tr = NoTr /\ g.err = "OK"
      /\ \A n \in Names : g.catalog[n] # 0 => g.snaps[g.catalog[n]] <= g.tid
      /\ \A n \in Names : g.catalog[n] # 0 <=> col[n] # Absent
      /\ g.seqs[LOG_SID] # 0 /\ g.seqs[OBJ_SID] = seq
  BY <1>1, <1>2, RunningFacts DEF IInv, TypeInv, MemoryInv, Future, Current, Collecting
<1>8. u \in Tids /\ g.tid < u /\ u # 0 /\ u >= 1 /\ u <= ntx' /\ ntx' \in 0 .. MaxTx /\ ntx' >= 1
  <2>0. ntx \in 0 .. MaxTx
    BY DEF IInv, TypeInv
  <2>1. g.tid \in Nat /\ ntx \in Nat /\ MaxTx \in Nat
    <3>1. MaxTx \in Nat
      BY LoggerAssumption
    <3>2. g.tid \in Nat
      BY <1>7, TidsNat, Zenon
    <3> QED  BY <2>0, <3>1, <3>2
  <2> QED  BY <2>1, <1>1, <1>4, <1>7 DEF Tids
<1>9. h = [g EXCEPT !.tid = u]
  BY <1>2, <1>3, <1>4, <1>7 DEF log_tstart, Loggers
<1>10. /\ h \in Loggers /\ h.catalog = g.catalog /\ h.old = g.old /\ h.bats = g.bats /\ h.snaps = g.snaps
       /\ h.freed = g.freed /\ h.id = g.id /\ h.tid = u /\ h.changes = g.changes /\ h.seqs = g.seqs
       /\ h.tr = g.tr /\ h.err = g.err
  BY <1>7, <1>8, <1>9 DEF Loggers
<1>11. Sound(h, ckpt)
  BY <1>7, <1>10 DEF Sound
<1>12. StartRecord(r, u) /\ r \in Records
  BY <1>5, <1>8 DEF StartRecord, Records
<1>13. Adds(z, buf, r) /\ z \in Seq(Records) /\ z # <<>>
  <2>1. z = <<>> \o <<r>>
    BY <1>1, <1>2, <1>4, <1>5, <1>6 DEF log_tstart, Write
  <2>2. z = Append(<<>>, r) /\ z \in Seq(Records) /\ z # <<>>
    BY <2>1, <1>12
  <2> QED  BY <2>2, <1>1, <1>12 DEF Adds
<1>14. tx'.touched = {} /\ tx'.cleared = <<>> /\ tx'.col = col /\ tx' \in Txs
  <2>1. col \in [Names -> Cells]
    BY DEF IInv, TypeInv
  <2>2. PICK alone \in BOOLEAN : tx' = [NoTx EXCEPT !.alone = alone, !.col = col]
    BY DEF log_tstart
  <2>3. tx' = [alone |-> alone, touched |-> {}, cleared |-> <<>>, dirty |-> FALSE, col |-> col]
    BY <2>2 DEF NoTx
  <2>4. <<>> \in Seq(Names)
    OBVIOUS
  <2> QED  BY <2>1, <2>3, <2>4 DEF Txs
<1>15. Saved(ckpt, h) = ckpt
  <2>1. \A n \in Names : g.catalog[n] # 0 => g.snaps[g.catalog[n]] # h.tid /\ g.snaps[g.catalog[n]] < h.tid
    <3>1. ASSUME NEW n \in Names, g.catalog[n] # 0
          PROVE  g.snaps[g.catalog[n]] # h.tid /\ g.snaps[g.catalog[n]] < h.tid
      <4>1. g.snaps[g.catalog[n]] \in Tids
        BY <1>7, <3>1 DEF Loggers, Catalogs, Snaps
      <4>2. g.snaps[g.catalog[n]] \in Nat /\ g.tid \in Nat /\ u \in Nat /\ g.snaps[g.catalog[n]] <= g.tid /\ g.tid < u
        BY <4>1, <3>1, <1>7, <1>8, TidsNat
      <4>3. g.snaps[g.catalog[n]] # u /\ g.snaps[g.catalog[n]] < u
        BY <4>2
      <4> QED  BY <4>3, <1>10
    <3> QED  BY <3>1
  <2> QED  BY <2>1, <1>7, <1>8, <1>10, SavedNothing
<1>16. \A n \in Names : g.catalog[n] # 0 => g.snaps[g.catalog[n]] < u /\ g.snaps[g.catalog[n]] <= u
  <2>1. ASSUME NEW n \in Names, g.catalog[n] # 0
        PROVE  g.snaps[g.catalog[n]] < u /\ g.snaps[g.catalog[n]] <= u
    <3>1. g.snaps[g.catalog[n]] \in Tids
      BY <1>7, <2>1 DEF Loggers, Catalogs, Snaps
    <3> QED  BY <3>1, <2>1, <1>7, <1>8, TidsOrdered
  <2> QED  BY <2>1
<1>17. Writing(LogList, Log, z, ckpt, ckpt, col, col, seq, u, {})
  <2>1. Holds(LogList, Log, buf, ckpt, col, seq, g.tid)
    BY <1>1, <1>7, HoldsGives DEF IInv, LogInv
  <2> QED  BY <2>1, <1>7, <1>8, <1>12, <1>13, HoldsStart
<1>18. TypeInv'
  BY <1>1, <1>3, <1>6, <1>7, <1>8, <1>10, <1>13, <1>14, SMTT(60) DEF dirVars, IInv, TypeInv, Pcs
<1>19. Buffers
  BY <1>1, <1>2, <1>3, <1>10 DEF Buffers, Running, Collecting
<1>20. FilesInv' /\ RoomInv' /\ PhaseInv' /\ LogList' = LogList /\ Log' = Log
  BY <1>19, BuffersFrame
<1>21. Future' = ckpt /\ Current' = col /\ LastTid' = u
  BY <1>1, <1>3, <1>10, <1>14, <1>15 DEF Future, Current, Collecting, LastTid, Saved
<1>22. MemoryInv'
  BY <1>1, <1>3, <1>7, <1>8, <1>10, <1>11, <1>16, <1>21 DEF MemoryInv
<1>23. TxInv'
  BY <1>1, <1>3, <1>8, <1>10, <1>14, <1>16, <1>21 DEF TxInv, Collecting, Extends
<1>24. LogInv'
  <2>1. /\ Gives(LogList, Log, z, ckpt, col, col, seq, seq, u)
        /\ Collects(LogList, Log \o z, ckpt, u) /\ Awaits(LogList, Log \o z, ckpt, col, u, {})
    BY <1>17, HoldsGives DEF Writing
  <2> QED  BY <1>1, <1>3, <1>6, <1>10, <1>14, <1>20, <1>21, <2>1 DEF LogInv
<1> QED  BY <1>18, <1>20, <1>22, <1>23, <1>24 DEF IInv

(* The transaction that is being logged.                                   *)
TxOpen(g, F) ==
    /\ Marked(ckpt, g, F) /\ g \in Loggers /\ g.tid \in Tids /\ g.tid # 0 /\ g.tid >= 1
    /\ g.tr = NoTr /\ g.err = "OK" /\ g.seqs[LOG_SID] # 0 /\ g.seqs[OBJ_SID] = seq
    /\ tx \in Txs /\ buf \in Seq(Records) /\ col \in [Names -> Cells] /\ ntx \in 1 .. MaxTx
    /\ Writing(LogList, Log, buf, ckpt, F, col, tx.col, seq, g.tid, tx.touched)
    /\ \A n \in Names : g.catalog[n] # 0 <=> tx.col[n] # Absent
    /\ \A n \in Names : g.catalog[n] # 0 => g.snaps[g.catalog[n]] <= g.tid
    /\ \A n \in Names \ tx.touched :
          tx.col[n] = col[n] /\ (g.catalog[n] # 0 => g.snaps[g.catalog[n]] < g.tid)
    /\ ~tx.dirty => F.bats = ckpt.bats
    /\ \A i \in 1 .. Len(tx.cleared) : tx.cleared[i] \in tx.touched /\ tx.col[tx.cleared[i]] # Absent

LEMMA TxFacts ==
  ASSUME IInv, pc \in {"tx", "txlogged"}, NEW g, g = lg, NEW F, F = Saved(ckpt, g)
  PROVE  TxOpen(g, F)
<1>1. pc \in Running /\ pc \in Collecting /\ pc \notin {"sync", "seq", "txseq", "down", "create"}
  BY DEF Running, Collecting
<1>2. F = Future /\ Current = tx.col
  BY <1>1 DEF Future, Current
<1>3. /\ g \in Loggers /\ g.tid \in Tids /\ buf \in Seq(Records) /\ Base(ckpt) /\ Sound(g, F)
      /\ Window = "none" /\ LastTid = g.tid /\ ckpt.exists
  BY <1>1, <1>2, RunningFacts
<1>4. /\ g.tr = NoTr /\ g.err = "OK" /\ tx \in Txs /\ col \in [Names -> Cells] /\ ntx \in 0 .. MaxTx
  BY DEF IInv, TypeInv
<1>5. /\ g.seqs[LOG_SID] # 0 /\ g.seqs[OBJ_SID] = seq
      /\ \A n \in Names : g.catalog[n] # 0 <=> tx.col[n] # Absent
      /\ \A n \in Names : g.catalog[n] # 0 => g.snaps[g.catalog[n]] <= g.tid
  BY <1>1, <1>2 DEF IInv, MemoryInv
<1>6. /\ g.tid >= 1 /\ ntx >= 1 /\ Extends(F, ckpt) /\ (~tx.dirty => F.bats = ckpt.bats)
      /\ \A n \in Names \ tx.touched :
            tx.col[n] = col[n] /\ (g.catalog[n] # 0 => g.snaps[g.catalog[n]] < g.tid)
      /\ \A i \in 1 .. Len(tx.cleared) : tx.cleared[i] \in tx.touched /\ tx.col[tx.cleared[i]] # Absent
  BY <1>1, <1>2 DEF IInv, TxInv
<1>7. ntx \in 1 .. MaxTx /\ g.tid # 0
  BY <1>3, <1>4, <1>6, LoggerAssumption
<1>8. Marked(ckpt, g, F)
  BY <1>3, <1>6 DEF Marked
<1>9. Writing(LogList, Log, buf, ckpt, F, col, tx.col, seq, g.tid, tx.touched)
  <2>1. Holds(LogList, Log, buf, ckpt, col, seq, g.tid)
    BY <1>1, <1>3, HoldsGives DEF IInv, LogInv
  <2>2. Collects(LogList, Log \o buf, ckpt, g.tid) /\ Awaits(LogList, Log \o buf, F, tx.col, g.tid, tx.touched)
    BY <1>1, <1>2 DEF IInv, LogInv
  <2> QED  BY <2>1, <2>2 DEF Writing
<1> QED  BY <1>3, <1>4, <1>5, <1>6, <1>7, <1>8, <1>9 DEF TxOpen

(* A step that logs a change: h, y and z are the new lg, tx and buf.       *)
TxFrame ==
    pc = "tx" /\ pc' = "tx" /\ UNCHANGED <<dirVars, ckpt, boot, cleaning, oldId, col, seq, bounds>>
TxLogs(g, h, F2, y, z) ==
    /\ Marked(ckpt, h, F2) /\ Same(h, g) /\ y \in Txs
    /\ Writing(LogList, Log, z, ckpt, F2, col, y.col, seq, h.tid, y.touched)
    /\ \A n \in Names : h.catalog[n] # 0 <=> y.col[n] # Absent
    /\ \A n \in Names : h.catalog[n] # 0 => h.snaps[h.catalog[n]] <= h.tid
    /\ \A n \in Names \ y.touched :
          y.col[n] = col[n] /\ (h.catalog[n] # 0 => h.snaps[h.catalog[n]] < h.tid)
    /\ ~y.dirty => F2.bats = ckpt.bats
    /\ \A i \in 1 .. Len(y.cleared) : y.cleared[i] \in y.touched /\ y.col[y.cleared[i]] # Absent

LEMMA TxKeeps ==
  ASSUME IInv, TxFrame, NEW F2, TxLogs(lg, lg', F2, tx', buf')
  PROVE  IInv'
<1> USE DEF bounds
<1>1. /\ pc = "tx" /\ pc' = "tx" /\ UNCHANGED <<dirVars, ckpt, boot, cleaning, oldId, col, seq, bounds>>
      /\ pc \in Running
  BY DEF TxFrame, Running, Collecting
<1>2. PICK g : g = lg
  OBVIOUS
<1>3. PICK h : h = lg'
  OBVIOUS
<1>4. PICK y : y = tx'
  OBVIOUS
<1>5. PICK z : z = buf'
  OBVIOUS
<1>6. /\ Marked(ckpt, h, F2) /\ Same(h, g) /\ y \in Txs
      /\ Writing(LogList, Log, z, ckpt, F2, col, y.col, seq, h.tid, y.touched)
      /\ \A n \in Names : h.catalog[n] # 0 <=> y.col[n] # Absent
      /\ \A n \in Names : h.catalog[n] # 0 => h.snaps[h.catalog[n]] <= h.tid
      /\ \A n \in Names \ y.touched :
            y.col[n] = col[n] /\ (h.catalog[n] # 0 => h.snaps[h.catalog[n]] < h.tid)
      /\ ~y.dirty => F2.bats = ckpt.bats
      /\ \A i \in 1 .. Len(y.cleared) : y.cleared[i] \in y.touched /\ y.col[y.cleared[i]] # Absent
  BY <1>2, <1>3, <1>4, <1>5 DEF TxLogs
<1>7. PICK F : F = Saved(ckpt, g)
  OBVIOUS
<1>8. TxOpen(g, F)
  BY <1>1, <1>2, <1>7, TxFacts
<1>9. /\ h \in Loggers /\ h.id = g.id /\ h.tid = g.tid /\ h.seqs = g.seqs /\ h.tr = g.tr /\ h.err = g.err
      /\ Sound(h, F2) /\ F2 = Saved(ckpt, h) /\ Extends(F2, ckpt)
  BY <1>6 DEF Marked, Sound, Same
<1>10. /\ g.tr = NoTr /\ g.err = "OK" /\ g.seqs[LOG_SID] # 0 /\ g.seqs[OBJ_SID] = seq /\ g.tid >= 1
       /\ ntx \in 1 .. MaxTx /\ ntx >= 1 /\ g.tid <= ntx /\ Base(ckpt)
  <2>1. g.tid <= ntx /\ Base(ckpt)
    BY <1>1, <1>2, RunningFacts
  <2> QED  BY <1>8, <2>1 DEF TxOpen
<1>11. z \in Seq(Records) /\ Holds(LogList, Log, z, ckpt, col, seq, h.tid)
  BY <1>6 DEF Writing, Holds
<1>12. TypeInv'
  BY <1>1, <1>2, <1>3, <1>4, <1>5, <1>6, <1>9, <1>10, <1>11 DEF dirVars, IInv, TypeInv, Pcs
<1>13. Buffers
  <2>1. ~boot
    BY <1>1 DEF IInv, PhaseInv, Restarting
  <2> QED  BY <1>1, <1>2, <1>3, <1>9, <2>1 DEF Buffers, Running, Collecting
<1>14. FilesInv' /\ RoomInv' /\ PhaseInv' /\ LogList' = LogList /\ Log' = Log
  BY <1>13, BuffersFrame
<1>15. Future' = F2 /\ Current' = y.col /\ LastTid' = h.tid
  BY <1>1, <1>3, <1>4, <1>9 DEF Future, Current, Collecting, LastTid, Saved
<1>16. MemoryInv'
  BY <1>1, <1>3, <1>4, <1>6, <1>9, <1>10, <1>15 DEF MemoryInv
<1>17. TxInv'
  BY <1>1, <1>3, <1>4, <1>6, <1>9, <1>10, <1>15, ZenonT(30) DEF TxInv, Collecting
<1>18. LogInv'
  <2>1. /\ Gives(LogList, Log, z, ckpt, col, col, seq, seq, h.tid)
        /\ Collects(LogList, Log \o z, ckpt, h.tid) /\ Awaits(LogList, Log \o z, F2, y.col, h.tid, y.touched)
    BY <1>6, <1>11, HoldsGives DEF Writing
  <2> QED  BY <1>1, <1>3, <1>4, <1>5, <1>14, <1>15, <2>1 DEF LogInv
<1> QED  BY <1>12, <1>14, <1>16, <1>17, <1>18 DEF IInv

(* The bat of a new column, or the new bat of a column, in memory.         *)
LEMMA NewBidIn ==
  ASSUME NEW g, FreeBids(g) # {}
  PROVE  NewBid(g) \in Bids /\ g.bats[NewBid(g)] = Absent
<1> DEFINE S == FreeBids(g)
<1>1. S \subseteq Nat
  BY SlotsPositive DEF FreeBids
<1>2. \E b \in S : \A c \in S : b <= c
  <2> HIDE DEF S
  <2> QED  BY <1>1, Least DEF S
<1>3. NewBid(g) \in FreeBids(g)
  BY <1>2 DEF NewBid
<1> QED  BY <1>3 DEF FreeBids

MayAdd(K, g, F, n, x, b) ==
    /\ Marked(K, g, F) /\ FreeBids(g) # {} /\ b = NewBid(g) /\ n \in Names /\ x \in Contents
    /\ g.catalog[n] # 0 => g.snaps[g.catalog[n]] < g.tid

LEMMA NewBatEnters ==
  ASSUME NEW K, NEW g, NEW F, NEW n, NEW x, NEW b, MayAdd(K, g, F, n, x, b)
  PROVE  /\ MayMark(K, g, F, b, n, x, g.tid, Snapshot(g, b, n, x))
         /\ MayMark(K, g, F, b, n, x, 0, logger_add_bat([g EXCEPT !.bats[b] = x], b, n))
<1> USE DEF MayAdd
<1>1. /\ b \in Bids /\ g.bats[b] = Absent /\ g \in Loggers /\ Sound(g, F) /\ g.tid \in Tids /\ 0 \in Tids
  BY NewBidIn, TidsNat DEF Marked, Sound, Loggers
<1>2. Base(F)
  BY MarkedBase
<1>3. ~Named(g.catalog, b) /\ g.snaps[b] = 0
  BY <1>1, <1>2, FreeBat
<1>4. PICK g1 : g1 = [g EXCEPT !.bats[b] = x]
  OBVIOUS
<1>5. /\ g1 \in Loggers /\ Same(g1, g) /\ g1.catalog = g.catalog /\ g1.old = g.old
      /\ g1.freed = g.freed /\ g1.snaps = g.snaps /\ g1.bats = [g.bats EXCEPT ![b] = x]
  <2> DEFINE bats == [g.bats EXCEPT ![b] = x]
  <2>1. bats \in Bats
    BY <1>1 DEF Loggers, Bats, Cells
  <2>2. g1 = [g EXCEPT !.bats = bats]
    BY <1>1, <1>4 DEF Loggers
  <2> HIDE DEF bats
  <2>3. g1 \in Loggers
    BY <1>1, <2>1, <2>2 DEF Loggers
  <2> QED  BY <1>1, <2>2, <2>3 DEF Loggers, Same, bats
<1>6. PICK a : a = logger_add_bat(g1, b, n)
  OBVIOUS
<1>7. /\ Enters(g, b, n, x, g.tid, [a EXCEPT !.snaps[b] = g.tid])
      /\ Enters(g, b, n, x, 0, a)
  BY <1>1, <1>3, <1>5, <1>6, AddFields
<1>8. a.tid = g.tid
  BY <1>7 DEF Enters, Same
<1>9. Snapshot(g, b, n, x) = [a EXCEPT !.snaps[b] = g.tid]
  <2>1. Snapshot(g, b, n, x) = [logger_add_bat([g EXCEPT !.bats[b] = x], b, n) EXCEPT !.snaps[b] = g.tid]
    BY DEF Snapshot
  <2> QED  BY <2>1, <1>4, <1>6, Zenon
<1>10. Enters(g, b, n, x, g.tid, Snapshot(g, b, n, x))
  BY <1>7, <1>9, Zenon
<1>11. Enters(g, b, n, x, 0, logger_add_bat([g EXCEPT !.bats[b] = x], b, n))
  BY <1>4, <1>6, <1>7, Zenon
<1> QED  BY <1>1, <1>10, <1>11 DEF MayMark

(* What the change leaves of the marks of the columns.                     *)
MarkLeaves(g, b, n, v, h) ==
    /\ Same(h, g) /\ b # 0
    /\ \A m \in Names : h.catalog[m] = IF m = n THEN b ELSE g.catalog[m]
    /\ h.snaps[b] = v
    /\ \A m \in Names \ {n} : g.catalog[m] # 0 =>
          h.snaps[g.catalog[m]] = 0 \/ h.snaps[g.catalog[m]] = g.snaps[g.catalog[m]]
    /\ (\A m \in Names : g.catalog[m] # 0 => g.snaps[g.catalog[m]] <= g.tid)
         => \A m \in Names : h.catalog[m] # 0 => h.snaps[h.catalog[m]] <= h.tid
    /\ \A m \in Names \ {n} : (g.catalog[m] # 0 => g.snaps[g.catalog[m]] < g.tid)
         => (h.catalog[m] # 0 => h.snaps[h.catalog[m]] < h.tid)

LEMMA MarkKeeps ==
  ASSUME NEW K, NEW g, NEW F, NEW b, NEW n, NEW x, NEW v, NEW h,
         MayMark(K, g, F, b, n, x, v, h)
  PROVE  MarkLeaves(g, b, n, v, h)
<1> USE DEF MayMark
<1>1. /\ HasEntered(Saved(K, h), g, b, n, x, v, h) /\ g \in Loggers /\ Sound(g, F) /\ g.tid \in Tids
      /\ g.tid \in Nat /\ g.tid >= 1 /\ v \in {0, g.tid} /\ b # 0 /\ b \in Bids
  BY MarkEnters, TidsNat, SlotsPositive, ZenonT(60) DEF HasMarked, Marked, Sound, Loggers
<1>2. /\ Same(h, g) /\ h.tid = g.tid /\ h.snaps[b] = v /\ n \in Names
      /\ \A m \in Names : h.catalog[m] = IF m = n THEN b ELSE g.catalog[m]
      /\ \A c \in Bids : c # b /\ h.snaps[c] # 0 => h.snaps[c] = g.snaps[c]
  BY <1>1 DEF HasEntered, Same
<1>3. ASSUME NEW m \in Names \ {n}, g.catalog[m] # 0
      PROVE  h.snaps[g.catalog[m]] = 0 \/ h.snaps[g.catalog[m]] = g.snaps[g.catalog[m]]
  <2>1. g.catalog[m] \in Bids /\ g.bats[g.catalog[m]] # Absent
    BY <1>1, <1>3 DEF Sound, Heap, Loggers, Catalogs
  <2> QED  BY <1>2, <2>1
<1>4. v <= g.tid /\ 0 <= g.tid /\ 0 < g.tid
  BY <1>1
<1>5. ASSUME \A m \in Names : g.catalog[m] # 0 => g.snaps[g.catalog[m]] <= g.tid,
             NEW m \in Names, h.catalog[m] # 0
      PROVE  h.snaps[h.catalog[m]] <= h.tid
  <2>1. CASE m = n
    BY <2>1, <1>2, <1>4
  <2>2. CASE m # n
    <3>1. h.catalog[m] = g.catalog[m] /\ g.snaps[g.catalog[m]] <= g.tid
      BY <2>2, <1>2, <1>5
    <3> QED  BY <3>1, <2>2, <1>2, <1>3, <1>4, <1>5
  <2> QED  BY <2>1, <2>2
<1>6. ASSUME NEW m \in Names \ {n}, g.catalog[m] # 0 => g.snaps[g.catalog[m]] < g.tid, h.catalog[m] # 0
      PROVE  h.snaps[h.catalog[m]] < h.tid
  <2>1. h.catalog[m] = g.catalog[m] /\ g.snaps[g.catalog[m]] < g.tid
    BY <1>2, <1>6
  <2> QED  BY <2>1, <1>2, <1>3, <1>4, <1>6
<1> QED  BY <1>1, <1>2, <1>3, <1>5, <1>6 DEF MarkLeaves

(* A row, or the clearing of a column, is logged.                          *)
RowStage(id, q, b, F, Fu, c, d, s, t, touched, n, r, z) ==
    /\ Writing(id, q, b, F, Fu, c, d, s, t, touched) /\ Typable(id, q \o b, F, n)
    /\ n \in Names /\ n \notin touched /\ d[n] # Absent /\ Extends(Fu, F)
    /\ Rewriting(r, n) /\ r.tid = t /\ t # 0 /\ Adds(z, b, r)

LEMMA RowStaged ==
  ASSUME NEW id, NEW q, NEW b, NEW F, NEW Fu, NEW c, NEW d, NEW s, NEW t, NEW touched,
         NEW n, NEW r, NEW z, RowStage(id, q, b, F, Fu, c, d, s, t, touched, n, r, z)
  PROVE  Writing(id, q, z, F, Fu, c, With(d, n, Rewritten(r, d[n])), s, t, touched)
<1> USE DEF RowStage
<1>1. r \in Changes /\ r.name = n
  BY DEF Rewriting
<1>2. Extends(Fu, Fu)
  BY DEF Extends
<1>3. Change(id, q \o b, F, Fu, Fu, r, t)
  BY <1>1, <1>2 DEF Change
<1>4. PICK d2 : d2 = With(d, n, Rewritten(r, d[n]))
  OBVIOUS
<1>5. Takes(r, Fu, Fu, d, d2, t, touched, touched)
  BY <1>4, TakesRow
<1>6. Writing(id, q, z, F, Fu, c, d2, s, t, touched)
  BY <1>3, <1>5, WritingChange
<1> QED  BY <1>4, <1>6

LEMMA AddsOne ==
  ASSUME NEW b \in Seq(Records), NEW r \in Records, NEW z, z = b \o <<r>>
  PROVE  Adds(z, b, r) /\ z \in Seq(Records)
<1>1. z = Append(b, r) /\ z \in Seq(Records)
  OBVIOUS
<1> QED  BY <1>1 DEF Adds

LEMMA AddsTwo ==
  ASSUME NEW b \in Seq(Records), NEW r \in Records, NEW u \in Records, NEW z, z = b \o <<r, u>>
  PROVE  \E y : y \in Seq(Records) /\ Adds(y, b, r) /\ Adds(z, y, u)
<1>1. PICK y : y = Append(b, r)
  OBVIOUS
<1>2. y \in Seq(Records) /\ z = Append(y, u)
  BY <1>1
<1> QED  BY <1>1, <1>2 DEF Adds

LEMMA WithType ==
  ASSUME NEW d \in [Names -> Cells], NEW n \in Names, NEW x \in Cells
  PROVE  /\ With(d, n, x) \in [Names -> Cells]
         /\ \A m \in Names : With(d, n, x)[m] = IF m = n THEN x ELSE d[m]
         /\ \A y : With(With(d, n, x), n, y) = With(d, n, y)
         /\ d[n] = x => With(d, n, x) = d
BY DEF With

(* The new columns and touched names, and the record of a row.             *)
LEMMA RecIs ==
  ASSUME NEW g, g = lg, g.tid \in Tids, ntx \in 1 .. MaxTx, NEW n \in Names,
         NEW flag \in {"CREATE", "INSERT", "UPDATE", "DESTROY", "CLEAR"}, NEW r, r = Rec(flag, n)
  PROVE  r \in Changes /\ r \in Records /\ r.flag = flag /\ r.tid = g.tid /\ r.name = n /\ r.row = ntx
<1>1. r = [flag |-> flag, tid |-> g.tid, name |-> n, row |-> ntx]
  BY DEF Rec
<1> QED  BY <1>1 DEF Changes, Records

LEMMA UseIs ==
  ASSUME NEW g, g = lg, g.tid \in Tids, NEW n \in Names, NEW b \in Bids, NEW r, r = Use(b, n)
  PROVE  r \in Changes /\ r \in Records /\ r.flag = "USE" /\ r.tid = g.tid /\ r.name = n /\ r.bid = b
<1>1. r = [flag |-> "USE", tid |-> g.tid, name |-> n, bid |-> b]
  BY DEF Use
<1> QED  BY <1>1 DEF Changes, Records

(* A snapshot is logged.                                                   *)
UseStage(K, g, F, F2, d, s, touched, n, b, x, h, q, p, r, z) ==
    /\ Writing(LogList, q, p, K, F, col, d, s, g.tid, touched)
    /\ MayMark(K, g, F, b, n, x, g.tid, h) /\ F2 = Saved(K, h)
    /\ r \in Changes /\ r.flag = "USE" /\ r.tid = g.tid /\ r.name = n /\ r.bid = b /\ Adds(z, p, r)

LEMMA UseStaged ==
  ASSUME NEW K, NEW g, NEW F, NEW F2, NEW d, NEW s, NEW touched, NEW n, NEW b, NEW x, NEW h,
         NEW q, NEW p, NEW r, NEW z,
         UseStage(K, g, F, F2, d, s, touched, n, b, x, h, q, p, r, z)
  PROVE  Writing(LogList, q, z, K, F2, col, With(d, n, x), s, g.tid, touched \cup {n})
<1> USE DEF UseStage
<1>1. HasMarked(K, g, F, b, n, x, g.tid, h, F2)
  BY MarkEnters
<1>2. /\ b \in Bids /\ n \in Names /\ x \in Contents /\ Marked(K, g, F) /\ g.tid >= 1 /\ g.tid # 0
      /\ Extends(F, K)
  BY DEF MayMark, Marked
<1>3. /\ Extends(F2, F) /\ F.bats[b] = Absent /\ F2.bats[b] = x /\ ~Named(F2.catalog, b)
  BY <1>1, <1>2 DEF HasMarked
<1>4. \A a \in Bids : F.bats[a] # Absent => F2.bats[a] # Absent
  BY <1>3 DEF Extends
<1>5. Saving(F, F2, r, n, b, x)
  BY <1>2, <1>3, <1>4 DEF Saving, Changing
<1>6. Change(LogList, q \o p, K, F, F2, r, g.tid)
  BY <1>2, <1>3 DEF Change
<1>7. PICK d2 : d2 = With(d, n, x)
  OBVIOUS
<1>8. PICK t : t = g.tid
  OBVIOUS
<1>9. Takes(r, F, F2, d, d2, t, touched, touched \cup {n})
  BY <1>2, <1>5, <1>7, <1>8, TakesUse
<1>10. Writing(LogList, q, z, K, F2, col, d2, s, t, touched \cup {n})
  BY <1>6, <1>8, <1>9, WritingChange
<1> QED  BY <1>7, <1>8, <1>10

(* A new column: its creation and perhaps its first row are logged.        *)
CreateStage(q, p, K, F, d, s, t, touched, n) ==
    /\ Writing(LogList, q, p, K, F, col, d, s, t, touched) /\ Extends(F, K)
    /\ n \in Names /\ t >= 1 /\ t # 0 /\ d \in [Names -> Cells]

LEMMA CreateStaged ==
  ASSUME Unlimited, NEW q, NEW p, NEW K, NEW F, NEW d, NEW s, NEW t, NEW touched, NEW n,
         CreateStage(q, p, K, F, d, s, t, touched, n),
         NEW r, Changing(r, "CREATE", n), r.tid = t, NEW z, Adds(z, p, r)
  PROVE  /\ Writing(LogList, q, z, K, F, col, With(d, n, <<>>), s, t, touched \ {n})
         /\ Typable(LogList, q \o z, K, n)
<1> USE DEF CreateStage
<1>1. Extends(F, F)
  BY DEF Extends
<1>2. Change(LogList, q \o p, K, F, F, r, t)
  BY <1>1 DEF Change, Changing
<1>3. PICK d2 : d2 = With(d, n, <<>>)
  OBVIOUS
<1>4. Takes(r, F, F, d, d2, t, touched, touched \ {n})
  BY <1>3, TakesCreate
<1>5. Writing(LogList, q, z, K, F, col, d2, s, t, touched \ {n}) /\ (r.flag = "CREATE" => Typable(LogList, q \o z, K, r.name))
  BY <1>2, <1>4, WritingChange
<1> QED  BY <1>3, <1>5 DEF Changing

LEMMA CreateRowStaged ==
  ASSUME Unlimited, NEW q, NEW p, NEW K, NEW F, NEW d, NEW s, NEW t, NEW touched, NEW n,
         CreateStage(q, p, K, F, d, s, t, touched, n),
         NEW r, Changing(r, "CREATE", n), r.tid = t, NEW y, Adds(y, p, r),
         NEW u, Rewriting(u, n), u.flag = "INSERT", u.tid = t, u.row = ntx, NEW z, Adds(z, y, u)
  PROVE  Writing(LogList, q, z, K, F, col, With(d, n, <<ntx>>), s, t, touched \ {n})
<1> USE DEF CreateStage
<1>1. PICK d1 : d1 = With(d, n, <<>>)
  OBVIOUS
<1>2. PICK rest : rest = touched \ {n}
  OBVIOUS
<1>3. Writing(LogList, q, y, K, F, col, d1, s, t, rest) /\ Typable(LogList, q \o y, K, n)
  BY <1>1, <1>2, CreateStaged
<1>4. d1[n] = <<>> /\ <<>> # Absent /\ \A x : With(d1, n, x) = With(d, n, x)
  <2>1. <<>> \in Contents
    BY DEF Contents
  <2> QED  BY <2>1, <1>1, WithType, AbsentIs DEF Cells
<1>5. RowStage(LogList, q, y, K, F, col, d1, s, t, rest, n, u, z)
  BY <1>2, <1>3, <1>4 DEF RowStage
<1>6. Writing(LogList, q, z, K, F, col, With(d1, n, Rewritten(u, d1[n])), s, t, rest)
  BY <1>5, RowStaged
<1>7. Rewritten(u, d1[n]) = <<ntx>>
  <2>1. Rewritten(u, d1[n]) = Append(<<>>, ntx)
    BY <1>4 DEF Rewritten, InsertRow
  <2> QED  BY <2>1
<1> QED  BY <1>2, <1>4, <1>6, <1>7

LEMMA LogCreateStep ==
  ASSUME Unlimited, IInv, NEW n \in Names, log_create_delta(n)
  PROVE  IInv'
<1>1. PICK large, filled \in BOOLEAN :
        LET b == NewBid(lg)
            contents == IF filled THEN <<ntx>> ELSE <<>>
        IN  /\ large => filled
            /\ lg' = IF large THEN Snapshot(lg, b, n, contents)
                     ELSE logger_add_bat([lg EXCEPT !.bats[b] = contents], b, n)
            /\ Write(IF large THEN <<Use(b, n)>>
                     ELSE IF filled THEN <<Rec("CREATE", n), Rec("INSERT", n)>>
                     ELSE <<Rec("CREATE", n)>>)
            /\ tx' = [tx EXCEPT !.touched = @ \cup {n}, !.col[n] = contents,
                                !.dirty = @ \/ large]
  BY DEF log_create_delta
<1>2. TxFrame /\ tx.col[n] = Absent /\ FreeBids(lg) # {}
  BY DEF log_create_delta, TxFrame
<1>3. PICK g : g = lg
  OBVIOUS
<1>4. PICK F : F = Saved(ckpt, g)
  OBVIOUS
<1>5. TxOpen(g, F)
  BY <1>2, <1>3, <1>4, TxFacts DEF TxFrame
<1>6. /\ Marked(ckpt, g, F) /\ g \in Loggers /\ g.tid \in Tids /\ g.tid # 0 /\ g.tid >= 1 /\ ntx \in 1 .. MaxTx
      /\ tx \in Txs /\ buf \in Seq(Records) /\ Extends(F, ckpt)
      /\ Writing(LogList, Log, buf, ckpt, F, col, tx.col, seq, g.tid, tx.touched)
  BY <1>5 DEF TxOpen, Marked
<1>7. PICK b : b = NewBid(g)
  OBVIOUS
<1>8. PICK x : x = IF filled THEN <<ntx>> ELSE <<>>
  OBVIOUS
<1>9. x \in Contents /\ x # Absent /\ x \in Cells
  <2>1. <<>> \in Contents /\ <<ntx>> \in Contents
    BY <1>6 DEF Contents
  <2>2. x \in Contents
    BY <1>8, <2>1
  <2> QED  BY <2>2, AbsentIs DEF Cells
<1>10. PICK v : v = IF large THEN g.tid ELSE 0
  OBVIOUS
<1>11. PICK h : h = lg'
  OBVIOUS
<1>12. g.catalog[n] = 0
  BY <1>2, <1>5 DEF TxOpen
<1>13. MayMark(ckpt, g, F, b, n, x, v, h)
  <2>1. MayAdd(ckpt, g, F, n, x, b)
    BY <1>2, <1>3, <1>6, <1>7, <1>9, <1>12 DEF MayAdd
  <2>2. CASE large
    <3>1. h = Snapshot(g, b, n, x) /\ v = g.tid
      BY <1>1, <1>3, <1>7, <1>8, <1>10, <1>11, <2>2
    <3> QED  BY <2>1, <3>1, NewBatEnters
  <2>3. CASE ~large
    <3>1. h = logger_add_bat([g EXCEPT !.bats[b] = x], b, n) /\ v = 0
      BY <1>1, <1>3, <1>7, <1>8, <1>10, <1>11, <2>3
    <3> QED  BY <2>1, <3>1, NewBatEnters
  <2> QED  BY <2>2, <2>3
<1>14. PICK F2 : F2 = Saved(ckpt, h)
  OBVIOUS
<1>15. HasMarked(ckpt, g, F, b, n, x, v, h, F2) /\ MarkLeaves(g, b, n, v, h)
  BY <1>13, <1>14, MarkEnters, MarkKeeps
<1>16. /\ Marked(ckpt, h, F2) /\ Same(h, g) /\ h.tid = g.tid /\ (v = 0 => F2 = F) /\ b # 0
       /\ \A m \in Names : h.catalog[m] = IF m = n THEN b ELSE g.catalog[m]
  BY <1>15 DEF HasMarked, MarkLeaves, Same
<1>17. PICK z : z = buf'
  OBVIOUS
<1>18. PICK d2 : d2 = With(tx.col, n, x)
  OBVIOUS
<1>19. PICK y : y = tx'
  OBVIOUS
<1>20. /\ tx.col \in [Names -> Cells] /\ tx.touched \in SUBSET Names /\ tx.dirty \in BOOLEAN
       /\ tx.cleared \in Seq(Names)
  BY <1>6 DEF Txs
<1>21. /\ d2 \in [Names -> Cells] /\ \A m \in Names : d2[m] = IF m = n THEN x ELSE tx.col[m]
  BY <1>9, <1>18, <1>20, WithType
<1>22. /\ y \in Txs /\ y.touched = tx.touched \cup {n} /\ y.col = d2 /\ y.cleared = tx.cleared
       /\ ~y.dirty => ~tx.dirty /\ v = 0
  <2>1. y = [tx EXCEPT !.touched = @ \cup {n}, !.col[n] = x, !.dirty = @ \/ large]
    BY <1>1, <1>8, <1>19
  <2>2. y = [tx EXCEPT !.touched = tx.touched \cup {n}, !.col = d2, !.dirty = tx.dirty \/ large]
    BY <1>6, <1>18, <2>1 DEF Txs, With
  <2>3. (tx.dirty \/ large) \in BOOLEAN /\ tx.touched \cup {n} \in SUBSET Names
    BY <1>20
  <2>4. y \in Txs /\ y.touched = tx.touched \cup {n} /\ y.col = d2 /\ y.cleared = tx.cleared
        /\ y.dirty = (tx.dirty \/ large)
    BY <1>6, <1>21, <2>2, <2>3 DEF Txs
  <2> QED  BY <2>4, <1>10
<1>23. PICK t : t = g.tid
  OBVIOUS
<1>24. PICK rest : rest = tx.touched \ {n}
  OBVIOUS
<1>25. PICK r : r = Rec("CREATE", n)
  OBVIOUS
<1>26. r \in Changes /\ r \in Records /\ Changing(r, "CREATE", n) /\ r.tid = t
  BY <1>3, <1>6, <1>23, <1>25, RecIs DEF Changing
<1>27. CreateStage(Log, buf, ckpt, F, tx.col, seq, t, tx.touched, n)
  BY <1>6, <1>20, <1>23 DEF CreateStage
<1>28. Writing(LogList, Log, z, ckpt, F2, col, d2, seq, t, y.touched)
  <2>1. CASE large
    <3>1. PICK u : u = Use(b, n)
      OBVIOUS
    <3>2. b \in Bids
      BY <1>13 DEF MayMark
    <3>3. u \in Changes /\ u \in Records /\ u.flag = "USE" /\ u.tid = g.tid /\ u.name = n /\ u.bid = b
      BY <1>3, <1>6, <3>1, <3>2, UseIs
    <3>4. z = buf \o <<u>>
      BY <1>1, <1>3, <1>7, <1>17, <2>1, <3>1 DEF Write
    <3>5. Adds(z, buf, u)
      BY <1>6, <3>3, <3>4, AddsOne
    <3>6. v = g.tid
      BY <1>10, <2>1
    <3>7. UseStage(ckpt, g, F, F2, tx.col, seq, tx.touched, n, b, x, h, Log, buf, u, z)
      BY <1>6, <1>13, <1>14, <3>3, <3>5, <3>6 DEF UseStage
    <3>8. Writing(LogList, Log, z, ckpt, F2, col, With(tx.col, n, x), seq, g.tid, tx.touched \cup {n})
      BY <3>7, UseStaged
    <3> QED  BY <1>18, <1>22, <1>23, <3>8, Zenon
  <2>2. CASE ~large /\ ~filled
    <3>1. z = buf \o <<r>> /\ x = <<>> /\ F2 = F
      BY <1>1, <1>3, <1>7, <1>8, <1>10, <1>16, <1>17, <1>25, <2>2 DEF Write
    <3>2. Adds(z, buf, r)
      BY <1>6, <1>26, <3>1, AddsOne
    <3>3. Writing(LogList, Log, z, ckpt, F, col, d2, seq, t, rest)
      BY <1>18, <1>24, <1>26, <1>27, <3>1, <3>2, CreateStaged
    <3>4. rest \subseteq y.touched
      BY <1>22, <1>24
    <3> QED  BY <3>1, <3>3, <3>4, AwaitsTouched
  <2>3. CASE ~large /\ filled
    <3>1. PICK u : u = Rec("INSERT", n)
      OBVIOUS
    <3>2. u \in Records /\ Rewriting(u, n) /\ u.flag = "INSERT" /\ u.tid = t /\ u.row = ntx
      BY <1>3, <1>6, <1>23, <3>1, RecIs DEF Rewriting
    <3>3. z = buf \o <<r, u>> /\ x = <<ntx>> /\ F2 = F
      BY <1>1, <1>3, <1>7, <1>8, <1>10, <1>16, <1>17, <1>25, <2>3, <3>1 DEF Write
    <3>4. PICK p : Adds(p, buf, r) /\ Adds(z, p, u)
      BY <1>6, <1>26, <3>2, <3>3, AddsTwo
    <3>5. Writing(LogList, Log, z, ckpt, F, col, d2, seq, t, rest)
      BY <1>18, <1>24, <1>26, <1>27, <3>2, <3>3, <3>4, CreateRowStaged
    <3>6. rest \subseteq y.touched
      BY <1>22, <1>24
    <3> QED  BY <3>3, <3>5, <3>6, AwaitsTouched
  <2> QED  BY <2>1, <2>2, <2>3
<1>29. TxLogs(g, h, F2, y, z)
  <2>1. \A m \in Names : h.catalog[m] # 0 <=> y.col[m] # Absent
    <3>1. \A m \in Names : g.catalog[m] # 0 <=> tx.col[m] # Absent
      BY <1>5 DEF TxOpen
    <3> QED  BY <3>1, <1>9, <1>16, <1>21, <1>22
  <2>2. \A m \in Names : h.catalog[m] # 0 => h.snaps[h.catalog[m]] <= h.tid
    BY <1>5, <1>15 DEF TxOpen, MarkLeaves
  <2>3. \A m \in Names \ y.touched :
           y.col[m] = col[m] /\ (h.catalog[m] # 0 => h.snaps[h.catalog[m]] < h.tid)
    BY <1>5, <1>15, <1>21, <1>22 DEF TxOpen, MarkLeaves
  <2>4. ~y.dirty => F2.bats = ckpt.bats
    BY <1>5, <1>16, <1>22 DEF TxOpen
  <2>5. \A i \in 1 .. Len(y.cleared) : y.cleared[i] \in y.touched /\ y.col[y.cleared[i]] # Absent
    BY <1>5, <1>9, <1>20, <1>21, <1>22 DEF TxOpen
  <2> QED  BY <1>16, <1>22, <1>23, <1>28, <2>1, <2>2, <2>3, <2>4, <2>5 DEF TxLogs
<1> QED  BY <1>2, <1>3, <1>11, <1>17, <1>19, <1>29, TxKeeps

-----------------------------------------------------------------------------
(***************************************************************************)
(* A changed column: each of the three records is written or not.          *)
(***************************************************************************)
MaybeAdds(z, b, on, r) == (on => Adds(z, b, r)) /\ (~on => z = b)

LEMMA MaybeOne ==
  ASSUME NEW b \in Seq(Records), NEW r \in Records, NEW on \in BOOLEAN,
         NEW A, A = IF on THEN <<r>> ELSE <<>>, NEW z, z = b \o A
  PROVE  MaybeAdds(z, b, on, r) /\ z \in Seq(Records) /\ A \in Seq(Records)
<1>1. CASE on
  <2>1. z = b \o <<r>> /\ A \in Seq(Records)
    BY <1>1
  <2>2. Adds(z, b, r) /\ z \in Seq(Records)
    BY <2>1, AddsOne
  <2> QED  BY <1>1, <2>1, <2>2 DEF MaybeAdds
<1>2. CASE ~on
  <2>1. A = <<>>
    BY <1>2
  <2>2. b \o <<>> = b /\ <<>> \in Seq(Records)
    OBVIOUS
  <2>3. z = b
    BY <2>1, <2>2, Zenon
  <2> QED  BY <1>2, <2>1, <2>2, <2>3 DEF MaybeAdds
<1> QED  BY <1>1, <1>2

Groups(b, e, c) == b \o (e \o c) = (b \o e) \o c

LEMMA Grouped ==
  ASSUME NEW b \in Seq(Records), NEW e \in Seq(Records), NEW c \in Seq(Records)
  PROVE  Groups(b, e, c)
BY ConcatAssociative, SMTT(60) DEF Groups

Three(b, A, B, C, z, p, q, y) ==
    /\ b \in Seq(Records) /\ A \in Seq(Records) /\ B \in Seq(Records) /\ C \in Seq(Records)
    /\ z = b \o ((A \o B) \o C) /\ p = b \o A /\ q = p \o B /\ y = q \o C

LEMMA ThreeParts ==
  ASSUME NEW b, NEW A, NEW B, NEW C, NEW z, NEW p, NEW q, NEW y, Three(b, A, B, C, z, p, q, y)
  PROVE  z = y
<1>1. b \in Seq(Records) /\ A \in Seq(Records) /\ B \in Seq(Records) /\ C \in Seq(Records)
  BY Zenon DEF Three
<1>2. PICK e : e = A \o B
  OBVIOUS
<1>3. e \in Seq(Records)
  BY <1>1, <1>2
<1>4. Groups(b, A, B) /\ Groups(b, e, C)
  BY <1>1, <1>3, Grouped, Zenon
<1>5. z = b \o (e \o C) /\ p = b \o A /\ q = p \o B /\ y = q \o C
  BY <1>2, Zenon DEF Three
<1>6. b \o e = q
  BY <1>2, <1>4, <1>5, Zenon DEF Groups
<1>7. z = (b \o e) \o C
  BY <1>4, <1>5, Zenon DEF Groups
<1> QED  BY <1>5, <1>6, <1>7, Zenon

MayThree(b, r, u, w, i, j, k, A, B, C, z) ==
    /\ b \in Seq(Records) /\ r \in Records /\ u \in Records /\ w \in Records
    /\ i \in BOOLEAN /\ j \in BOOLEAN /\ k \in BOOLEAN
    /\ A = (IF i THEN <<r>> ELSE <<>>) /\ B = (IF j THEN <<u>> ELSE <<>>) /\ C = (IF k THEN <<w>> ELSE <<>>)
    /\ z = b \o ((A \o B) \o C)

LEMMA MaybeThree ==
  ASSUME NEW b, NEW r, NEW u, NEW w, NEW i, NEW j, NEW k, NEW A, NEW B, NEW C, NEW z,
         MayThree(b, r, u, w, i, j, k, A, B, C, z)
  PROVE  \E p, q : MaybeAdds(p, b, i, r) /\ MaybeAdds(q, p, j, u) /\ MaybeAdds(z, q, k, w)
<1>0. /\ b \in Seq(Records) /\ r \in Records /\ u \in Records /\ w \in Records
      /\ i \in BOOLEAN /\ j \in BOOLEAN /\ k \in BOOLEAN
      /\ A = (IF i THEN <<r>> ELSE <<>>) /\ B = (IF j THEN <<u>> ELSE <<>>)
      /\ C = (IF k THEN <<w>> ELSE <<>>) /\ z = b \o ((A \o B) \o C)
  BY Zenon DEF MayThree
<1>1. PICK p : p = b \o A
  OBVIOUS
<1>2. MaybeAdds(p, b, i, r) /\ p \in Seq(Records) /\ A \in Seq(Records)
  BY <1>0, <1>1, MaybeOne
<1>3. PICK q : q = p \o B
  OBVIOUS
<1>4. MaybeAdds(q, p, j, u) /\ q \in Seq(Records) /\ B \in Seq(Records)
  BY <1>0, <1>2, <1>3, MaybeOne
<1>5. PICK y : y = q \o C
  OBVIOUS
<1>6. MaybeAdds(y, q, k, w) /\ C \in Seq(Records)
  BY <1>0, <1>4, <1>5, MaybeOne
<1>7. Three(b, A, B, C, z, p, q, y)
  BY <1>0, <1>1, <1>2, <1>3, <1>4, <1>5, <1>6, Zenon DEF Three
<1>8. z = y
  BY <1>7, ThreeParts, Zenon
<1> QED  BY <1>2, <1>4, <1>6, <1>8, Zenon

MaybeRow(id, q, b, F, Fu, c, d, s, t, touched, n, on, r, z) ==
    /\ Writing(id, q, b, F, Fu, c, d, s, t, touched)
    /\ n \in Names /\ n \notin touched /\ c[n] # Absent /\ Extends(Fu, F) /\ t # 0
    /\ d \in [Names -> Cells] /\ d[n] \in Contents
    /\ on => Rewriting(r, n) /\ r.tid = t
    /\ MaybeAdds(z, b, on, r)

LEMMA MaybeStaged ==
  ASSUME NEW id, NEW q, NEW b, NEW F, NEW Fu, NEW c, NEW d, NEW s, NEW t, NEW touched,
         NEW n, NEW on \in BOOLEAN, NEW r, NEW z,
         MaybeRow(id, q, b, F, Fu, c, d, s, t, touched, n, on, r, z),
         NEW x, x = IF on THEN Rewritten(r, d[n]) ELSE d[n]
  PROVE  Writing(id, q, z, F, Fu, c, With(d, n, x), s, t, touched) /\ x \in Contents
<1> USE DEF MaybeRow
<1>1. d[n] # Absent /\ d[n] \in Cells
  BY AbsentIs DEF Cells
<1>2. CASE on
  <2>1. Typable(id, q \o b, F, n)
    BY TypableColumn DEF Writing
  <2>2. RowStage(id, q, b, F, Fu, c, d, s, t, touched, n, r, z)
    BY <1>1, <1>2, <2>1 DEF RowStage, MaybeAdds
  <2>3. Writing(id, q, z, F, Fu, c, With(d, n, Rewritten(r, d[n])), s, t, touched)
    BY <2>2, RowStaged
  <2>4. x \in Contents
    BY <1>2, RewrittenType
  <2> QED  BY <1>2, <2>3, <2>4
<1>3. CASE ~on
  <2>1. z = b /\ x = d[n] /\ With(d, n, x) = d
    BY <1>1, <1>3, WithType DEF MaybeAdds
  <2> QED  BY <2>1
<1> QED  BY <1>2, <1>3

(* A change that leaves the catalog as it is.                              *)
LEMMA ChangesKept ==
  ASSUME NEW K, NEW g, NEW F, Marked(K, g, F), NEW h, h = [g EXCEPT !.changes = TRUE]
  PROVE  Marked(K, h, F) /\ Same(h, g) /\ h.catalog = g.catalog /\ h.snaps = g.snaps /\ h.tid = g.tid
<1>1. g \in Loggers /\ F = Saved(K, g) /\ Sound(g, F)
  BY DEF Marked, Sound
<1>2. /\ h \in Loggers /\ h.catalog = g.catalog /\ h.old = g.old /\ h.bats = g.bats /\ h.snaps = g.snaps
      /\ h.freed = g.freed /\ h.tid = g.tid
  BY <1>1 DEF Loggers
<1>3. Same(h, g)
  BY <1>1 DEF Loggers, Same
<1>4. Sound(h, F)
  BY <1>1, <1>2 DEF Sound
<1>5. Saved(K, h) = F
  BY <1>1, <1>2 DEF Saved
<1> QED  BY <1>2, <1>3, <1>4, <1>5 DEF Marked

(* One of these records, when the transaction is being logged.             *)
DeltaRow(g, F, n, p, x, on, r, q, y) ==
    /\ TxOpen(g, F) /\ n \in Names /\ n \notin tx.touched /\ tx.col[n] # Absent /\ on \in BOOLEAN
    /\ Writing(LogList, Log, p, ckpt, F, col, With(tx.col, n, x), seq, g.tid, tx.touched)
    /\ x \in Contents /\ MaybeAdds(q, p, on, r)
    /\ on => Rewriting(r, n) /\ r.tid = g.tid
    /\ y = IF on THEN Rewritten(r, x) ELSE x

LEMMA DeltaRowed ==
  ASSUME NEW g, NEW F, NEW n, NEW p, NEW x, NEW on, NEW r, NEW q, NEW y,
         DeltaRow(g, F, n, p, x, on, r, q, y)
  PROVE  /\ Writing(LogList, Log, q, ckpt, F, col, With(tx.col, n, y), seq, g.tid, tx.touched)
         /\ y \in Contents
<1> USE DEF DeltaRow
<1>1. /\ tx.col \in [Names -> Cells] /\ col[n] # Absent /\ g.tid # 0 /\ Extends(F, ckpt) /\ x \in Cells
  BY DEF TxOpen, Marked, Txs, Cells
<1>2. PICK d : d = With(tx.col, n, x)
  OBVIOUS
<1>3. d \in [Names -> Cells] /\ d[n] = x /\ \A w : With(d, n, w) = With(tx.col, n, w)
  BY <1>1, <1>2, WithType
<1>4. MaybeRow(LogList, Log, p, ckpt, F, col, d, seq, g.tid, tx.touched, n, on, r, q)
  BY <1>1, <1>2, <1>3 DEF MaybeRow
<1>5. y = IF on THEN Rewritten(r, d[n]) ELSE d[n]
  BY <1>3
<1>6. Writing(LogList, Log, q, ckpt, F, col, With(d, n, y), seq, g.tid, tx.touched) /\ y \in Contents
  BY <1>4, <1>5, MaybeStaged
<1> QED  BY <1>3, <1>6

(* What the new tx is.                                                     *)
DeltaTx(n, x, on, snapshot, y) ==
    /\ y \in Txs /\ y.touched = tx.touched \cup {n} /\ y.col = With(tx.col, n, x)
    /\ ~y.dirty => ~tx.dirty /\ ~snapshot
    /\ \A i \in 1 .. Len(y.cleared) : y.cleared[i] \in y.touched /\ y.col[y.cleared[i]] # Absent

LEMMA DeltaTxIs ==
  ASSUME tx \in Txs, \A i \in 1 .. Len(tx.cleared) : tx.cleared[i] \in tx.touched /\ tx.col[tx.cleared[i]] # Absent,
         NEW n \in Names, NEW x \in Contents, NEW on \in BOOLEAN, NEW snapshot \in BOOLEAN,
         NEW y, y = [tx EXCEPT !.touched = @ \cup {n},
                               !.cleared = IF on /\ ~snapshot THEN Append(@, n) ELSE @,
                               !.col[n] = x, !.dirty = @ \/ snapshot]
  PROVE  DeltaTx(n, x, on, snapshot, y)
<1>1. /\ tx.col \in [Names -> Cells] /\ tx.touched \in SUBSET Names /\ tx.dirty \in BOOLEAN
      /\ tx.cleared \in Seq(Names)
  BY DEF Txs
<1>2. x \in Cells /\ x # Absent
  BY AbsentIs DEF Cells
<1>3. PICK d : d = With(tx.col, n, x)
  OBVIOUS
<1>4. PICK cl : cl = IF on /\ ~snapshot THEN Append(tx.cleared, n) ELSE tx.cleared
  OBVIOUS
<1>5. /\ d \in [Names -> Cells] /\ \A m \in Names : d[m] = IF m = n THEN x ELSE tx.col[m]
  <2>1. tx.col \in [Names -> Cells] /\ x \in Cells /\ n \in Names
    BY <1>1, <1>2, Zenon
  <2>2. PICK c : c = tx.col
    OBVIOUS
  <2>3. With(c, n, x) \in [Names -> Cells] /\ \A m \in Names : With(c, n, x)[m] = IF m = n THEN x ELSE c[m]
    BY <2>1, <2>2, WithType
  <2> QED  BY <2>2, <2>3, <1>3, Zenon
<1>6. cl \in Seq(Names)
  BY <1>1, <1>4
<1>7. \A i \in 1 .. Len(cl) : cl[i] = n \/ (i \in 1 .. Len(tx.cleared) /\ cl[i] = tx.cleared[i])
  BY <1>1, <1>4
<1>8. y = [tx EXCEPT !.touched = tx.touched \cup {n}, !.cleared = cl, !.col = d, !.dirty = tx.dirty \/ snapshot]
  BY <1>1, <1>3, <1>4 DEF Txs, With
<1>9. (tx.dirty \/ snapshot) \in BOOLEAN /\ tx.touched \cup {n} \in SUBSET Names
  BY <1>1
<1>10. y \in Txs /\ y.touched = tx.touched \cup {n} /\ y.col = d /\ y.cleared = cl
       /\ y.dirty = (tx.dirty \/ snapshot)
  BY <1>5, <1>6, <1>8, <1>9, ZenonT(60) DEF Txs
<1>11. \A i \in 1 .. Len(cl) : cl[i] \in tx.touched \cup {n} /\ d[cl[i]] # Absent
  BY <1>1, <1>2, <1>5, <1>6, <1>7
<1> QED  BY <1>3, <1>10, <1>11 DEF DeltaTx

(* The step.                                                               *)
Deltas(g, n, x1, x2, x3, cleared, inserted, updated, snapshot, h, z, y) ==
    /\ snapshot => inserted /\ ~updated
    /\ x1 = (IF cleared THEN <<>> ELSE col[n])
    /\ x2 = (IF inserted THEN InsertRow(x1, ntx) ELSE x1)
    /\ x3 = (IF updated THEN UpdateRow(x2, ntx) ELSE x2)
    /\ h = (IF snapshot THEN Snapshot(g, NewBid(g), n, x2) ELSE [g EXCEPT !.changes = TRUE])
    /\ z = buf \o (((IF cleared THEN <<Rec("CLEAR", n)>> ELSE <<>>) \o
                    (IF inserted THEN <<IF snapshot THEN Use(NewBid(g), n) ELSE Rec("INSERT", n)>> ELSE <<>>)) \o
                   (IF updated THEN <<Rec("UPDATE", n)>> ELSE <<>>))
    /\ y = [tx EXCEPT !.touched = @ \cup {n},
                      !.cleared = IF cleared /\ ~snapshot THEN Append(@, n) ELSE @,
                      !.col[n] = x3, !.dirty = @ \/ snapshot]

LEMMA DeltaSteps ==
  ASSUME NEW n, tr_log_delta(n), NEW g, g = lg
  PROVE  \E cleared, inserted, updated, snapshot \in BOOLEAN : \E x1, x2, x3 :
            Deltas(g, n, x1, x2, x3, cleared, inserted, updated, snapshot, lg', buf', tx')
<1>1. PICK cleared, inserted, updated, large \in BOOLEAN :
         LET base == IF cleared THEN <<>> ELSE lg.bats[lg.catalog[n]]
             snapshot == inserted /\ large /\ tx.alone /\ base = <<>>
             ins == IF inserted THEN InsertRow(IF cleared THEN <<>> ELSE col[n], ntx)
                    ELSE IF cleared THEN <<>> ELSE col[n]
             b == NewBid(lg)
         IN  /\ cleared \/ inserted \/ updated
             /\ large => snapshot
             /\ updated => base # <<>>
             /\ lg' = IF snapshot THEN Snapshot(lg, b, n, ins)
                      ELSE [lg EXCEPT !.changes = TRUE]
             /\ Write((IF cleared THEN <<Rec("CLEAR", n)>> ELSE <<>>) \o
                      (IF snapshot THEN <<Use(b, n)>>
                       ELSE IF inserted THEN <<Rec("INSERT", n)>> ELSE <<>>) \o
                      (IF updated THEN <<Rec("UPDATE", n)>> ELSE <<>>))
             /\ tx' = [tx EXCEPT !.touched = @ \cup {n},
                                 !.cleared = IF cleared /\ ~snapshot THEN Append(@, n) ELSE @,
                                 !.col[n] = IF updated THEN UpdateRow(ins, ntx) ELSE ins,
                                 !.dirty = @ \/ snapshot]
  BY ZenonT(60) DEF tr_log_delta
<1>2. PICK base : base = IF cleared THEN <<>> ELSE lg.bats[lg.catalog[n]]
  OBVIOUS
<1>3. PICK snapshot : snapshot = (inserted /\ large /\ tx.alone /\ base = <<>>)
  OBVIOUS
<1>4. PICK x1 : x1 = IF cleared THEN <<>> ELSE col[n]
  OBVIOUS
<1>5. PICK x2 : x2 = IF inserted THEN InsertRow(x1, ntx) ELSE x1
  OBVIOUS
<1>6. PICK x3 : x3 = IF updated THEN UpdateRow(x2, ntx) ELSE x2
  OBVIOUS
<1>7. /\ updated => base # <<>>
      /\ lg' = IF snapshot THEN Snapshot(lg, NewBid(lg), n, x2) ELSE [lg EXCEPT !.changes = TRUE]
      /\ Write((IF cleared THEN <<Rec("CLEAR", n)>> ELSE <<>>) \o
               (IF snapshot THEN <<Use(NewBid(lg), n)>>
                ELSE IF inserted THEN <<Rec("INSERT", n)>> ELSE <<>>) \o
               (IF updated THEN <<Rec("UPDATE", n)>> ELSE <<>>))
      /\ tx' = [tx EXCEPT !.touched = @ \cup {n},
                          !.cleared = IF cleared /\ ~snapshot THEN Append(@, n) ELSE @,
                          !.col[n] = x3, !.dirty = @ \/ snapshot]
  BY <1>1, <1>2, <1>3, <1>4, <1>5, <1>6
<1>8. snapshot \in BOOLEAN /\ (snapshot => inserted /\ base = <<>>)
  BY <1>3
<1>9. (snapshot => inserted /\ ~updated)
  BY <1>7, <1>8
<1>10. PICK B : B = IF snapshot THEN <<Use(NewBid(g), n)>>
                    ELSE IF inserted THEN <<Rec("INSERT", n)>> ELSE <<>>
  OBVIOUS
<1>11. B = IF inserted THEN <<IF snapshot THEN Use(NewBid(g), n) ELSE Rec("INSERT", n)>> ELSE <<>>
  BY <1>8, <1>10
<1>12. buf' = buf \o (((IF cleared THEN <<Rec("CLEAR", n)>> ELSE <<>>) \o B) \o
                      (IF updated THEN <<Rec("UPDATE", n)>> ELSE <<>>))
  BY <1>7, <1>10, Zenon DEF Write
<1>13. Deltas(g, n, x1, x2, x3, cleared, inserted, updated, snapshot, lg', buf', tx')
  BY <1>4, <1>5, <1>6, <1>7, <1>9, <1>11, <1>12, Zenon DEF Deltas
<1> QED  BY <1>8, <1>13

LEMMA InsertType ==
  ASSUME NEW x \in Contents, NEW v \in 1 .. MaxTx
  PROVE  Append(x, v) \in Contents
BY DEF Contents

LEMMA LogDeltaStep ==
  ASSUME IInv, NEW n \in Names, tr_log_delta(n)
  PROVE  IInv'
<1>1. TxFrame /\ n \notin tx.touched /\ tx.col[n] # Absent /\ FreeBids(lg) # {}
  BY DEF tr_log_delta, TxFrame
<1>2. PICK g : g = lg
  OBVIOUS
<1>3. PICK F : F = Saved(ckpt, g)
  OBVIOUS
<1>4. TxOpen(g, F)
  BY <1>1, <1>2, <1>3, TxFacts DEF TxFrame
<1>5. /\ Marked(ckpt, g, F) /\ g \in Loggers /\ g.tid \in Tids /\ g.tid # 0 /\ g.tid >= 1 /\ ntx \in 1 .. MaxTx
      /\ tx \in Txs /\ buf \in Seq(Records) /\ Extends(F, ckpt)
      /\ Writing(LogList, Log, buf, ckpt, F, col, tx.col, seq, g.tid, tx.touched)
      /\ tx.col[n] = col[n] /\ g.catalog[n] # 0 /\ g.snaps[g.catalog[n]] < g.tid
      /\ \A i \in 1 .. Len(tx.cleared) : tx.cleared[i] \in tx.touched /\ tx.col[tx.cleared[i]] # Absent
  BY <1>1, <1>4 DEF TxOpen, Marked
<1>6. PICK h : h = lg'
  OBVIOUS
<1>7. PICK z : z = buf'
  OBVIOUS
<1>8. PICK y : y = tx'
  OBVIOUS
<1>9. PICK cleared, inserted, updated, snapshot \in BOOLEAN :
        \E x1, x2, x3 : Deltas(g, n, x1, x2, x3, cleared, inserted, updated, snapshot, h, z, y)
  BY <1>2, <1>6, <1>7, <1>8, DeltaSteps
<1>10. PICK x1, x2, x3 : Deltas(g, n, x1, x2, x3, cleared, inserted, updated, snapshot, h, z, y)
  BY <1>9
<1>11. PICK b : b = NewBid(g)
  OBVIOUS
<1>12. b \in Bids
  BY <1>1, <1>2, <1>11, NewBidIn
<1>13. PICK r : r = Rec("CLEAR", n)
  OBVIOUS
<1>14. PICK u : u = IF snapshot THEN Use(b, n) ELSE Rec("INSERT", n)
  OBVIOUS
<1>15. PICK w : w = Rec("UPDATE", n)
  OBVIOUS
<1>16. /\ r \in Records /\ Rewriting(r, n) /\ r.tid = g.tid /\ r.flag = "CLEAR"
       /\ w \in Records /\ Rewriting(w, n) /\ w.tid = g.tid /\ w.flag = "UPDATE" /\ w.row = ntx
  BY <1>2, <1>5, <1>13, <1>15, RecIs DEF Rewriting
<1>17. ~snapshot => u \in Records /\ Rewriting(u, n) /\ u.tid = g.tid /\ u.flag = "INSERT" /\ u.row = ntx
  BY <1>2, <1>5, <1>14, RecIs DEF Rewriting
<1>18. snapshot => /\ u \in Records /\ u \in Changes /\ u.flag = "USE" /\ u.tid = g.tid
                   /\ u.name = n /\ u.bid = b
  BY <1>2, <1>5, <1>12, <1>14, UseIs
<1>19. /\ snapshot => inserted /\ ~updated
       /\ x1 = (IF cleared THEN <<>> ELSE col[n])
       /\ x2 = (IF inserted THEN InsertRow(x1, ntx) ELSE x1)
       /\ x3 = (IF updated THEN UpdateRow(x2, ntx) ELSE x2)
  BY <1>10 DEF Deltas
<1>20. h = (IF snapshot THEN Snapshot(g, b, n, x2) ELSE [g EXCEPT !.changes = TRUE])
  BY <1>10, <1>11, Zenon DEF Deltas
<1>21. PICK p, q : MaybeAdds(p, buf, cleared, r) /\ MaybeAdds(q, p, inserted, u) /\ MaybeAdds(z, q, updated, w)
  <2>1. PICK A : A = IF cleared THEN <<r>> ELSE <<>>
    OBVIOUS
  <2>2. PICK B : B = IF inserted THEN <<u>> ELSE <<>>
    OBVIOUS
  <2>3. PICK C : C = IF updated THEN <<w>> ELSE <<>>
    OBVIOUS
  <2>4. z = buf \o ((A \o B) \o C)
    BY <1>10, <1>11, <1>13, <1>14, <1>15, <2>1, <2>2, <2>3, Zenon DEF Deltas
  <2>5. r \in Records /\ u \in Records /\ w \in Records /\ buf \in Seq(Records)
    BY <1>5, <1>16, <1>17, <1>18
  <2>6. MayThree(buf, r, u, w, cleared, inserted, updated, A, B, C, z)
    BY <2>1, <2>2, <2>3, <2>4, <2>5, Zenon DEF MayThree
  <2> QED  BY <2>6, MaybeThree
<1>22. /\ Writing(LogList, Log, p, ckpt, F, col, With(tx.col, n, x1), seq, g.tid, tx.touched)
       /\ x1 \in Contents
  <2>1. tx.col \in [Names -> Cells] /\ col[n] \in Cells /\ col[n] \in Contents
    BY <1>1, <1>5 DEF Txs, Cells
  <2>2. With(tx.col, n, col[n]) = tx.col
    BY <1>5, <2>1, WithType
  <2>3. Writing(LogList, Log, buf, ckpt, F, col, With(tx.col, n, col[n]), seq, g.tid, tx.touched)
    BY <1>5, <2>2
  <2>4. Rewritten(r, col[n]) = <<>>
    BY <1>16 DEF Rewritten
  <2>5. x1 = IF cleared THEN Rewritten(r, col[n]) ELSE col[n]
    BY <1>19, <2>4
  <2>6. DeltaRow(g, F, n, buf, col[n], cleared, r, p, x1)
    BY <1>1, <1>4, <1>16, <1>21, <2>1, <2>3, <2>5 DEF DeltaRow
  <2> QED  BY <2>6, DeltaRowed
<1>23. x3 \in Contents /\ x2 \in Contents
  <2>1. <<>> \in Contents /\ ntx \in 1 .. MaxTx
    BY <1>5 DEF Contents
  <2>2. x2 \in Contents
    <3>1. Append(x1, ntx) \in Contents
      BY <1>22, <2>1, InsertType
    <3> QED  BY <1>19, <1>22, <3>1, Zenon DEF InsertRow
  <2>3. UpdateRow(x2, ntx) \in Contents
    <3>1. Rewritten(w, x2) = UpdateRow(x2, ntx)
      BY <1>16 DEF Rewritten
    <3>2. Rewritten(w, x2) \in Contents
      BY <1>16, <2>2, RewrittenType
    <3> QED  BY <3>1, <3>2, Zenon
  <2> QED  BY <1>19, <2>2, <2>3
<1>24. DeltaTx(n, x3, cleared, snapshot, y)
  <2>1. y = [tx EXCEPT !.touched = @ \cup {n},
                       !.cleared = IF cleared /\ ~snapshot THEN Append(@, n) ELSE @,
                       !.col[n] = x3, !.dirty = @ \/ snapshot]
    BY <1>10, Zenon DEF Deltas
  <2> QED  BY <1>5, <1>23, <2>1, DeltaTxIs
<1>25. /\ y \in Txs /\ y.touched = tx.touched \cup {n} /\ y.col = With(tx.col, n, x3)
       /\ ~y.dirty => ~tx.dirty /\ ~snapshot
       /\ \A i \in 1 .. Len(y.cleared) : y.cleared[i] \in y.touched /\ y.col[y.cleared[i]] # Absent
  BY <1>24 DEF DeltaTx
<1>26. \E F2 : /\ Marked(ckpt, h, F2) /\ Same(h, g) /\ (~snapshot => F2 = F)
               /\ Writing(LogList, Log, z, ckpt, F2, col, y.col, seq, g.tid, y.touched)
               /\ \A m \in Names : h.catalog[m] # 0 <=> g.catalog[m] # 0
               /\ \A m \in Names : h.catalog[m] # 0 => h.snaps[h.catalog[m]] <= h.tid
               /\ \A m \in Names \ y.touched : h.catalog[m] # 0 => h.snaps[h.catalog[m]] < h.tid
  <2>1. CASE snapshot
    <3>1. MayAdd(ckpt, g, F, n, x2, b)
      BY <1>1, <1>2, <1>5, <1>11, <1>23 DEF MayAdd
    <3>2. MayMark(ckpt, g, F, b, n, x2, g.tid, h)
      BY <1>20, <2>1, <3>1, NewBatEnters
    <3>3. PICK F2 : F2 = Saved(ckpt, h)
      OBVIOUS
    <3>4. HasMarked(ckpt, g, F, b, n, x2, g.tid, h, F2) /\ MarkLeaves(g, b, n, g.tid, h)
      BY <3>2, <3>3, MarkEnters, MarkKeeps
    <3>5. /\ Marked(ckpt, h, F2) /\ Same(h, g) /\ h.tid = g.tid /\ b # 0
          /\ \A m \in Names : h.catalog[m] = IF m = n THEN b ELSE g.catalog[m]
      BY <3>4 DEF HasMarked, MarkLeaves, Same
    <3>6. Adds(q, p, u) /\ z = q /\ x3 = x2
      BY <1>19, <1>21, <2>1 DEF MaybeAdds
    <3>7. PICK d : d = With(tx.col, n, x1)
      OBVIOUS
    <3>8. UseStage(ckpt, g, F, F2, d, seq, tx.touched, n, b, x2, h, Log, p, u, q)
      BY <1>18, <1>22, <2>1, <3>2, <3>3, <3>6, <3>7 DEF UseStage
    <3>9. Writing(LogList, Log, q, ckpt, F2, col, With(d, n, x2), seq, g.tid, tx.touched \cup {n})
      BY <3>8, UseStaged
    <3>10. With(d, n, x2) = With(tx.col, n, x3)
      <4>1. tx.col \in [Names -> Cells] /\ x1 \in Cells
        BY <1>5, <1>22 DEF Txs, Cells
      <4> QED  BY <3>6, <3>7, <4>1, WithType
    <3>11. Writing(LogList, Log, z, ckpt, F2, col, y.col, seq, g.tid, y.touched)
      BY <1>25, <3>6, <3>9, <3>10, Zenon
    <3>12. \A m \in Names : h.catalog[m] # 0 <=> g.catalog[m] # 0
      BY <1>5, <3>5
    <3>13. \A m \in Names : h.catalog[m] # 0 => h.snaps[h.catalog[m]] <= h.tid
      BY <1>4, <3>4 DEF TxOpen, MarkLeaves
    <3>14. \A m \in Names \ y.touched : h.catalog[m] # 0 => h.snaps[h.catalog[m]] < h.tid
      BY <1>4, <1>25, <3>4 DEF TxOpen, MarkLeaves
    <3> QED  BY <2>1, <3>5, <3>11, <3>12, <3>13, <3>14
  <2>2. CASE ~snapshot
    <3>1. h = [g EXCEPT !.changes = TRUE]
      BY <1>20, <2>2
    <3>2. Marked(ckpt, h, F) /\ Same(h, g) /\ h.catalog = g.catalog /\ h.snaps = g.snaps /\ h.tid = g.tid
      BY <1>5, <3>1, ChangesKept
    <3>3. Writing(LogList, Log, q, ckpt, F, col, With(tx.col, n, x2), seq, g.tid, tx.touched)
      <4>1. x2 = IF inserted THEN Rewritten(u, x1) ELSE x1
        BY <1>17, <1>19, <2>2 DEF Rewritten
      <4>2. DeltaRow(g, F, n, p, x1, inserted, u, q, x2)
        BY <1>1, <1>4, <1>17, <1>21, <1>22, <2>2, <4>1 DEF DeltaRow
      <4> QED  BY <4>2, DeltaRowed
    <3>4. Writing(LogList, Log, z, ckpt, F, col, With(tx.col, n, x3), seq, g.tid, tx.touched)
      <4>1. x3 = IF updated THEN Rewritten(w, x2) ELSE x2
        BY <1>16, <1>19 DEF Rewritten
      <4>2. DeltaRow(g, F, n, q, x2, updated, w, z, x3)
        BY <1>1, <1>4, <1>16, <1>21, <1>23, <3>3, <4>1 DEF DeltaRow
      <4> QED  BY <4>2, DeltaRowed
    <3>5. Writing(LogList, Log, z, ckpt, F, col, y.col, seq, g.tid, y.touched)
      <4>1. Writing(LogList, Log, z, ckpt, F, col, y.col, seq, g.tid, tx.touched)
        BY <1>25, <3>4, Zenon
      <4>2. tx.touched \subseteq y.touched
        BY <1>25
      <4> QED  BY <4>1, <4>2, AwaitsTouched
    <3>6. \A m \in Names : h.catalog[m] # 0 => h.snaps[h.catalog[m]] <= h.tid
      BY <1>4, <3>2 DEF TxOpen
    <3>7. \A m \in Names \ y.touched : h.catalog[m] # 0 => h.snaps[h.catalog[m]] < h.tid
      BY <1>4, <1>25, <3>2 DEF TxOpen
    <3> QED  BY <3>2, <3>5, <3>6, <3>7
  <2> QED  BY <2>1, <2>2
<1>27. PICK F2 : /\ Marked(ckpt, h, F2) /\ Same(h, g) /\ (~snapshot => F2 = F)
                 /\ Writing(LogList, Log, z, ckpt, F2, col, y.col, seq, g.tid, y.touched)
                 /\ \A m \in Names : h.catalog[m] # 0 <=> g.catalog[m] # 0
                 /\ \A m \in Names : h.catalog[m] # 0 => h.snaps[h.catalog[m]] <= h.tid
                 /\ \A m \in Names \ y.touched : h.catalog[m] # 0 => h.snaps[h.catalog[m]] < h.tid
  BY <1>26
<1>28. TxLogs(g, h, F2, y, z)
  <2>1. /\ x3 \in Cells /\ x3 # Absent /\ tx.col \in [Names -> Cells]
    BY <1>5, <1>23, AbsentIs DEF Cells, Txs
  <2>2. \A m \in Names : y.col[m] = IF m = n THEN x3 ELSE tx.col[m]
    BY <1>25, <2>1, WithType
  <2>3. \A m \in Names : h.catalog[m] # 0 <=> y.col[m] # Absent
    <3>1. \A m \in Names : g.catalog[m] # 0 <=> tx.col[m] # Absent
      BY <1>4 DEF TxOpen
    <3> QED  BY <3>1, <1>1, <1>27, <2>1, <2>2
  <2>4. \A m \in Names \ y.touched : y.col[m] = col[m]
    BY <1>4, <1>25, <2>2 DEF TxOpen
  <2>5. ~y.dirty => F2.bats = ckpt.bats
    BY <1>4, <1>25, <1>27 DEF TxOpen
  <2>6. h.tid = g.tid
    BY <1>27 DEF Same
  <2> QED  BY <1>25, <1>27, <2>3, <2>4, <2>5, <2>6 DEF TxLogs
<1> QED  BY <1>1, <1>2, <1>6, <1>7, <1>8, <1>28, TxKeeps

-----------------------------------------------------------------------------
(***************************************************************************)
(* A dropped column.                                                       *)
(***************************************************************************)
LEMMA LogDestroyStep ==
  ASSUME IInv, NEW n \in Names, log_destroy_delta(n)
  PROVE  IInv'
<1>1. TxFrame /\ n \notin tx.touched /\ tx.col[n] # Absent
  BY DEF log_destroy_delta, TxFrame
<1>2. PICK g : g = lg
  OBVIOUS
<1>3. PICK F : F = Saved(ckpt, g)
  OBVIOUS
<1>4. TxOpen(g, F)
  BY <1>1, <1>2, <1>3, TxFacts DEF TxFrame
<1>5. /\ Marked(ckpt, g, F) /\ g \in Loggers /\ g.tid \in Tids /\ g.tid # 0 /\ ntx \in 1 .. MaxTx
      /\ tx \in Txs /\ buf \in Seq(Records) /\ Extends(F, ckpt)
      /\ Writing(LogList, Log, buf, ckpt, F, col, tx.col, seq, g.tid, tx.touched)
      /\ g.catalog[n] # 0 /\ g.snaps[g.catalog[n]] < g.tid
  BY <1>1, <1>4 DEF TxOpen, Marked
<1>6. PICK h : h = lg'
  OBVIOUS
<1>7. PICK z : z = buf'
  OBVIOUS
<1>8. PICK y : y = tx'
  OBVIOUS
<1>9. PICK r : r = Rec("DESTROY", n)
  OBVIOUS
<1>10. r \in Changes /\ r \in Records /\ Changing(r, "DESTROY", n) /\ r.tid = g.tid
  BY <1>2, <1>5, <1>9, RecIs DEF Changing
<1>11. PICK on : on = (g.snaps[g.catalog[n]] # 0)
  OBVIOUS
<1>12. /\ h = logger_del_bat([g EXCEPT !.snaps[g.catalog[n]] = IF @ # 0 THEN g.tid ELSE 0], g.catalog[n])
       /\ z = buf \o <<r>>
       /\ y = [tx EXCEPT !.touched = @ \cup {n}, !.col[n] = Absent, !.dirty = @ \/ on]
  BY <1>2, <1>6, <1>7, <1>8, <1>9, <1>11 DEF log_destroy_delta, Write
<1>13. MayDrop(ckpt, g, F, n, h)
  BY <1>5, <1>12 DEF MayDrop
<1>14. HasDropped(ckpt, g, F, n, h)
  BY <1>13, DropMarks
<1>15. /\ Marked(ckpt, h, F) /\ Same(h, g) /\ h.tid = g.tid
       /\ \A m \in Names : h.catalog[m] = IF m = n THEN 0 ELSE g.catalog[m]
       /\ \A m \in Names \ {n} : h.catalog[m] # 0 => h.snaps[h.catalog[m]] = g.snaps[g.catalog[m]]
  BY <1>14 DEF HasDropped, Same
<1>16. PICK d : d = With(tx.col, n, Absent)
  OBVIOUS
<1>17. /\ tx.col \in [Names -> Cells] /\ tx.touched \in SUBSET Names /\ tx.dirty \in BOOLEAN
       /\ tx.cleared \in Seq(Names) /\ Absent \in Cells
  BY <1>5 DEF Txs, Cells
<1>18. d \in [Names -> Cells] /\ \A m \in Names : d[m] = IF m = n THEN Absent ELSE tx.col[m]
  <2>1. PICK c : c = tx.col
    OBVIOUS
  <2>2. /\ With(c, n, Absent) \in [Names -> Cells]
        /\ \A m \in Names : With(c, n, Absent)[m] = IF m = n THEN Absent ELSE c[m]
    BY <1>17, <2>1, WithType
  <2> QED  BY <1>16, <2>1, <2>2, Zenon
<1>19. /\ y \in Txs /\ y.touched = tx.touched \cup {n} /\ y.col = d /\ y.cleared = tx.cleared
       /\ ~y.dirty => ~tx.dirty
  <2>1. PICK dirty : dirty = (tx.dirty \/ on)
    OBVIOUS
  <2>2. y = [tx EXCEPT !.touched = tx.touched \cup {n}, !.col = d, !.dirty = dirty]
    BY <1>5, <1>12, <1>16, <2>1 DEF Txs, With
  <2>3. dirty \in BOOLEAN /\ tx.touched \cup {n} \in SUBSET Names /\ (~dirty => ~tx.dirty)
    BY <1>17, <2>1
  <2> QED  BY <1>5, <1>18, <2>2, <2>3 DEF Txs
<1>20. Writing(LogList, Log, z, ckpt, F, col, y.col, seq, g.tid, y.touched)
  <2>1. Adds(z, buf, r)
    BY <1>5, <1>10, <1>12, AddsOne
  <2>2. PICK t : t = g.tid
    OBVIOUS
  <2>3. Takes(r, F, F, tx.col, d, t, tx.touched, tx.touched)
    BY <1>1, <1>10, <1>16, TakesDestroy
  <2>4. Extends(F, F)
    BY DEF Extends
  <2>5. Change(LogList, Log \o buf, ckpt, F, F, r, t)
    BY <1>5, <1>10, <2>2, <2>4 DEF Change, Changing
  <2>6. Writing(LogList, Log, z, ckpt, F, col, d, seq, t, tx.touched)
    BY <1>5, <2>1, <2>2, <2>3, <2>5, WritingChange
  <2>7. tx.touched \subseteq y.touched
    BY <1>19
  <2>8. Writing(LogList, Log, z, ckpt, F, col, d, seq, t, y.touched)
    BY <2>6, <2>7, AwaitsTouched
  <2> QED  BY <1>19, <2>2, <2>8, Zenon
<1>21. TxLogs(g, h, F, y, z)
  <2>1. \A m \in Names : h.catalog[m] # 0 <=> y.col[m] # Absent
    <3>1. \A m \in Names : g.catalog[m] # 0 <=> tx.col[m] # Absent
      BY <1>4 DEF TxOpen
    <3> QED  BY <3>1, <1>15, <1>18, <1>19
  <2>2. \A m \in Names : h.catalog[m] # 0 => h.snaps[h.catalog[m]] <= h.tid
    <3>1. \A m \in Names : g.catalog[m] # 0 => g.snaps[g.catalog[m]] <= g.tid
      BY <1>4 DEF TxOpen
    <3> QED  BY <3>1, <1>15
  <2>3. \A m \in Names \ y.touched :
           y.col[m] = col[m] /\ (h.catalog[m] # 0 => h.snaps[h.catalog[m]] < h.tid)
    <3>1. \A m \in Names \ tx.touched :
             tx.col[m] = col[m] /\ (g.catalog[m] # 0 => g.snaps[g.catalog[m]] < g.tid)
      BY <1>4 DEF TxOpen
    <3> QED  BY <3>1, <1>15, <1>18, <1>19
  <2>4. ~y.dirty => F.bats = ckpt.bats
    BY <1>4, <1>19 DEF TxOpen
  <2>5. \A i \in 1 .. Len(y.cleared) : y.cleared[i] \in y.touched /\ y.col[y.cleared[i]] # Absent
    BY <1>1, <1>4, <1>17, <1>18, <1>19 DEF TxOpen
  <2> QED  BY <1>15, <1>19, <1>20, <2>1, <2>2, <2>3, <2>4, <2>5 DEF TxLogs
<1> QED  BY <1>1, <1>2, <1>6, <1>7, <1>8, <1>21, TxKeeps

-----------------------------------------------------------------------------
(***************************************************************************)
(* The end of a transaction: the checkpoint of its snapshots, the LOG_END, *)
(* the flush, and the changes in memory.                                   *)
(***************************************************************************)
LEMMA WritingMore ==
  ASSUME NEW id, NEW recs, NEW b, NEW F, NEW Fu, NEW c, NEW d, NEW s, NEW t, NEW touched,
         Writing(id, recs, b, F, Fu, c, d, s, t, touched), NEW L, Extends(L, F), Extends(L, Fu)
  PROVE  Writing(id, recs, b, L, L, c, d, s, t, touched)
<1>1. \A K : Base(K) /\ Extends(K, L) => Extends(K, F) /\ Extends(K, Fu)
  BY ExtendsTrans
<1>2. Holds(id, recs, b, L, c, s, t)
  BY HoldsMore DEF Writing
<1>3. Collects(id, recs \o b, L, t)
  BY <1>1 DEF Writing, Collects
<1>4. Awaits(id, recs \o b, L, d, t, touched)
  <2> SUFFICES ASSUME NEW K, Base(K), Extends(K, L)
               PROVE  /\ Replay(K, id, recs \o b).tid = t
                      /\ \A v \in [Sids -> Nat] : Makes(K, id, Ended(Replay(K, id, recs \o b), v), L, d, v, t, touched)
    BY DEF Awaits
  <2>1. PICK g : g = Replay(K, id, recs \o b)
    OBVIOUS
  <2>2. /\ g.tid = t
        /\ \A v \in [Sids -> Nat] : Makes(K, id, Ended(g, v), Fu, d, v, t, touched)
    BY <1>1, <2>1 DEF Writing, Awaits
  <2>3. ASSUME NEW v \in [Sids -> Nat] PROVE Makes(K, id, Ended(g, v), L, d, v, t, touched)
    <3>1. Makes(K, id, Ended(g, v), Fu, d, v, t, touched)
      BY <2>2
    <3> QED  BY <3>1, FoundMore DEF Makes
  <2> QED  BY <2>1, <2>2, <2>3
<1> QED  BY <1>2, <1>3, <1>4 DEF Writing

LEMMA TendSnapshotsStep ==
  ASSUME IInv, TendSnapshots
  PROVE  IInv'
<1> USE DEF bounds
<1>1. /\ pc \in {"tx", "txlogged"} /\ pc' = "tend"
      /\ UNCHANGED <<dirVars, lg, buf, boot, tx, cleaning, oldId, col, seq, bounds>>
      /\ ckpt' = IF tx.dirty
                 THEN [ckpt EXCEPT !.snaps = lg.snaps,
                                   !.bats = [b \in Bids |-> IF lg.snaps[b] = lg.tid
                                                            THEN lg.bats[b] ELSE @[b]]]
                 ELSE ckpt
  BY DEF TendSnapshots, SnapshotsDirty
<1>2. PICK g : g = lg
  OBVIOUS
<1>3. PICK F : F = Saved(ckpt, g)
  OBVIOUS
<1>4. TxOpen(g, F)
  BY <1>1, <1>2, <1>3, TxFacts
<1>5. pc \in Running /\ pc' \in Running /\ pc' \in Collecting
  BY <1>1 DEF Running, Collecting
<1>6. PICK L : L = ckpt'
  OBVIOUS
<1>7. /\ g \in Loggers /\ g.tid \in Tids /\ g.tid <= ntx /\ buf \in Seq(Records) /\ Base(ckpt)
      /\ ckpt \in Checkpoints /\ ckpt.exists
  BY <1>2, <1>5, RunningFacts
<1>8. Marked(ckpt, g, F) /\ Sound(g, F) /\ Extends(F, ckpt)
  BY <1>4 DEF TxOpen, Marked
<1>9. /\ F \in Checkpoints /\ F.exists = ckpt.exists /\ F.catalog = ckpt.catalog /\ F.snaps = ckpt.snaps
  <2>1. PICK c : c = ckpt
    OBVIOUS
  <2>2. c \in Checkpoints /\ F = Saved(c, g)
    BY <1>3, <1>7, <2>1
  <2>3. F \in Checkpoints /\ F.exists = c.exists /\ F.catalog = c.catalog /\ F.snaps = c.snaps
    BY <1>7, <2>2, SavedIs
  <2> QED  BY <2>1, <2>3, Zenon
<1>10. /\ Base(L) /\ L.exists = ckpt.exists /\ L.catalog = F.catalog /\ L.bats = F.bats
  <2>1. CASE tx.dirty
    <3>1. L = [F EXCEPT !.snaps = g.snaps]
      <4>1. L = [ckpt EXCEPT !.snaps = g.snaps,
                             !.bats = [b \in Bids |-> IF g.snaps[b] = g.tid THEN g.bats[b] ELSE @[b]]]
        BY <1>1, <1>2, <1>6, <2>1
      <4>2. PICK bats : bats = [b \in Bids |-> IF g.snaps[b] = g.tid THEN g.bats[b] ELSE ckpt.bats[b]]
        OBVIOUS
      <4>3. L = [ckpt EXCEPT !.snaps = g.snaps, !.bats = bats]
        BY <1>7, <4>1, <4>2 DEF Checkpoints
      <4>4. F = [ckpt EXCEPT !.bats = bats]
        BY <1>3, <1>7, <4>2 DEF Checkpoints, Saved
      <4> QED  BY <1>7, <4>3, <4>4 DEF Checkpoints
    <3> QED  BY <1>8, <1>9, <3>1, MarkedBase
  <2>2. CASE ~tx.dirty
    <3>1. L = ckpt /\ F.bats = ckpt.bats
      BY <1>1, <1>4, <1>6, <2>2 DEF TxOpen
    <3> QED  BY <1>7, <1>9, <3>1
  <2> QED  BY <2>1, <2>2
<1>11. Extends(L, F) /\ Extends(L, ckpt) /\ Sound(g, L)
  BY <1>8, <1>10 DEF Extends, Sound
<1>12. Writing(LogList, Log, buf, L, L, col, tx.col, seq, g.tid, tx.touched)
  BY <1>4, <1>11, WritingMore DEF TxOpen
<1>13. TypeInv'
  <2>1. L \in Checkpoints
    BY <1>10 DEF Base
  <2> QED  BY <1>1, <1>6, <2>1 DEF dirVars, IInv, TypeInv, Pcs
<1>14. Buffers
  <2>1. ~boot
    BY <1>1 DEF IInv, PhaseInv, Restarting
  <2> QED  BY <1>1, <1>2, <1>5, <1>6, <1>7, <1>10, <2>1 DEF Buffers, Collecting
<1>15. FilesInv' /\ RoomInv' /\ PhaseInv' /\ LogList' = LogList /\ Log' = Log
  BY <1>14, BuffersFrame
<1>16. Future' = L /\ Current' = tx.col /\ LastTid' = g.tid
  BY <1>1, <1>2, <1>5, <1>6 DEF Future, Current, LastTid
<1>17. MemoryInv'
  <2>1. /\ g.seqs[LOG_SID] # 0 /\ g.seqs[OBJ_SID] = seq
        /\ \A n \in Names : g.catalog[n] # 0 <=> tx.col[n] # Absent
        /\ \A n \in Names : g.catalog[n] # 0 => g.snaps[g.catalog[n]] <= g.tid
    BY <1>4, ZenonT(30) DEF TxOpen
  <2> QED  BY <1>1, <1>2, <1>6, <1>7, <1>10, <1>11, <1>16, <2>1, ZenonT(30) DEF MemoryInv
<1>18. TxInv'
  <2>1. /\ g.tid >= 1 /\ ntx >= 1
        /\ \A i \in 1 .. Len(tx.cleared) : tx.cleared[i] \in tx.touched /\ tx.col[tx.cleared[i]] # Absent
    BY <1>4 DEF TxOpen
  <2> QED  BY <1>1, <1>2, <2>1 DEF TxInv
<1>19. LogInv'
  <2>1. Holds(LogList, Log, buf, L, col, seq, g.tid) /\ Collects(LogList, Log \o buf, L, g.tid)
        /\ Awaits(LogList, Log \o buf, L, tx.col, g.tid, tx.touched)
    BY <1>12 DEF Writing
  <2>2. Gives(LogList, Log, buf, L, col, col, seq, seq, g.tid)
    BY <2>1, HoldsGives
  <2> QED  BY <1>1, <1>2, <1>6, <1>15, <1>16, <2>1, <2>2 DEF LogInv
<1> QED  BY <1>13, <1>15, <1>17, <1>18, <1>19 DEF IInv

LEMMA TendWriteStep ==
  ASSUME IInv, TendWrite
  PROVE  IInv'
<1> USE DEF bounds
<1>1. /\ pc = "tend" /\ pc' = "sync" /\ buf' = buf \o <<[flag |-> "END", tid |-> lg.tid]>>
      /\ UNCHANGED <<dirVars, ckpt, lg, boot, tx, cleaning, oldId, col, seq, bounds>>
  BY DEF TendWrite, Write
<1>2. PICK t : t = lg.tid
  OBVIOUS
<1>3. PICK r : r = [flag |-> "END", tid |-> t]
  OBVIOUS
<1>4. PICK z : z = buf'
  OBVIOUS
<1>5. pc \in Running /\ pc' \in Running /\ pc \in Collecting /\ pc' \notin Collecting
      /\ pc \notin {"tx", "txlogged", "txseq", "down", "create", "sync", "seq", "open"}
  BY <1>1 DEF Running, Collecting
<1>6. /\ t \in Tids /\ t <= ntx /\ buf \in Seq(Records) /\ Base(ckpt) /\ lg \in Loggers
      /\ ckpt.exists /\ Window = "none" /\ LastTid = t /\ Sound(lg, ckpt)
  BY <1>1, <1>2, <1>5, RunningFacts DEF Future
<1>7. lg.tid >= 1
  BY <1>5 DEF IInv, TxInv
<1>8. r \in Records /\ EndRecord(r, t)
  <2>1. t # 0
    BY <1>2, <1>7
  <2> QED  BY <1>3, <1>6, <2>1 DEF Records, EndRecord
<1>9. Adds(z, buf, r) /\ z \in Seq(Records)
  <2>1. z = buf \o <<r>>
    BY <1>1, <1>2, <1>3, <1>4
  <2> QED  BY <1>6, <1>8, <2>1, AddsOne
<1>10. z # <<>>
  <2>1. z = Append(buf, r)
    BY <1>9 DEF Adds
  <2> QED  BY <1>6, <1>8, <2>1
<1>11. Gives(LogList, Log, z, ckpt, col, tx.col, seq, seq, t)
  <2>1. Gives(LogList, Log, buf, ckpt, col, col, seq, seq, t)
    BY <1>5, <1>6 DEF IInv, LogInv
  <2>2. Holds(LogList, Log, buf, ckpt, col, seq, t)
    BY <2>1, HoldsGives
  <2>3. Collects(LogList, Log \o buf, ckpt, t) /\ Awaits(LogList, Log \o buf, ckpt, tx.col, t, tx.touched)
    BY <1>2, <1>5 DEF IInv, LogInv, Future
  <2>4. Writing(LogList, Log, buf, ckpt, ckpt, col, tx.col, seq, t, tx.touched)
    BY <2>2, <2>3 DEF Writing
  <2> QED  BY <1>8, <1>9, <2>4, GivesEnd
<1>12. TypeInv'
  BY <1>1, <1>4, <1>9 DEF dirVars, IInv, TypeInv, Pcs
<1>13. Buffers
  <2>1. ~boot
    BY <1>1 DEF IInv, PhaseInv, Restarting
  <2> QED  BY <1>1, <1>4, <1>5, <1>6, <1>10, <2>1 DEF Buffers, Collecting
<1>14. FilesInv' /\ RoomInv' /\ PhaseInv' /\ LogList' = LogList /\ Log' = Log
  BY <1>13, BuffersFrame
<1>15. Future' = ckpt /\ Future = ckpt /\ Current' = tx.col /\ Current = tx.col /\ LastTid' = t
  BY <1>1, <1>2 DEF Future, Current, LastTid, Collecting
<1>16. MemoryInv'
  <2>1. MemoryInv
    BY DEF IInv
  <2> QED  BY <1>1, <1>2, <1>5, <1>6, <1>15, <2>1 DEF MemoryInv
<1>17. TxInv'
  BY <1>1, <1>5 DEF IInv, TxInv
<1>18. LogInv'
  BY <1>1, <1>2, <1>4, <1>5, <1>11, <1>14, <1>15 DEF LogInv
<1> QED  BY <1>12, <1>14, <1>16, <1>17, <1>18 DEF IInv

(* The whole buffer is in the log.                                         *)
LEMMA SyncedLog ==
  ASSUME IInv, pc \in Running, SyncLog(buf)
  PROVE  /\ wal' \in [Ids -> Seq(Records) \cup {Absent}] /\ wal'[lg.id] = Log \o buf
         /\ Log \o buf \in Seq(Records) /\ Log \o buf # Absent
         /\ \A k \in Ids : wal'[k] # Absent <=> wal[k] # Absent
<1>1. /\ lg.id \in Ids /\ wal[lg.id] # Absent /\ Log = wal[lg.id] /\ Log \in Seq(Records)
      /\ buf \in Seq(Records)
  BY RunningFacts
<1>2. wal \in [Ids -> Seq(Records) \cup {Absent}]
  BY DEF IInv, TypeInv
<1>3. PICK q : q = Log \o buf
  OBVIOUS
<1>4. q \in Seq(Records)
  BY <1>1, <1>3
<1>5. wal' = [wal EXCEPT ![lg.id] = q]
  BY <1>1, <1>3 DEF SyncLog
<1>6. q # Absent
  BY <1>4, AbsentIs
<1> QED  BY <1>1, <1>2, <1>3, <1>4, <1>5, <1>6, ZenonT(60)

(* Steps that flush the buffer: nothing but the log in use is written.     *)
Flushes ==
    /\ SyncLog(buf) /\ UNCHANGED <<master, bak, baks, ckpt, lg, boot, tx, cleaning, oldId, bounds>>
    /\ pc \in Running /\ pc' \in Running /\ pc' \notin {"sync", "seq", "txseq"} /\ ~boot

LEMMA FlushesFrame ==
  ASSUME IInv, Flushes
  PROVE  FilesInv' /\ RoomInv' /\ PhaseInv' /\ LogList' = LogList /\ Log' = Log \o buf /\ buf' = <<>>
<1> USE DEF bounds
<1>1. /\ UNCHANGED <<master, bak, baks, ckpt, lg, boot, tx, cleaning, oldId, bounds>> /\ buf' = <<>>
      /\ pc \in Running /\ pc' \in Running /\ pc' \notin {"sync", "seq", "txseq"} /\ ~boot
  BY DEF Flushes, SyncLog
<1>2. /\ wal' \in [Ids -> Seq(Records) \cup {Absent}] /\ wal'[lg.id] = Log \o buf
      /\ Log \o buf \in Seq(Records) /\ Log \o buf # Absent
      /\ \A k \in Ids : wal'[k] # Absent <=> wal[k] # Absent
  BY SyncedLog DEF Flushes
<1>3. ckpt.exists /\ lg.id \in Ids /\ LogList = lg.id /\ master = lg.id /\ bak = Absent /\ wal[lg.id] # Absent
  BY <1>1, RunningFacts
<1>4. LogList' = LogList
  BY <1>1 DEF LogList
<1>5. Log' = Log \o buf
  BY <1>1, <1>2, <1>3, <1>4, ZenonT(30) DEF Log, LogRecords
<1>6. FilesInv'
  BY <1>1, <1>3 DEF IInv, FilesInv, Running, Collecting
<1>7. RoomInv'
  BY <1>1 DEF IInv, RoomInv, Running, Collecting
<1>8. PhaseInv'
  BY <1>1, <1>2, <1>3 DEF IInv, PhaseInv, Running, Collecting, Restarting
<1> QED  BY <1>1, <1>4, <1>5, <1>6, <1>7, <1>8

LEMMA TendSyncStep ==
  ASSUME IInv, TendSync
  PROVE  IInv'
<1> USE DEF bounds
<1>1. /\ pc = "sync" /\ pc' = "apply" /\ SyncLog(buf) /\ col' = tx.col
      /\ UNCHANGED <<master, bak, baks, ckpt, lg, boot, tx, cleaning, oldId, seq, bounds>>
  BY DEF TendSync
<1>2. pc \in Running /\ pc' \in Running
  BY <1>1 DEF Running
<1>3. ~boot
  BY <1>1 DEF IInv, PhaseInv, Restarting
<1>4. /\ FilesInv' /\ RoomInv' /\ PhaseInv' /\ LogList' = LogList /\ Log' = Log \o buf /\ buf' = <<>>
      /\ wal' \in [Ids -> Seq(Records) \cup {Absent}] /\ Log \o buf \in Seq(Records)
  BY <1>1, <1>2, <1>3, FlushesFrame, SyncedLog DEF Flushes
<1>5. Window = "none" /\ ckpt.exists /\ LastTid = lg.tid /\ Sound(lg, ckpt) /\ Base(ckpt)
  BY <1>1, <1>2, RunningFacts DEF Future
<1>6. tx \in Txs /\ tx.col \in [Names -> Cells]
  BY DEF IInv, TypeInv, Txs
<1>7. TypeInv'
  <2>1. <<>> \in Seq(Records)
    OBVIOUS
  <2> QED  BY <1>1, <1>4, <1>6, <2>1 DEF IInv, TypeInv, Pcs
<1>8. Future' = ckpt /\ Future = ckpt /\ Current' = tx.col /\ Current = tx.col /\ LastTid' = lg.tid
  BY <1>1 DEF Future, Current, LastTid, Collecting
<1>9. MemoryInv'
  BY <1>1, <1>5, <1>8 DEF IInv, MemoryInv
<1>10. TxInv'
  BY <1>1 DEF IInv, TxInv, Collecting
<1>11. LogInv'
  <2>1. Gives(LogList, Log, buf, ckpt, col, tx.col, seq, seq, lg.tid)
    BY <1>1, <1>5 DEF IInv, LogInv
  <2>2. Whole(LogList, Log \o buf, ckpt, tx.col, seq, lg.tid)
    BY <2>1 DEF Gives
  <2>3. Gives(LogList, Log \o buf, <<>>, ckpt, tx.col, tx.col, seq, seq, lg.tid)
    BY <1>4, <2>2, GivesWhole
  <2> QED  BY <1>1, <1>4, <1>8, <2>3 DEF LogInv, Collecting
<1> QED  BY <1>4, <1>7, <1>9, <1>10, <1>11 DEF IInv

(* A transaction that is alone writes its columns into the bats.           *)
Writes(g, h) ==
    h = [g EXCEPT !.bats = [b \in Bids |->
           IF \E n \in tx.touched : g.catalog[n] = b
           THEN tx.col[CHOOSE n \in tx.touched : g.catalog[n] = b] ELSE @[b]]]

LEMMA AloneApplied ==
  ASSUME NEW K, Base(K), NEW g, Sound(g, K), g.tid \in Tids,
         tx \in Txs, \A n \in Names : g.catalog[n] # 0 <=> tx.col[n] # Absent,
         \A n \in Names : g.catalog[n] # 0 => g.snaps[g.catalog[n]] <= g.tid,
         NEW h, Writes(g, h)
  PROVE  Kept(K, g, h)
<1>1. PICK bats2 : bats2 = [b \in Bids |-> IF \E n \in tx.touched : g.catalog[n] = b
                                           THEN tx.col[CHOOSE n \in tx.touched : g.catalog[n] = b] ELSE g.bats[b]]
  OBVIOUS
<1>2. K \in Checkpoints /\ g \in Loggers /\ g.bats \in Bats /\ tx.col \in [Names -> Cells] /\ tx.touched \subseteq Names
  BY DEF Base, Sound, Loggers, Txs
<1>3. h = [g EXCEPT !.bats = bats2]
  BY <1>1, <1>2 DEF Loggers, Writes
<1>4. ASSUME NEW b \in Bids
      PROVE  bats2[b] \in Cells /\ (bats2[b] = g.bats[b] \/ (Named(g.catalog, b) /\ bats2[b] # Absent))
  <2>1. CASE \E n \in tx.touched : g.catalog[n] = b
    <3>1. PICK m : m = CHOOSE n \in tx.touched : g.catalog[n] = b
      OBVIOUS
    <3>2. m \in tx.touched /\ g.catalog[m] = b
      BY <2>1, <3>1
    <3>3. bats2[b] = tx.col[m]
      BY <1>1, <2>1, <3>1
    <3>4. m \in Names /\ b # 0
      BY <1>2, <3>2, SlotsPositive
    <3>5. tx.col[m] # Absent /\ tx.col[m] \in Cells
      BY <1>2, <3>2, <3>4
    <3> QED  BY <3>2, <3>3, <3>4, <3>5 DEF Named
  <2>2. CASE ~ \E n \in tx.touched : g.catalog[n] = b
    <3>1. bats2[b] = g.bats[b]
      BY <1>1, <2>2
    <3> QED  BY <1>2, <3>1 DEF Bats
  <2> QED  BY <2>1, <2>2
<1>5. bats2 \in Bats
  BY <1>1, <1>4 DEF Bats
<1>6. Sound(h, K) /\ Same(h, g) /\ h.catalog = g.catalog /\ h.snaps = g.snaps
  BY <1>2, <1>3, <1>4, <1>5, Rewritten2
<1>7. h.tid = g.tid
  BY <1>6 DEF Same
<1> QED  BY <1>6, <1>7 DEF Kept

LEMMA RollforwardApplyStep ==
  ASSUME Unlimited, IInv, RollforwardApply
  PROVE  IInv'
<1> USE DEF bounds
<1>1. /\ pc = "apply" /\ pc' = "idle" /\ tx' = NoTx
      /\ UNCHANGED <<dirVars, ckpt, buf, boot, cleaning, oldId, col, seq, bounds>>
  BY DEF RollforwardApply
<1>2. PICK g : g = lg
  OBVIOUS
<1>3. PICK h : h = lg'
  OBVIOUS
<1>4. pc \in Running /\ pc' \in Running
  BY <1>1 DEF Running
<1>5. ~boot /\ buf = <<>>
  BY <1>1 DEF IInv, PhaseInv, Restarting, Collecting
<1>6. /\ Window = "none" /\ ckpt.exists /\ LastTid = g.tid /\ Sound(g, ckpt) /\ Base(ckpt)
      /\ g.tid \in Tids /\ g \in Loggers /\ g.tid <= ntx
  BY <1>1, <1>2, <1>4, RunningFacts DEF Future
<1>7. tx \in Txs /\ tx.col = col /\ g.tr = NoTr /\ g.err = "OK"
  BY <1>1, <1>2 DEF IInv, TypeInv, TxInv
<1>8. /\ \A n \in Names : g.catalog[n] # 0 <=> tx.col[n] # Absent
      /\ \A n \in Names : g.catalog[n] # 0 => g.snaps[g.catalog[n]] <= g.tid
      /\ g.seqs[LOG_SID] # 0 /\ g.seqs[OBJ_SID] = seq
  BY <1>1, <1>2 DEF IInv, MemoryInv, Current
<1>9. Kept(ckpt, g, h)
  <2>1. CASE tx.alone
    <3>1. Writes(g, h)
      BY <1>2, <1>3, <2>1 DEF RollforwardApply, Writes
    <3> QED  BY <1>6, <1>7, <1>8, <3>1, AloneApplied
  <2>2. CASE ~tx.alone
    <3>1. h = NewBats(g, tx.cleared)
      BY <1>2, <1>3, <2>2 DEF RollforwardApply
    <3>2. PICK names : names = tx.cleared
      OBVIOUS
    <3>3. names \in Seq(Names) /\ tx.col \in [Names -> Cells]
      BY <1>7, <3>2 DEF Txs
    <3>4. \A i \in 1 .. Len(names) : tx.col[names[i]] # Absent
      BY <1>1, <3>2 DEF IInv, TxInv
    <3>5. ASSUME NEW i \in 1 .. Len(names)
          PROVE  tx.col[names[i]] \in Contents /\ g.catalog[names[i]] # 0
      <4>1. names[i] \in Names /\ tx.col[names[i]] # Absent
        BY <3>3, <3>4
      <4> QED  BY <1>8, <3>3, <4>1 DEF Cells
    <3>6. Same(g, g)
      BY DEF Same
    <3>7. Kept(ckpt, g, g)
      BY <1>6, <1>8, <3>6 DEF Kept
    <3>8. Kept(ckpt, g, NewBats(g, names))
      BY <3>3, <3>5, <3>7, NewBatsKept
    <3> QED  BY <3>1, <3>2, <3>8, Zenon
  <2> QED  BY <2>1, <2>2
<1>10. /\ Sound(h, ckpt) /\ h \in Loggers /\ h.id = g.id /\ h.tid = g.tid /\ h.seqs = g.seqs
       /\ h.tr = g.tr /\ h.err = g.err
       /\ \A n \in Names : h.catalog[n] # 0 => h.snaps[h.catalog[n]] <= h.tid
       /\ \A n \in Names : h.catalog[n] # 0 <=> col[n] # Absent
  BY <1>7, <1>8, <1>9 DEF Kept, Same, Sound
<1>11. NoTx \in Txs
  <2>1. NoColumns \in [Names -> Cells]
    BY DEF NoColumns, Cells
  <2> QED  BY <2>1 DEF NoTx, Txs
<1>12. TypeInv'
  BY <1>1, <1>2, <1>3, <1>7, <1>10, <1>11 DEF dirVars, IInv, TypeInv, Pcs
<1>13. Buffers
  BY <1>1, <1>2, <1>3, <1>4, <1>5, <1>10 DEF Buffers
<1>14. FilesInv' /\ RoomInv' /\ PhaseInv' /\ LogList' = LogList /\ Log' = Log
  BY <1>13, BuffersFrame
<1>15. Future' = ckpt /\ Current' = col /\ LastTid' = h.tid
  BY <1>1, <1>3 DEF Future, Current, LastTid, Collecting
<1>16. MemoryInv'
  BY <1>1, <1>3, <1>6, <1>8, <1>10, <1>15 DEF MemoryInv
<1>17. TxInv'
  BY <1>1 DEF TxInv, Collecting
<1>18. LogInv'
  <2>1. Gives(LogList, Log, buf, ckpt, col, col, seq, seq, g.tid)
    BY <1>1, <1>6 DEF IInv, LogInv
  <2> QED  BY <1>1, <1>10, <1>14, <1>15, <2>1 DEF LogInv, Collecting
<1> QED  BY <1>12, <1>14, <1>16, <1>17, <1>18 DEF IInv

-----------------------------------------------------------------------------
(***************************************************************************)
(* A number of a sequence.                                                 *)
(***************************************************************************)
LEMMA LogSequenceStep ==
  ASSUME IInv, log_sequence
  PROVE  IInv'
<1> USE DEF bounds
<1>1. /\ pc \in {"idle", "tx"} /\ ~boot /\ lg.seqs[OBJ_SID] < MaxSeq
      /\ pc' = IF pc = "idle" THEN "seq" ELSE "txseq"
      /\ UNCHANGED <<dirVars, ckpt, boot, tx, cleaning, oldId, col, seq, bounds>>
  BY DEF log_sequence
<1>2. PICK g : g = lg
  OBVIOUS
<1>3. PICK h : h = lg'
  OBVIOUS
<1>4. PICK v : v = g.seqs[OBJ_SID] + 1
  OBVIOUS
<1>5. PICK t : t = g.tid
  OBVIOUS
<1>6. PICK r : r = SeqRecord(OBJ_SID, v, t)
  OBVIOUS
<1>7. PICK z : z = buf'
  OBVIOUS
<1>8. pc \in Running /\ pc' \in Running /\ pc \notin {"sync", "seq", "txseq", "down", "create"}
  BY <1>1 DEF Running, Collecting
<1>9. /\ Window = "none" /\ ckpt.exists /\ LastTid = t /\ Sound(g, Future) /\ Base(ckpt)
      /\ t \in Tids /\ g \in Loggers /\ t <= ntx /\ buf \in Seq(Records)
  BY <1>2, <1>5, <1>8, RunningFacts
<1>10. v \in 0 .. MaxSeq /\ v \in Nat
  <2>1. g.seqs[OBJ_SID] \in 0 .. MaxSeq /\ g.seqs[OBJ_SID] < MaxSeq /\ MaxSeq \in Nat
    BY <1>1, <1>2, LoggerAssumption DEF IInv, TypeInv
  <2> QED  BY <1>4, <2>1
<1>11. /\ h \in Loggers /\ Same([h EXCEPT !.seqs = g.seqs], g)
       /\ h.catalog = g.catalog /\ h.old = g.old /\ h.bats = g.bats /\ h.snaps = g.snaps
       /\ h.freed = g.freed /\ h.changes = g.changes
       /\ h.seqs[OBJ_SID] = v /\ h.seqs[LOG_SID] = g.seqs[LOG_SID]
       /\ h.id = g.id /\ h.tid = g.tid /\ h.tr = g.tr /\ h.err = g.err
  <2>1. PICK s : s = [g.seqs EXCEPT ![OBJ_SID] = v]
    OBVIOUS
  <2>2. /\ s \in [Sids -> Nat] /\ s[OBJ_SID] = v /\ s[LOG_SID] = g.seqs[LOG_SID]
    BY <1>9, <1>10, <2>1 DEF Loggers, Sids, OBJ_SID, LOG_SID
  <2>3. h = [g EXCEPT !.seqs[OBJ_SID] = @ + 1]
    BY <1>2, <1>3 DEF log_sequence
  <2>4. h = [g EXCEPT !.seqs = s]
    BY <1>4, <1>9, <2>1, <2>3 DEF Loggers
  <2> QED  BY <1>9, <2>2, <2>4 DEF Loggers, Same
<1>12. Adds(z, buf, r) /\ z \in Seq(Records) /\ NumberRecord(r, OBJ_SID, v, t)
  <2>1. OBJ_SID \in Sids
    BY DEF Sids
  <2>2. r \in Records
    BY <1>6, <1>9, <1>10, <2>1 DEF SeqRecord, Records
  <2>3. z = buf \o <<r>>
    BY <1>2, <1>4, <1>5, <1>6, <1>7 DEF log_sequence, Write
  <2> QED  BY <1>6, <1>9, <1>10, <2>1, <2>2, <2>3, AddsOne DEF NumberRecord
<1>13. z # <<>>
  <2>1. z = Append(buf, r) /\ r \in Records
    BY <1>12 DEF Adds
  <2> QED  BY <1>9, <2>1
<1>14. Gives(LogList, Log, buf, ckpt, col, col, seq, seq, t)
  BY <1>1, <1>8, <1>9 DEF IInv, LogInv
<1>15. /\ Gives(LogList, Log, z, ckpt, col, col, seq, v, t)
       /\ Collects(LogList, Log \o buf, ckpt, t) => Stays(LogList, Log \o buf, Log \o z, ckpt, t)
  BY <1>12, <1>14, HoldsGives, GivesNumber
<1>16. Future' = Future /\ Current' = Current /\ LastTid' = t
  BY <1>1, <1>2, <1>3, <1>5, <1>11 DEF Future, Current, LastTid, Saved, Collecting
<1>17. TypeInv'
  BY <1>1, <1>2, <1>3, <1>7, <1>10, <1>11, <1>12 DEF dirVars, IInv, TypeInv, Pcs
<1>18. Buffers
  BY <1>1, <1>2, <1>3, <1>7, <1>8, <1>11, <1>13 DEF Buffers, Collecting
<1>19. FilesInv' /\ RoomInv' /\ PhaseInv' /\ LogList' = LogList /\ Log' = Log
  BY <1>18, BuffersFrame
<1>20. MemoryInv'
  <2>1. Sound(h, Future)
    BY <1>9, <1>11 DEF Sound
  <2>2. /\ g.seqs[LOG_SID] # 0
        /\ \A n \in Names : g.catalog[n] # 0 <=> Current[n] # Absent
        /\ \A n \in Names : g.catalog[n] # 0 => g.snaps[g.catalog[n]] <= g.tid
    BY <1>2, <1>8 DEF IInv, MemoryInv
  <2> QED  BY <1>1, <1>3, <1>5, <1>9, <1>11, <1>16, <2>1, <2>2 DEF MemoryInv
<1>21. TxInv'
  BY <1>1, <1>2, <1>3, <1>11, <1>16 DEF IInv, TxInv, Collecting
<1>22. LogInv'
  <2>1. pc' \in Collecting => pc = "tx" /\ pc \in Collecting
    BY <1>1, ZenonT(30) DEF Collecting
  <2>2. ASSUME pc' \in Collecting
        PROVE  /\ Collects(LogList, Log \o z, ckpt, t)
               /\ Awaits(LogList, Log \o z, Future, tx.col, t, tx.touched)
    <3>1. /\ Collects(LogList, Log \o buf, ckpt, t)
          /\ Awaits(LogList, Log \o buf, Future, tx.col, t, tx.touched)
      BY <1>2, <1>5, <2>1, <2>2 DEF IInv, LogInv
    <3>2. Extends(Future, ckpt)
      BY <2>1, <2>2 DEF IInv, TxInv
    <3> QED  BY <1>15, <3>1, <3>2 DEF Stays
  <2>3. pc' # "sync" /\ pc' \in {"seq", "txseq"}
    BY <1>1
  <2> QED  BY <1>1, <1>3, <1>5, <1>7, <1>11, <1>15, <1>16, <1>19, <2>2, <2>3 DEF LogInv
<1> QED  BY <1>17, <1>19, <1>20, <1>21, <1>22 DEF IInv

LEMMA SequenceSyncStep ==
  ASSUME IInv, SequenceSync
  PROVE  IInv'
<1> USE DEF bounds
<1>1. /\ pc \in {"seq", "txseq"} /\ SyncLog(buf) /\ seq' = lg.seqs[OBJ_SID]
      /\ pc' = IF pc = "seq" THEN "idle" ELSE "txlogged"
      /\ UNCHANGED <<master, bak, baks, ckpt, lg, boot, tx, cleaning, oldId, col, bounds>>
  BY DEF SequenceSync
<1>2. pc \in Running /\ pc' \in Running /\ pc' \notin {"sync", "seq", "txseq", "down", "create"}
  BY <1>1 DEF Running, Collecting
<1>3. ~boot
  BY <1>1 DEF IInv, PhaseInv, Restarting
<1>4. /\ FilesInv' /\ RoomInv' /\ PhaseInv' /\ LogList' = LogList /\ Log' = Log \o buf /\ buf' = <<>>
      /\ wal' \in [Ids -> Seq(Records) \cup {Absent}] /\ Log \o buf \in Seq(Records)
  BY <1>1, <1>2, <1>3, FlushesFrame, SyncedLog DEF Flushes
<1>5. /\ Window = "none" /\ ckpt.exists /\ LastTid = lg.tid /\ Base(ckpt) /\ Sound(lg, Future)
      /\ lg.tid <= ntx
  BY <1>1, <1>2, RunningFacts
<1>6. TypeInv'
  <2>1. <<>> \in Seq(Records)
    OBVIOUS
  <2> QED  BY <1>1, <1>4, <2>1 DEF IInv, TypeInv, Pcs
<1>7. Future' = Future /\ Current' = Current /\ LastTid' = lg.tid
  BY <1>1 DEF Future, Current, LastTid, Collecting
<1>8. MemoryInv'
  <2>1. /\ lg.seqs[LOG_SID] # 0
        /\ \A n \in Names : lg.catalog[n] # 0 <=> Current[n] # Absent
        /\ \A n \in Names : lg.catalog[n] # 0 => lg.snaps[lg.catalog[n]] <= lg.tid
    BY <1>1 DEF IInv, MemoryInv
  <2> QED  BY <1>1, <1>5, <1>7, <2>1 DEF MemoryInv
<1>9. TxInv'
  BY <1>1, <1>7 DEF IInv, TxInv, Collecting
<1>10. LogInv'
  <2>1. PICK q : q = Log \o buf
    OBVIOUS
  <2>2. q \o <<>> = q
    BY <1>4, <2>1
  <2>3. Gives(LogList, Log, buf, ckpt, col, col, seq, lg.seqs[OBJ_SID], lg.tid)
    BY <1>1, <1>5 DEF IInv, LogInv
  <2>4. Whole(LogList, q, ckpt, col, lg.seqs[OBJ_SID], lg.tid)
    BY <2>1, <2>3 DEF Gives
  <2>5. Gives(LogList, q, <<>>, ckpt, col, col, lg.seqs[OBJ_SID], lg.seqs[OBJ_SID], lg.tid)
    BY <1>4, <2>1, <2>4, GivesWhole
  <2>6. pc' \in Collecting => pc \in Collecting
    BY <1>1 DEF Collecting
  <2>7. pc \in Collecting => /\ Collects(LogList, q, ckpt, lg.tid)
                             /\ Awaits(LogList, q, Future, tx.col, lg.tid, tx.touched)
    BY <2>1 DEF IInv, LogInv
  <2>8. Log' \o buf' = q /\ Log' = q
    BY <1>4, <2>1, <2>2
  <2> QED  BY <1>1, <1>2, <1>4, <1>7, <2>5, <2>6, <2>7, <2>8 DEF LogInv
<1> QED  BY <1>4, <1>6, <1>8, <1>9, <1>10 DEF IInv

-----------------------------------------------------------------------------
(***************************************************************************)
(* The process dies, or is stopped.                                        *)
(***************************************************************************)
LEMMA WholeLater ==
  ASSUME NEW id, NEW recs \in Seq(Records), NEW F, NEW c, NEW s, NEW t \in Tids,
         Whole(id, recs, F, c, s, t), NEW u \in Tids, t <= u
  PROVE  Gives(id, recs, <<>>, F, c, c, s, s, u)
<1>1. Gives(id, recs, <<>>, F, c, c, s, s, t)
  BY GivesWhole
<1>2. Holds(id, recs, <<>>, F, c, s, t)
  BY <1>1, HoldsGives
<1>3. Holds(id, recs, <<>>, F, c, s, u)
  BY <1>2, HoldsLater
<1> QED  BY <1>3, HoldsGives

(* The part of the buffer that made it is read back.                       *)
Part(id, recs, b, F, c, d, s, v, t, k, u, q, c2, s2) ==
    /\ t \in Tids /\ u \in Tids /\ t <= u /\ Gives(id, recs, b, F, c, d, s, v, t)
    /\ k \in 0 .. Len(b) /\ q = recs \o SubSeq(b, 1, k)
    /\ c2 = (IF k = Len(b) THEN d ELSE c) /\ s2 = (IF k = Len(b) THEN v ELSE s)

LEMMA GivesPart ==
  ASSUME NEW id, NEW recs, NEW b, NEW F, NEW c, NEW d, NEW s, NEW v, NEW t, NEW k, NEW u, NEW q,
         NEW c2, NEW s2, Part(id, recs, b, F, c, d, s, v, t, k, u, q, c2, s2)
  PROVE  /\ q \in Seq(Records) /\ Gives(id, q, <<>>, F, c2, c2, s2, s2, u)
         /\ k = 0 => q = recs
<1>0. /\ t \in Tids /\ u \in Tids /\ t <= u /\ k \in 0 .. Len(b) /\ q = recs \o SubSeq(b, 1, k)
      /\ c2 = (IF k = Len(b) THEN d ELSE c) /\ s2 = (IF k = Len(b) THEN v ELSE s)
  BY DEF Part
<1>1. recs \in Seq(Records) /\ b \in Seq(Records) /\ Torn(id, recs, b, F, c, s, t) /\ Whole(id, recs \o b, F, d, v, t)
  BY DEF Part, Gives
<1>2. Len(b) \in Nat
  BY <1>1
<1>3. PICK p : p = SubSeq(b, 1, k)
  OBVIOUS
<1>4. p \in Seq(Records) /\ (k = 0 => p = <<>>)
  BY <1>0, <1>1, <1>2, <1>3
<1>5. q = recs \o p
  BY <1>0, <1>3, Zenon
<1>6. q \in Seq(Records) /\ (k = 0 => q = recs)
  BY <1>1, <1>4, <1>5
<1>7. CASE k = Len(b)
  <2>1. p = b
    BY <1>1, <1>3, <1>7, SubSeqWhole, Zenon
  <2>2. Whole(id, q, F, d, v, t)
    BY <1>1, <1>5, <2>1, Zenon
  <2>3. Gives(id, q, <<>>, F, d, d, v, v, u)
    BY <1>0, <1>6, <2>2, WholeLater
  <2> QED  BY <1>0, <1>6, <1>7, <2>3
<1>8. CASE k # Len(b)
  <2>1. k \in 0 .. Len(b) - 1
    BY <1>0, <1>2, <1>8
  <2>2. Whole(id, q, F, c, s, t)
    BY <1>0, <1>1, <2>1 DEF Torn, Whole
  <2>3. Gives(id, q, <<>>, F, c, c, s, s, u)
    BY <1>0, <1>6, <2>2, WholeLater
  <2> QED  BY <1>0, <1>6, <1>8, <2>3
<1> QED  BY <1>7, <1>8

(* Where the code may be interrupted, the log is there.                    *)
LEMMA StopFacts ==
  ASSUME IInv, pc \notin {"down", "refused"}, Window = "none"
  PROVE  /\ ckpt.exists /\ LogList \in Ids /\ LogList # Absent /\ wal[LogList] # Absent
         /\ Log = wal[LogList] /\ Log \in Seq(Records)
         /\ LogList <= 2 + (stops + 1) + flushes
         /\ LastTid \in Tids /\ LastTid <= ntx /\ ntx \in Tids
         /\ buf # <<>> => lg.id = LogList
<1>1. pc \notin {"create", "opening", "reopen", "reopening", "down", "refused"}
  BY DEF Window
<1>2. ckpt.exists /\ lg.id \in Ids /\ lg.id \in Nat /\ lg.id # Absent /\ bak \in LogIds
  BY <1>1, AbsentIs DEF IInv, TypeInv, FilesInv, Ids
<1>3. /\ stops \in Nat /\ flushes \in Nat /\ ntx \in Tids /\ lg.tid \in Tids /\ lg.tid <= ntx
      /\ ntx <= ntx /\ lg.id <= 2 + stops + flushes + 1
      /\ wal \in [Ids -> Seq(Records) \cup {Absent}]
  BY <1>1, LoggerAssumption DEF IInv, TypeInv, MemoryInv, RoomInv, Loggers, Tids
<1>4. LastTid \in Tids /\ LastTid <= ntx
  BY <1>3 DEF LastTid
<1>5. CASE pc \in Running \cup {"open", "exit"}
  <2>1. master = lg.id /\ bak = Absent
    BY <1>5 DEF IInv, FilesInv
  <2>2. LogList = lg.id
    BY <2>1 DEF LogList
  <2>3. wal[lg.id] # Absent
    BY <1>5 DEF IInv, PhaseInv, Window
  <2>4. LogList <= 2 + (stops + 1) + flushes
    BY <1>2, <1>3, <2>2
  <2> QED  BY <1>2, <1>3, <1>4, <2>2, <2>3, <2>4 DEF Log, LogRecords
<1>6. CASE pc \in {"newlog", "bmcommit", "writeid", "switch"}
  <2>1. (bak = lg.id \/ bak = lg.id - 1) /\ wal[bak] # Absent
    BY <1>6, ZenonT(30) DEF IInv, FilesInv, PhaseInv
  <2>2. lg.id - 1 \in Nat
    BY <1>2 DEF Ids
  <2>3. bak # Absent /\ bak \in Ids
    BY <1>2, <2>1, <2>2, AbsentIs DEF LogIds
  <2>4. LogList = bak
    BY <2>3 DEF LogList
  <2>5. LogList <= 2 + (stops + 1) + flushes
    BY <1>2, <1>3, <2>1, <2>4
  <2>6. buf = <<>>
    BY <1>6 DEF IInv, PhaseInv, Collecting
  <2> QED  BY <1>2, <1>3, <1>4, <2>1, <2>3, <2>4, <2>5, <2>6 DEF Log, LogRecords
<1>7. pc \in Running \cup {"open", "exit", "newlog", "bmcommit", "writeid", "switch"}
  BY <1>1 DEF IInv, TypeInv, Pcs, Running, Collecting
<1> QED  BY <1>5, <1>6, <1>7

LEMMA StopStep ==
  ASSUME IInv, NEW k \in 0 .. Len(buf), Stop(k), pc \notin {"down", "refused"}, Window = "none",
         stops < MaxStops
  PROVE  IInv'
<1>1. /\ pc' = "down" /\ ~boot' /\ buf' = <<>> /\ tx' = NoTx /\ cleaning' = "none" /\ oldId' = 0
      /\ stops' = stops + 1 /\ lg' = Loaded(1) /\ UNCHANGED <<master, bak, baks, ckpt, ntx, flushes>>
      /\ wal' = IF k = 0 THEN wal ELSE [wal EXCEPT ![lg.id] = @ \o SubSeq(buf, 1, k)]
      /\ col' = IF pc = "sync" /\ k = Len(buf) THEN tx.col ELSE col
      /\ seq' = IF pc \in {"seq", "txseq"} /\ k = Len(buf) THEN lg.seqs[OBJ_SID] ELSE seq
      /\ boot' = FALSE
  BY DEF Stop
<1>2. /\ ckpt.exists /\ LogList \in Ids /\ LogList # Absent /\ wal[LogList] # Absent
      /\ Log = wal[LogList] /\ Log \in Seq(Records)
      /\ LogList <= 2 + (stops + 1) + flushes
      /\ LastTid \in Tids /\ LastTid <= ntx /\ ntx \in Tids
      /\ buf # <<>> => lg.id = LogList
  BY StopFacts
<1>3. /\ buf \in Seq(Records) /\ wal \in [Ids -> Seq(Records) \cup {Absent}] /\ Base(ckpt)
      /\ tx.col \in [Names -> Cells] /\ col \in [Names -> Cells] /\ seq \in 0 .. MaxSeq
      /\ lg.seqs[OBJ_SID] \in 0 .. MaxSeq /\ stops \in 0 .. MaxStops
  BY DEF IInv, TypeInv, MemoryInv, Txs
<1>4. PICK q : q = Log \o SubSeq(buf, 1, k)
  OBVIOUS
<1>5. PICK d : d = IF pc = "sync" THEN tx.col ELSE col
  OBVIOUS
<1>6. PICK v : v = IF pc \in {"seq", "txseq"} THEN lg.seqs[OBJ_SID] ELSE seq
  OBVIOUS
<1>7. Gives(LogList, Log, buf, ckpt, col, d, seq, v, LastTid)
  BY <1>2, <1>5, <1>6 DEF IInv, LogInv
<1>8. /\ col' = (IF k = Len(buf) THEN d ELSE col) /\ seq' = (IF k = Len(buf) THEN v ELSE seq)
  BY <1>1, <1>5, <1>6
<1>9. q \in Seq(Records) /\ Gives(LogList, q, <<>>, ckpt, col', col', seq', seq', ntx) /\ (k = 0 => q = Log)
  <2>1. PICK c2 : c2 = col'
    OBVIOUS
  <2>2. PICK s2 : s2 = seq'
    OBVIOUS
  <2>3. Part(LogList, Log, buf, ckpt, col, d, seq, v, LastTid, k, ntx, q, c2, s2)
    BY <1>2, <1>4, <1>7, <1>8, <2>1, <2>2 DEF Part
  <2>4. q \in Seq(Records) /\ Gives(LogList, q, <<>>, ckpt, c2, c2, s2, s2, ntx) /\ (k = 0 => q = Log)
    BY <2>3, GivesPart
  <2> QED  BY <2>1, <2>2, <2>4, Zenon
<1>10. wal' \in [Ids -> Seq(Records) \cup {Absent}] /\ wal'[LogList] = q /\ q # Absent
  <2>1. q # Absent
    BY <1>9, AbsentIs
  <2>2. CASE k = 0
    BY <1>1, <1>2, <1>3, <1>9, <2>1, <2>2
  <2>3. CASE k # 0
    <3>1. buf # <<>>
      BY <1>3, <2>3
    <3>2. wal' = [wal EXCEPT ![LogList] = q]
      BY <1>1, <1>2, <1>4, <2>3, <3>1
    <3> QED  BY <1>2, <1>3, <1>9, <2>1, <3>2
  <2> QED  BY <2>2, <2>3
<1>11. LogList' = LogList /\ Log' = q /\ Window' = "none" /\ LastTid' = ntx
  <2>1. LogList' = LogList
    BY <1>1 DEF LogList
  <2> QED  BY <1>1, <1>2, <1>10, <2>1 DEF Log, LogRecords, Window, LastTid
<1>12. lg' \in Loggers /\ lg'.tr = NoTr /\ lg'.err = "OK" /\ lg'.seqs[OBJ_SID] = 0 /\ lg' = Loaded(1)'
  <2>1. PICK g : g = From(ckpt, 1)
    OBVIOUS
  <2>2. Extends(ckpt, ckpt) /\ 1 \in Nat
    BY DEF Extends
  <2>3. Found(ckpt, g, ckpt, Columns(ckpt)) /\ g.seqs = NoSeqs
    BY <1>3, <2>1, <2>2, FromFound
  <2>4. g \in Loggers
    BY <2>3 DEF Found, Sound
  <2>5. g.tr = NoTr /\ g.err = "OK"
    BY <2>1 DEF From
  <2>6. lg' = g /\ Loaded(1)' = g
    BY <1>1, <2>1 DEF Loaded, From
  <2> QED  BY <2>3, <2>4, <2>5, <2>6 DEF NoSeqs, Sids
<1>13. TypeInv'
  <2>1. NoTx \in Txs
    <3>1. NoColumns \in [Names -> Cells]
      BY DEF NoColumns, Cells
    <3> QED  BY <3>1 DEF NoTx, Txs
  <2>2. col' \in [Names -> Cells] /\ seq' \in 0 .. MaxSeq
    BY <1>1, <1>3
  <2>3. stops' \in 0 .. MaxStops /\ 0 \in 0 .. MaxSeq /\ 0 \in -KeepLogs .. 3 + MaxStops + MaxFlushes
    BY <1>1, <1>3, LoggerAssumption
  <2>4. <<>> \in Seq(Records)
    OBVIOUS
  <2> QED  BY <1>1, <1>10, <1>12, <2>1, <2>2, <2>3, <2>4 DEF IInv, TypeInv, Pcs
<1>14. FilesInv'
  BY <1>1, <1>2, <1>11, <1>12 DEF FilesInv, Running, Collecting
<1>15. RoomInv'
  BY <1>1, <1>2, <1>11 DEF RoomInv
<1>16. PhaseInv'
  <2>1. wal'[LogList'] # Absent
    BY <1>10, <1>11
  <2> QED  BY <1>1, <2>1 DEF PhaseInv, Running, Collecting
<1>17. MemoryInv'
  BY <1>1, <1>3 DEF MemoryInv
<1>18. TxInv'
  BY <1>1 DEF TxInv, Collecting
<1>19. LogInv'
  BY <1>1, <1>9, <1>11 DEF LogInv, Collecting
<1> QED  BY <1>13, <1>14, <1>15, <1>16, <1>17, <1>18, <1>19 DEF IInv

-----------------------------------------------------------------------------
(***************************************************************************)
(* The invariant holds.                                                    *)
(***************************************************************************)
LEMMA NoCkptIs ==
  Base(NoCkpt) /\ ~NoCkpt.exists /\ (\A n \in Names : NoCkpt.catalog[n] = 0) /\ Columns(NoCkpt) = NoColumns
<1>1. /\ EmptyCatalog \in Catalogs /\ NoBats \in Bats /\ NoSnapshots \in Snaps
      /\ \A n \in Names : EmptyCatalog[n] = 0
      /\ \A b \in Bids : NoBats[b] = Absent /\ NoSnapshots[b] = 0
  BY TidsNat DEF EmptyCatalog, Catalogs, NoBats, Bats, Cells, NoSnapshots, Snaps
<1>2. PICK K : K = NoCkpt
  OBVIOUS
<1>3. K = [exists |-> FALSE, catalog |-> EmptyCatalog, bats |-> NoBats, snaps |-> NoSnapshots]
  BY <1>2 DEF NoCkpt
<1>4. K \in Checkpoints /\ K.catalog = EmptyCatalog /\ K.bats = NoBats /\ K.snaps = NoSnapshots /\ ~K.exists
  BY <1>1, <1>3 DEF Checkpoints
<1>5. Base(K)
  BY <1>1, <1>4 DEF Base, Based
<1>6. Columns(K) = NoColumns
  BY <1>1, <1>4 DEF Columns, NoColumns
<1> QED  BY <1>1, <1>2, <1>4, <1>5, <1>6

LEMMA LoadedType ==
  ASSUME Base(ckpt), NEW id \in Nat, NEW g, g = Loaded(id)
  PROVE  /\ g \in Loggers /\ g.tr = NoTr /\ g.err = "OK" /\ g.seqs[OBJ_SID] = 0 /\ g.id = id
         /\ g.catalog = ckpt.catalog
<1>1. g = From(ckpt, id)
  BY DEF Loaded, From
<1>2. Extends(ckpt, ckpt)
  BY DEF Extends
<1>3. Found(ckpt, g, ckpt, Columns(ckpt)) /\ g.seqs = NoSeqs /\ g.id = id
  BY <1>1, <1>2, FromFound
<1>4. g.tr = NoTr /\ g.err = "OK" /\ g.catalog = ckpt.catalog
  BY <1>1 DEF From
<1> QED  BY <1>3, <1>4 DEF Found, Sound, NoSeqs, Sids

LEMMA InitInv ==
  ASSUME Init
  PROVE  IInv
<1>1. /\ master = Absent /\ bak = Absent
      /\ baks = [k \in Ids |-> Absent] /\ wal = [k \in Ids |-> Absent]
      /\ ckpt = NoCkpt /\ lg = Loaded(1)
      /\ buf = <<>> /\ pc = "down" /\ boot = FALSE /\ tx = NoTx /\ cleaning = "none" /\ oldId = 0
      /\ col = NoColumns /\ seq = 0 /\ ntx = 0 /\ stops = 0 /\ flushes = 0
  BY DEF Init
<1>2. Base(ckpt) /\ ~ckpt.exists /\ Columns(ckpt) = NoColumns /\ ckpt \in Checkpoints
  BY <1>1, NoCkptIs DEF Base
<1>3. lg \in Loggers /\ lg.tr = NoTr /\ lg.err = "OK" /\ lg.seqs[OBJ_SID] = 0 /\ lg.id = 1
  BY <1>1, <1>2, LoadedType
<1>4. LogList = Absent
  BY <1>1 DEF LogList
<1>5. TypeInv
  <2>1. NoColumns \in [Names -> Cells]
    BY DEF NoColumns, Cells
  <2>2. NoTx \in Txs
    BY <2>1 DEF NoTx, Txs
  <2>3. /\ 0 \in 0 .. MaxSeq /\ 0 \in -KeepLogs .. 3 + MaxStops + MaxFlushes
        /\ 0 \in 0 .. MaxTx /\ 0 \in 0 .. MaxStops /\ 0 \in 0 .. MaxFlushes
    BY LoggerAssumption
  <2>4. <<>> \in Seq(Records)
    OBVIOUS
  <2>5. baks \in [Ids -> LogIds] /\ wal \in [Ids -> Seq(Records) \cup {Absent}]
    BY <1>1 DEF LogIds
  <2> QED  BY <1>1, <1>2, <1>3, <2>1, <2>2, <2>3, <2>4, <2>5 DEF TypeInv, Pcs, LogIds
<1>6. FilesInv
  BY <1>1, <1>2, <1>4 DEF FilesInv, Running, Collecting
<1>7. RoomInv
  BY <1>1, <1>2 DEF RoomInv
<1>8. PhaseInv
  BY <1>1, <1>2 DEF PhaseInv, Running, Collecting
<1>9. MemoryInv
  BY <1>1, <1>2 DEF MemoryInv
<1>10. TxInv /\ LogInv
  BY <1>1, <1>2 DEF TxInv, LogInv, Collecting
<1> QED  BY <1>5, <1>6, <1>7, <1>8, <1>9, <1>10 DEF IInv

LEMMA CrashStep ==
  ASSUME Orderly, IInv, Crash
  PROVE  IInv'
<1>1. PICK k \in 0 .. Len(buf) : Stop(k)
  BY DEF Crash
<1>2. pc \notin {"down", "refused"} /\ stops < MaxStops /\ Window \in CrashWindows \cup {"none"}
  BY DEF Crash
<1>3. Window # "cleaned"
  BY DEF Window
<1>4. Window = "none"
  BY <1>2, <1>3 DEF Orderly
<1> QED  BY <1>1, <1>2, <1>4, StopStep

LEMMA ShutdownStep ==
  ASSUME IInv, Shutdown
  PROVE  IInv'
<1>1. pc = "idle" /\ stops < MaxStops /\ Stop(Len(buf)) /\ pc \in Running
  BY DEF Shutdown, Running
<1>2. Window = "none" /\ buf \in Seq(Records)
  BY <1>1, RunningFacts
<1>3. Len(buf) \in 0 .. Len(buf)
  BY <1>2
<1> QED  BY <1>1, <1>2, <1>3, StopStep

LEMMA Stuttering ==
  ASSUME IInv, UNCHANGED vars
  PROVE  IInv'
<1>1. UNCHANGED <<master, bak, baks, wal, ckpt, lg, buf, pc, boot, tx, cleaning, oldId, col, seq, ntx, stops, flushes>>
  BY DEF vars, dirVars
<1>2. LogList' = LogList /\ Log' = Log /\ Window' = Window /\ LastTid' = LastTid
      /\ Future' = Future /\ Current' = Current /\ Loaded(1)' = Loaded(1)
  BY <1>1 DEF LogList, Log, LogRecords, Window, LastTid, Future, Saved, Current, Loaded, CatalogBats
<1>3. TypeInv'
  BY <1>1 DEF IInv, TypeInv
<1>4. FilesInv'
  BY <1>1, <1>2 DEF IInv, FilesInv
<1>5. RoomInv'
  BY <1>1, <1>2 DEF IInv, RoomInv
<1>6. PhaseInv'
  <2>1. LogRecords(LogList)' = LogRecords(LogList) /\ log_sequence_nrs(lg)' = log_sequence_nrs(lg)
    BY <1>1, <1>2 DEF LogRecords
  <2> QED  BY <1>1, <1>2, <2>1 DEF IInv, PhaseInv
<1>7. MemoryInv'
  BY <1>1, <1>2 DEF IInv, MemoryInv
<1>8. TxInv'
  BY <1>1, <1>2 DEF IInv, TxInv
<1>9. LogInv'
  BY <1>1, <1>2 DEF IInv, LogInv
<1> QED  BY <1>3, <1>4, <1>5, <1>6, <1>7, <1>8, <1>9 DEF IInv

LEMMA NextInv ==
  ASSUME Orderly, Unlimited, IInv, [Next]_vars
  PROVE  IInv'
<1>1. CASE Start
  BY <1>1, CreateLogStep, CreateCatalogStep, LoggerLoadStep, LoggerOpenStep, OpenSyncedStep DEF Start
<1>2. CASE Restart
  BY <1>2, StoreManagerStep, ExitRenameStep, ExitNewFileStep, LoggerCommitStep, ExitWriteIdStep,
     ExitSwitchStep DEF Restart
<1>3. CASE Cleanup
  BY <1>3, CleanupLogStep, CleanupBakStep, CleanupOldStep DEF Cleanup
<1>4. CASE Transaction
  <2>1. ASSUME NEW n \in Names, log_create_delta(n) \/ tr_log_delta(n) \/ log_destroy_delta(n)
        PROVE  IInv'
    BY <2>1, LogCreateStep, LogDeltaStep, LogDestroyStep
  <2> QED  BY <1>4, <2>1, LogTstartStep, TendSnapshotsStep, TendWriteStep, TendSyncStep,
              RollforwardApplyStep, LogSequenceStep, SequenceSyncStep DEF Transaction
<1>5. CASE Crash
  BY <1>5, CrashStep
<1>6. CASE Shutdown
  BY <1>6, ShutdownStep
<1>7. CASE UNCHANGED vars
  BY <1>7, Stuttering
<1> QED  BY <1>1, <1>2, <1>3, <1>4, <1>5, <1>6, <1>7 DEF Next

(* The inductive invariant: the checkpoint is one a log can be read onto,  *)
(* and the log gives, on it and on everything it may grow into, what is    *)
(* committed; the logger in memory can take the next checkpoint.           *)
THEOREM Invariant == Orderly /\ Unlimited /\ Spec => []IInv
<1>1. SUFFICES ASSUME Orderly, Unlimited PROVE Spec => []IInv
  OBVIOUS
<1>2. Init => IInv
  BY InitInv
<1>3. IInv /\ [Next]_vars => IInv'
  BY <1>1, NextInv
<1> QED  BY <1>2, <1>3, PTL DEF Spec

-----------------------------------------------------------------------------
(***************************************************************************)
(* What it says of a restart.                                              *)
(***************************************************************************)
LEMMA LoggerIs ==
  ASSUME IInv
  PROVE  lg \in Loggers /\ lg.id \in Ids \cup {1}
<1>1. lg \in Loggers /\ Base(ckpt)
  BY DEF IInv, TypeInv, MemoryInv
<1>2. CASE pc \in {"down", "create"}
  <2>1. lg = Loaded(1)
    BY <1>2 DEF IInv, FilesInv
  <2> QED  BY <1>1, <2>1, LoadedType
<1>3. CASE pc \notin {"down", "create"}
  BY <1>1, <1>3 DEF IInv, FilesInv
<1> QED  BY <1>2, <1>3

LEMMA InvTypeOK == IInv => TypeOK
<1> SUFFICES ASSUME IInv PROVE TypeOK
  OBVIOUS
<1>1. lg \in Loggers /\ lg.id \in Ids \cup {1}
  BY LoggerIs
<1>2. TypeInv
  BY DEF IInv
<1>3. /\ lg.catalog \in [Names -> Bids \cup {0}] /\ lg.snaps \in [Bids -> 0 .. MaxTx]
      /\ lg.bats \in [Bids -> Contents \cup {Absent}]
      /\ lg.old \subseteq Bids /\ lg.freed \subseteq Bids /\ lg.tid \in 0 .. MaxTx
  BY <1>1 DEF Loggers, Catalogs, Snaps, Bats, Cells, Tids
<1>4. /\ ckpt.catalog \in [Names -> Bids \cup {0}] /\ ckpt.snaps \in [Bids -> 0 .. MaxTx]
      /\ ckpt.bats \in [Bids -> Contents \cup {Absent}]
  BY <1>2 DEF TypeInv, Checkpoints, Catalogs, Snaps, Bats, Cells, Tids
<1> QED  BY <1>1, <1>2, <1>3, <1>4 DEF TypeInv, TypeOK, Cells

LEMMA InvBootable == IInv => Bootable
<1> SUFFICES ASSUME IInv PROVE Bootable
  OBVIOUS
<1>1. pc # "refused"
  BY DEF IInv, FilesInv
<1>2. ASSUME Window = "none"
      PROVE  (ckpt.exists <=> LogList # Absent) /\ (ckpt.exists => LogList \in Ids)
  <2>1. pc # "create"
    BY <1>2 DEF Window
  <2>2. Absent \notin Ids
    BY AbsentIs DEF Ids
  <2>3. CASE pc = "down"
    BY <2>2, <2>3 DEF IInv, FilesInv
  <2>4. CASE pc # "down"
    BY <1>1, <1>2, <2>4, StopFacts
  <2> QED  BY <2>3, <2>4
<1> QED  BY <1>1, <1>2 DEF Bootable

LEMMA InvEntries == IInv => EntriesFound
<1> SUFFICES ASSUME IInv PROVE EntriesFound
  OBVIOUS
<1>1. pc = "bmcommit" => lg.seqs[LOG_SID] # 0
  BY DEF IInv, MemoryInv
<1>2. cleaning \in {"log", "bak"} => baks[lg.id] \in Ids
  BY DEF IInv, PhaseInv
<1> QED  BY <1>1, <1>2 DEF EntriesFound

LEMMA InvSnapshots == IInv => SnapshotsPast
<1> SUFFICES ASSUME IInv, pc \notin {"down", "refused"}, NEW b \in CatalogBats(lg)
             PROVE  lg.snaps[b] <= lg.tid
  BY DEF SnapshotsPast
<1>1. PICK n \in Names : lg.catalog[n] = b /\ lg.catalog[n] # 0
  BY DEF CatalogBats
<1>2. CASE pc = "create"
  <2>1. lg = Loaded(1) /\ Base(ckpt) /\ ckpt = NoCkpt
    BY <1>2 DEF IInv, FilesInv, MemoryInv
  <2>2. lg.catalog = ckpt.catalog
    BY <2>1, LoadedType
  <2> QED  BY <1>1, <2>1, <2>2, NoCkptIs
<1>3. CASE pc # "create"
  BY <1>1, <1>3 DEF IInv, MemoryInv
<1> QED  BY <1>2, <1>3

(* Reading the log now finds what is committed.                            *)
Restarts ==
    Recovered.err = "OK" /\ Columns(Recovered) = col /\ Recovered.seqs[OBJ_SID] = seq

LEMMA InvRestarts ==
  ASSUME IInv, Window = "none"
  PROVE  Restarts
<1>1. Base(ckpt) /\ pc # "create"
  BY DEF IInv, MemoryInv, Window
<1>2. CASE ckpt.exists
  <2>1. Recovered = Replay(ckpt, LogList, Log)
    BY DEF Recovered, Replay, Loaded, From, Log
  <2>2. PICK d : d = IF pc = "sync" THEN tx.col ELSE col
    OBVIOUS
  <2>3. PICK v : v = IF pc \in {"seq", "txseq"} THEN lg.seqs[OBJ_SID] ELSE seq
    OBVIOUS
  <2>4. Gives(LogList, Log, buf, ckpt, col, d, seq, v, LastTid)
    BY <1>2, <2>2, <2>3 DEF IInv, LogInv
  <2>5. buf = <<>> => d = col /\ v = seq
    BY <2>2, <2>3 DEF IInv, PhaseInv
  <2>6. PICK g : g = Replay(ckpt, LogList, Log)
    OBVIOUS
  <2>7. Finds(ckpt, LogList, g, ckpt, col, seq, LastTid)
    <3>1. /\ buf = <<>> => Finds(ckpt, LogList, g, ckpt, d, v, LastTid)
          /\ buf # <<>> => Finds(ckpt, LogList, g, ckpt, col, seq, LastTid)
      BY <1>1, <2>4, <2>6, GivesFinds
    <3> QED  BY <2>5, <3>1
  <2>8. g.err = "OK" /\ Columns(g) = col /\ g.seqs[OBJ_SID] = seq
    BY <2>7 DEF Finds, Found
  <2>9. Recovered = g
    BY <2>1, <2>6, Zenon
  <2> QED  BY <2>8, <2>9, Zenon DEF Restarts
<1>3. CASE ~ckpt.exists
  <2>1. pc = "down" /\ ckpt = NoCkpt /\ col = NoColumns /\ seq = 0 /\ LogList = Absent
    BY <1>1, <1>3 DEF IInv, FilesInv
  <2>2. LogRecords(LogList) = <<>>
    BY <2>1, AbsentIs DEF LogRecords, Ids
  <2>3. PICK g : g = Loaded(Absent)
    OBVIOUS
  <2>4. Recovered = g
    <3>1. Recovered = Replayed(g, <<>>)
      BY <2>1, <2>2, <2>3, Zenon DEF Recovered
    <3>2. Replayed(g, <<>>) = g
      BY ReplayedEmpty
    <3> QED  BY <3>1, <3>2, Zenon
  <2>5. g.err = "OK" /\ g.catalog = ckpt.catalog /\ g.bats = ckpt.bats /\ g.seqs = NoSeqs
    BY <2>3 DEF Loaded
  <2>6. Columns(g) = Columns(ckpt)
    BY <2>5 DEF Columns
  <2>7. g.err = "OK" /\ Columns(g) = col /\ g.seqs[OBJ_SID] = seq
    BY <2>1, <2>5, <2>6, NoCkptIs DEF NoSeqs, Sids
  <2> QED  BY <2>4, <2>7, Zenon DEF Restarts
<1> QED  BY <1>2, <1>3

LEMMA InvDurable == IInv => Durable /\ SequencesSurvive
<1> SUFFICES ASSUME IInv, Window = "none"
             PROVE  Recovered.err # "ERR" /\ Columns(Recovered) = col /\ Recovered.seqs[OBJ_SID] = seq
  BY Zenon DEF Durable, SequencesSurvive
<1>1. Restarts
  BY InvRestarts
<1> QED  BY <1>1 DEF Restarts

(* Every variable has its type, the records in the files included.         *)
THEOREM TypeCorrect == Orderly /\ Unlimited /\ Spec => []TypeOK
BY Invariant, InvTypeOK, PTL

(* At every moment a restart finds exactly the committed transactions,     *)
(* each applied once, and it finds every bat that its records need (the    *)
(* replay in logger_create): however many transactions, snapshots, new log *)
(* files and crashes, outside the windows that Orderly names.              *)
THEOREM CommittedSurvives == Orderly /\ Unlimited /\ Spec => []Durable
<1>1. IInv => Durable
  BY InvDurable
<1> QED  BY <1>1, Invariant, PTL

(* A restart finds the last number log_sequence has recorded.              *)
THEOREM NumbersSurvive == Orderly /\ Unlimited /\ Spec => []SequencesSurvive
<1>1. IInv => SequencesSurvive
  BY InvDurable
<1> QED  BY <1>1, Invariant, PTL

(* No start is refused: log and catalog exist both or neither, and the log *)
(* names its file (logger_load, logger_create).                            *)
THEOREM NeverRefused == Orderly /\ Unlimited /\ Spec => []Bootable
BY Invariant, InvBootable, PTL

(* logger_commit finds the entry it overwrites, logger_cleanup the file    *)
(* that names the log to remove.                                           *)
THEOREM EntriesKept == Orderly /\ Unlimited /\ Spec => []EntriesFound
BY Invariant, InvEntries, PTL

(* No column has a snapshot from a transaction that is still to come,      *)
(* whose changes avoid_snapshot would skip.                                *)
THEOREM SnapshotsOld == Orderly /\ Unlimited /\ Spec => []SnapshotsPast
BY Invariant, InvSnapshots, PTL

-----------------------------------------------------------------------------
(***************************************************************************)
(* The clean-up: which logs there are.  They follow one another up to the  *)
(* one in log or log.bak, apart from those that a clean-up in progress has *)
(* removed so far, and at least as many as are to be kept.                 *)
(***************************************************************************)
Uninterrupted == CrashWindows = {}

(* The last of the logs that the clean-up is to remove and has not yet.    *)
LastOld == IF cleaning = "old" THEN oldId ELSE LogList - KeepLogs - 1

LogsInv ==
    /\ LogList \notin Ids => \A k \in Ids : wal[k] = Absent
    /\ LogList \in Ids =>
          /\ LastOld <= LogList - KeepLogs - 1
          /\ \A k \in Ids :
                /\ k > LogList => wal[k] = Absent
                /\ LogList - KeepLogs <= k /\ k < LogList => wal[k] # Absent
                /\ LastOld < k /\ k < LogList - KeepLogs => wal[k] = Absent
                /\ k <= LastOld /\ (\E j \in Ids : j <= k /\ wal[j] # Absent) => wal[k] # Absent

LEMMA LogNumbers ==
  ASSUME IInv
  PROVE  /\ Ids \subseteq Nat /\ \A k \in Ids : k >= 2
         /\ KeepLogs \in Nat /\ oldId \in Int /\ Absent \notin Ids
         /\ LogList \in Ids => LastOld \in Int
         /\ \A k \in Ids : \A m \in Int : 2 <= m /\ m <= k => m \in Ids
<1>1. /\ Ids \subseteq Nat /\ \A k \in Ids : k >= 2
      /\ KeepLogs \in Nat /\ oldId \in Int
      /\ \A k \in Ids : \A m \in Int : 2 <= m /\ m <= k => m \in Ids
  BY LoggerAssumption, SMTT(60) DEF IInv, TypeInv, Ids
<1>2. Absent \notin Ids
  BY <1>1, AbsentIs
<1>3. LogList \in Ids => LastOld \in Int
  <2>1. LogList \in Ids => LogList \in Nat
    BY <1>1
  <2>2. LogList \in Nat => LogList - KeepLogs - 1 \in Int
    BY <1>1
  <2> QED  BY <1>1, <2>1, <2>2 DEF LastOld
<1> QED  BY <1>1, <1>2, <1>3

(* Writing to the log in use changes nothing.                              *)
LEMMA LogsSame ==
  ASSUME IInv, LogsInv, LogList' = LogList, LogList \in Ids => LastOld' = LastOld,
         \A k \in Ids : wal'[k] = wal[k] \/ (LogList \in Ids /\ k = LogList)
  PROVE  LogsInv'
<1>1. CASE LogList \notin Ids
  BY <1>1 DEF LogsInv, Ids
<1>2. CASE LogList \in Ids
  <2> DEFINE top == LogList
             last == LastOld
  <2>1. /\ Ids \subseteq Nat /\ KeepLogs \in Nat /\ top \in Ids /\ last \in Int
        /\ last <= top - KeepLogs - 1
    BY <1>2, LogNumbers DEF LogsInv
  <2>2. \A k \in Ids : k # top => wal'[k] = wal[k]
    OBVIOUS
  <2>3. \A k \in Ids :
           /\ k > top => wal[k] = Absent
           /\ top - KeepLogs <= k /\ k < top => wal[k] # Absent
           /\ last < k /\ k < top - KeepLogs => wal[k] = Absent
           /\ k <= last /\ (\E j \in Ids : j <= k /\ wal[j] # Absent) => wal[k] # Absent
    BY <1>2 DEF LogsInv
  <2>4. LogList' = top /\ LastOld' = last /\ Ids' = Ids
    BY <1>2 DEF Ids
  <2> HIDE DEF top, last
  <2>5. ASSUME NEW k \in Ids
        PROVE  /\ k > top => wal'[k] = Absent
               /\ top - KeepLogs <= k /\ k < top => wal'[k] # Absent
               /\ last < k /\ k < top - KeepLogs => wal'[k] = Absent
               /\ k <= last /\ (\E j \in Ids : j <= k /\ wal'[j] # Absent) => wal'[k] # Absent
    <3>1. CASE k = top
      BY <2>1, <3>1
    <3>2. CASE k # top
      <4>1. wal'[k] = wal[k] /\ (k <= last => \A j \in Ids : j <= k => wal'[j] = wal[j])
        BY <2>1, <2>2, <3>2
      <4> QED  BY <2>3, <4>1
    <3> QED  BY <3>1, <3>2
  <2> QED  BY <2>1, <2>4, <2>5 DEF LogsInv
<1> QED  BY <1>1, <1>2

(* A step of a transaction or of a restart.                                *)
LEMMA LogsWritten ==
  ASSUME IInv, LogsInv, UNCHANGED <<master, bak, oldId>>, cleaning' = "old" <=> cleaning = "old",
         wal' = wal \/ (/\ pc \in Running \cup {"open", "opening", "reopen", "reopening"}
                        /\ \E x : wal' = [wal EXCEPT ![lg.id] = x])
  PROVE  LogsInv'
<1>1. LogList' = LogList /\ LastOld' = LastOld
  BY DEF LogList, LastOld
<1>2. CASE wal' = wal
  BY <1>1, <1>2, LogsSame
<1>3. CASE pc \in Running \cup {"open", "opening", "reopen", "reopening"}
           /\ \E x : wal' = [wal EXCEPT ![lg.id] = x]
  <2>1. pc \notin {"down", "create"}
    BY <1>3 DEF Running, Collecting
  <2>2. LogList = lg.id /\ lg.id \in Ids
    BY <1>3, <2>1 DEF IInv, FilesInv, LogList
  <2>3. DOMAIN wal = Ids
    BY DEF IInv, TypeInv
  <2>4. \A k \in Ids : wal'[k] = wal[k] \/ k = LogList
    BY <1>3, <2>2, <2>3
  <2> QED  BY <1>1, <2>2, <2>4, LogsSame
<1> QED  BY <1>2, <1>3

LEMMA LogsStart ==
  ASSUME IInv, LogsInv, Start
  PROVE  LogsInv'
<1>1. CASE CreateLog
  <2>1. /\ \A k \in Ids : wal[k] = Absent /\ wal' = wal
        /\ ~ckpt.exists /\ LogList = Absent /\ master' = 2 /\ bak' = Absent
        /\ cleaning' = "none"
    BY <1>1 DEF CreateLog, IInv, FilesInv, PhaseInv, Running, Collecting
  <2>2. LogList' = 2 /\ LastOld' = 2 - KeepLogs - 1 /\ Ids' = Ids
    BY <2>1 DEF LogList, LastOld, Ids
  <2>3. Ids \subseteq Nat /\ KeepLogs \in Nat /\ \A k \in Ids : k >= 2
    BY LogNumbers
  <2>4. \A k \in Ids : wal'[k] = Absent
    BY <2>1
  <2> HIDE <1>1
  <2> QED  BY <2>2, <2>3, <2>4 DEF LogsInv
<1>2. CASE CreateCatalog
  BY <1>2, LogsWritten DEF CreateCatalog, dirVars
<1>3. CASE logger_load
  <2>1. LogList \in Ids /\ master' = LogList /\ bak' = Absent /\ wal' = wal /\ oldId' = oldId
        /\ cleaning' = cleaning
    BY <1>3 DEF logger_load, IInv, FilesInv, bounds
  <2>2. LogList' = LogList
    BY <2>1 DEF LogList
  <2>3. LastOld' = LastOld
    BY <2>1, <2>2 DEF LastOld
  <2> QED  BY <2>1, <2>2, <2>3, LogsSame
<1>4. CASE logger_open
  BY <1>4, LogsWritten DEF logger_open, bounds
<1>5. CASE OpenSynced
  <2>1. cleaning = "none"
    BY <1>5 DEF OpenSynced, IInv, PhaseInv, Running, Collecting
  <2> QED  BY <1>5, <2>1, LogsWritten DEF OpenSynced, SyncLog
<1> QED  BY <1>1, <1>2, <1>3, <1>4, <1>5 DEF Start

LEMMA LogsRestart ==
  ASSUME IInv, LogsInv, Restart
  PROVE  LogsInv'
<1>1. CASE store_manager
  BY <1>1, LogsWritten DEF store_manager, dirVars
<1>2. CASE logger_commit
  BY <1>2, LogsWritten DEF logger_commit, dirVars
<1>3. ASSUME LogList' = LogList, wal' = wal, oldId' = oldId, cleaning' = cleaning PROVE LogsInv'
  <2>1. LastOld' = LastOld
    BY <1>3 DEF LastOld
  <2> QED  BY <1>3, <2>1, LogsSame
<1>4. CASE ExitRename
  <2>1. bak = Absent /\ master = lg.id /\ lg.id \in Ids /\ Absent \notin Ids
    BY <1>4, LogNumbers DEF ExitRename, IInv, FilesInv
  <2>2. LogList' = LogList
    BY <1>4, <2>1 DEF ExitRename, LogList
  <2> QED  BY <1>3, <1>4, <2>2 DEF ExitRename
<1>5. CASE ExitNewFile \/ ExitWriteId
  <2>1. bak \in LogIds /\ bak # Absent
    <3>1. lg.id \in Nat
      BY DEF IInv, TypeInv, Loggers
    <3>2. bak = lg.id \/ bak = lg.id - 1
      BY <1>5 DEF ExitNewFile, ExitWriteId, IInv, FilesInv
    <3>3. lg.id \in Ids
      BY <1>5 DEF ExitNewFile, ExitWriteId, IInv, FilesInv
    <3>4. bak \in Nat
      BY <3>2, <3>3, LogNumbers
    <3> QED  BY <3>4, AbsentIs DEF IInv, TypeInv
  <2>2. LogList' = LogList
    BY <1>5, <2>1 DEF ExitNewFile, ExitWriteId, LogList
  <2> QED  BY <1>3, <1>5, <2>2 DEF ExitNewFile, ExitWriteId
<1>6. CASE ExitSwitch
  <2>1. /\ bak = lg.id - 1 /\ master = lg.id /\ lg.id \in Ids /\ bak \in LogIds
        /\ bak' = Absent /\ master' = master /\ wal' = wal /\ cleaning = "none" /\ cleaning' = "none"
        /\ wal[bak] # Absent
    BY <1>6 DEF ExitSwitch, IInv, TypeInv, FilesInv, PhaseInv, Running, Collecting
  <2>2. /\ Ids \subseteq Nat /\ KeepLogs \in Nat /\ \A k \in Ids : k >= 2
        /\ Absent \notin Nat
    BY LogNumbers, AbsentIs
  <2> DEFINE top == lg.id - 1
  <2>3. top \in Ids /\ top + 1 = lg.id /\ bak = top /\ top # Absent
    <3>1. lg.id \in Nat /\ lg.id >= 2
      BY <2>1, <2>2
    <3>2. top \in Nat /\ top + 1 = lg.id
      BY <3>1
    <3>3. bak = top /\ top # Absent
      BY <2>1, <2>2, <3>2
    <3> QED  BY <2>1, <3>2, <3>3 DEF LogIds
  <2>4. LogList = top /\ LogList' = top + 1 /\ top + 1 \in Ids /\ Ids' = Ids
    BY <2>1, <2>3 DEF LogList, Ids
  <2>5. LastOld = LogList - KeepLogs - 1 /\ LastOld' = LogList' - KeepLogs - 1
    BY <2>1 DEF LastOld
  <2>6. \A k \in Ids :
           /\ k > top => wal[k] = Absent
           /\ top - KeepLogs <= k /\ k < top => wal[k] # Absent
           /\ k <= top - KeepLogs - 1 /\ (\E j \in Ids : j <= k /\ wal[j] # Absent) => wal[k] # Absent
    BY <2>4, <2>5, <2>3 DEF LogsInv
  <2>7. wal[top] # Absent /\ wal' = wal
    BY <2>1, <2>3
  <2> HIDE DEF top
  <2>8. ASSUME NEW k \in Ids
        PROVE  /\ k > LogList' => wal'[k] = Absent
               /\ LogList' - KeepLogs <= k /\ k < LogList' => wal'[k] # Absent
               /\ ~(LastOld' < k /\ k < LogList' - KeepLogs)
               /\ k <= LastOld' /\ (\E j \in Ids : j <= k /\ wal'[j] # Absent) => wal'[k] # Absent
    <3>1. top \in Nat /\ k \in Nat
      BY <2>2, <2>3
    <3>2. CASE k = top
      BY <2>2, <2>4, <2>5, <2>7, <3>1, <3>2
    <3>3. CASE k # top
      BY <2>2, <2>4, <2>5, <2>6, <2>7, <3>1, <3>3
    <3> QED  BY <3>2, <3>3
  <2>9. LogList' \in Ids' /\ LastOld' <= LogList' - KeepLogs - 1 /\ Ids' = Ids
    BY <2>2, <2>3, <2>4, <2>5
  <2> QED  BY <2>8, <2>9 DEF LogsInv
<1> QED  BY <1>1, <1>2, <1>4, <1>5, <1>6 DEF Restart

LEMMA LogsCleanup ==
  ASSUME KeepLogs > 0, IInv, LogsInv, Cleanup
  PROVE  LogsInv'
<1>1. KeepLogs \in Nat /\ KeepLogs # 0 /\ Ids \subseteq Nat
  BY LogNumbers
<1>2. /\ pc \in Running /\ master = lg.id /\ bak = Absent /\ lg.id \in Ids
      /\ master' = master /\ bak' = bak
  BY DEF Cleanup, CleanupLog, CleanupBak, CleanupOld, IInv, FilesInv, PhaseInv, Running, Collecting
<1>3. LogList = lg.id /\ LogList' = lg.id /\ Ids' = Ids
  BY <1>2 DEF LogList, Ids
<1>4. CASE CleanupLog
  BY <1>1, <1>4, LogsWritten DEF CleanupLog
<1>5. CASE CleanupBak
  <2>1. wal' = wal /\ LastOld = lg.id - KeepLogs - 1 /\ LastOld' = lg.id - KeepLogs - 1
    BY <1>1, <1>3, <1>5 DEF CleanupBak, LastOld, FirstOld
  <2> QED  BY <1>3, <2>1, LogsSame
<1>6. CASE CleanupOld
  <2> DEFINE top == lg.id
  <2>1. /\ top \in Nat /\ top \in Ids /\ oldId \in Int /\ oldId <= top - KeepLogs - 1
        /\ LastOld = oldId /\ cleaning = "old"
    BY <1>1, <1>2, <1>3, <1>6, LogNumbers DEF CleanupOld, LogsInv, LastOld
  <2>2. \A k \in Ids :
           /\ k > top => wal[k] = Absent
           /\ top - KeepLogs <= k /\ k < top => wal[k] # Absent
           /\ oldId < k /\ k < top - KeepLogs => wal[k] = Absent
           /\ k <= oldId /\ (\E j \in Ids : j <= k /\ wal[j] # Absent) => wal[k] # Absent
    BY <1>2, <1>3, <2>1 DEF LogsInv
  <2>3. CASE cleaning' = "old"
    <3>1. /\ oldId \in Ids /\ oldId' = oldId - 1 /\ wal' = [wal EXCEPT ![oldId] = Absent]
          /\ LastOld' = oldId - 1
      BY <1>6, <2>3 DEF CleanupOld, LastOld
    <3>2. \A k \in Ids : wal'[k] = IF k = oldId THEN Absent ELSE wal[k]
      BY <3>1 DEF IInv, TypeInv
    <3> HIDE DEF top
    <3>3. ASSUME NEW k \in Ids
          PROVE  /\ k > top => wal'[k] = Absent
                 /\ top - KeepLogs <= k /\ k < top => wal'[k] # Absent
                 /\ oldId - 1 < k /\ k < top - KeepLogs => wal'[k] = Absent
                 /\ k <= oldId - 1 /\ (\E j \in Ids : j <= k /\ wal'[j] # Absent) => wal'[k] # Absent
      <4>1. k \in Nat
        BY <1>1
      <4>2. CASE k < oldId
        <5>1. wal'[k] = wal[k] /\ \A j \in Ids : j <= k => wal'[j] = wal[j]
          BY <1>1, <2>1, <3>2, <4>1, <4>2
        <5>2. ~(k > top) /\ ~(top - KeepLogs <= k) /\ ~(oldId - 1 < k) /\ k <= oldId
          BY <1>1, <2>1, <4>1, <4>2
        <5>3. (\E j \in Ids : j <= k /\ wal'[j] # Absent) => wal'[k] # Absent
          BY <2>2, <5>1, <5>2
        <5> QED  BY <5>2, <5>3
      <4>3. CASE k = oldId
        BY <1>1, <2>1, <3>2, <4>1, <4>3
      <4>4. CASE k > oldId
        BY <1>1, <2>1, <2>2, <3>2, <4>1, <4>4
      <4> QED  BY <2>1, <4>1, <4>2, <4>3, <4>4
    <3>4. oldId - 1 <= top - KeepLogs - 1
      BY <1>1, <2>1
    <3>5. LogList' = top
      BY <1>3 DEF top
    <3> QED  BY <1>3, <2>1, <3>1, <3>3, <3>4, <3>5 DEF LogsInv
  <2>4. CASE cleaning' # "old"
    <3>1. /\ ~(oldId \in Ids /\ wal[oldId] # Absent) /\ wal' = wal /\ cleaning' = "none"
          /\ LastOld' = top - KeepLogs - 1
      BY <1>3, <1>6, <2>1, <2>4 DEF CleanupOld, LastOld
    <3>2. LogList' = top
      BY <1>3
    <3> HIDE DEF top
    <3>3. ASSUME NEW k \in Ids, k <= top - KeepLogs - 1 PROVE wal[k] = Absent
      <4>1. k \in Nat /\ k < top - KeepLogs
        BY <1>1, <2>1, <3>3
      <4>2. CASE k > oldId
        BY <2>2, <4>1, <4>2
      <4>3. CASE k <= oldId
        <5>1. oldId \in Ids
          <6>1. k >= 2 /\ oldId <= top
            BY <1>1, <2>1, LogNumbers
          <6> QED  BY <2>1, <4>1, <4>3, <6>1, LogNumbers
        <5>2. wal[k] # Absent => wal[oldId] # Absent
          BY <2>1, <2>2, <4>3, <5>1
        <5> QED  BY <3>1, <5>1, <5>2
      <4> QED  BY <2>1, <4>1, <4>2, <4>3
    <3>4. ASSUME NEW k \in Ids
          PROVE  /\ ~(top - KeepLogs - 1 < k /\ k < top - KeepLogs)
                 /\ k <= top - KeepLogs - 1 => \A j \in Ids : j <= k => wal[j] = Absent
      BY <1>1, <2>1, <3>3
    <3>5. top - KeepLogs - 1 <= top - KeepLogs - 1
      BY <1>1, <2>1
    <3> QED  BY <1>3, <2>1, <2>2, <3>1, <3>2, <3>4, <3>5 DEF LogsInv
  <2> QED  BY <2>3, <2>4
<1> QED  BY <1>4, <1>5, <1>6 DEF Cleanup

LEMMA LogsTransaction ==
  ASSUME IInv, LogsInv, Transaction
  PROVE  LogsInv'
<1> USE DEF dirVars, bounds
<1>1. ASSUME NEW n \in Names, log_create_delta(n) \/ tr_log_delta(n) \/ log_destroy_delta(n)
      PROVE  UNCHANGED <<master, bak, wal, cleaning, oldId>>
  BY <1>1, ZenonT(60) DEF log_create_delta, tr_log_delta, log_destroy_delta
<1>2. CASE log_tstart \/ TendSnapshots \/ TendWrite \/ RollforwardApply \/ log_sequence
  BY <1>2, LogsWritten DEF log_tstart, TendSnapshots, TendWrite, RollforwardApply, log_sequence
<1>3. CASE TendSync \/ SequenceSync
  BY <1>3, LogsWritten DEF TendSync, SequenceSync, SyncLog, Running, Collecting
<1> QED  BY <1>1, <1>2, <1>3, LogsWritten DEF Transaction

(* A stop keeps the files; what it may leave of a clean-up is all of it.   *)
LEMMA LogsStop ==
  ASSUME Uninterrupted, IInv, LogsInv, Crash \/ Shutdown
  PROVE  LogsInv'
<1>1. PICK k \in 0 .. Len(buf) : Stop(k)
  <2>1. buf \in Seq(Records)
    BY DEF IInv, TypeInv
  <2>2. Len(buf) \in 0 .. Len(buf)
    BY <2>1
  <2> QED  BY <2>2 DEF Crash, Shutdown
<1>2. Window = "none"
  BY DEF Crash, Shutdown, Uninterrupted, Window
<1>3. pc \notin {"down", "refused"}
  BY DEF Crash, Shutdown
<1>4. LogList \in Ids /\ (buf # <<>> => lg.id = LogList) /\ LogList' = LogList /\ DOMAIN wal = Ids
  BY <1>1, <1>2, <1>3, StopFacts DEF Stop, LogList, IInv, TypeInv
<1>5. cleaning = "old" => oldId >= FirstOld /\ lg.id = LogList
  <2>1. cleaning = "old" => master = lg.id /\ bak = Absent
    BY DEF IInv, PhaseInv, FilesInv, Running, Collecting
  <2>2. cleaning = "old" => ~(oldId < FirstOld)
    BY DEF Crash, Shutdown, Uninterrupted
  <2>3. lg.id \in Nat /\ KeepLogs \in Nat /\ oldId \in Int
    BY LogNumbers, SMTT(60) DEF IInv, TypeInv, Loggers
  <2> QED  BY <2>1, <2>2, <2>3 DEF LogList, FirstOld
<1>6. LastOld' = LastOld
  <2>1. LastOld' = LogList - KeepLogs - 1
    BY <1>1, <1>4 DEF LastOld, Stop
  <2>2. cleaning = "old" => oldId = LogList - KeepLogs - 1
    <3>1. cleaning = "old" => oldId <= LogList - KeepLogs - 1
      BY <1>4 DEF LogsInv, LastOld
    <3>2. LogList \in Nat /\ KeepLogs \in Nat /\ oldId \in Int
      BY <1>4, LogNumbers
    <3> QED  BY <1>5, <3>1, <3>2 DEF FirstOld
  <2> QED  BY <2>1, <2>2 DEF LastOld
<1>7. \A m \in Ids : wal'[m] = wal[m] \/ m = LogList
  <2>1. CASE wal' = wal
    BY <2>1
  <2>2. CASE wal' # wal
    <3>1. k # 0 /\ wal' = [wal EXCEPT ![lg.id] = @ \o SubSeq(buf, 1, k)]
      BY <1>1, <2>2 DEF Stop
    <3>2. buf # <<>>
      BY <1>1, <3>1
    <3> QED  BY <1>4, <3>1, <3>2
  <2> QED  BY <2>1, <2>2
<1> QED  BY <1>4, <1>6, <1>7, LogsSame

LEMMA LogsNext ==
  ASSUME Uninterrupted, KeepLogs > 0, IInv, LogsInv, [Next]_vars
  PROVE  LogsInv'
<1>1. CASE UNCHANGED vars
  BY <1>1, LogsWritten DEF vars, dirVars
<1> QED  BY <1>1, LogsStart, LogsRestart, LogsCleanup, LogsTransaction, LogsStop DEF Next

(* The last step of a clean-up leaves the log in use and the ones to keep. *)
LEMMA LogsLeft ==
  ASSUME KeepLogs > 0, IInv, LogsInv, LogsInv', CleanupBak \/ CleanupOld, cleaning' = "none"
  PROVE  {k \in Ids : wal'[k] # Absent} = {k \in Ids : lg.id - KeepLogs <= k /\ k <= lg.id}
<1>1. CleanupOld /\ KeepLogs \in Nat /\ Ids \subseteq Nat
  BY LogNumbers DEF CleanupBak
<1>2. /\ pc \in Running /\ master = lg.id /\ bak = Absent /\ lg.id \in Ids
      /\ wal' = wal /\ wal[lg.id] # Absent /\ LogList = lg.id /\ LogList' = lg.id /\ cleaning = "old"
      /\ ~(oldId \in Ids /\ wal[oldId] # Absent)
  BY <1>1 DEF CleanupOld, IInv, FilesInv, PhaseInv, Running, Collecting, LogList
<1>3. oldId \in Int /\ LastOld = oldId /\ oldId <= lg.id - KeepLogs - 1
  BY <1>2, LogNumbers DEF LogsInv, LastOld
<1>4. \A k \in Ids :
         /\ k > lg.id => wal[k] = Absent
         /\ lg.id - KeepLogs <= k /\ k < lg.id => wal[k] # Absent
         /\ oldId < k /\ k < lg.id - KeepLogs => wal[k] = Absent
         /\ k <= oldId /\ (\E j \in Ids : j <= k /\ wal[j] # Absent) => wal[k] # Absent
  BY <1>2, <1>3 DEF LogsInv
<1>5. ASSUME NEW k \in Ids, k <= oldId PROVE wal[k] = Absent
  <2>1. oldId \in Ids
    <3>1. k \in Nat /\ k >= 2 /\ lg.id \in Nat
      BY <1>1, <1>2, LogNumbers
    <3>2. 2 <= oldId /\ oldId <= lg.id
      BY <1>1, <1>3, <1>5, <3>1
    <3> QED  BY <1>2, <1>3, <3>2, LogNumbers
  <2> QED  BY <1>1, <1>2, <1>3, <1>4, <1>5, <2>1
<1>6. ASSUME NEW k \in Ids
      PROVE  wal'[k] # Absent <=> lg.id - KeepLogs <= k /\ k <= lg.id
  <2>1. k \in Nat /\ lg.id \in Nat
    BY <1>1, <1>2
  <2>2. CASE k <= oldId
    BY <1>1, <1>2, <1>3, <1>5, <2>1, <2>2
  <2>3. CASE k > oldId
    BY <1>1, <1>2, <1>3, <1>4, <2>1, <2>3
  <2> QED  BY <1>3, <2>1, <2>2, <2>3
<1> QED  BY <1>6

(* A clean-up ends with the log in use and as many older ones as are to be *)
(* kept (logger_cleanup_old): it misses none that an earlier process left, *)
(* as none of the processes died between two removals.                     *)
THEOREM CleanupLeaves == Uninterrupted /\ KeepLogs > 0 /\ Unlimited /\ Spec => CleanupExact
<1>1. SUFFICES ASSUME Uninterrupted, KeepLogs > 0, Unlimited PROVE Spec => CleanupExact
  OBVIOUS
<1>2. Spec => []IInv
  BY <1>1, Invariant DEF Orderly, Uninterrupted
<1>3. Init => LogsInv
  BY AbsentIs DEF Init, LogsInv, LogList, Ids
<1>4. IInv /\ LogsInv /\ [Next]_vars => LogsInv'
  BY <1>1, LogsNext
<1>5. IInv /\ LogsInv /\ LogsInv' =>
         ((CleanupBak \/ CleanupOld) /\ cleaning' = "none" =>
            {k \in Ids : wal'[k] # Absent} = {k \in Ids : lg.id - KeepLogs <= k /\ k <= lg.id})
  BY <1>1, LogsLeft
<1> QED  BY <1>2, <1>3, <1>4, <1>5, PTL DEF Spec, CleanupExact
=============================================================================
