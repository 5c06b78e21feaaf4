--------------------------- MODULE SQLTransProofs ---------------------------
(***************************************************************************)
(* Proofs about SQLTrans, for any sets of sessions, columns and tables and *)
(* any number of transactions.                                             *)
(***************************************************************************)
EXTENDS SQLTrans, TLAPS

(* Something was committed since the database was opened, and no           *)
(* transaction commits after a session has begun that saw the commit of a  *)
(* younger one.  Without either, committed rows can be lost.               *)
Ordered == ~Reopened /\ ~Overtaking

Versions == [wtime : Nat, rows : SUBSET Stamps, ins : BOOLEAN]
Bindings == [at : {"none", "chain", "own"}, v : Versions]
BothTimes == [rtime : Nat, wtime : Nat]

Transactions ==
    [active : BOOLEAN, stime : Nat, wstime : Nat, wtime : Nat, schema_number : Nat,
     schema_updates : BOOLEAN, tab : [Tables -> BothTimes], col : [Columns -> BothTimes],
     data : [Columns -> Bindings]]

Snapshots == [rows : [Columns -> SUBSET Stamps], schema : Nat]

Works == {Store!Idle} \union
    [active : {TRUE}, mark : Nat, snap : Snapshots, read : SUBSET Columns,
     added : SUBSET Columns, cleared : SUBSET Columns, altered : BOOLEAN]

Types ==
    /\ stamp \in Nat
    /\ gtrans \in [wtime : Nat, wstime : Nat, schema_number : Nat]
    /\ chain \in [Columns -> Seq(Versions)]
    /\ cwtime \in [Columns -> Nat]
    /\ gtab \in [Tables -> BothTimes]
    /\ tr \in [Sessions -> Transactions]
    /\ hist \in [Sessions -> Works]

(* Version i is the one timestamp_delta returns.                           *)
Newest(versions, ts, i) ==
    /\ i \in DOMAIN versions
    /\ versions[i].wtime <= ts
    /\ \A j \in DOMAIN versions : j < i => ts < versions[j].wtime

-----------------------------------------------------------------------------
(***************************************************************************)
(* The inductive invariant                                                 *)
(***************************************************************************)

(* The committed times: newer versions have later times, and what is       *)
(* written in a column is written in its table and in the transaction.     *)
Clocks ==
    /\ 1 <= gtrans.wtime /\ gtrans.wtime <= gtrans.wstime
    /\ gtrans.wstime <= stamp /\ stamp <= MaxStamp
    /\ gtrans.schema_number <= MaxSchema
    /\ \A t \in Tables : gtab[t].wtime <= gtrans.wtime /\ gtab[t].rtime <= stamp
    /\ \A c \in Columns : cwtime[c] <= gtab[TableOf[c]].wtime

Chain(c) ==
    /\ 1 \in DOMAIN chain[c]
    /\ chain[c][1].wtime <= cwtime[c]
    /\ \A i, j \in DOMAIN chain[c] : i < j => chain[c][j].wtime < chain[c][i].wtime

(* A session, active or not: its times, and what it may keep of an earlier *)
(* transaction.                                                            *)
Private(x) ==
    /\ x.stime <= gtrans.wtime /\ x.wstime <= stamp
    /\ x.schema_number <= gtrans.schema_number
    /\ x.wtime \in {0, x.wstime}
    /\ \A t \in Tables : x.tab[t].rtime \in {0, x.stime} /\ x.tab[t].wtime \in {0, x.wtime}
    /\ \A c \in Columns :
        /\ x.col[c].wtime \in {0, x.wtime}
        /\ x.data[c].at = "own" => x.tab[TableOf[c]].wtime # 0 /\ x.col[c].wtime # 0
        /\ x.data[c].at = "chain" /\ cwtime[c] <= x.stime => x.data[c].v.wtime = chain[c][1].wtime

(* The version of its start time is what was committed then.               *)
Sees(x, h, c) ==
    \E i \in Nat : /\ Newest(chain[c], x.stime, i)
                   /\ chain[c][i].rows = h.snap.rows[c]
                   /\ x.data[c].at = "chain" => x.data[c].v.wtime = chain[c][i].wtime

Wrote(x, h, c) ==
    /\ x.data[c].at = "own" <=> c \in h.added \union h.cleared
    /\ x.data[c].at = "own" => /\ x.data[c].v.wtime = x.wstime
                               /\ x.data[c].v.rows = Store!Applied(h, c, h.snap.rows[c])
    /\ c \in h.read \union h.added => x.tab[TableOf[c]].rtime = x.stime

(* What an active session has done is what its private copy shows.         *)
Faithful(x, h) ==
    /\ h.active
    /\ 1 <= x.stime /\ x.stime < x.wstime
    /\ \A t \in Tables : gtab[t].wtime # x.wstime
    /\ h.mark = x.wstime
    /\ h.snap.schema = x.schema_number
    /\ h.altered = x.schema_updates
    /\ x.schema_updates => x.schema_number < MaxSchema
    /\ x.wtime # 0 <=> Store!Changes(h)
    /\ \A c \in Columns : Sees(x, h, c) /\ Wrote(x, h, c)

Session(x, h) ==
    /\ Private(x)
    /\ x.active => Faithful(x, h)
    /\ ~x.active => h = Store!Idle

Distinct == \A s, o \in Sessions : tr[s].active /\ tr[o].active /\ s # o => tr[s].wstime # tr[o].wstime

IInv ==
    /\ Types
    /\ Clocks
    /\ \A c \in Columns : Chain(c)
    /\ \A s \in Sessions : Session(tr[s], hist[s])
    /\ Distinct

-----------------------------------------------------------------------------
(***************************************************************************)
(* timestamp_delta                                                         *)
(***************************************************************************)
LEMMA DeltaIsNewest ==
    ASSUME NEW versions \in Seq(Versions), NEW ts \in Nat, NEW i \in Nat,
           Newest(versions, ts, i)
    PROVE  timestamp_delta(versions, ts) = versions[i]
<1> DEFINE old == {j \in DOMAIN versions : versions[j].wtime <= ts}
<1>1. DOMAIN versions = 1..Len(versions) /\ Len(versions) \in Nat
  OBVIOUS
<1>2. \A j \in DOMAIN versions : versions[j] \in Versions
  OBVIOUS
<1>3. i \in old
  BY DEF Newest
<1>4. \A j \in old : i <= j
  BY <1>1, <1>2 DEF Newest, Versions
<1>5. \A k \in old : (\A j \in old : k <= j) => k = i
  BY <1>1, <1>3, <1>4
<1>6. i = CHOOSE k \in old : \A j \in old : k <= j
  <2> HIDE DEF old
  <2> QED BY <1>3, <1>4, <1>5
<1>7. old # {}
  BY <1>3
<1> QED BY <1>6, <1>7 DEF timestamp_delta

LEMMA HeadIsNewest ==
    ASSUME NEW versions \in Seq(Versions), NEW ts \in Nat,
           1 \in DOMAIN versions, versions[1].wtime <= ts
    PROVE  Newest(versions, ts, 1)
BY DEF Newest, Versions

LEMMA StaysNewest ==
    ASSUME NEW versions \in Seq(Versions), NEW ts \in Nat, NEW i \in Nat,
           NEW v \in Versions, Newest(versions, ts, i), ts < v.wtime
    PROVE  /\ Newest(<<v>> \o versions, ts, i + 1)
           /\ (<<v>> \o versions)[i + 1] = versions[i]
<1> DEFINE longer == <<v>> \o versions
<1>1. /\ longer \in Seq(Versions)
      /\ Len(longer) = Len(versions) + 1
      /\ longer[1] = v
      /\ \A j \in 2..Len(versions) + 1 : longer[j] = versions[j - 1]
  OBVIOUS
<1>2. DOMAIN longer = 1..Len(longer) /\ DOMAIN versions = 1..Len(versions) /\ Len(versions) \in Nat
  OBVIOUS
<1>3. i \in 1..Len(versions) /\ longer[i + 1] = versions[i]
  BY <1>1, <1>2 DEF Newest
<1>4. ASSUME NEW j \in DOMAIN longer, j < i + 1 PROVE ts < longer[j].wtime
  <2>1. CASE j = 1
    BY <1>1, <2>1
  <2>2. CASE j # 1
    <3>1. j - 1 \in DOMAIN versions /\ j - 1 < i /\ longer[j] = versions[j - 1]
      BY <1>1, <1>2, <1>3, <1>4, <2>2
    <3> QED BY <3>1 DEF Newest
  <2> QED BY <2>1, <2>2
<1>5. longer[i + 1].wtime <= ts
  BY <1>3 DEF Newest
<1>6. i + 1 \in DOMAIN longer
  BY <1>1, <1>2, <1>3
<1> HIDE DEF longer
<1>7. Newest(longer, ts, i + 1)
  BY <1>4, <1>5, <1>6 DEF Newest
<1> QED BY <1>3, <1>7 DEF longer

-----------------------------------------------------------------------------
(***************************************************************************)
(* Steps of a session that others do not see                               *)
(***************************************************************************)
LEMMA LocalStep ==
    ASSUME IInv, NEW s \in Sessions, tr[s].active,
           NEW y \in Transactions, NEW g \in Works,
           tr' = [tr EXCEPT ![s] = y], hist' = [hist EXCEPT ![s] = g],
           UNCHANGED <<stamp, gtrans, chain, cwtime, gtab>>,
           y.active, y.wstime = tr[s].wstime, Private(y), Faithful(y, g)
    PROVE  IInv'
<1>1. Types'
  BY DEF IInv, Types
<1>2. Clocks'
  BY DEF IInv, Clocks
<1>3. \A c \in Columns : Chain(c)'
  BY DEF IInv, Chain
<1>4. tr'[s] = y /\ hist'[s] = g
      /\ \A o \in Sessions \ {s} : tr'[o] = tr[o] /\ hist'[o] = hist[o]
  BY DEF IInv, Types
<1>5. \A o \in Sessions : Session(tr'[o], hist'[o])
  BY <1>4 DEF IInv, Session
<1>6. (\A o \in Sessions : Session(tr[o], hist[o]))'
  <2>1. ASSUME NEW o \in Sessions PROVE Session(tr[o], hist[o])'
    <3>1. Session(tr'[o], hist'[o])
      BY <1>5
    <3>2. Private(tr[o])'
      BY <3>1 DEF Session, Private
    <3>3. ASSUME tr'[o].active PROVE Faithful(tr[o], hist[o])'
      BY <3>1, <3>3 DEF Session, Faithful, Sees, Wrote
    <3> QED BY <3>1, <3>2, <3>3 DEF Session
  <2> QED BY <2>1
<1>7. Distinct'
  BY <1>4 DEF IInv, Distinct
<1> QED BY <1>1, <1>2, <1>3, <1>6, <1>7 DEF IInv

LEMMA OneNewest ==
    ASSUME NEW versions \in Seq(Versions), NEW ts \in Nat, NEW i \in Nat, NEW j \in Nat,
           Newest(versions, ts, i), Newest(versions, ts, j)
    PROVE  i = j
<1>1. /\ versions[i].wtime <= ts /\ versions[j].wtime <= ts
      /\ i < j => ts < versions[i].wtime
      /\ j < i => ts < versions[j].wtime
  BY DEF Newest
<1>2. versions[i] \in Versions /\ versions[j] \in Versions
  BY DEF Newest
<1>3. versions[i].wtime \in Nat /\ versions[j].wtime \in Nat
  BY <1>2 DEF Versions
<1> QED BY <1>1, <1>3

(* The versions an active session finds.                                   *)
LEMMA Seen ==
    ASSUME IInv, NEW s \in Sessions, tr[s].active, NEW c \in Columns
    PROVE  \E i \in Nat :
              /\ Newest(chain[c], tr[s].stime, i)
              /\ chain[c][i] \in Versions
              /\ timestamp_delta(chain[c], tr[s].stime) = chain[c][i]
              /\ chain[c][i].rows = hist[s].snap.rows[c]
              /\ tr[s].data[c].at = "chain" => tr[s].data[c].v.wtime = chain[c][i].wtime
              /\ cwtime[c] <= tr[s].stime => i = 1
<1>1. PICK i \in Nat : /\ Newest(chain[c], tr[s].stime, i)
                       /\ chain[c][i].rows = hist[s].snap.rows[c]
                       /\ tr[s].data[c].at = "chain" => tr[s].data[c].v.wtime = chain[c][i].wtime
  BY DEF IInv, Session, Faithful, Sees
<1>2. chain[c] \in Seq(Versions) /\ tr[s].stime \in Nat
  BY DEF IInv, Types, Transactions
<1>3. timestamp_delta(chain[c], tr[s].stime) = chain[c][i]
  BY <1>1, <1>2, DeltaIsNewest
<1>4. chain[c][i] \in Versions
  BY <1>1, <1>2 DEF Newest
<1>5. ASSUME cwtime[c] <= tr[s].stime PROVE i = 1
  <2>1. 1 \in DOMAIN chain[c] /\ chain[c][1].wtime <= cwtime[c]
    BY DEF IInv, Chain
  <2>2. chain[c][1] \in Versions
    BY <1>2, <2>1
  <2>3. chain[c][1].wtime \in Nat /\ cwtime[c] \in Nat
    BY <2>2 DEF Versions, IInv, Types
  <2>4. chain[c][1].wtime <= tr[s].stime
    BY <1>2, <1>5, <2>1, <2>3
  <2>5. Newest(chain[c], tr[s].stime, 1)
    BY <1>2, <2>1, <2>4, HeadIsNewest
  <2> QED BY <1>1, <1>2, <2>5, OneNewest
<1> QED BY <1>1, <1>3, <1>4, <1>5

LEMMA Typed ==
    ASSUME IInv, NEW s \in Sessions
    PROVE  /\ tr[s] \in Transactions /\ hist[s] \in Works
           /\ Private(tr[s])
           /\ tr[s].active => /\ Faithful(tr[s], hist[s])
                              /\ hist[s] \in Works \ {Store!Idle}
                              /\ hist[s].active
BY DEF IInv, Types, Session, Faithful, Store!Idle

LEMMA Stamped ==
    ASSUME IInv, NEW s \in Sessions
    PROVE  tr[s].wstime \in Stamps
BY SQLTransAssumption, Typed, SMTT(60) DEF IInv, Clocks, Private, Types, Transactions, Stamps

(* A session's own delta starts as what it sees.                           *)
LEMMA Duplicate ==
    ASSUME IInv, NEW s \in Sessions, tr[s].active, NEW c \in Columns
    PROVE  /\ dup_bat(s, c) \in Versions
           /\ dup_bat(s, c).rows = Store!Applied(hist[s], c, hist[s].snap.rows[c])
<1>1. Wrote(tr[s], hist[s], c)
  BY Typed DEF Faithful
<1>2. CASE tr[s].data[c].at = "own"
  <2>1. tr[s].data[c].v \in Versions
    BY Typed DEF Transactions, Bindings
  <2> QED BY <1>1, <1>2, <2>1 DEF dup_bat, Wrote
<1>3. CASE tr[s].data[c].at # "own"
  <2>1. c \notin hist[s].added /\ c \notin hist[s].cleared
    BY <1>1, <1>3 DEF Wrote
  <2>2. PICK i \in Nat : /\ chain[c][i] \in Versions
                         /\ timestamp_delta(chain[c], tr[s].stime) = chain[c][i]
                         /\ chain[c][i].rows = hist[s].snap.rows[c]
    BY Seen
  <2> QED BY <1>3, <2>1, <2>2 DEF dup_bat, Store!Applied
<1> QED BY <1>2, <1>3

(* Binding a column: to the version of the start time.                     *)
LEMMA Binding ==
    ASSUME IInv, NEW s \in Sessions, tr[s].active, NEW c \in Columns
    PROVE  /\ BindTo(s, c) \in Bindings
           /\ tr[s].data[c].at = "own" => BindTo(s, c) = tr[s].data[c]
           /\ tr[s].data[c].at # "own" => BindTo(s, c).at = "chain"
           /\ BindTo(s, c).at = "chain" =>
                \E i \in Nat : /\ Newest(chain[c], tr[s].stime, i)
                               /\ chain[c][i].rows = hist[s].snap.rows[c]
                               /\ BindTo(s, c).v.wtime = chain[c][i].wtime
                               /\ cwtime[c] <= tr[s].stime => i = 1
<1>1. tr[s].data[c] \in Bindings
  BY Typed DEF Transactions
<1>2. PICK i \in Nat :
        /\ Newest(chain[c], tr[s].stime, i)
        /\ chain[c][i] \in Versions
        /\ timestamp_delta(chain[c], tr[s].stime) = chain[c][i]
        /\ chain[c][i].rows = hist[s].snap.rows[c]
        /\ tr[s].data[c].at = "chain" => tr[s].data[c].v.wtime = chain[c][i].wtime
        /\ cwtime[c] <= tr[s].stime => i = 1
  BY Seen
<1>3. CASE tr[s].data[c].at = "none"
  <2>1. BindTo(s, c) = [at |-> "chain",
                        v |-> [wtime |-> chain[c][i].wtime, rows |-> {}, ins |-> FALSE]]
    BY <1>2, <1>3 DEF BindTo, Pointer, Shared, Version
  <2>2. BindTo(s, c) \in Bindings /\ BindTo(s, c).at = "chain"
        /\ BindTo(s, c).v.wtime = chain[c][i].wtime
    BY <1>2, <2>1 DEF Bindings, Versions
  <2> QED BY <1>2, <1>3, <2>2
<1>4. CASE tr[s].data[c].at # "none"
  <2>1. BindTo(s, c) = tr[s].data[c]
    BY <1>4 DEF BindTo
  <2> QED BY <1>1, <1>2, <1>4, <2>1 DEF Bindings
<1> QED BY <1>3, <1>4

-----------------------------------------------------------------------------
(***************************************************************************)
(* Reads                                                                   *)
(***************************************************************************)
LEMMA ReadStep ==
    ASSUME IInv, NEW s \in Sessions, tr[s].active, NEW c \in Columns,
           NEW y \in Transactions, NEW g \in Works,
           y.active, y.stime = tr[s].stime, y.wstime = tr[s].wstime, y.wtime = tr[s].wtime,
           y.schema_number = tr[s].schema_number, y.schema_updates = tr[s].schema_updates,
           y.data = [tr[s].data EXCEPT ![c] = BindTo(s, c)],
           \A d \in Columns : y.col[d].wtime = tr[s].col[d].wtime,
           \A t \in Tables : /\ y.tab[t].wtime = tr[s].tab[t].wtime
                             /\ y.tab[t].rtime \in {tr[s].tab[t].rtime, tr[s].stime},
           \/ g = hist[s]
           \/ /\ g = [hist[s] EXCEPT !.read = @ \union {c}]
              /\ y.tab[TableOf[c]].rtime = tr[s].stime
    PROVE  Private(y) /\ Faithful(y, g)
<1> DEFINE x == tr[s]
           h == hist[s]
<1>1. /\ x \in Transactions /\ h \in Works /\ Private(x) /\ Faithful(x, h)
  BY Typed
<1>2. /\ h.active /\ h.mark = g.mark /\ g.active /\ h.snap = g.snap /\ h.altered = g.altered
      /\ h.added = g.added /\ h.cleared = g.cleared /\ h.read \subseteq g.read
      /\ g.read \subseteq h.read \union {c}
  BY Typed, ZenonT(60) DEF Works
<1>3. TableOf \in [Columns -> Tables]
  BY SQLTransAssumption, ZenonT(30)
<1>4. \A d \in Columns \ {c} : y.data[d] = x.data[d]
  BY <1>1 DEF Transactions
<1>5. y.data[c] = BindTo(s, c)
  BY <1>1 DEF Transactions
<1>6. \A d \in Columns : y.data[d].at = "own" => x.data[d] = y.data[d]
  BY <1>4, <1>5, Binding DEF Bindings
<1>7. \A d \in Columns : x.data[d].at = "own" => x.data[d] = y.data[d]
  BY <1>4, <1>5, Binding DEF Bindings
<1>8. Private(y)
  <2>1. ASSUME NEW d \in Columns, y.data[d].at = "chain", cwtime[d] <= y.stime
        PROVE  y.data[d].v.wtime = chain[d][1].wtime
    <3>1. CASE d = c
      BY <1>5, <2>1, <3>1, Binding
    <3>2. CASE d # c
      BY <1>1, <1>4, <2>1, <3>2 DEF Private
    <3> QED BY <3>1, <3>2
  <2>2. ASSUME NEW d \in Columns, y.data[d].at = "own"
        PROVE  y.tab[TableOf[d]].wtime # 0 /\ y.col[d].wtime # 0
    BY <1>1, <1>3, <1>6, <2>2 DEF Private
  <2>3. \A t \in Tables : y.tab[t].rtime \in {0, y.stime} /\ y.tab[t].wtime \in {0, y.wtime}
    BY <1>1, ZenonT(30) DEF Private
  <2> QED BY <1>1, <2>1, <2>2, <2>3, ZenonT(60) DEF Private
<1>9. \A d \in Columns : Sees(y, g, d)
  <2> SUFFICES ASSUME NEW d \in Columns PROVE Sees(y, g, d)
    OBVIOUS
  <2>1. CASE d = c /\ y.data[d].at = "chain"
    <3>1. PICK i \in Nat : /\ Newest(chain[c], x.stime, i)
                           /\ chain[c][i].rows = h.snap.rows[c]
                           /\ BindTo(s, c).v.wtime = chain[c][i].wtime
      BY <1>5, <2>1, Binding
    <3> QED BY <1>2, <1>5, <2>1, <3>1 DEF Sees
  <2>2. CASE d = c /\ y.data[d].at # "chain"
    <3>1. Sees(x, h, d)
      BY <1>1 DEF Faithful
    <3> QED BY <1>2, <2>2, <3>1, ZenonT(30) DEF Sees
  <2>3. CASE d # c
    <3>1. Sees(x, h, d)
      BY <1>1 DEF Faithful
    <3> QED BY <1>2, <1>4, <2>3, <3>1 DEF Sees
  <2> QED BY <2>1, <2>2, <2>3
<1>10. \A d \in Columns : Wrote(y, g, d)
  <2> SUFFICES ASSUME NEW d \in Columns PROVE Wrote(y, g, d)
    OBVIOUS
  <2>1. Wrote(x, h, d)
    BY <1>1 DEF Faithful
  <2>2. x.data[d].at = "own" <=> y.data[d].at = "own"
    BY <1>6, <1>7
  <2>3. Store!Applied(g, d, g.snap.rows[d]) = Store!Applied(h, d, h.snap.rows[d])
    BY <1>2 DEF Store!Applied
  <2>4. d \in g.read \union g.added => y.tab[TableOf[d]].rtime = x.stime
    <3>1. TableOf[d] \in Tables
      BY <1>3
    <3>2. CASE d \in h.read \union h.added
      BY <2>1, <3>1, <3>2 DEF Wrote
    <3>3. CASE d \notin h.read \union h.added
      <4> SUFFICES ASSUME d \in g.read \union g.added PROVE y.tab[TableOf[d]].rtime = x.stime
        OBVIOUS
      <4>1. d = c /\ g # h
        BY <1>2, <3>3
      <4> QED BY <4>1
    <3> QED BY <3>2, <3>3
  <2> QED BY <1>2, <1>6, <1>7, <2>1, <2>2, <2>3, <2>4, ZenonT(30) DEF Wrote
<1>11. Store!Changes(g) <=> Store!Changes(h)
  BY <1>2 DEF Store!Changes
<1> QED BY <1>1, <1>2, <1>8, <1>9, <1>10, <1>11 DEF Faithful

LEMMA BindKeeps == ASSUME IInv, NEW s \in Sessions, NEW c \in Columns, bind_col(s, c) PROVE IInv'
<1> DEFINE x == tr[s]
           t == TableOf[c]
           data == [x.data EXCEPT ![c] = BindTo(s, c)]
           col  == [x.col EXCEPT ![c].rtime = x.stime]
           tab  == [x.tab EXCEPT ![t].rtime = x.stime]
           y == [x EXCEPT !.data = data, !.col = col, !.tab = tab]
           g == [hist[s] EXCEPT !.read = @ \union {c}]
<1>1. /\ x.active /\ UNCHANGED <<stamp, gtrans, chain, cwtime, gtab>>
  BY DEF bind_col, Working, Operating
<1>2. x \in Transactions /\ hist[s] \in Works \ {Store!Idle} /\ t \in Tables
  BY <1>1, Typed, SQLTransAssumption
<1>3. /\ x.data \in [Columns -> Bindings] /\ x.col \in [Columns -> BothTimes]
      /\ x.tab \in [Tables -> BothTimes] /\ x.stime \in Nat
  BY <1>2 DEF Transactions
<1>4. /\ data \in [Columns -> Bindings] /\ col \in [Columns -> BothTimes]
      /\ tab \in [Tables -> BothTimes]
  BY <1>1, <1>2, <1>3, Binding DEF BothTimes
<1>5. /\ \A d \in Columns : col[d].wtime = x.col[d].wtime
      /\ \A u \in Tables : tab[u].wtime = x.tab[u].wtime /\ tab[u].rtime \in {x.tab[u].rtime, x.stime}
      /\ tab[t].rtime = x.stime
  BY <1>2, <1>3 DEF BothTimes
<1>6. g \in Works
  BY <1>2 DEF Works
<1>7. tr' = [tr EXCEPT ![s] = y]
  BY ZenonT(60) DEF bind_col
<1>8. hist' = [hist EXCEPT ![s] = g]
  BY DEF bind_col
<1> HIDE DEF data, col, tab
<1>9. y \in Transactions
  BY <1>2, <1>4 DEF Transactions
<1>10. /\ y.active = x.active /\ y.stime = x.stime /\ y.wstime = x.wstime /\ y.wtime = x.wtime
       /\ y.schema_number = x.schema_number /\ y.schema_updates = x.schema_updates
       /\ y.data = data /\ y.col = col /\ y.tab = tab
  BY <1>2 DEF Transactions
<1> HIDE DEF y
<1>11. Private(y) /\ Faithful(y, g)
  BY <1>1, <1>5, <1>6, <1>9, <1>10, ReadStep, ZenonT(60) DEF data
<1> QED BY <1>1, <1>6, <1>7, <1>8, <1>9, <1>10, <1>11, LocalStep

LEMMA CountKeeps == ASSUME IInv, NEW s \in Sessions, NEW c \in Columns, count_col(s, c) PROVE IInv'
<1> DEFINE x == tr[s]
           y == [x EXCEPT !.data = [@ EXCEPT ![c] = BindTo(s, c)]]
<1>1. /\ x.active /\ UNCHANGED <<stamp, gtrans, chain, cwtime, gtab>>
  BY DEF count_col, Working, Operating
<1>2. x \in Transactions /\ hist[s] \in Works
  BY <1>1, Typed
<1>3. y \in Transactions
  BY <1>1, <1>2, Binding DEF Transactions
<1>4. tr' = [tr EXCEPT ![s] = y] /\ hist' = [hist EXCEPT ![s] = hist[s]]
  BY <1>2 DEF count_col, IInv, Types
<1>5. /\ y.active = x.active /\ y.stime = x.stime /\ y.wstime = x.wstime /\ y.wtime = x.wtime
      /\ y.schema_number = x.schema_number /\ y.schema_updates = x.schema_updates
      /\ y.data = [x.data EXCEPT ![c] = BindTo(s, c)]
      /\ y.col = x.col /\ y.tab = x.tab
  BY <1>2 DEF Transactions
<1> HIDE DEF y
<1>6. Private(y) /\ Faithful(y, hist[s])
  BY <1>1, <1>2, <1>3, <1>5, ReadStep
<1> QED BY <1>1, <1>2, <1>3, <1>4, <1>5, <1>6, LocalStep

-----------------------------------------------------------------------------
(***************************************************************************)
(* Writes                                                                  *)
(***************************************************************************)
LEMMA InsertedOwn ==
    ASSUME IInv, NEW s \in Sessions, tr[s].active, NEW c \in Columns
    PROVE  /\ Inserted(s, c) \in Bindings
           /\ Inserted(s, c).at = "own"
           /\ Inserted(s, c).v.wtime = tr[s].wstime
           /\ Inserted(s, c).v.rows =
                Store!Applied(hist[s], c, hist[s].snap.rows[c]) \union {tr[s].wstime}
<1>1. Inserted(s, c) = [at |-> "own",
                        v |-> [wtime |-> tr[s].wstime,
                               rows |-> dup_bat(s, c).rows \union {tr[s].wstime},
                               ins |-> TRUE]]
  BY DEF Inserted, Own, Version
<1>2. tr[s].wstime \in Nat /\ {tr[s].wstime} \subseteq Stamps
  BY Stamped, Typed DEF Transactions
<1>3. dup_bat(s, c).rows \subseteq Stamps
  BY Duplicate DEF Versions
<1>4. [wtime |-> tr[s].wstime, rows |-> dup_bat(s, c).rows \union {tr[s].wstime},
       ins |-> TRUE] \in Versions
  BY <1>2, <1>3 DEF Versions
<1> QED BY <1>1, <1>4, Duplicate DEF Bindings

LEMMA AddStep ==
    ASSUME IInv, NEW s \in Sessions, tr[s].active, NEW c \in Columns,
           NEW y \in Transactions, NEW g \in Works,
           y.active, y.stime = tr[s].stime, y.wstime = tr[s].wstime, y.wtime = tr[s].wstime,
           y.schema_number = tr[s].schema_number, y.schema_updates = tr[s].schema_updates,
           y.data = [tr[s].data EXCEPT ![c] = Inserted(s, c)],
           y.col[c].wtime = tr[s].wstime,
           \A d \in Columns \ {c} : y.col[d] = tr[s].col[d],
           y.tab = [tr[s].tab EXCEPT ![TableOf[c]] = [rtime |-> tr[s].stime,
                                                      wtime |-> tr[s].wstime]],
           g.active, g.mark = hist[s].mark, g.snap = hist[s].snap, g.altered = hist[s].altered,
           g.added = hist[s].added \union {c}, g.cleared = hist[s].cleared,
           g.read \subseteq hist[s].read \union {c}
    PROVE  Private(y) /\ Faithful(y, g)
<1> DEFINE x == tr[s]
           h == hist[s]
<1>1. /\ x \in Transactions /\ h \in Works /\ Private(x) /\ Faithful(x, h)
  BY Typed
<1>2. TableOf \in [Columns -> Tables] /\ TableOf[c] \in Tables
  BY SQLTransAssumption
<1>3. \A d \in Columns \ {c} : y.data[d] = x.data[d]
  BY <1>1 DEF Transactions
<1>4. y.data[c] = Inserted(s, c)
  BY <1>1 DEF Transactions
<1>5. x.stime \in Nat /\ x.wstime \in Nat /\ 1 <= x.stime /\ x.stime < x.wstime
  BY <1>1 DEF Transactions, Faithful
<1>6. y.tab[TableOf[c]].rtime = x.stime /\ y.tab[TableOf[c]].wtime = x.wstime
  BY <1>1, <1>2 DEF Transactions
<1>7. \A t \in Tables : y.tab[t].rtime \in {x.tab[t].rtime, x.stime}
                         /\ y.tab[t].wtime \in {x.tab[t].wtime, x.wstime}
  BY <1>1, <1>2 DEF Transactions
<1>8. Private(y)
  <2>1. ASSUME NEW d \in Columns, y.data[d].at = "chain", cwtime[d] <= y.stime
        PROVE  y.data[d].v.wtime = chain[d][1].wtime
    BY <1>1, <1>3, <1>4, <2>1, InsertedOwn DEF Private
  <2>2. ASSUME NEW d \in Columns, y.data[d].at = "own"
        PROVE  y.tab[TableOf[d]].wtime # 0 /\ y.col[d].wtime # 0
    <3>1. CASE d = c
      BY <1>5, <1>6, <3>1
    <3>2. CASE d # c
      <4>1. x.tab[TableOf[d]].wtime # 0 /\ x.col[d].wtime # 0
        BY <1>1, <1>3, <2>2, <3>2 DEF Private
      <4>2. TableOf[d] \in Tables
        BY <1>2
      <4> QED BY <1>5, <1>7, <3>2, <4>1, <4>2
    <3> QED BY <3>1, <3>2
  <2>3. \A t \in Tables : y.tab[t].rtime \in {0, y.stime} /\ y.tab[t].wtime \in {0, y.wtime}
    BY <1>1, <1>7 DEF Private
  <2>4. \A d \in Columns : y.col[d].wtime \in {0, y.wtime}
    BY <1>1 DEF Private
  <2> QED BY <1>1, <2>1, <2>2, <2>3, <2>4, ZenonT(60) DEF Private
<1>9. \A d \in Columns : Sees(y, g, d)
  BY <1>1, <1>3, <1>4, InsertedOwn DEF Sees, Faithful
<1>10. \A d \in Columns : Wrote(y, g, d)
  <2> SUFFICES ASSUME NEW d \in Columns PROVE Wrote(y, g, d)
    OBVIOUS
  <2>1. Wrote(x, h, d) /\ h.mark = x.wstime
    BY <1>1 DEF Faithful
  <2>2. TableOf[d] \in Tables
    BY <1>2
  <2>3. CASE d = c
    <3>1. Store!Applied(g, c, g.snap.rows[c]) =
             Store!Applied(h, c, h.snap.rows[c]) \union {x.wstime}
      BY <2>1 DEF Store!Applied
    <3> QED BY <1>4, <1>6, <2>3, <3>1, InsertedOwn DEF Wrote
  <2>4. CASE d # c
    <3>1. Store!Applied(g, d, g.snap.rows[d]) = Store!Applied(h, d, h.snap.rows[d])
      BY <2>4 DEF Store!Applied
    <3>2. d \in g.read \union g.added => d \in h.read \union h.added
      BY <2>4
    <3>3. d \in g.read \union g.added => y.tab[TableOf[d]].rtime = x.stime
      BY <1>7, <2>1, <2>2, <3>2, ZenonT(30) DEF Wrote
    <3> QED BY <1>3, <2>1, <2>4, <3>1, <3>3 DEF Wrote
  <2> QED BY <2>3, <2>4
<1>11. Store!Changes(g) /\ y.wtime # 0
  BY <1>5 DEF Store!Changes
<1> QED BY <1>1, <1>8, <1>9, <1>10, <1>11 DEF Faithful

LEMMA AppendKeeps == ASSUME IInv, NEW s \in Sessions, NEW c \in Columns, append_col(s, c) PROVE IInv'
<1> DEFINE x == tr[s]
           t == TableOf[c]
           data == [x.data EXCEPT ![c] = Inserted(s, c)]
           col  == [x.col EXCEPT ![c].wtime = x.wstime]
           tab  == [x.tab EXCEPT ![t] = [rtime |-> x.stime, wtime |-> x.wstime]]
           y == [x EXCEPT !.data = data, !.wtime = x.wstime, !.col = col, !.tab = tab]
           g == [hist[s] EXCEPT !.added = @ \union {c}]
<1>1. /\ x.active /\ UNCHANGED <<stamp, gtrans, chain, cwtime, gtab>>
  BY DEF append_col, Working, Operating
<1>2. x \in Transactions /\ hist[s] \in Works \ {Store!Idle} /\ t \in Tables
  BY <1>1, Typed, SQLTransAssumption
<1>3. /\ x.data \in [Columns -> Bindings] /\ x.col \in [Columns -> BothTimes]
      /\ x.tab \in [Tables -> BothTimes] /\ x.stime \in Nat /\ x.wstime \in Nat
  BY <1>2 DEF Transactions
<1>4. /\ data \in [Columns -> Bindings] /\ col \in [Columns -> BothTimes]
      /\ tab \in [Tables -> BothTimes]
  BY <1>1, <1>2, <1>3, InsertedOwn DEF BothTimes
<1>5. /\ \A d \in Columns \ {c} : col[d] = x.col[d]
      /\ col[c].wtime = x.wstime
  BY <1>2, <1>3 DEF BothTimes
<1>6. g \in Works /\ g.active /\ g.mark = hist[s].mark /\ g.snap = hist[s].snap
      /\ g.altered = hist[s].altered /\ g.added = hist[s].added \union {c}
      /\ g.cleared = hist[s].cleared /\ g.read = hist[s].read
  BY <1>2 DEF Works
<1>7. tr' = [tr EXCEPT ![s] = y] /\ hist' = [hist EXCEPT ![s] = g]
  BY ZenonT(60) DEF append_col
<1> HIDE DEF data, col, tab, g
<1>8. y \in Transactions
  BY <1>2, <1>3, <1>4 DEF Transactions
<1>9. /\ y.active = x.active /\ y.stime = x.stime /\ y.wstime = x.wstime /\ y.wtime = x.wstime
      /\ y.schema_number = x.schema_number /\ y.schema_updates = x.schema_updates
      /\ y.data = data /\ y.col = col /\ y.tab = tab
  BY <1>2 DEF Transactions
<1> HIDE DEF y
<1>10. Private(y) /\ Faithful(y, g)
  BY <1>1, <1>5, <1>6, <1>8, <1>9, AddStep, ZenonT(60) DEF data, tab
<1> QED BY <1>1, <1>6, <1>7, <1>8, <1>9, <1>10, LocalStep

LEMMA UpdateKeeps == ASSUME IInv, NEW s \in Sessions, NEW c \in Columns, update_col(s, c) PROVE IInv'
<1> DEFINE x == tr[s]
           t == TableOf[c]
           now == [rtime |-> x.stime, wtime |-> x.wstime]
           data == [x.data EXCEPT ![c] = Inserted(s, c)]
           col  == [x.col EXCEPT ![c] = now]
           tab  == [x.tab EXCEPT ![t] = now]
           y == [x EXCEPT !.data = data, !.wtime = x.wstime, !.col = col, !.tab = tab]
           g == [hist[s] EXCEPT !.added = @ \union {c}, !.read = @ \union {c}]
<1>1. /\ x.active /\ UNCHANGED <<stamp, gtrans, chain, cwtime, gtab>>
  BY DEF update_col, Working, Operating
<1>2. x \in Transactions /\ hist[s] \in Works \ {Store!Idle} /\ t \in Tables
  BY <1>1, Typed, SQLTransAssumption
<1>3. /\ x.data \in [Columns -> Bindings] /\ x.col \in [Columns -> BothTimes]
      /\ x.tab \in [Tables -> BothTimes] /\ x.stime \in Nat /\ x.wstime \in Nat
  BY <1>2 DEF Transactions
<1>4. /\ data \in [Columns -> Bindings] /\ col \in [Columns -> BothTimes]
      /\ tab \in [Tables -> BothTimes]
  BY <1>1, <1>2, <1>3, InsertedOwn DEF BothTimes
<1>5. /\ \A d \in Columns \ {c} : col[d] = x.col[d]
      /\ col[c].wtime = x.wstime
  BY <1>2, <1>3
<1>6. g \in Works /\ g.active /\ g.mark = hist[s].mark /\ g.snap = hist[s].snap
      /\ g.altered = hist[s].altered /\ g.added = hist[s].added \union {c}
      /\ g.cleared = hist[s].cleared /\ g.read = hist[s].read \union {c}
  BY <1>2 DEF Works
<1>7. tr' = [tr EXCEPT ![s] = y] /\ hist' = [hist EXCEPT ![s] = g]
  BY ZenonT(60) DEF update_col
<1> HIDE DEF data, col, tab, g
<1>8. y \in Transactions
  BY <1>2, <1>3, <1>4 DEF Transactions
<1>9. /\ y.active = x.active /\ y.stime = x.stime /\ y.wstime = x.wstime /\ y.wtime = x.wstime
      /\ y.schema_number = x.schema_number /\ y.schema_updates = x.schema_updates
      /\ y.data = data /\ y.col = col /\ y.tab = tab
  BY <1>2 DEF Transactions
<1> HIDE DEF y
<1>10. Private(y) /\ Faithful(y, g)
  BY <1>1, <1>5, <1>6, <1>8, <1>9, AddStep, ZenonT(60) DEF data, tab
<1> QED BY <1>1, <1>6, <1>7, <1>8, <1>9, <1>10, LocalStep

LEMMA ClearKeeps ==
    ASSUME IInv, NEW s \in Sessions, NEW t \in Tables, sql_trans_clear_table(s, t)
    PROVE  IInv'
<1> DEFINE x == tr[s]
           h == hist[s]
           cleared == {c \in Columns : TableOf[c] = t}
           empty == [at |-> "own", v |-> [wtime |-> x.wstime, rows |-> {}, ins |-> FALSE]]
           data == [c \in Columns |-> IF c \in cleared THEN empty ELSE x.data[c]]
           col  == [c \in Columns |-> IF c \in cleared THEN [x.col[c] EXCEPT !.wtime = x.wstime]
                                                       ELSE x.col[c]]
           tab  == [x.tab EXCEPT ![t].wtime = x.wstime]
           y == [x EXCEPT !.data = data, !.col = col, !.tab = tab, !.wtime = x.wstime]
           g == [h EXCEPT !.added = @ \ cleared, !.cleared = @ \union cleared]
<1>1. /\ x.active /\ UNCHANGED <<stamp, gtrans, chain, cwtime, gtab>>
      /\ \E c \in Columns : c \in cleared
  BY DEF sql_trans_clear_table, Working, Operating
<1>2. /\ x \in Transactions /\ h \in Works \ {Store!Idle} /\ Private(x) /\ Faithful(x, h)
  BY <1>1, Typed
<1>3. /\ x.data \in [Columns -> Bindings] /\ x.col \in [Columns -> BothTimes]
      /\ x.tab \in [Tables -> BothTimes] /\ x.stime \in Nat /\ x.wstime \in Nat
      /\ 1 <= x.stime /\ x.stime < x.wstime
  BY <1>2 DEF Transactions, Faithful
<1>4. empty \in Bindings
  BY <1>3 DEF Bindings, Versions
<1>5. /\ data \in [Columns -> Bindings] /\ col \in [Columns -> BothTimes]
      /\ tab \in [Tables -> BothTimes]
  BY <1>3, <1>4 DEF BothTimes
<1>6. /\ \A c \in Columns \ cleared : data[c] = x.data[c] /\ col[c] = x.col[c]
      /\ \A c \in cleared : data[c] = empty /\ col[c].wtime = x.wstime
      /\ \A u \in Tables : tab[u].rtime = x.tab[u].rtime /\ tab[u].wtime \in {x.tab[u].wtime, x.wstime}
      /\ tab[t].wtime = x.wstime
  BY <1>3 DEF BothTimes
<1>7. g \in Works /\ g.active /\ g.mark = h.mark /\ g.snap = h.snap
      /\ g.altered = h.altered /\ g.added = h.added \ cleared
      /\ g.cleared = h.cleared \union cleared /\ g.read = h.read
  BY <1>2, Zenon DEF Works
<1>8. tr' = [tr EXCEPT ![s] = y] /\ hist' = [hist EXCEPT ![s] = g]
  BY ZenonT(60) DEF sql_trans_clear_table, Own, Version
<1> HIDE DEF data, col, tab, g
<1>9. y \in Transactions
  BY <1>2, <1>3, <1>5 DEF Transactions
<1>10. /\ y.active = x.active /\ y.stime = x.stime /\ y.wstime = x.wstime /\ y.wtime = x.wstime
       /\ y.schema_number = x.schema_number /\ y.schema_updates = x.schema_updates
       /\ y.data = data /\ y.col = col /\ y.tab = tab
  BY <1>2 DEF Transactions
<1> HIDE DEF y
<1>11. TableOf \in [Columns -> Tables]
  BY SQLTransAssumption
<1>12. Private(y)
  <2>1. ASSUME NEW c \in Columns, y.data[c].at = "chain", cwtime[c] <= y.stime
        PROVE  y.data[c].v.wtime = chain[c][1].wtime
    BY <1>2, <1>6, <1>10, <2>1 DEF Private
  <2>2. ASSUME NEW c \in Columns, y.data[c].at = "own"
        PROVE  y.tab[TableOf[c]].wtime # 0 /\ y.col[c].wtime # 0
    <3>1. CASE c \in cleared
      BY <1>3, <1>6, <1>10, <3>1
    <3>2. CASE c \notin cleared
      <4>1. x.tab[TableOf[c]].wtime # 0 /\ x.col[c].wtime # 0
        BY <1>2, <1>6, <1>10, <2>2, <3>2, ZenonT(30) DEF Private
      <4>2. TableOf[c] \in Tables
        BY <1>11
      <4> QED BY <1>3, <1>6, <1>10, <3>2, <4>1, <4>2
    <3> QED BY <3>1, <3>2
  <2>3. \A u \in Tables : y.tab[u].rtime \in {0, y.stime} /\ y.tab[u].wtime \in {0, y.wtime}
    BY <1>2, <1>6, <1>10 DEF Private
  <2>4. \A c \in Columns : y.col[c].wtime \in {0, y.wtime}
    BY <1>2, <1>6, <1>10 DEF Private
  <2> QED BY <1>2, <1>10, <2>1, <2>2, <2>3, <2>4, ZenonT(30) DEF Private
<1>13. \A c \in Columns : Sees(y, g, c)
  BY <1>2, <1>6, <1>7, <1>10 DEF Sees, Faithful
<1>14. \A c \in Columns : Wrote(y, g, c)
  <2> SUFFICES ASSUME NEW c \in Columns PROVE Wrote(y, g, c)
    OBVIOUS
  <2>1. Wrote(x, h, c) /\ TableOf[c] \in Tables
    BY <1>2, <1>11 DEF Faithful
  <2>2. c \in g.read \union g.added => y.tab[TableOf[c]].rtime = y.stime
    BY <1>6, <1>7, <1>10, <2>1 DEF Wrote
  <2>3. CASE c \in cleared
    <3>1. c \in g.cleared /\ c \notin g.added
      BY <1>7, <2>3
    <3>2. Store!Applied(g, c, g.snap.rows[c]) = {}
      BY <3>1 DEF Store!Applied
    <3> QED BY <1>6, <1>10, <2>2, <2>3, <3>1, <3>2 DEF Wrote
  <2>4. CASE c \notin cleared
    <3>1. Store!Applied(g, c, g.snap.rows[c]) = Store!Applied(h, c, h.snap.rows[c])
      BY <1>7, <2>4 DEF Store!Applied
    <3> QED BY <1>6, <1>7, <1>10, <2>1, <2>2, <2>4, <3>1 DEF Wrote
  <2> QED BY <2>3, <2>4
<1>15. Store!Changes(g) /\ y.wtime # 0
  BY <1>1, <1>3, <1>7, <1>10 DEF Store!Changes
<1>16. Faithful(y, g)
  BY <1>2, <1>7, <1>10, <1>13, <1>14, <1>15 DEF Faithful
<1> QED BY <1>1, <1>7, <1>8, <1>9, <1>10, <1>12, <1>16, LocalStep

LEMMA SchemaKeeps == ASSUME IInv, NEW s \in Sessions, schema_update(s) PROVE IInv'
<1> DEFINE x == tr[s]
           h == hist[s]
           y == [x EXCEPT !.schema_updates = TRUE, !.wtime = x.wstime]
           g == [h EXCEPT !.altered = TRUE]
<1>1. /\ x.active /\ UNCHANGED <<stamp, gtrans, chain, cwtime, gtab>>
      /\ gtrans.schema_number < MaxSchema
  BY DEF schema_update, Operating
<1>2. /\ x \in Transactions /\ h \in Works \ {Store!Idle} /\ Private(x) /\ Faithful(x, h)
  BY <1>1, Typed
<1>3. g \in Works /\ g.active /\ g.mark = h.mark /\ g.snap = h.snap
      /\ g.altered = TRUE /\ g.added = h.added
      /\ g.cleared = h.cleared /\ g.read = h.read
  BY <1>2 DEF Works
<1>4. tr' = [tr EXCEPT ![s] = y] /\ hist' = [hist EXCEPT ![s] = g]
  BY DEF schema_update
<1>5. /\ y.active = x.active /\ y.stime = x.stime /\ y.wstime = x.wstime /\ y.wtime = x.wstime
      /\ y.schema_number = x.schema_number /\ y.schema_updates = TRUE
      /\ y.data = x.data /\ y.col = x.col /\ y.tab = x.tab /\ y \in Transactions
  BY <1>2 DEF Transactions
<1> HIDE DEF g, y
<1>6. x.wstime \in Nat /\ x.stime \in Nat /\ 1 <= x.stime /\ x.stime < x.wstime
  BY <1>2 DEF Transactions, Faithful
<1>7. Private(y)
  <2>1. \A u \in Tables : y.tab[u].wtime \in {0, y.wtime}
    BY <1>2, <1>5 DEF Private
  <2>2. \A c \in Columns : y.col[c].wtime \in {0, y.wtime}
    BY <1>2, <1>5 DEF Private
  <2> QED BY <1>2, <1>5, <2>1, <2>2 DEF Private
<1>8. y.schema_number < MaxSchema
  <2>1. x.schema_number \in Nat /\ gtrans.schema_number \in Nat /\ x.schema_number <= gtrans.schema_number
    BY <1>2 DEF Transactions, Private, IInv, Types
  <2> QED BY <1>1, <1>5, <2>1, SQLTransAssumption
<1>9. \A c \in Columns : Sees(y, g, c) /\ Wrote(y, g, c)
  BY <1>2, <1>3, <1>5 DEF Sees, Wrote, Faithful, Store!Applied
<1>10. Store!Changes(g) /\ y.wtime # 0
  BY <1>3, <1>5, <1>6 DEF Store!Changes
<1>11. Faithful(y, g)
  BY <1>2, <1>3, <1>5, <1>8, <1>9, <1>10 DEF Faithful
<1> QED BY <1>1, <1>3, <1>4, <1>5, <1>7, <1>11, LocalStep

-----------------------------------------------------------------------------
(***************************************************************************)
(* Begin                                                                   *)
(***************************************************************************)

(* What reset_trans leaves, and what need not be reset, is as committed.   *)
LEMMA ResetEnough ==
    ASSUME IInv, NEW s \in Sessions,
           NEW r, r = IF MustReset(tr[s]) THEN reset_trans(tr[s]) ELSE tr[s]
    PROVE  /\ r \in Transactions
           /\ \A t \in Tables : r.tab[t].rtime \in {0, gtrans.wtime} /\ r.tab[t].wtime = 0
           /\ \A c \in Columns : /\ r.col[c].wtime = 0
                                 /\ r.data[c].at # "own"
                                 /\ r.data[c].at = "chain" => r.data[c].v.wtime = chain[c][1].wtime
<1> DEFINE x == tr[s]
<1>1. x \in Transactions /\ Private(x)
  BY Typed
<1>2. /\ x.stime \in Nat /\ x.wtime \in Nat /\ x.tab \in [Tables -> BothTimes]
      /\ x.col \in [Columns -> BothTimes] /\ x.data \in [Columns -> Bindings]
  BY <1>1 DEF Transactions
<1>3. /\ TableOf \in [Columns -> Tables]
      /\ gtrans.wtime \in Nat /\ gtrans.wstime \in Nat /\ gtrans.wtime <= gtrans.wstime
      /\ cwtime \in [Columns -> Nat] /\ \A t \in Tables : gtab[t].wtime \in Nat
      /\ \A t \in Tables : gtab[t].wtime <= gtrans.wtime
      /\ \A c \in Columns : cwtime[c] <= gtab[TableOf[c]].wtime
  BY SQLTransAssumption DEF IInv, Types, Clocks, BothTimes
<1>4. CASE MustReset(x)
  <2> DEFINE data == [c \in Columns |-> IF ResetColumn(x, c) THEN Unbound ELSE x.data[c]]
             tab == [t \in Tables |-> Times]
             col == [c \in Columns |-> Times]
  <2>1. r = [x EXCEPT !.wtime = 0, !.tab = tab, !.col = col, !.data = data]
    BY <1>4 DEF reset_trans
  <2>2. Unbound \in Bindings /\ Unbound.at = "none"
    BY DEF Unbound, Bindings, Versions, Version
  <2>3. data \in [Columns -> Bindings]
    BY <1>2, <2>2
  <2>4. tab \in [Tables -> BothTimes] /\ col \in [Columns -> BothTimes]
        /\ (\A t \in Tables : tab[t].rtime = 0 /\ tab[t].wtime = 0)
        /\ (\A c \in Columns : col[c].wtime = 0)
    BY DEF Times, BothTimes
  <2>5. ASSUME NEW c \in Columns
        PROVE  /\ data[c].at # "own"
               /\ data[c].at = "chain" => data[c].v.wtime = chain[c][1].wtime
    <3>1. CASE ResetColumn(x, c)
      BY <2>2, <3>1
    <3>2. CASE ~ResetColumn(x, c)
      <4>1. data[c] = x.data[c]
        BY <3>2
      <4>2. TableOf[c] \in Tables
        BY <1>3
      <4>3. CASE x.data[c].at = "own"
        <5>1. x.tab[TableOf[c]].wtime # 0 /\ x.col[c].wtime # 0
          BY <1>1, <4>3 DEF Private
        <5> QED BY <3>2, <5>1, ZenonT(30) DEF ResetColumn, ResetTable, Touched
      <4>4. CASE x.data[c].at = "chain"
        <5>1. ~(x.stime < gtab[TableOf[c]].wtime) \/ ~(x.stime < cwtime[c])
          BY <3>2 DEF ResetColumn, ResetTable
        <5>2. cwtime[c] \in Nat /\ gtab[TableOf[c]].wtime \in Nat
              /\ cwtime[c] <= gtab[TableOf[c]].wtime
          BY <1>3, <4>2
        <5>3. cwtime[c] <= x.stime
          BY <1>2, <5>1, <5>2
        <5> QED BY <1>1, <4>1, <4>4, <5>3 DEF Private
      <4> QED BY <4>1, <4>3, <4>4
    <3> QED BY <3>1, <3>2
  <2> HIDE DEF data, tab, col
  <2> DEFINE z == [x EXCEPT !.wtime = 0, !.tab = tab, !.col = col, !.data = data]
  <2>6. z \in Transactions /\ z.tab = tab /\ z.col = col /\ z.data = data
    BY <1>1, <2>3, <2>4 DEF Transactions
  <2>7. r = z
    BY <2>1
  <2> HIDE DEF z
  <2> QED BY <2>4, <2>5, <2>6, <2>7
<1>5. CASE ~MustReset(x)
  <2>1. r = x /\ ~(x.stime < gtrans.wstime) /\ x.wtime = 0
    BY <1>5 DEF MustReset
  <2>2. x.stime = gtrans.wtime
    <3>1. x.stime <= gtrans.wtime
      BY <1>1 DEF Private
    <3>2. /\ x.stime \in Nat /\ gtrans.wtime \in Nat /\ gtrans.wstime \in Nat
          /\ gtrans.wtime <= gtrans.wstime
      BY <1>2, <1>3
    <3>3. ~(x.stime < gtrans.wstime)
      BY <2>1
    <3> QED BY <3>1, <3>2, <3>3
  <2>3. ASSUME NEW c \in Columns
        PROVE  /\ x.col[c].wtime = 0 /\ x.data[c].at # "own"
               /\ x.data[c].at = "chain" => x.data[c].v.wtime = chain[c][1].wtime
    <3>1. TableOf[c] \in Tables
      BY <1>3
    <3>2. x.col[c].wtime = 0 /\ x.tab[TableOf[c]].wtime = 0
      BY <1>1, <2>1, <3>1 DEF Private
    <3>3. cwtime[c] <= gtab[TableOf[c]].wtime /\ gtab[TableOf[c]].wtime <= gtrans.wtime
          /\ cwtime[c] \in Nat /\ gtab[TableOf[c]].wtime \in Nat
      BY <1>3, <3>1
    <3>4. cwtime[c] <= x.stime
      BY <1>3, <2>2, <3>3
    <3> QED BY <1>1, <3>2, <3>4 DEF Private
  <2>4. \A t \in Tables : x.tab[t].rtime \in {0, gtrans.wtime} /\ x.tab[t].wtime = 0
    BY <1>1, <2>1, <2>2 DEF Private
  <2> QED BY <1>1, <2>1, <2>3, <2>4
<1> QED BY <1>4, <1>5, ZenonT(30)

LEMMA HeadFacts ==
    ASSUME IInv, NEW c \in Columns
    PROVE  /\ chain[c] \in Seq(Versions) /\ chain[c] # <<>>
           /\ 1 \in DOMAIN chain[c] /\ chain[c][1] \in Versions
           /\ Head(chain[c]) = chain[c][1]
           /\ chain[c][1].wtime <= cwtime[c]
           /\ cwtime[c] <= gtab[TableOf[c]].wtime /\ gtab[TableOf[c]].wtime <= gtrans.wtime
           /\ chain[c][1].wtime \in Nat /\ cwtime[c] \in Nat
           /\ gtab[TableOf[c]].wtime \in Nat /\ gtrans.wtime \in Nat
           /\ TableOf[c] \in Tables
<1>1. chain[c] \in Seq(Versions) /\ TableOf[c] \in Tables
  BY SQLTransAssumption DEF IInv, Types
<1>2. 1 \in DOMAIN chain[c] /\ chain[c][1].wtime <= cwtime[c]
  BY DEF IInv, Chain
<1>3. chain[c] # <<>> /\ chain[c][1] \in Versions /\ Head(chain[c]) = chain[c][1]
  BY <1>1, <1>2
<1>4. /\ cwtime[c] \in Nat /\ gtab[TableOf[c]].wtime \in Nat /\ gtrans.wtime \in Nat
  BY <1>1 DEF IInv, Types, BothTimes
<1>5. cwtime[c] <= gtab[TableOf[c]].wtime /\ gtab[TableOf[c]].wtime <= gtrans.wtime
  BY <1>1 DEF IInv, Clocks
<1> QED BY <1>1, <1>2, <1>3, <1>4, <1>5 DEF Versions

LEMMA CommittedTyped ==
    ASSUME IInv
    PROVE  /\ Committed \in Snapshots
           /\ Committed.schema = gtrans.schema_number
           /\ \A c \in Columns : Committed.rows[c] = chain[c][1].rows
<1>1. \A c \in Columns : Head(chain[c]) = chain[c][1] /\ chain[c][1].rows \subseteq Stamps
  BY HeadFacts DEF Versions
<1>2. gtrans.schema_number \in Nat
  BY DEF IInv, Types
<1> QED BY <1>1, <1>2 DEF Committed, Snapshots

LEMMA BeginKeeps == ASSUME IInv, NEW s \in Sessions, sql_trans_begin(s) PROVE IInv'
<1> DEFINE x == tr[s]
           r == IF MustReset(x) THEN reset_trans(x) ELSE x
<1>1. /\ ~x.active /\ stamp < MaxStamp /\ stamp' = stamp + 1
      /\ tr' = [tr EXCEPT ![s] = trans_init(r)]
      /\ hist' = [hist EXCEPT ![s] = Store!Begun(stamp + 1, Committed)]
      /\ UNCHANGED <<gtrans, chain, cwtime, gtab>>
  BY DEF sql_trans_begin
<1>2. /\ stamp \in Nat /\ gtrans.wtime \in Nat /\ gtrans.wstime \in Nat /\ gtrans.schema_number \in Nat
      /\ 1 <= gtrans.wtime /\ gtrans.wtime <= gtrans.wstime /\ gtrans.wstime <= stamp
      /\ MaxStamp \in Nat
  BY SQLTransAssumption DEF IInv, Types, Clocks
<1>3. /\ r \in Transactions
      /\ \A t \in Tables : r.tab[t].rtime \in {0, gtrans.wtime} /\ r.tab[t].wtime = 0
      /\ \A c \in Columns : /\ r.col[c].wtime = 0
                            /\ r.data[c].at # "own"
                            /\ r.data[c].at = "chain" => r.data[c].v.wtime = chain[c][1].wtime
  BY ResetEnough
<1> HIDE DEF r
<1>4. PICK y \in Transactions :
        /\ y = trans_init(r)
        /\ y.active /\ y.stime = gtrans.wtime /\ y.wstime = stamp + 1 /\ y.wtime = 0
        /\ y.schema_number = gtrans.schema_number /\ y.schema_updates = FALSE
        /\ y.tab = r.tab /\ y.col = r.col /\ y.data = r.data
  <2> DEFINE z == [r EXCEPT !.active = TRUE, !.wtime = 0, !.stime = gtrans.wtime,
                            !.wstime = stamp + 1, !.schema_updates = FALSE,
                            !.schema_number = gtrans.schema_number]
  <2>1. stamp + 1 \in Nat /\ r \in Transactions
    BY <1>2, <1>3
  <2>2. /\ z \in Transactions
        /\ z.active /\ z.stime = gtrans.wtime /\ z.wstime = stamp + 1 /\ z.wtime = 0
        /\ z.schema_number = gtrans.schema_number /\ z.schema_updates = FALSE
        /\ z.tab = r.tab /\ z.col = r.col /\ z.data = r.data
    BY <1>2, <2>1, Zenon DEF Transactions
  <2>3. z = trans_init(r)
    BY DEF trans_init
  <2> HIDE DEF z
  <2> QED BY <2>2, <2>3
<1>5. PICK g \in Works :
        /\ g = Store!Begun(stamp + 1, Committed)
        /\ g.active /\ g.mark = stamp + 1 /\ g.snap = Committed
        /\ g.read = {} /\ g.added = {} /\ g.cleared = {} /\ g.altered = FALSE
  <2> DEFINE z == Store!Begun(stamp + 1, Committed)
  <2>1. Committed \in Snapshots /\ stamp + 1 \in Nat
    BY <1>2, CommittedTyped
  <2>2. /\ z.active /\ z.mark = stamp + 1 /\ z.snap = Committed
        /\ z.read = {} /\ z.added = {} /\ z.cleared = {} /\ z.altered = FALSE
    BY DEF Store!Begun
  <2>3. z \in Works
    BY <2>1 DEF Store!Begun, Works
  <2>4. z = Store!Begun(stamp + 1, Committed)
    OBVIOUS
  <2> HIDE DEF z
  <2> QED BY <2>2, <2>3, <2>4
<1>6. /\ \A o \in Sessions \ {s} : tr'[o] = tr[o] /\ hist'[o] = hist[o]
      /\ tr'[s] = y /\ hist'[s] = g
      /\ tr' \in [Sessions -> Transactions] /\ hist' \in [Sessions -> Works]
  BY <1>1, <1>4, <1>5 DEF IInv, Types
<1>7. Types'
  BY <1>1, <1>2, <1>6 DEF IInv, Types
<1>8. Clocks'
  <2>1. \A t \in Tables : gtab[t].rtime \in Nat /\ gtab[t].rtime <= stamp
    BY DEF IInv, Types, BothTimes, Clocks
  <2> QED BY <1>1, <1>2, <2>1 DEF IInv, Clocks
<1>9. \A c \in Columns : Chain(c)'
  BY <1>1 DEF IInv, Chain
<1>10. ASSUME NEW o \in Sessions PROVE Session(tr[o], hist[o])'
  <2>1. CASE o # s
    <3>1. tr[o].wstime \in Nat /\ tr[o].wstime <= stamp
      BY Typed DEF Transactions, Private
    <3>2. Session(tr[o], hist[o])
      BY DEF IInv
    <3> QED BY <1>1, <1>2, <1>6, <2>1, <3>1, <3>2 DEF Session, Private, Faithful, Sees, Wrote
  <2>2. CASE o = s
    <3>1. ASSUME NEW c \in Columns
          PROVE  Newest(chain[c], gtrans.wtime, 1)
      <4>1. chain[c][1].wtime <= gtrans.wtime
        BY HeadFacts
      <4> QED BY <1>2, <4>1, HeadFacts, HeadIsNewest
    <3>2. Private(y)'
      BY <1>1, <1>2, <1>3, <1>4 DEF Private
    <3>3. \A c \in Columns : Sees(y, g, c)'
      BY <1>1, <1>3, <1>4, <1>5, <3>1, CommittedTyped DEF Sees
    <3>4. \A c \in Columns : Wrote(y, g, c)'
      BY <1>3, <1>4, <1>5 DEF Wrote
    <3>5. ~Store!Changes(g)
      BY <1>5 DEF Store!Changes
    <3>6. \A t \in Tables : gtab[t].wtime # stamp + 1
      <4>1. \A t \in Tables : gtab[t].wtime <= gtrans.wtime /\ gtab[t].wtime \in Nat
        BY DEF IInv, Clocks, Types, BothTimes
      <4> QED BY <1>2, <4>1
    <3>7. Faithful(y, g)'
      <4>1. g.snap.schema = y.schema_number
        BY <1>4, <1>5, CommittedTyped
      <4>2. 1 <= y.stime /\ y.stime < y.wstime
        BY <1>2, <1>4
      <4>3. \A t \in Tables : gtab'[t].wtime # y.wstime
        BY <1>1, <1>4, <3>6
      <4> QED BY <1>4, <1>5, <3>3, <3>4, <3>5, <4>1, <4>2, <4>3 DEF Faithful
    <3> QED BY <1>4, <1>6, <2>2, <3>2, <3>7 DEF Session
  <2> QED BY <2>1, <2>2
<1>11. Distinct'
  <2>1. \A o \in Sessions : tr[o].wstime \in Nat /\ tr[o].wstime <= stamp
    BY Typed DEF Transactions, Private
  <2> QED BY <1>2, <1>4, <1>6, <2>1 DEF IInv, Distinct
<1> QED BY <1>7, <1>8, <1>9, <1>10, <1>11 DEF IInv

-----------------------------------------------------------------------------
(***************************************************************************)
(* The end of a transaction                                                *)
(***************************************************************************)
LEMMA EndKeeps ==
    ASSUME IInv, NEW s \in Sessions, tr' = [tr EXCEPT ![s] = Ended(@)],
           hist' = [hist EXCEPT ![s] = Store!Idle],
           UNCHANGED <<stamp, gtrans, chain, cwtime, gtab>>
    PROVE  IInv'
<1>1. PICK y \in Transactions :
        /\ y = Ended(tr[s]) /\ ~y.active /\ y.stime = tr[s].stime /\ y.wstime = tr[s].wstime
        /\ y.wtime = tr[s].wtime /\ y.schema_number = tr[s].schema_number
        /\ y.tab = tr[s].tab /\ y.col = tr[s].col /\ y.data = tr[s].data
  <2> DEFINE z == [tr[s] EXCEPT !.active = FALSE]
  <2>1. tr[s] \in Transactions
    BY Typed
  <2>2. /\ z \in Transactions /\ ~z.active /\ z.stime = tr[s].stime /\ z.wstime = tr[s].wstime
        /\ z.wtime = tr[s].wtime /\ z.schema_number = tr[s].schema_number
        /\ z.tab = tr[s].tab /\ z.col = tr[s].col /\ z.data = tr[s].data
    BY <2>1 DEF Transactions
  <2>3. z = Ended(tr[s])
    BY DEF Ended
  <2> HIDE DEF z
  <2> QED BY <2>2, <2>3
<1>2. Store!Idle \in Works
  BY DEF Works
<1>3. /\ tr' \in [Sessions -> Transactions] /\ hist' \in [Sessions -> Works]
      /\ tr'[s] = y /\ hist'[s] = Store!Idle
      /\ \A o \in Sessions \ {s} : tr'[o] = tr[o] /\ hist'[o] = hist[o]
  BY <1>1, <1>2 DEF IInv, Types
<1>4. Types' /\ Clocks' /\ \A c \in Columns : Chain(c)'
  BY <1>3 DEF IInv, Types, Clocks, Chain
<1>5. ASSUME NEW o \in Sessions PROVE Session(tr[o], hist[o])'
  <2>1. CASE o # s
    <3>1. Session(tr[o], hist[o])
      BY DEF IInv
    <3> QED BY <1>3, <2>1, <3>1 DEF Session, Private, Faithful, Sees, Wrote
  <2>2. CASE o = s
    <3>1. Private(tr[s])
      BY Typed
    <3> QED BY <1>1, <1>3, <2>2, <3>1 DEF Session, Private
  <2> QED BY <2>1, <2>2
<1>6. Distinct'
  BY <1>1, <1>3 DEF IInv, Distinct
<1> QED BY <1>4, <1>5, <1>6 DEF IInv

LEMMA RollbackKeeps == ASSUME IInv, NEW s \in Sessions, mvc_rollback(s) PROVE IInv'
BY EndKeeps DEF mvc_rollback

LEMMA NothingKeeps == ASSUME IInv, NEW s \in Sessions, CommitNothing(s) PROVE IInv'
BY EndKeeps DEF CommitNothing

(* What validation ensures about a transaction that commits.               *)
LEMMA Validated ==
    ASSUME IInv, Ordered, NEW s \in Sessions, sql_trans_commit(s)
    PROVE  /\ tr[s].active /\ tr[s].wtime = tr[s].wstime
           /\ tr[s].stime \in Nat /\ tr[s].wstime \in Nat
           /\ 1 <= tr[s].stime /\ tr[s].stime < tr[s].wstime /\ tr[s].wstime <= stamp
           /\ tr[s].schema_number = gtrans.schema_number
           /\ \A o \in Sessions \ {s} : tr[o].stime \in Nat /\ tr[o].stime < tr[s].wstime
           /\ \A t \in Tables :
                /\ tr[s].tab[t].wtime # 0 => /\ tr[s].tab[t].wtime = tr[s].wstime
                                             /\ gtab[t].wtime < tr[s].wstime
                /\ tr[s].tab[t].rtime # 0 => /\ tr[s].tab[t].rtime = tr[s].stime
                                             /\ gtab[t].wtime <= tr[s].stime
<1> DEFINE x == tr[s]
<1>1. /\ x.active /\ x.wtime # 0 /\ sql_trans_validate(s) /\ ~Overtaken(s)
  BY DEF sql_trans_commit, Ordered
<1>2. x \in Transactions /\ Private(x) /\ Faithful(x, hist[s])
  BY <1>1, Typed
<1>3. /\ x.stime \in Nat /\ x.wstime \in Nat /\ x.wtime \in Nat
      /\ x.tab \in [Tables -> BothTimes] /\ gtab \in [Tables -> BothTimes]
  BY <1>2 DEF Transactions, IInv, Types
<1>4. /\ x.wtime = x.wstime /\ 1 <= x.stime /\ x.stime < x.wstime /\ x.wstime <= stamp
      /\ x.schema_number = gtrans.schema_number
  BY <1>1, <1>2 DEF Private, Faithful, sql_trans_validate
<1>5. ASSUME NEW o \in Sessions \ {s} PROVE tr[o].stime \in Nat /\ tr[o].stime < x.wstime
  <2>1. tr[o].stime \in Nat
    BY Typed DEF Transactions
  <2> QED BY <1>1, <1>3, <2>1 DEF Overtaken
<1>6. ASSUME NEW t \in Tables
      PROVE  /\ x.tab[t].wtime # 0 => /\ x.tab[t].wtime = x.wstime
                                      /\ gtab[t].wtime < x.wstime
             /\ x.tab[t].rtime # 0 => /\ x.tab[t].rtime = x.stime
                                      /\ gtab[t].wtime <= x.stime
  <2>1. /\ x.tab[t].wtime \in {0, x.wtime} /\ x.tab[t].rtime \in {0, x.stime}
        /\ gtab[t].wtime # x.wstime
    BY <1>2 DEF Private, Faithful
  <2>2. gtab[t].wtime \in Nat /\ gtab[t].rtime \in Nat
    BY <1>3 DEF BothTimes
  <2>3. validate_table(x, t)
    BY <1>1 DEF sql_trans_validate
  <2> QED BY <1>3, <1>4, <2>1, <2>2, <2>3 DEF validate_table
<1> QED BY <1>1, <1>3, <1>4, <1>5, <1>6

LEMMA LargerIs ==
    ASSUME NEW a \in Nat, NEW b \in Nat
    PROVE  /\ Larger(a, b) \in Nat /\ a <= Larger(a, b) /\ b <= Larger(a, b)
           /\ Larger(a, b) = a \/ Larger(a, b) = b
BY DEF Larger

(* The versions of a column after a commit.                                *)
LEMMA MergedIs ==
    ASSUME IInv, NEW c \in Columns, NEW rows \in SUBSET Stamps
    PROVE  /\ Merged(c, rows) \in Seq(Versions) /\ DOMAIN Merged(c, rows) = {1}
           /\ Merged(c, rows)[1].wtime = chain[c][1].wtime
           /\ Merged(c, rows)[1].rows = rows
<1>1. Head(chain[c]).wtime = chain[c][1].wtime /\ chain[c][1].wtime \in Nat
  BY HeadFacts
<1> DEFINE v == [wtime |-> chain[c][1].wtime, rows |-> rows, ins |-> FALSE]
<1>2. Merged(c, rows) = <<v>>
  BY <1>1 DEF Merged, Version
<1>3. v \in Versions /\ v.wtime = chain[c][1].wtime /\ v.rows = rows
  BY <1>1 DEF Versions
<1> HIDE DEF v
<1> QED BY <1>2, <1>3

LEMMA CommitColumn ==
    ASSUME IInv, Ordered, NEW s \in Sessions, sql_trans_commit(s), NEW c \in Columns
    PROVE  /\ chain'[c] \in Seq(Versions) /\ Chain(c)'
           /\ cwtime'[c] \in Nat
           /\ \/ cwtime'[c] = cwtime[c] /\ chain'[c][1].wtime = chain[c][1].wtime
              \/ tr[s].wstime <= cwtime'[c]
           /\ \/ Alone(s)
              \/ chain'[c] = chain[c]
              \/ /\ chain'[c] = <<tr[s].data[c].v>> \o chain[c]
                 /\ tr[s].data[c].v \in Versions /\ tr[s].data[c].v.wtime = tr[s].wstime
           /\ chain'[c][1].rows = IF tr[s].data[c].at = "own" THEN tr[s].data[c].v.rows
                                                             ELSE chain[c][1].rows
           /\ cwtime'[c] \in {cwtime[c], tr[s].wstime}
           /\ cwtime'[c] = tr[s].wstime => tr[s].tab[TableOf[c]].wtime # 0 \/ cwtime[c] = tr[s].wstime
           /\ tr[s].tab[TableOf[c]].wtime = 0 => cwtime'[c] = cwtime[c] /\ chain'[c] = chain[c]
<1> DEFINE x == tr[s]
           own == x.data[c].v
           Moved == x.tab[TableOf[c]].wtime # 0
<1>1. /\ x \in Transactions /\ Private(x) /\ Faithful(x, hist[s])
  BY Typed, Validated
<1>2. /\ TableOf[c] \in Tables /\ TableOf \in [Columns -> Tables]
  BY SQLTransAssumption
<1>3. /\ chain[c] \in Seq(Versions) /\ 1 \in DOMAIN chain[c] /\ chain[c][1] \in Versions
      /\ Head(chain[c]).rows = chain[c][1].rows
      /\ chain[c][1].wtime <= cwtime[c] /\ chain[c][1].wtime \in Nat /\ cwtime[c] \in Nat
      /\ cwtime[c] <= gtab[TableOf[c]].wtime /\ gtab[TableOf[c]].wtime \in Nat
  BY HeadFacts
<1>4. x.wstime \in Nat /\ 1 <= x.wstime
  BY Validated
<1>5. x.col[c].wtime \in {0, x.wstime} /\ x.col[c].wtime \in Nat
  BY <1>1, <1>4, Validated DEF Private
<1>6. Moved => gtab[TableOf[c]].wtime < x.wstime
  BY <1>2, Validated
<1>7. x.data[c].at = "own" =>
         /\ Moved /\ x.col[c].wtime = x.wstime /\ own.wtime = x.wstime /\ own \in Versions
  <2> SUFFICES ASSUME x.data[c].at = "own"
               PROVE  Moved /\ x.col[c].wtime = x.wstime /\ own.wtime = x.wstime /\ own \in Versions
    OBVIOUS
  <2>1. Moved /\ x.col[c].wtime # 0
    BY <1>1 DEF Private
  <2>2. Wrote(x, hist[s], c)
    BY <1>1 DEF Faithful
  <2>3. own \in Versions
    BY <1>1 DEF Transactions, Bindings
  <2> QED BY <1>5, <2>1, <2>2, <2>3 DEF Wrote
<1>8. /\ chain'[c] = IF Moved THEN update_table(s, c) ELSE chain[c]
      /\ cwtime'[c] = IF Moved THEN Larger(cwtime[c], x.col[c].wtime) ELSE cwtime[c]
  BY <1>2, ZenonT(30) DEF sql_trans_commit
<1>9. cwtime[c] < x.wstime \/ ~Moved
  BY <1>3, <1>4, <1>6
<1>10. \/ ~Moved /\ cwtime'[c] = cwtime[c]
       \/ Moved /\ x.col[c].wtime = 0 /\ cwtime'[c] = cwtime[c]
       \/ Moved /\ x.col[c].wtime = x.wstime /\ cwtime'[c] = x.wstime
  BY <1>3, <1>4, <1>5, <1>8, <1>9 DEF Larger
<1>11. CASE ~Moved
  <2>1. chain'[c] = chain[c] /\ cwtime'[c] = cwtime[c] /\ x.data[c].at # "own"
    BY <1>7, <1>8, <1>11
  <2>2. Chain(c)'
    BY <2>1 DEF IInv, Chain
  <2>3. x.tab[TableOf[c]].wtime = 0
    BY <1>11
  <2>4. cwtime'[c] # x.wstime \/ cwtime[c] = x.wstime
    BY <2>1
  <2> QED BY <1>3, <2>1, <2>2, <2>3, <2>4
<1>12. CASE Moved /\ Alone(s)
  <2> DEFINE rows == IF x.data[c].at = "own" THEN own.rows ELSE chain[c][1].rows
  <2>1. rows \in SUBSET Stamps
    BY <1>3, <1>7 DEF Versions
  <2>2. chain'[c] = Merged(c, rows)
    BY <1>3, <1>8, <1>12 DEF update_table, tr_update_delta, tr_merge_delta
  <2> HIDE DEF rows
  <2>3. /\ chain'[c] \in Seq(Versions) /\ DOMAIN chain'[c] = {1}
        /\ chain'[c][1].wtime = chain[c][1].wtime /\ chain'[c][1].rows = rows
    BY <2>1, <2>2, MergedIs
  <2>4. cwtime[c] <= cwtime'[c] /\ cwtime'[c] \in Nat
    BY <1>3, <1>4, <1>9, <1>10, <1>12
  <2>5. Chain(c)'
    BY <1>3, <2>3, <2>4 DEF Chain
  <2>6. cwtime'[c] = cwtime[c] \/ cwtime'[c] = x.wstime
    BY <1>10
  <2>7. x.wstime <= x.wstime
    BY <1>4
  <2> QED BY <1>12, <2>3, <2>4, <2>5, <2>6, <2>7 DEF rows
<1>13. CASE Moved /\ ~Alone(s) /\ x.data[c].at # "own"
  <2>1. chain'[c] = chain[c]
    BY <1>8, <1>13 DEF update_table
  <2>2. cwtime[c] <= cwtime'[c] /\ cwtime'[c] \in Nat
    BY <1>3, <1>4, <1>9, <1>10, <1>13
  <2>3. chain[c][1].wtime <= cwtime'[c]
    BY <1>3, <2>2
  <2>4. Chain(c)'
    BY <2>1, <2>3 DEF IInv, Chain
  <2>5. cwtime'[c] = cwtime[c] \/ cwtime'[c] = x.wstime
    BY <1>10
  <2>6. x.wstime <= x.wstime
    BY <1>4
  <2> QED BY <1>3, <1>13, <2>1, <2>2, <2>4, <2>5, <2>6
<1>14. CASE Moved /\ ~Alone(s) /\ x.data[c].at = "own"
  <2>1. chain'[c] = <<own>> \o chain[c]
    BY <1>8, <1>14 DEF update_table
  <2>2. own \in Versions /\ own.wtime = x.wstime /\ cwtime'[c] = x.wstime
    BY <1>4, <1>7, <1>10, <1>14
  <2> HIDE DEF own
  <2>3. /\ chain'[c] \in Seq(Versions) /\ chain'[c][1] = own
        /\ Len(chain'[c]) = Len(chain[c]) + 1
        /\ DOMAIN chain'[c] = 1..(Len(chain[c]) + 1)
        /\ DOMAIN chain[c] = 1..Len(chain[c]) /\ Len(chain[c]) \in Nat
        /\ \A j \in 2..Len(chain[c]) + 1 : chain'[c][j] = chain[c][j - 1]
    BY <1>3, <2>1, <2>2
  <2>4. ASSUME NEW i \in DOMAIN chain'[c], NEW j \in DOMAIN chain'[c], i < j
        PROVE  chain'[c][j].wtime < chain'[c][i].wtime
    <3>1. j \in 2..Len(chain[c]) + 1 /\ j - 1 \in DOMAIN chain[c] /\ chain'[c][j] = chain[c][j - 1]
      BY <2>3, <2>4, SMTT(60)
    <3>2. \A k, l \in DOMAIN chain[c] : k < l => chain[c][l].wtime < chain[c][k].wtime
      BY DEF IInv, Chain
    <3>3. \A k \in DOMAIN chain[c] : chain[c][k].wtime \in Nat
      <4>1. \A k \in DOMAIN chain[c] : chain[c][k] \in Versions
        BY <1>3
      <4> QED BY <4>1 DEF Versions
    <3>4. CASE i = 1
      <4>1. chain[c][j - 1].wtime <= chain[c][1].wtime
        <5>1. CASE j - 1 = 1
          BY <1>3, <5>1
        <5>2. CASE j - 1 # 1
          <6>1. 1 < j - 1
            BY <2>3, <3>1, <5>2
          <6>2. chain[c][j - 1].wtime < chain[c][1].wtime
            BY <1>3, <3>1, <3>2, <6>1
          <6> QED BY <1>3, <3>1, <3>3, <6>2, SMTT(60)
        <5> QED BY <5>1, <5>2
      <4>2. chain[c][j - 1].wtime < x.wstime
        BY <1>3, <1>4, <1>9, <1>14, <3>1, <3>3, <4>1, Z3T(60)
      <4> QED BY <2>2, <2>3, <3>1, <3>4, <4>2
    <3>5. CASE i # 1
      <4>1. i \in 2..Len(chain[c]) + 1 /\ i - 1 \in DOMAIN chain[c] /\ chain'[c][i] = chain[c][i - 1]
            /\ i - 1 < j - 1
        BY <2>3, <2>4, <3>5, SMTT(60)
      <4> QED BY <3>1, <3>2, <4>1
    <3> QED BY <3>4, <3>5
  <2>5. 1 \in DOMAIN chain'[c] /\ chain'[c][1].wtime <= cwtime'[c]
    BY <1>4, <2>2, <2>3
  <2>6. Chain(c)'
    BY <2>4, <2>5 DEF Chain
  <2>7. x.wstime <= x.wstime
    BY <1>4
  <2> QED BY <1>4, <1>14, <2>1, <2>2, <2>3, <2>6, <2>7, ZenonT(30) DEF own
<1> QED BY <1>11, <1>12, <1>13, <1>14, ZenonT(30)

(* The versions the other active sessions see stay.                        *)
LEMMA OthersSee ==
    ASSUME IInv, Ordered, NEW s \in Sessions, sql_trans_commit(s), NEW o \in Sessions \ {s},
           tr[o].active, NEW c \in Columns
    PROVE  \E i \in Nat : /\ Newest(chain'[c], tr[o].stime, i)
                          /\ chain'[c][i].rows = hist[o].snap.rows[c]
                          /\ tr[o].data[c].at = "chain" => tr[o].data[c].v.wtime = chain'[c][i].wtime
<1>1. ~Alone(s)
  BY DEF Alone
<1>2. PICK i \in Nat : /\ Newest(chain[c], tr[o].stime, i)
                       /\ chain[c][i].rows = hist[o].snap.rows[c]
                       /\ tr[o].data[c].at = "chain" => tr[o].data[c].v.wtime = chain[c][i].wtime
  BY Seen
<1>3. CASE chain'[c] = chain[c]
  BY <1>2, <1>3
<1>4. CASE /\ chain'[c] = <<tr[s].data[c].v>> \o chain[c]
           /\ tr[s].data[c].v \in Versions /\ tr[s].data[c].v.wtime = tr[s].wstime
  <2> DEFINE v == tr[s].data[c].v
             ts == tr[o].stime
  <2>1. ts \in Nat /\ ts < v.wtime /\ v \in Versions /\ chain'[c] = <<v>> \o chain[c]
    BY <1>4, Validated
  <2>2. chain[c] \in Seq(Versions) /\ Newest(chain[c], ts, i)
    BY <1>2, HeadFacts
  <2>3. /\ Newest(chain'[c], ts, i + 1)
        /\ chain'[c][i + 1] = chain[c][i]
    <3> HIDE DEF v, ts
    <3>1. ts \in Nat /\ ts < v.wtime /\ v \in Versions
      BY <2>1
    <3>2. /\ Newest(<<v>> \o chain[c], ts, i + 1)
          /\ (<<v>> \o chain[c])[i + 1] = chain[c][i]
      BY <2>2, <3>1, StaysNewest, ZenonT(60)
    <3> QED BY <2>1, <3>2
  <2>4. i + 1 \in Nat
    OBVIOUS
  <2> QED BY <1>2, <2>3, <2>4
<1> QED BY <1>1, <1>3, <1>4, CommitColumn, ZenonT(60)

LEMMA CommitTables ==
    ASSUME IInv, Ordered, NEW s \in Sessions, sql_trans_commit(s)
    PROVE  /\ gtab' \in [Tables -> BothTimes]
           /\ \A t \in Tables :
                /\ gtab'[t].wtime \in {gtab[t].wtime, tr[s].wstime}
                /\ gtab[t].wtime <= gtab'[t].wtime /\ gtab'[t].rtime <= stamp
                /\ tr[s].tab[t].wtime # 0 => gtab'[t].wtime = tr[s].wstime
<1> DEFINE x == tr[s]
<1>1. gtab' = [t \in Tables |-> IF t \in {u \in Tables : x.tab[u].wtime # 0}
                    THEN [rtime |-> Larger(gtab[t].rtime, x.tab[t].rtime),
                          wtime |-> Larger(gtab[t].wtime, x.tab[t].wtime)]
                    ELSE gtab[t]]
  BY DEF sql_trans_commit
<1>2. x.tab \in [Tables -> BothTimes] /\ gtab \in [Tables -> BothTimes] /\ stamp \in Nat
      /\ Private(x)
  BY Typed DEF Transactions, IInv, Types
<1>3. ASSUME NEW t \in Tables
      PROVE  /\ gtab'[t] \in BothTimes
             /\ gtab'[t].wtime \in {gtab[t].wtime, x.wstime}
             /\ gtab[t].wtime <= gtab'[t].wtime /\ gtab'[t].rtime <= stamp
             /\ x.tab[t].wtime # 0 => gtab'[t].wtime = x.wstime
  <2>1. /\ gtab[t].wtime \in Nat /\ gtab[t].rtime \in Nat /\ x.tab[t].wtime \in Nat
        /\ x.tab[t].rtime \in Nat /\ gtab[t] \in BothTimes
    BY <1>2 DEF BothTimes
  <2>2. gtab[t].rtime <= stamp
    BY DEF IInv, Clocks
  <2>3. x.tab[t].rtime <= stamp
    BY <1>2, <2>1, Validated
  <2>4. CASE x.tab[t].wtime = 0
    BY <1>1, <2>1, <2>2, <2>4
  <2>5. CASE x.tab[t].wtime # 0
    <3>1. gtab'[t] = [rtime |-> Larger(gtab[t].rtime, x.tab[t].rtime),
                      wtime |-> Larger(gtab[t].wtime, x.tab[t].wtime)]
      BY <1>1, <2>5
    <3>2. gtab'[t].rtime = Larger(gtab[t].rtime, x.tab[t].rtime)
          /\ gtab'[t].wtime = Larger(gtab[t].wtime, x.tab[t].wtime)
      BY <3>1
    <3>3. gtab'[t].rtime \in Nat /\ gtab'[t].rtime <= stamp
      BY <2>1, <2>2, <2>3, <3>2, LargerIs
    <3>4. x.tab[t].wtime = x.wstime /\ gtab[t].wtime < x.wstime /\ x.wstime \in Nat
      BY <2>5, Validated
    <3>5. gtab'[t].wtime = x.wstime
      BY <2>1, <3>2, <3>4 DEF Larger
    <3>6. gtab'[t] \in BothTimes
      <4>1. /\ Larger(gtab[t].rtime, x.tab[t].rtime) \in Nat
            /\ Larger(gtab[t].wtime, x.tab[t].wtime) \in Nat
        BY <2>1, LargerIs
      <4> QED BY <3>1, <4>1 DEF BothTimes
    <3> QED BY <2>1, <3>3, <3>4, <3>5, <3>6
  <2> QED BY <2>4, <2>5
<1>4. DOMAIN gtab' = Tables /\ gtab' = [t \in Tables |-> gtab'[t]]
  BY <1>1
<1> QED BY <1>3, <1>4

LEMMA CommitGlobal ==
    ASSUME IInv, Ordered, NEW s \in Sessions, sql_trans_commit(s)
    PROVE  /\ gtrans' \in [wtime : Nat, wstime : Nat, schema_number : Nat]
           /\ gtrans.wtime <= gtrans'.wtime /\ tr[s].wstime <= gtrans'.wtime
           /\ gtrans'.wtime <= gtrans'.wstime /\ gtrans'.wstime <= stamp
           /\ gtrans.schema_number <= gtrans'.schema_number
           /\ gtrans'.schema_number <= MaxSchema
           /\ gtrans'.schema_number = gtrans.schema_number
                                        + (IF hist[s].altered THEN 1 ELSE 0)
<1> DEFINE x == tr[s]
<1>1. gtrans' = [wtime  |-> Larger(gtrans.wtime, x.wtime),
                 wstime |-> Larger(gtrans.wstime, x.wstime),
                 schema_number |-> gtrans.schema_number + (IF x.schema_updates THEN 1 ELSE 0)]
  BY ZenonT(30) DEF sql_trans_commit, rollforward_trans
<1>2. /\ x.wtime = x.wstime /\ x.wstime \in Nat /\ x.wstime <= stamp
      /\ x.schema_number = gtrans.schema_number
  BY Validated
<1>3. /\ gtrans.wtime \in Nat /\ gtrans.wstime \in Nat /\ gtrans.schema_number \in Nat
      /\ stamp \in Nat /\ gtrans.wtime <= gtrans.wstime /\ gtrans.wstime <= stamp
      /\ gtrans.schema_number <= MaxSchema /\ MaxSchema \in Nat
  BY SQLTransAssumption DEF IInv, Types, Clocks
<1>4. /\ x.schema_updates \in BOOLEAN /\ hist[s].altered = x.schema_updates
      /\ x.schema_updates => x.schema_number < MaxSchema
  BY Typed, Validated DEF Transactions, Faithful
<1>5. /\ gtrans'.wtime = Larger(gtrans.wtime, x.wstime)
      /\ gtrans'.wstime = Larger(gtrans.wstime, x.wstime)
      /\ gtrans'.schema_number = gtrans.schema_number + (IF x.schema_updates THEN 1 ELSE 0)
  BY <1>1, <1>2
<1>6. /\ gtrans'.wtime \in Nat /\ gtrans'.wstime \in Nat
      /\ gtrans.wtime <= gtrans'.wtime /\ x.wstime <= gtrans'.wtime
      /\ gtrans'.wtime <= gtrans'.wstime /\ gtrans'.wstime <= stamp
  BY <1>2, <1>3, <1>5 DEF Larger
<1>7. /\ gtrans'.schema_number \in Nat
      /\ gtrans.schema_number <= gtrans'.schema_number
      /\ gtrans'.schema_number <= MaxSchema
  BY <1>2, <1>3, <1>4, <1>5
<1>8. gtrans' \in [wtime : Nat, wstime : Nat, schema_number : Nat]
  BY <1>1, <1>5, <1>6, <1>7
<1> QED BY <1>4, <1>5, <1>6, <1>7, <1>8

(* What the session that commits keeps.                                    *)
LEMMA CommitPrivate ==
    ASSUME IInv, Ordered, NEW s \in Sessions, sql_trans_commit(s)
    PROVE  \E y \in Transactions :
              /\ tr' = [tr EXCEPT ![s] = y] /\ hist' = [hist EXCEPT ![s] = Store!Idle]
              /\ ~y.active /\ y.stime = tr[s].stime /\ y.wstime = tr[s].wstime
              /\ y.wtime = tr[s].wtime /\ y.schema_number = gtrans.schema_number
              /\ \A t \in Tables : y.tab[t] = tr[s].tab[t]
                                     \/ (y.tab[t].rtime = 0 /\ y.tab[t].wtime = 0)
              /\ \A c \in Columns :
                    \/ /\ tr[s].tab[TableOf[c]].wtime = 0
                       /\ y.tab[TableOf[c]] = tr[s].tab[TableOf[c]]
                       /\ y.col[c] = tr[s].col[c] /\ y.data[c] = tr[s].data[c]
                    \/ y.col[c].wtime = 0 /\ y.data[c].at = "none"
<1> DEFINE x == tr[s]
           written == {t \in Tables : x.tab[t].wtime # 0}
           tab  == [t \in Tables |-> IF t \in written THEN Times ELSE x.tab[t]]
           col  == [c \in Columns |-> IF TableOf[c] \in written THEN Times ELSE x.col[c]]
           data == [c \in Columns |-> IF TableOf[c] \in written THEN Unbound ELSE x.data[c]]
           y == [x EXCEPT !.active = FALSE, !.schema_number = gtrans.schema_number,
                          !.tab = tab, !.col = col, !.data = data]
<1>1. /\ x \in Transactions /\ x.tab \in [Tables -> BothTimes]
      /\ x.col \in [Columns -> BothTimes] /\ x.data \in [Columns -> Bindings]
  BY Typed DEF Transactions
<1>2. /\ Times \in BothTimes /\ Times.rtime = 0 /\ Times.wtime = 0
      /\ Unbound \in Bindings /\ Unbound.at = "none"
  BY DEF Times, BothTimes, Unbound, Bindings, Versions, Version
<1>3. /\ tab \in [Tables -> BothTimes] /\ col \in [Columns -> BothTimes]
      /\ data \in [Columns -> Bindings]
  BY <1>1, <1>2
<1>4. tr' = [tr EXCEPT ![s] = y] /\ hist' = [hist EXCEPT ![s] = Store!Idle]
  BY DEF sql_trans_commit, Ended
<1>5. /\ \A t \in Tables : tab[t] = x.tab[t] \/ (tab[t].rtime = 0 /\ tab[t].wtime = 0)
      /\ \A c \in Columns :
            \/ /\ x.tab[TableOf[c]].wtime = 0 /\ tab[TableOf[c]] = x.tab[TableOf[c]]
               /\ col[c] = x.col[c] /\ data[c] = x.data[c]
            \/ col[c].wtime = 0 /\ data[c].at = "none"
  <2>1. TableOf \in [Columns -> Tables]
    BY SQLTransAssumption
  <2> QED BY <1>2, <2>1
<1> HIDE DEF tab, col, data
<1>6. gtrans.schema_number \in Nat
  BY DEF IInv, Types
<1>7. /\ y \in Transactions
      /\ ~y.active /\ y.stime = x.stime /\ y.wstime = x.wstime /\ y.wtime = x.wtime
      /\ y.schema_number = gtrans.schema_number
      /\ y.tab = tab /\ y.col = col /\ y.data = data
  BY <1>1, <1>3, <1>6 DEF Transactions
<1> HIDE DEF y
<1> QED BY <1>4, <1>5, <1>7

LEMMA CommitKeeps ==
    ASSUME IInv, Ordered, NEW s \in Sessions, sql_trans_commit(s)
    PROVE  IInv'
<1> DEFINE x == tr[s]
<1>1. PICK y \in Transactions :
        /\ tr' = [tr EXCEPT ![s] = y] /\ hist' = [hist EXCEPT ![s] = Store!Idle]
        /\ ~y.active /\ y.stime = x.stime /\ y.wstime = x.wstime
        /\ y.wtime = x.wtime /\ y.schema_number = gtrans.schema_number
        /\ \A t \in Tables : y.tab[t] = x.tab[t] \/ (y.tab[t].rtime = 0 /\ y.tab[t].wtime = 0)
        /\ \A c \in Columns :
              \/ /\ x.tab[TableOf[c]].wtime = 0
                 /\ y.tab[TableOf[c]] = x.tab[TableOf[c]]
                 /\ y.col[c] = x.col[c] /\ y.data[c] = x.data[c]
              \/ y.col[c].wtime = 0 /\ y.data[c].at = "none"
  BY CommitPrivate
<1>2. Store!Idle \in Works
  BY DEF Works
<1>3. /\ tr' \in [Sessions -> Transactions] /\ hist' \in [Sessions -> Works]
      /\ tr'[s] = y /\ hist'[s] = Store!Idle
      /\ \A o \in Sessions \ {s} : tr'[o] = tr[o] /\ hist'[o] = hist[o]
      /\ stamp' = stamp
  <2>1. stamp' = stamp
    BY DEF sql_trans_commit
  <2> QED BY <1>1, <1>2, <2>1, SMTT(60) DEF IInv, Types
<1>4. /\ DOMAIN chain' = Columns /\ chain' = [c \in Columns |-> chain'[c]]
      /\ DOMAIN cwtime' = Columns /\ cwtime' = [c \in Columns |-> cwtime'[c]]
  BY ZenonT(30) DEF sql_trans_commit
<1>5. Types'
  <2>1. chain' \in [Columns -> Seq(Versions)]
    BY <1>4, CommitColumn
  <2>2. cwtime' \in [Columns -> Nat]
    BY <1>4, CommitColumn
  <2> QED BY <1>3, <2>1, <2>2, CommitGlobal, CommitTables DEF IInv, Types
<1>6. Clocks'
  <2>1. /\ 1 <= gtrans.wtime /\ gtrans.wtime \in Nat /\ gtrans'.wtime \in Nat /\ stamp <= MaxStamp
        /\ gtrans.wtime <= gtrans'.wtime
    BY CommitGlobal DEF IInv, Clocks, Types
  <2>2. ASSUME NEW t \in Tables PROVE gtab'[t].wtime <= gtrans'.wtime
    <3>1. gtab[t].wtime <= gtrans.wtime /\ gtab[t].wtime \in Nat
      BY DEF IInv, Clocks, Types, BothTimes
    <3>2. gtab'[t].wtime \in {gtab[t].wtime, x.wstime} /\ x.wstime <= gtrans'.wtime
      BY CommitTables, CommitGlobal
    <3> QED BY <2>1, <3>1, <3>2
  <2>3. ASSUME NEW c \in Columns PROVE cwtime'[c] <= gtab'[TableOf[c]].wtime
    <3>1. /\ TableOf[c] \in Tables /\ cwtime[c] <= gtab[TableOf[c]].wtime
          /\ cwtime[c] \in Nat /\ gtab[TableOf[c]].wtime \in Nat
      BY HeadFacts
    <3>2. /\ gtab'[TableOf[c]].wtime \in {gtab[TableOf[c]].wtime, x.wstime}
          /\ gtab[TableOf[c]].wtime <= gtab'[TableOf[c]].wtime
          /\ x.tab[TableOf[c]].wtime # 0 => gtab'[TableOf[c]].wtime = x.wstime
          /\ x.wstime \in Nat
      BY <3>1, CommitTables, Validated
    <3>3. /\ cwtime'[c] \in {cwtime[c], x.wstime}
          /\ cwtime'[c] = x.wstime => x.tab[TableOf[c]].wtime # 0 \/ cwtime[c] = x.wstime
      BY CommitColumn
    <3> QED BY <3>1, <3>2, <3>3
  <2>4. 1 <= gtrans'.wtime
    BY <2>1
  <2> QED BY <1>3, <2>1, <2>2, <2>3, <2>4, CommitGlobal, CommitTables DEF Clocks
<1>7. \A c \in Columns : Chain(c)'
  BY CommitColumn
<1>8. ASSUME NEW o \in Sessions \ {s} PROVE Session(tr[o], hist[o])'
  <2> DEFINE z == tr[o]
             h == hist[o]
  <2>1. /\ tr'[o] = z /\ hist'[o] = h
        /\ Private(z)
        /\ z.active => Faithful(z, h)
        /\ ~z.active => h = Store!Idle
    BY <1>3, Typed DEF IInv, Session
  <2>2. /\ z.stime \in Nat /\ z.stime < x.wstime /\ x.wstime \in Nat
        /\ z.schema_number \in Nat /\ gtrans.schema_number \in Nat
    BY Typed, Validated DEF Transactions, IInv, Types
  <2>3. z.stime <= gtrans'.wtime /\ z.schema_number <= gtrans'.schema_number
    <3>1. z.stime <= gtrans.wtime /\ z.schema_number <= gtrans.schema_number
      BY <2>1 DEF Private
    <3>2. /\ gtrans.wtime \in Nat /\ gtrans'.wtime \in Nat /\ gtrans.wtime <= gtrans'.wtime
          /\ gtrans'.schema_number \in Nat /\ gtrans.schema_number <= gtrans'.schema_number
      BY CommitGlobal DEF IInv, Types
    <3> QED BY <2>2, <3>1, <3>2
  <2>4. ASSUME NEW c \in Columns, z.data[c].at = "chain", cwtime'[c] <= z.stime
        PROVE  z.data[c].v.wtime = chain'[c][1].wtime
    <3>1. \/ cwtime'[c] = cwtime[c] /\ chain'[c][1].wtime = chain[c][1].wtime
          \/ x.wstime <= cwtime'[c]
      BY CommitColumn
    <3>2. cwtime'[c] \in Nat
      BY CommitColumn
    <3>3. ~(x.wstime <= cwtime'[c])
      BY <2>2, <2>4, <3>2
    <3> QED BY <2>1, <2>4, <3>1, <3>3 DEF Private
  <2>5. Private(tr[o])'
    BY <1>3, <2>1, <2>3, <2>4 DEF Private
  <2>6. ASSUME z.active PROVE Faithful(tr[o], hist[o])'
    <3>1. Faithful(z, h)
      BY <2>1, <2>6
    <3>2. \A t \in Tables : gtab'[t].wtime # z.wstime
      <4>1. z.wstime # x.wstime
        BY <2>6, Validated DEF IInv, Distinct
      <4> QED BY <3>1, <4>1, CommitTables DEF Faithful
    <3>3. \A c \in Columns : Sees(tr[o], hist[o], c)'
      BY <1>3, <2>6, OthersSee DEF Sees
    <3>4. \A c \in Columns : Wrote(tr[o], hist[o], c)'
      BY <1>3, <3>1 DEF Wrote, Faithful
    <3> QED BY <1>3, <3>1, <3>2, <3>3, <3>4 DEF Faithful
  <2> QED BY <1>3, <2>1, <2>5, <2>6 DEF Session
<1>9. Session(tr[s], hist[s])'
  <2>1. Private(x) /\ x.stime \in Nat
    BY Typed DEF Transactions
  <2>2. /\ gtrans.wtime \in Nat /\ gtrans'.wtime \in Nat /\ gtrans.wtime <= gtrans'.wtime
        /\ gtrans.schema_number <= gtrans'.schema_number /\ x.stime <= gtrans.wtime
    BY <2>1, CommitGlobal DEF IInv, Types, Private
  <2>3. y.stime <= gtrans'.wtime /\ y.wstime <= stamp' /\ y.schema_number <= gtrans'.schema_number
        /\ y.wtime \in {0, y.wstime}
    BY <1>1, <1>3, <2>1, <2>2 DEF Private
  <2>4. \A t \in Tables : y.tab[t].rtime \in {0, y.stime} /\ y.tab[t].wtime \in {0, y.wtime}
    BY <1>1, <2>1 DEF Private
  <2>5. ASSUME NEW c \in Columns
        PROVE  /\ y.col[c].wtime \in {0, y.wtime}
               /\ y.data[c].at = "own" => y.tab[TableOf[c]].wtime # 0 /\ y.col[c].wtime # 0
               /\ y.data[c].at = "chain" /\ cwtime'[c] <= y.stime =>
                     y.data[c].v.wtime = chain'[c][1].wtime
    <3>1. CASE y.col[c].wtime = 0 /\ y.data[c].at = "none"
      BY <3>1
    <3>2. CASE /\ x.tab[TableOf[c]].wtime = 0
               /\ y.tab[TableOf[c]] = x.tab[TableOf[c]]
               /\ y.col[c] = x.col[c] /\ y.data[c] = x.data[c]
      <4>1. cwtime'[c] = cwtime[c] /\ chain'[c] = chain[c]
        BY <3>2, CommitColumn
      <4> QED BY <1>1, <2>1, <3>2, <4>1 DEF Private
    <3> QED BY <1>1, <3>1, <3>2
  <2>6. Private(tr[s])'
    BY <1>3, <2>3, <2>4, <2>5 DEF Private
  <2> QED BY <1>1, <1>3, <2>6 DEF Session
<1>10. Distinct'
  BY <1>1, <1>3 DEF IInv, Distinct
<1> QED BY <1>5, <1>6, <1>7, <1>8, <1>9, <1>10 DEF IInv

-----------------------------------------------------------------------------
(***************************************************************************)
(* The invariant                                                           *)
(***************************************************************************)
LEMMA ApplyKeeps == ASSUME IInv, store_apply_deltas PROVE IInv'
<1> DEFINE changed == {c \in Columns : Head(chain[c]).ins}
           tables  == {TableOf[c] : c \in changed}
<1>1. /\ \A s \in Sessions : ~tr[s].active
      /\ stamp' = stamp + 1 /\ stamp < MaxStamp /\ stamp \in Nat /\ MaxStamp \in Nat
      /\ chain' = [c \in Columns |-> gtr_update_delta(c)]
      /\ cwtime' = [c \in Columns |-> IF c \in changed THEN stamp + 1 ELSE cwtime[c]]
      /\ gtab' = [t \in Tables |-> IF t \in tables THEN [gtab[t] EXCEPT !.wtime = stamp + 1]
                                                   ELSE gtab[t]]
      /\ gtrans' = [gtrans EXCEPT !.wstime = stamp + 1,
                                  !.wtime = IF changed = {} THEN @ ELSE stamp + 1]
      /\ tr' = tr /\ hist' = hist
  BY SQLTransAssumption DEF store_apply_deltas, IInv, Types
<1>2. changed \subseteq Columns /\ \A c \in changed : TableOf[c] \in tables
  OBVIOUS
<1>3. changed = {} => tables = {}
  OBVIOUS
<1> HIDE DEF changed, tables
<1>4. /\ gtrans.wtime \in Nat /\ gtrans.wstime \in Nat /\ gtrans.schema_number \in Nat
      /\ 1 <= gtrans.wtime /\ gtrans.wtime <= gtrans.wstime /\ gtrans.wstime <= stamp
      /\ gtrans.schema_number <= MaxSchema /\ gtrans.wtime <= stamp
  BY <1>1 DEF IInv, Types, Clocks
<1>5. /\ gtrans' \in [wtime : Nat, wstime : Nat, schema_number : Nat]
      /\ gtrans'.wstime = stamp + 1 /\ gtrans'.schema_number = gtrans.schema_number
      /\ gtrans'.wtime = (IF changed = {} THEN gtrans.wtime ELSE stamp + 1)
  <2>1. gtrans \in [wtime : Nat, wstime : Nat, schema_number : Nat]
    BY DEF IInv, Types
  <2> DEFINE w == IF changed = {} THEN gtrans.wtime ELSE stamp + 1
  <2>2. w \in Nat /\ stamp + 1 \in Nat
    BY <1>1, <1>4
  <2>3. gtrans' = [gtrans EXCEPT !.wstime = stamp + 1, !.wtime = w]
    BY <1>1
  <2> HIDE DEF w
  <2>4. /\ gtrans' \in [wtime : Nat, wstime : Nat, schema_number : Nat]
        /\ gtrans'.wstime = stamp + 1 /\ gtrans'.schema_number = gtrans.schema_number
        /\ gtrans'.wtime = w
    BY <2>1, <2>2, <2>3
  <2> QED BY <2>4 DEF w
<1>6. /\ gtrans'.wtime <= stamp + 1 /\ gtrans.wtime <= gtrans'.wtime
      /\ 1 <= gtrans'.wtime /\ gtrans'.wtime <= gtrans'.wstime /\ gtrans'.wtime \in Nat
  BY <1>1, <1>4, <1>5
<1>7. ASSUME NEW t \in Tables
      PROVE  /\ gtab'[t] \in BothTimes
             /\ gtab'[t].wtime \in {gtab[t].wtime, stamp + 1}
             /\ t \in tables => gtab'[t].wtime = stamp + 1
             /\ t \notin tables => gtab'[t].wtime = gtab[t].wtime
             /\ gtab'[t].rtime <= stamp + 1
             /\ gtab'[t].wtime <= gtrans'.wtime
             /\ gtab[t].wtime <= gtab'[t].wtime /\ gtab[t].wtime \in Nat
             /\ gtab[t].wtime <= stamp
  <2>1. gtab[t] \in BothTimes /\ gtab[t].wtime <= gtrans.wtime /\ gtab[t].rtime <= stamp
    BY DEF IInv, Types, Clocks
  <2>2. CASE t \in tables
    <3>1. gtab'[t] = [gtab[t] EXCEPT !.wtime = stamp + 1]
      BY <1>1, <2>2
    <3>2. gtrans'.wtime = stamp + 1
      BY <1>3, <1>5, <2>2
    <3> QED BY <1>1, <1>4, <2>1, <2>2, <3>1, <3>2 DEF BothTimes
  <2>3. CASE t \notin tables
    BY <1>1, <1>4, <1>6, <2>1, <2>3 DEF BothTimes
  <2> QED BY <2>2, <2>3
<1>8. ASSUME NEW c \in Columns
      PROVE  /\ chain'[c] \in Seq(Versions) /\ DOMAIN chain'[c] = {1}
             /\ chain'[c][1].wtime = chain[c][1].wtime
             /\ cwtime'[c] \in Nat
             /\ c \in changed => cwtime'[c] = stamp + 1
             /\ c \notin changed => cwtime'[c] = cwtime[c]
  <2>1. chain'[c] = Merged(c, chain[c][1].rows) /\ chain[c][1].rows \in SUBSET Stamps
    BY <1>1, HeadFacts DEF gtr_update_delta, Versions
  <2> QED BY <1>1, <2>1, MergedIs, HeadFacts
<1>9. Types'
  <2>1. chain' \in [Columns -> Seq(Versions)] /\ cwtime' \in [Columns -> Nat]
    BY <1>1, <1>8
  <2>2. gtab' \in [Tables -> BothTimes]
    BY <1>1, <1>7
  <2> QED BY <1>1, <1>5, <2>1, <2>2 DEF IInv, Types
<1>10. Clocks'
  <2>1. ASSUME NEW c \in Columns PROVE cwtime'[c] <= gtab'[TableOf[c]].wtime
    <3>1. /\ TableOf[c] \in Tables /\ cwtime[c] \in Nat
          /\ cwtime[c] <= gtab[TableOf[c]].wtime
      BY HeadFacts
    <3>2. CASE c \in changed
      BY <1>1, <1>2, <1>7, <1>8, <3>1, <3>2
    <3>3. CASE c \notin changed
      <4>1. /\ gtab'[TableOf[c]].wtime \in Nat /\ gtab[TableOf[c]].wtime \in Nat
            /\ gtab[TableOf[c]].wtime <= gtab'[TableOf[c]].wtime
        BY <1>7, <3>1 DEF BothTimes
      <4> QED BY <1>8, <3>1, <3>3, <4>1
    <3> QED BY <3>2, <3>3
  <2>2. /\ gtrans'.wstime <= stamp' /\ stamp' <= MaxStamp /\ gtrans'.schema_number <= MaxSchema
    BY <1>1, <1>4, <1>5
  <2>3. \A t \in Tables : gtab'[t].wtime <= gtrans'.wtime /\ gtab'[t].rtime <= stamp'
    BY <1>1, <1>7
  <2> QED BY <1>6, <2>1, <2>2, <2>3 DEF Clocks
<1>11. ASSUME NEW c \in Columns PROVE Chain(c)'
  <2>1. chain'[c][1].wtime <= cwtime'[c]
    <3>1. /\ chain[c][1].wtime \in Nat /\ cwtime[c] \in Nat
          /\ chain[c][1].wtime <= cwtime[c] /\ cwtime[c] <= gtab[TableOf[c]].wtime
          /\ gtab[TableOf[c]].wtime \in Nat /\ gtab[TableOf[c]].wtime <= gtrans.wtime
      BY HeadFacts
    <3> QED BY <1>1, <1>4, <1>8, <3>1, SMTT(60)
  <2> QED BY <1>8, <2>1 DEF Chain
<1>12. ASSUME NEW s \in Sessions PROVE Session(tr[s], hist[s])'
  <2> DEFINE x == tr[s]
  <2>1. /\ Private(x) /\ ~x.active /\ hist[s] = Store!Idle
        /\ x.stime \in Nat /\ x.wstime \in Nat /\ x.schema_number \in Nat
    BY <1>1, Typed DEF IInv, Session, Transactions
  <2>2. x.stime <= gtrans.wtime
    BY <2>1 DEF Private
  <2>3. ASSUME NEW c \in Columns, x.data[c].at = "chain", cwtime'[c] <= x.stime
        PROVE  x.data[c].v.wtime = chain'[c][1].wtime
    <3>1. c \notin changed
      BY <1>1, <1>4, <1>8, <2>1, <2>2, <2>3
    <3> QED BY <1>8, <2>1, <2>3, <3>1 DEF Private
  <2>4. /\ x.stime <= gtrans'.wtime /\ x.wstime <= stamp'
        /\ x.schema_number <= gtrans'.schema_number
    BY <1>1, <1>4, <1>5, <1>6, <2>1, <2>2 DEF Private
  <2>5. Private(tr[s])'
    BY <1>1, <2>1, <2>3, <2>4, ZenonT(30) DEF Private
  <2> QED BY <1>1, <2>1, <2>5 DEF Session
<1>13. Distinct'
  BY <1>1 DEF Distinct
<1> QED BY <1>9, <1>10, <1>11, <1>12, <1>13 DEF IInv

LEMMA InitIInv == Ordered /\ Init => IInv
<1> SUFFICES ASSUME Ordered, Init PROVE IInv
  OBVIOUS
<1> DEFINE first == Version(0, {0}, FALSE)
<1>1. /\ stamp = 1 /\ gtrans = [wtime |-> 1, wstime |-> 1, schema_number |-> 0]
      /\ chain = [c \in Columns |-> <<first>>]
      /\ cwtime = [c \in Columns |-> 0]
      /\ gtab = [t \in Tables |-> Times]
      /\ tr = [s \in Sessions |-> NewTrans]
      /\ hist = [s \in Sessions |-> Store!Idle]
  BY DEF Init, Ordered
<1>2. MaxStamp \in Nat /\ 1 <= MaxStamp /\ 0 \in Stamps /\ MaxSchema \in Nat
      /\ TableOf \in [Columns -> Tables]
  BY SQLTransAssumption DEF Stamps
<1>3. first \in Versions /\ first.wtime = 0
  BY <1>2 DEF Version, Versions
<1>4. Unbound \in Bindings /\ Times \in BothTimes
  BY DEF Unbound, Bindings, Version, Versions, Times, BothTimes
<1>5. /\ <<first>> \in Seq(Versions) /\ DOMAIN <<first>> = {1} /\ <<first>>[1] = first
  <2> HIDE DEF first
  <2> QED BY <1>3
<1> HIDE DEF first
<1>6. /\ NewTrans \in Transactions /\ ~NewTrans.active
      /\ NewTrans.stime = 0 /\ NewTrans.wstime = 0 /\ NewTrans.wtime = 0
      /\ NewTrans.schema_number = 0
      /\ \A t \in Tables : NewTrans.tab[t] = Times
      /\ \A c \in Columns : NewTrans.col[c] = Times /\ NewTrans.data[c] = Unbound
  BY <1>4 DEF NewTrans, Transactions
<1>7. Types
  BY <1>1, <1>4, <1>5, <1>6 DEF Types, Works
<1>8. Clocks
  BY <1>1, <1>2 DEF Clocks, Times
<1>9. \A c \in Columns : Chain(c)
  BY <1>1, <1>3, <1>5 DEF Chain
<1>10. ASSUME NEW s \in Sessions PROVE Session(tr[s], hist[s])
  <2>1. tr[s] = NewTrans /\ hist[s] = Store!Idle
    BY <1>1
  <2>2. Private(NewTrans)
    BY <1>1, <1>6 DEF Private, Times, Unbound
  <2> QED BY <1>6, <2>1, <2>2 DEF Session
<1>11. Distinct
  BY <1>1, <1>6 DEF Distinct
<1> QED BY <1>7, <1>8, <1>9, <1>10, <1>11 DEF IInv

LEMMA StepIInv == ASSUME Ordered, IInv, [Next]_vars PROVE IInv'
<1>1. CASE store_apply_deltas
  BY <1>1, ApplyKeeps
<1>2. ASSUME NEW s \in Sessions, SessionStep(s) PROVE IInv'
  <2>1. CASE sql_trans_begin(s)
    BY <2>1, BeginKeeps
  <2>2. CASE \E c \in Columns : bind_col(s, c) \/ count_col(s, c) \/ append_col(s, c)
                                   \/ update_col(s, c)
    BY <2>2, BindKeeps, CountKeeps, AppendKeeps, UpdateKeeps
  <2>3. CASE \E t \in Tables : sql_trans_clear_table(s, t)
    BY <2>3, ClearKeeps
  <2>4. CASE schema_update(s)
    BY <2>4, SchemaKeeps
  <2>5. CASE mvc_commit(s)
    BY <2>5, NothingKeeps, CommitKeeps, RollbackKeeps DEF mvc_commit
  <2>6. CASE mvc_rollback(s)
    BY <2>6, RollbackKeeps
  <2> QED BY <1>2, <2>1, <2>2, <2>3, <2>4, <2>5, <2>6 DEF SessionStep
<1>3. CASE UNCHANGED vars
  BY <1>3 DEF vars, IInv, Types, Clocks, Chain, Session, Private, Faithful, Sees, Wrote, Distinct
<1> QED BY <1>1, <1>2, <1>3 DEF Next

(* What the proofs below rest on: the order of time stamps among the       *)
(* versions of a column, the write times of columns, tables and the global *)
(* transaction, and the private copies; for an active session also that    *)
(* its history is what its private copy shows.                             *)
THEOREM Invariance == Ordered /\ Spec => []IInv
<1>1. Ordered /\ Init => IInv
  BY InitIInv
<1>2. Ordered /\ IInv /\ [Next]_vars => IInv'
  BY StepIInv
<1>3. SUFFICES ASSUME Ordered PROVE Spec => []IInv
  OBVIOUS
<1>4. Init => IInv
  BY <1>1, <1>3
<1>5. IInv /\ [Next]_vars => IInv'
  BY <1>2, <1>3
<1> QED BY <1>4, <1>5, PTL DEF Spec

-----------------------------------------------------------------------------
(***************************************************************************)
(* What follows from it                                                    *)
(***************************************************************************)
LEMMA ChainStamps ==
    ASSUME IInv, NEW c \in Columns, NEW i \in DOMAIN chain[c]
    PROVE  VersionOK(chain[c][i])
<1>1. /\ chain[c] \in Seq(Versions) /\ 1 \in DOMAIN chain[c] /\ chain[c][1] \in Versions
      /\ chain[c][1].wtime <= cwtime[c] /\ cwtime[c] <= gtab[TableOf[c]].wtime
      /\ gtab[TableOf[c]].wtime <= gtrans.wtime /\ chain[c][1].wtime \in Nat
      /\ cwtime[c] \in Nat /\ gtab[TableOf[c]].wtime \in Nat /\ gtrans.wtime \in Nat
  BY HeadFacts
<1>2. /\ gtrans.wtime <= gtrans.wstime /\ gtrans.wstime <= stamp /\ stamp <= MaxStamp
      /\ gtrans.wstime \in Nat /\ stamp \in Nat /\ MaxStamp \in Nat
  BY SQLTransAssumption DEF IInv, Clocks, Types
<1>3. chain[c][1].wtime <= MaxStamp
  BY <1>1, <1>2, SMTT(60)
<1>4. chain[c][i] \in Versions
  BY <1>1
<1>5. chain[c][i].wtime <= chain[c][1].wtime
  <2>1. i \in Nat /\ 1 <= i
    BY <1>1
  <2>2. Chain(c)
    BY DEF IInv
  <2>3. CASE i = 1
    BY <1>1, <2>3
  <2>4. CASE 1 < i
    <3>1. chain[c][i].wtime < chain[c][1].wtime
      BY <2>2, <2>4 DEF Chain
    <3> QED BY <1>1, <1>4, <3>1 DEF Versions
  <2> QED BY <2>1, <2>3, <2>4
<1> QED BY <1>1, <1>2, <1>3, <1>4, <1>5, SMTT(60) DEF VersionOK, Versions, Stamps

LEMMA IInvTypeOK == IInv => TypeOK
<1> SUFFICES ASSUME IInv PROVE TypeOK
  OBVIOUS
<1>1. /\ gtrans.wtime \in Nat /\ gtrans.wstime \in Nat /\ stamp \in Nat /\ MaxStamp \in Nat
      /\ gtrans.wtime <= gtrans.wstime /\ gtrans.wstime <= stamp /\ stamp <= MaxStamp
      /\ gtrans.wtime <= MaxStamp /\ gtrans.wstime <= MaxStamp
      /\ gtrans.schema_number \in Nat /\ gtrans.schema_number <= MaxSchema /\ MaxSchema \in Nat
  BY SQLTransAssumption DEF IInv, Types, Clocks
<1>2. ASSUME NEW t \in Tables PROVE gtab[t] \in [rtime : Stamps, wtime : Stamps]
  <2>1. gtab[t] \in BothTimes /\ gtab[t].wtime <= gtrans.wtime /\ gtab[t].rtime <= stamp
    BY DEF IInv, Types, Clocks
  <2>2. gtab[t].wtime \in Stamps /\ gtab[t].rtime \in Stamps
    BY <1>1, <2>1 DEF BothTimes, Stamps
  <2> QED BY <2>1, <2>2 DEF BothTimes
<1>3. ASSUME NEW c \in Columns
      PROVE  /\ cwtime[c] \in Stamps /\ chain[c] # <<>>
             /\ \A i \in DOMAIN chain[c] : VersionOK(chain[c][i])
  <2>1. /\ cwtime[c] \in Nat /\ cwtime[c] <= gtab[TableOf[c]].wtime
        /\ gtab[TableOf[c]].wtime <= gtrans.wtime /\ gtab[TableOf[c]].wtime \in Nat
        /\ chain[c] # <<>>
    BY HeadFacts
  <2>2. cwtime[c] \in Stamps
    BY <1>1, <2>1 DEF Stamps
  <2> QED BY <2>1, <2>2, ChainStamps
<1>4. ASSUME NEW s \in Sessions
      PROVE  /\ tr[s].active \in BOOLEAN /\ tr[s].active = hist[s].active
             /\ tr[s].active => tr[s].stime < tr[s].wstime
             /\ \A c \in Columns :
                 /\ tr[s].data[c].at \in {"none", "chain", "own"}
                 /\ tr[s].active /\ tr[s].data[c].at = "own" => VersionOK(tr[s].data[c].v)
  <2>1. /\ tr[s].active \in BOOLEAN
        /\ \A c \in Columns : tr[s].data[c] \in Bindings
    BY Typed DEF Transactions
  <2>2. ~tr[s].active => hist[s] = Store!Idle
    BY DEF IInv, Session
  <2>3. tr[s].active = hist[s].active
    <3>1. CASE tr[s].active
      <4>1. hist[s].active \in {TRUE}
        BY <3>1, Typed DEF Works
      <4> QED BY <2>1, <3>1, <4>1
    <3>2. CASE ~tr[s].active
      <4>1. hist[s].active = FALSE
        BY <2>2, <3>2 DEF Store!Idle
      <4> QED BY <2>1, <3>2, <4>1
    <3> QED BY <3>1, <3>2
  <2>4. tr[s].active => hist[s].active /\ tr[s].stime < tr[s].wstime
    BY Typed DEF Faithful
  <2>5. ASSUME NEW c \in Columns, tr[s].active, tr[s].data[c].at = "own"
        PROVE  VersionOK(tr[s].data[c].v)
    <3>1. tr[s].data[c].v.wtime = tr[s].wstime
      BY <2>5, Typed DEF Faithful, Wrote
    <3>2. tr[s].data[c].v \in Versions
      BY <2>1 DEF Bindings
    <3> QED BY <3>1, <3>2, Stamped DEF VersionOK, Versions
  <2> QED BY <2>1, <2>3, <2>4, <2>5 DEF Bindings
<1>5. /\ stamp \in Stamps /\ gtrans.wtime \in Stamps /\ gtrans.wstime \in Stamps
      /\ gtrans.schema_number \in 0..MaxSchema
  BY <1>1 DEF Stamps
<1> QED BY <1>1, <1>2, <1>3, <1>4, <1>5 DEF TypeOK

(* Types, and the order of time stamps (trans_init, rollforward_trans).    *)
THEOREM TypeCorrect == Ordered /\ Spec => []TypeOK
<1>1. SUFFICES ASSUME Ordered PROVE Spec => []TypeOK
  OBVIOUS
<1>2. Spec => []IInv
  BY <1>1, Invariance
<1> QED BY <1>2, IInvTypeOK, PTL

(* What a session is bound to is one version of the chain.                 *)
LEMMA BoundIs ==
    ASSUME IInv, NEW s \in Sessions, tr[s].active, NEW c \in Columns,
           tr[s].data[c].at = "chain"
    PROVE  \E i \in DOMAIN chain[c] : /\ Found(s, c) = {chain[c][i]}
                                      /\ chain[c][i].rows = hist[s].snap.rows[c]
<1>1. PICK i \in Nat : /\ Newest(chain[c], tr[s].stime, i)
                       /\ chain[c][i].rows = hist[s].snap.rows[c]
                       /\ tr[s].data[c].v.wtime = chain[c][i].wtime
  BY Seen
<1>2. i \in DOMAIN chain[c] /\ chain[c] \in Seq(Versions) /\ Chain(c)
  BY <1>1 DEF Newest, IInv, Types
<1>3. ASSUME NEW j \in DOMAIN chain[c], chain[c][j].wtime = chain[c][i].wtime
      PROVE  j = i
  <2>1. /\ i \in Nat /\ j \in Nat
        /\ chain[c][i].wtime \in Nat /\ chain[c][j].wtime \in Nat
    <3>1. chain[c][i] \in Versions /\ chain[c][j] \in Versions
      BY <1>2
    <3>2. i \in Nat /\ j \in Nat
      BY <1>2
    <3> QED BY <3>1, <3>2 DEF Versions
  <2>2. ~(i < j) /\ ~(j < i)
    BY <1>2, <1>3, <2>1 DEF Chain
  <2> QED BY <2>1, <2>2
<1>4. Found(s, c) = {chain[c][i]}
  BY <1>1, <1>2, <1>3 DEF Found
<1> QED BY <1>1, <1>2, <1>4

LEMMA IInvNoDangling == IInv => NoDangling
BY BoundIs DEF NoDangling

(* The versions a session is bound to are never destroyed, although merges *)
(* destroy all but the newest one of a column and a session keeps bindings *)
(* of its earlier transactions (reset_column, tr_update_delta,             *)
(* gtr_update_delta).                                                      *)
THEOREM NeverDangling == Ordered /\ Spec => []NoDangling
<1>1. SUFFICES ASSUME Ordered PROVE Spec => []NoDangling
  OBVIOUS
<1>2. Spec => []IInv
  BY <1>1, Invariance
<1> QED BY <1>2, IInvNoDangling, PTL

LEMMA IInvSnapshot == IInv => SnapshotReads
<1> SUFFICES ASSUME IInv, NEW s \in Sessions, tr[s].active, NEW c \in Columns
             PROVE  Bound(s, c).rows = Store!Applied(hist[s], c, hist[s].snap.rows[c])
  BY DEF SnapshotReads
<1>1. tr[s].data[c].at \in {"none", "chain", "own"}
  BY Typed DEF Transactions, Bindings
<1>2. CASE tr[s].data[c].at # "chain"
  <2>1. Bound(s, c) = dup_bat(s, c)
    BY <1>1, <1>2 DEF Bound, dup_bat
  <2> QED BY <2>1, Duplicate
<1>3. CASE tr[s].data[c].at = "chain"
  <2>1. PICK i \in DOMAIN chain[c] : /\ Found(s, c) = {chain[c][i]}
                                     /\ chain[c][i].rows = hist[s].snap.rows[c]
    BY <1>3, BoundIs
  <2>2. Bound(s, c) = chain[c][i]
    BY <1>3, <2>1 DEF Bound
  <2>3. c \notin hist[s].added /\ c \notin hist[s].cleared
    BY <1>3, Typed DEF Faithful, Wrote
  <2> QED BY <2>1, <2>2, <2>3 DEF Store!Applied
<1> QED BY <1>2, <1>3

(* Snapshot isolation: a session finds in every column what was committed  *)
(* when it began, changed by itself only, whatever others commit, merge or *)
(* roll back meanwhile (timestamp_delta, dup_bat, update_table).           *)
THEOREM SnapshotIsolation == Ordered /\ Spec => []SnapshotReads
<1>1. SUFFICES ASSUME Ordered PROVE Spec => []SnapshotReads
  OBVIOUS
<1>2. Spec => []IInv
  BY <1>1, Invariance
<1> QED BY <1>2, IInvSnapshot, PTL

-----------------------------------------------------------------------------
(***************************************************************************)
(* Serializability: every step is one of SerialStore                       *)
(***************************************************************************)
LEMMA InitSerial == Ordered /\ Init => Store!Init
<1> SUFFICES ASSUME Ordered, Init PROVE Store!Init
  OBVIOUS
<1>1. Committed \in Store!Contents
  BY InitIInv, CommittedTyped DEF Snapshots, Store!Contents
<1>2. hist = [s \in Sessions |-> Store!Idle]
  BY DEF Init
<1> QED BY <1>1, <1>2 DEF Store!Init

LEMMA SameContents == UNCHANGED <<chain, gtrans>> => Committed' = Committed
BY DEF Committed

(* What a transaction that is committed has read is still there.           *)
LEMMA ReadIsHead ==
    ASSUME IInv, Ordered, NEW s \in Sessions, sql_trans_commit(s), NEW c \in Columns,
           c \in hist[s].read \union hist[s].added
    PROVE  hist[s].snap.rows[c] = chain[c][1].rows
<1>1. /\ tr[s].active /\ tr[s].stime \in Nat /\ 1 <= tr[s].stime
      /\ Faithful(tr[s], hist[s])
  BY Validated, Typed
<1>2. tr[s].tab[TableOf[c]].rtime = tr[s].stime
  BY <1>1 DEF Faithful, Wrote
<1>3. gtab[TableOf[c]].wtime <= tr[s].stime
  BY <1>1, <1>2, Validated, HeadFacts
<1>4. cwtime[c] <= tr[s].stime
  BY <1>1, <1>3, HeadFacts
<1> QED BY <1>1, <1>4, Seen

LEMMA CommitSerial ==
    ASSUME IInv, Ordered, NEW s \in Sessions, sql_trans_commit(s)
    PROVE  Store!Commit(s)
<1> DEFINE x == tr[s]
           h == hist[s]
<1>1. /\ x.active /\ Faithful(x, h) /\ h.active
      /\ \A c \in Columns : Committed.rows[c] = chain[c][1].rows
      /\ Committed.schema = gtrans.schema_number
  BY Validated, Typed, CommittedTyped
<1>2. h.snap.schema = Committed.schema
  BY <1>1, Validated DEF Faithful
<1>3. \A c \in h.read : c \in Columns => h.snap.rows[c] = Committed.rows[c]
  BY <1>1, ReadIsHead
<1>4. h.read \subseteq Columns
  BY <1>1, Typed DEF Works
<1>5. hist' = [hist EXCEPT ![s] = Store!Idle]
  BY ZenonT(30) DEF sql_trans_commit
<1>6. ASSUME NEW c \in Columns
      PROVE  Head(chain'[c]).rows = Store!Applied(h, c, Committed.rows[c])
  <2>1. /\ chain'[c] \in Seq(Versions) /\ Chain(c)'
        /\ chain'[c][1].rows = IF x.data[c].at = "own" THEN x.data[c].v.rows ELSE chain[c][1].rows
    BY CommitColumn
  <2>2. Head(chain'[c]) = chain'[c][1]
    <3>1. 1 \in DOMAIN chain'[c]
      BY <2>1 DEF Chain
    <3> QED BY <2>1, <3>1
  <2>3. Wrote(x, h, c)
    BY <1>1 DEF Faithful
  <2>4. CASE x.data[c].at = "own"
    <3>1. x.data[c].v.rows = Store!Applied(h, c, h.snap.rows[c])
      BY <2>3, <2>4 DEF Wrote
    <3>2. CASE c \in h.cleared
      BY <2>1, <2>2, <2>4, <3>1, <3>2 DEF Store!Applied
    <3>3. CASE c \notin h.cleared
      <4>1. c \in h.added
        BY <2>3, <2>4, <3>3 DEF Wrote
      <4>2. h.snap.rows[c] = Committed.rows[c]
        BY <1>1, <4>1, ReadIsHead
      <4> QED BY <2>1, <2>2, <2>4, <3>1, <4>2
    <3> QED BY <3>2, <3>3
  <2>5. CASE x.data[c].at # "own"
    <3>1. c \notin h.added /\ c \notin h.cleared
      BY <2>3, <2>5 DEF Wrote
    <3> QED BY <1>1, <2>1, <2>2, <2>5, <3>1 DEF Store!Applied
  <2> QED BY <2>4, <2>5
<1>7. gtrans'.schema_number = Committed.schema + (IF h.altered THEN 1 ELSE 0)
  BY <1>1, CommitGlobal
<1>8. Committed' = [rows   |-> [c \in Columns |-> Store!Applied(h, c, Committed.rows[c])],
                    schema |-> Committed.schema + (IF h.altered THEN 1 ELSE 0)]
  BY <1>6, <1>7 DEF Committed
<1> QED BY <1>1, <1>2, <1>3, <1>4, <1>5, <1>8 DEF Store!Commit

LEMMA NothingSerial ==
    ASSUME IInv, NEW s \in Sessions, CommitNothing(s)
    PROVE  Store!Commit(s)
<1> DEFINE h == hist[s]
<1>1. /\ tr[s].active /\ tr[s].wtime = 0
      /\ hist' = [hist EXCEPT ![s] = Store!Idle]
      /\ UNCHANGED <<chain, gtrans>>
  BY DEF CommitNothing
<1>2. h.active /\ ~Store!Changes(h)
  BY <1>1, Typed DEF Faithful
<1>3. /\ h.added \union h.cleared = {} /\ ~h.altered
  BY <1>2 DEF Store!Changes
<1>4. \A c \in Columns : Store!Applied(h, c, Committed.rows[c]) = Committed.rows[c]
  BY <1>3 DEF Store!Applied
<1>5. Committed.schema + (IF h.altered THEN 1 ELSE 0) = Committed.schema
  <2>1. Committed.schema \in Nat
    BY CommittedTyped DEF Snapshots
  <2> QED BY <1>3, <2>1
<1>6. Committed' = Committed
  BY <1>1, SameContents
<1>7. Committed = [rows   |-> [c \in Columns |-> Committed.rows[c]],
                   schema |-> Committed.schema]
  BY DEF Committed
<1>8. Committed' = [rows   |-> [c \in Columns |-> Store!Applied(h, c, Committed.rows[c])],
                    schema |-> Committed.schema + (IF h.altered THEN 1 ELSE 0)]
  BY <1>4, <1>5, <1>6, <1>7
<1> QED BY <1>1, <1>2, <1>8 DEF Store!Commit

LEMMA ApplySerial == ASSUME IInv, store_apply_deltas PROVE UNCHANGED <<Committed, hist>>
<1>1. /\ chain' = [c \in Columns |-> gtr_update_delta(c)]
      /\ gtrans'.schema_number = gtrans.schema_number /\ hist' = hist
  <2>1. gtrans \in [wtime : Nat, wstime : Nat, schema_number : Nat]
    BY DEF IInv, Types
  <2> QED BY <2>1 DEF store_apply_deltas
<1>2. ASSUME NEW c \in Columns PROVE Head(chain'[c]).rows = Head(chain[c]).rows
  BY <1>1 DEF gtr_update_delta, Merged, Version
<1> QED BY <1>1, <1>2 DEF Committed

LEMMA OperateSerial ==
    ASSUME IInv, NEW s \in Sessions,
           \/ \E c \in Columns : bind_col(s, c) \/ append_col(s, c) \/ update_col(s, c)
           \/ \E t \in Tables : sql_trans_clear_table(s, t)
           \/ schema_update(s)
    PROVE  Store!Operate(s)
<1>1. tr[s].active /\ UNCHANGED <<chain, gtrans>>
  BY ZenonT(60) DEF bind_col, append_col, update_col, sql_trans_clear_table, schema_update,
         Working, Operating
<1>2. hist[s].active /\ Committed' = Committed
  BY <1>1, Typed, SameContents
<1>3. CASE \E c \in Columns : bind_col(s, c) \/ append_col(s, c) \/ update_col(s, c)
  <2>1. PICK c \in Columns : bind_col(s, c) \/ append_col(s, c) \/ update_col(s, c)
    BY <1>3
  <2>2. {c} \in SUBSET Columns
    OBVIOUS
  <2> QED BY <1>2, <2>1, <2>2, Zenon DEF bind_col, append_col, update_col, Store!Operate
<1>4. CASE \E t \in Tables : sql_trans_clear_table(s, t)
  <2>1. PICK t \in Tables : sql_trans_clear_table(s, t)
    BY <1>4
  <2> DEFINE cleared == {c \in Columns : TableOf[c] = t}
  <2>2. cleared \in SUBSET Columns
    OBVIOUS
  <2>3. hist' = [hist EXCEPT ![s].added = @ \ cleared, ![s].cleared = @ \union cleared]
    BY <2>1, Zenon DEF sql_trans_clear_table
  <2> HIDE DEF cleared
  <2> QED BY <1>2, <2>2, <2>3, Zenon DEF Store!Operate
<1>5. CASE schema_update(s)
  BY <1>2, <1>5 DEF schema_update, Store!Operate
<1> QED BY <1>3, <1>4, <1>5

LEMMA BeginSerial == ASSUME IInv, NEW s \in Sessions, sql_trans_begin(s) PROVE Store!Begin(s)
<1>1. /\ ~tr[s].active /\ stamp < MaxStamp /\ UNCHANGED <<chain, gtrans>>
      /\ hist' = [hist EXCEPT ![s] = Store!Begun(stamp + 1, Committed)]
  BY DEF sql_trans_begin
<1>2. ~hist[s].active
  BY <1>1 DEF IInv, Session, Store!Idle
<1>3. stamp + 1 \in Stamps
  BY <1>1, SQLTransAssumption DEF IInv, Types, Stamps
<1> QED BY <1>1, <1>2, <1>3, SameContents DEF Store!Begin

LEMMA RollbackSerial == ASSUME IInv, NEW s \in Sessions, mvc_rollback(s) PROVE Store!Abort(s)
<1>1. /\ tr[s].active /\ UNCHANGED <<chain, gtrans>>
      /\ hist' = [hist EXCEPT ![s] = Store!Idle]
  BY DEF mvc_rollback
<1>2. hist[s].active
  BY <1>1, Typed
<1> QED BY <1>1, <1>2, SameContents DEF Store!Abort

LEMMA StepSerial ==
    ASSUME IInv, Ordered, [Next]_vars
    PROVE  Store!Next \/ UNCHANGED <<Committed, hist>>
<1>1. CASE store_apply_deltas
  BY <1>1, ApplySerial
<1>2. ASSUME NEW s \in Sessions, SessionStep(s)
      PROVE  Store!Next \/ UNCHANGED <<Committed, hist>>
  <2>1. CASE sql_trans_begin(s)
    BY <2>1, BeginSerial DEF Store!Next
  <2>2. CASE \/ \E c \in Columns : bind_col(s, c) \/ append_col(s, c) \/ update_col(s, c)
             \/ \E t \in Tables : sql_trans_clear_table(s, t)
             \/ schema_update(s)
    BY <2>2, OperateSerial DEF Store!Next
  <2>3. CASE \E c \in Columns : count_col(s, c)
    BY <2>3, SameContents DEF count_col, Working, Operating
  <2>4. CASE mvc_commit(s)
    BY <2>4, NothingSerial, CommitSerial, RollbackSerial DEF mvc_commit, Store!Next
  <2>5. CASE mvc_rollback(s)
    BY <2>5, RollbackSerial DEF Store!Next
  <2> QED BY <1>2, <2>1, <2>2, <2>3, <2>4, <2>5 DEF SessionStep
<1>3. CASE UNCHANGED vars
  BY <1>3, SameContents DEF vars
<1> QED BY <1>1, <1>2, <1>3 DEF Next

(* The newest versions are the effect of the committed transactions, one   *)
(* after the other, each on contents it had read, if two things hold that  *)
(* the code does not see to (Ordered): what validate_tables and            *)
(* rollforward_trans do with time stamps is enough then.                   *)
THEOREM Serializability == Ordered /\ Spec => Serializable
<1>1. SUFFICES ASSUME Ordered PROVE Spec => Serializable
  OBVIOUS
<1>2. Spec => []IInv
  BY <1>1, Invariance
<1>3. Init => Store!Init
  BY <1>1, InitSerial
<1>4. IInv /\ [Next]_vars => [Store!Next]_(Store!vars)
  BY <1>1, StepSerial DEF Store!vars
<1> QED BY <1>2, <1>3, <1>4, PTL DEF Spec, Serializable, Store!Spec
=============================================================================
