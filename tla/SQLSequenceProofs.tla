------------------------- MODULE SQLSequenceProofs -------------------------
(***************************************************************************)
(* No number of a sequence is handed out twice, for all sessions and       *)
(* definitions that agree on the steps and the bounds.  The invariant says *)
(* how the counter comes to cached: by whole increments, so that it cannot *)
(* pass without logging a new one, unless cached is out of bounds, where   *)
(* neither a call nor a start after a crash hands it out.                  *)
(***************************************************************************)
EXTENDS SQLSequence, TLAPS

EntryType == [called : BOOLEAN, cur : Int, cached : Int]

Some == CHOOSE d \in Definitions : TRUE
Inc == Some.increment
Lowest == Some.min
Out(n) == ~InBounds(Some, n)

EntryOK(e, N) ==
    /\ e.called => /\ Lowest = 0 \/ e.cur >= Lowest
                   /\ \A n \in N : n <= e.cur
    /\ ~e.called => e.cur = e.cached
    /\ \/ Out(e.cached)
       \/ /\ \A n \in N : n < e.cached
          /\ \E k \in Nat : e.cached = e.cur + k * Inc /\ (e.called => k >= 1)

LogOK(l, N) == \/ N = {}
               \/ l # Nothing /\ (Out(l) \/ \A n \in N : n < l)

IInv ==
    /\ TypeOK
    /\ s # Nothing => EntryOK(s, given \cup pending)
    /\ LogOK(logged, given)
    /\ s # Nothing /\ s.called /\ ~save => logged = s.cached
    /\ s # Nothing /\ ~s.called => pending = {}

-----------------------------------------------------------------------------
LEMMA SomeType == /\ Some \in Definitions
                  /\ Inc \in Nat \ {0} /\ Lowest \in Nat /\ Some.max \in Nat
  BY SQLSequenceAssumption DEF Some, Inc, Lowest

(* Transactions that agree have the same bounds and steps.                 *)
LEMMA Same ==
    ASSUME Agreed, NEW d \in Definitions
    PROVE  /\ d.increment = Inc /\ d.min = Lowest /\ d.max = Some.max
           /\ d.cacheinc \in Nat \ {0} /\ d.cycle \in BOOLEAN
           /\ \A n : InBounds(d, n) <=> ~Out(n)
  <1>1. d.increment = Inc /\ d.min = Lowest /\ d.max = Some.max
    BY SomeType DEF Agreed, Inc, Lowest
  <1>2. d.cacheinc \in Nat \ {0} /\ d.cycle \in BOOLEAN
    BY SQLSequenceAssumption
  <1> QED BY <1>1, <1>2 DEF Out, InBounds, Lowest

(* An entry just made, where the log or a RESTART says.                    *)
LEMMA Made ==
    ASSUME NEW n \in Int, NEW N \in SUBSET Int, Out(n) \/ \A m \in N : m < n
    PROVE  At(n) \in EntryType /\ ~At(n).called /\ EntryOK(At(n), N)
  <1>1. At(n) \in EntryType /\ ~At(n).called /\ At(n).cur = n /\ At(n).cached = n
    BY DEF At, EntryType
  <1>2. n = n + 0 * Inc /\ 0 \in Nat
    BY SomeType
  <1> QED BY <1>1, <1>2 DEF EntryOK

(* The entry a call finds or makes.                                        *)
LEMMA Found ==
    ASSUME IInv, NEW seq \in Transaction
    PROVE  /\ Entry(seq) \in EntryType /\ EntryOK(Entry(seq), given \cup pending)
           /\ sql_create_sequence(seq) \in EntryType /\ ~sql_create_sequence(seq).called
           /\ EntryOK(sql_create_sequence(seq), given)
           /\ s = Nothing => ~Entry(seq).called /\ pending = {} /\ ~save
           /\ s # Nothing => Entry(seq) = s
  <1> DEFINE n == IF logged = Nothing THEN seq.start ELSE logged
  <1>1. TypeOK /\ given \in SUBSET Int /\ n \in Int
    BY SQLSequenceAssumption DEF IInv, TypeOK, Transaction
  <1>2. Out(n) \/ \A m \in given : m < n
    BY DEF IInv, LogOK
  <1>3. /\ sql_create_sequence(seq) \in EntryType /\ ~sql_create_sequence(seq).called
        /\ EntryOK(sql_create_sequence(seq), given)
    <2> HIDE DEF n
    <2>1. sql_create_sequence(seq) = At(n)
      BY DEF sql_create_sequence, n
    <2> QED BY <1>1, <1>2, <2>1, Made
  <1>4. CASE s = Nothing
    <2>1. pending = {} /\ ~save
      BY <1>1, <1>4 DEF TypeOK
    <2>2. given \cup pending = given
      BY <2>1
    <2> QED BY <1>3, <1>4, <2>1, <2>2 DEF Entry
  <1>5. CASE s # Nothing
    BY <1>1, <1>3, <1>5 DEF Entry, IInv, TypeOK, EntryType
  <1> QED BY <1>4, <1>5

LEMMA FollowingType ==
    ASSUME Agreed, NEW d \in Definitions, NEW e \in EntryType
    PROVE  /\ Following(d, e) \in Int
           /\ Following(d, e) = IF e.called THEN e.cur + Inc ELSE e.cur
           /\ Number(d, e) \in Int
  <1>1. d.increment = Inc /\ d.min \in Int
    BY Same, SomeType
  <1> QED BY <1>1, SomeType DEF EntryType, Following, Number

(* What leaves the bounds has passed them at the upper end, and cached is  *)
(* beyond it too.                                                          *)
LEMMA Left ==
    ASSUME Agreed, NEW d \in Definitions, NEW e \in EntryType, NEW N \in SUBSET Int,
           EntryOK(e, N), ~InBounds(d, Following(d, e))
    PROVE  Out(e.cached)
  <1> DEFINE f == Following(d, e)
  <1>0. /\ Out(f) /\ f \in Int /\ e.cached \in Int /\ e.cur \in Int
        /\ f = IF e.called THEN e.cur + Inc ELSE e.cur
    BY Same, FollowingType DEF EntryType
  <1> HIDE DEF f
  <1>1. CASE ~e.called
    BY <1>0, <1>1 DEF EntryOK
  <1>2. CASE e.called
    <2> SUFFICES ASSUME ~Out(e.cached) PROVE FALSE
      OBVIOUS
    <2>1. PICK k \in Nat : e.cached = e.cur + k * Inc /\ k >= 1
      BY <1>2 DEF EntryOK
    <2>2. k * Inc \in Int /\ k * Inc >= Inc
      BY <2>1, SomeType
    <2>3. f <= e.cached /\ (Lowest = 0 \/ f >= Lowest)
      BY <1>0, <1>2, <2>1, <2>2, SomeType DEF EntryOK
    <2> QED BY <1>0, <2>3, SomeType DEF Out, InBounds, Lowest
  <1> QED BY <1>1, <1>2

(* What a failed call leaves.                                              *)
LEMMA FailedOK ==
    ASSUME Agreed, NEW d \in Definitions, NEW e \in EntryType, NEW N \in SUBSET Int,
           EntryOK(e, N), Fails(d, e)
    PROVE  /\ Failed(d, e) \in EntryType /\ EntryOK(Failed(d, e), N)
           /\ Failed(d, e).called = e.called /\ Failed(d, e).cached = e.cached
  <1> DEFINE g == Failed(d, e)
  <1>1. /\ g \in EntryType /\ g.called = e.called /\ g.cached = e.cached
        /\ g.cur = IF e.called THEN e.cur + Inc ELSE e.cur
    BY FollowingType DEF Failed, EntryType
  <1>2. Out(g.cached)
    BY <1>1, Left DEF Fails
  <1> HIDE DEF g
  <1>3. g.called => (Lowest = 0 \/ g.cur >= Lowest) /\ \A n \in N : n <= g.cur
    BY <1>1, SomeType DEF EntryOK, EntryType
  <1>4. ~g.called => g.cur = g.cached
    BY <1>1 DEF EntryOK
  <1>5. EntryOK(g, N)
    BY <1>2, <1>3, <1>4 DEF EntryOK
  <1> QED BY <1>1, <1>5 DEF g

(* What a number handed out leaves.                                        *)
Kept(d, e, N) == (IF Cycles(d, e) THEN {} ELSE N) \cup {Number(d, e)}

LEMMA AdvancedOK ==
    ASSUME Agreed, NEW d \in Definitions, NEW e \in EntryType, NEW N \in SUBSET Int,
           EntryOK(e, N), ~Fails(d, e),
           NEW always \in BOOLEAN, always => Cycles(d, e)
    PROVE  LET g == Advanced(d, e, always) IN
           /\ g \in EntryType /\ g.called /\ EntryOK(g, Kept(d, e, N))
           /\ ~always /\ ~Saves(d, e) => g.cached = e.cached
           /\ ~Saves(d, e) => e.called /\ g.cached = e.cached
  <1> DEFINE nr == Number(d, e)
             g == Advanced(d, e, always)
             M == Kept(d, e, N)
  <1>0. /\ d.cacheinc \in Nat \ {0} /\ d.increment = Inc /\ d.min = Lowest
        /\ d.cycle \in BOOLEAN /\ nr \in Int
        /\ e.cur \in Int /\ e.cached \in Int /\ e.called \in BOOLEAN
    BY Same, FollowingType DEF EntryType
  <1>1. d.cacheinc * Inc \in Int /\ d.cacheinc * Inc >= Inc /\ Margin(d, nr) = nr + d.cacheinc * Inc
    BY <1>0, SomeType DEF Margin
  <1>2. /\ g \in EntryType /\ g.called /\ g.cur = nr
        /\ g.cached = IF always \/ nr = e.cached THEN Margin(d, nr) ELSE e.cached
    BY <1>0, <1>1, SomeType DEF Advanced, EntryType
  <1>3. (Lowest = 0 \/ nr >= Lowest) /\ (Cycles(d, e) \/ (~Out(nr) /\ nr = Following(d, e)))
    <2>1. CASE Cycles(d, e)
      BY <1>0, <2>1, SomeType DEF Number
    <2>2. CASE ~Cycles(d, e)
      <3>1. nr = Following(d, e) /\ ~Out(nr)
        BY <1>0, <2>2, Same DEF Number, Fails, Cycles
      <3> QED BY <1>0, <2>2, <3>1, SomeType DEF Out, InBounds, Lowest
    <2> QED BY <2>1, <2>2
  <1>4. \A n \in M : n \in Int /\ n <= nr
    <2>1. CASE Cycles(d, e)
      BY <1>0, <2>1 DEF Kept
    <2>2. CASE ~Cycles(d, e) /\ e.called
      <3>1. nr = e.cur + Inc
        BY <1>3, <2>2, FollowingType
      <3>2. \A n \in N : n \in Int /\ n <= e.cur
        BY <2>2 DEF EntryOK
      <3>3. M = N \cup {nr}
        BY <2>2 DEF Kept
      <3>4. e.cur <= nr
        BY <1>0, <3>1, SomeType
      <3> HIDE DEF M, nr
      <3> QED BY <1>0, <3>2, <3>3, <3>4
    <2>3. CASE ~Cycles(d, e) /\ ~e.called
      <3>1. nr = e.cur /\ e.cur = e.cached /\ ~Out(e.cached)
        BY <1>3, <2>3, FollowingType DEF EntryOK
      <3>2. \A n \in N : n \in Int /\ n < e.cached
        BY <3>1 DEF EntryOK
      <3>3. M = N \cup {nr}
        BY <2>3 DEF Kept
      <3> HIDE DEF M, nr
      <3> QED BY <1>0, <3>1, <3>2, <3>3
    <2> QED BY <1>0, <2>1, <2>2, <2>3
  <1>5. \/ Out(g.cached)
        \/ /\ \A n \in M : n < g.cached
           /\ \E k \in Nat : g.cached = nr + k * Inc /\ k >= 1
    <2>1. CASE always \/ nr = e.cached
      <3>1. g.cached = nr + d.cacheinc * Inc /\ d.cacheinc \in Nat /\ d.cacheinc >= 1
        BY <1>0, <1>1, <1>2, <2>1
      <3>2. \A n \in M : n < g.cached
        BY <1>0, <1>1, <1>4, <3>1, SomeType
      <3> QED BY <3>1, <3>2
    <2>2. CASE ~always /\ nr # e.cached
      <3>1. g.cached = e.cached
        BY <1>2, <2>2
      <3>2. CASE Cycles(d, e)
        BY <3>1, <3>2, Left DEF Cycles
      <3>3. CASE ~Cycles(d, e)
        <4>0. nr = IF e.called THEN e.cur + Inc ELSE e.cur
          BY <1>3, <3>3, FollowingType
        <4>1. e.called /\ nr = e.cur + Inc
          BY <2>2, <4>0 DEF EntryOK
        <4> SUFFICES ASSUME ~Out(e.cached)
                     PROVE  /\ \A n \in M : n < g.cached
                            /\ \E k \in Nat : g.cached = nr + k * Inc /\ k >= 1
          BY <3>1
        <4>2. PICK k \in Nat : e.cached = e.cur + k * Inc /\ k >= 1
          BY <4>1 DEF EntryOK
        <4>3. k # 1
          BY <1>0, <2>2, <4>1, <4>2, SomeType
        <4>4. k - 1 \in Nat /\ k - 1 >= 1
          BY <4>2, <4>3
        <4>5. k * Inc = Inc + (k - 1) * Inc /\ (k - 1) * Inc \in Int /\ (k - 1) * Inc >= Inc
          BY <4>2, <4>4, SomeType
        <4>6. e.cached = nr + (k - 1) * Inc /\ nr < e.cached
          BY <1>0, <4>1, <4>2, <4>5, SomeType
        <4>7. \A n \in M : n < g.cached
          BY <1>0, <1>4, <3>1, <4>6
        <4> QED BY <3>1, <4>4, <4>6, <4>7
      <3> QED BY <3>2, <3>3
    <2> QED BY <2>1, <2>2
  <1>6. EntryOK(g, M)
    <2> HIDE DEF g, M, nr
    <2> QED BY <1>2, <1>3, <1>4, <1>5 DEF EntryOK
  <1>7. ~Saves(d, e) => e.called /\ g.cached = e.cached
    <2> SUFFICES ASSUME ~Saves(d, e) PROVE e.called /\ g.cached = e.cached
      OBVIOUS
    <2>1. ~Cycles(d, e) /\ nr # e.cached /\ ~always
      BY DEF Saves
    <2>2. nr = IF e.called THEN e.cur + Inc ELSE e.cur
      BY <1>3, <2>1, FollowingType
    <2> QED BY <1>0, <1>2, <2>1, <2>2 DEF EntryOK
  <1> QED BY <1>2, <1>6, <1>7

-----------------------------------------------------------------------------
(***************************************************************************)
(* The invariant.                                                          *)
(***************************************************************************)
THEOREM InitIInv == Init => IInv
  <1> SUFFICES ASSUME Init PROVE IInv
    OBVIOUS
  <1>1. TypeOK
    BY DEF Init, TypeOK, Transaction, Unlocked
  <1> QED BY <1>1 DEF Init, IInv, LogOK

(* Steps that leave the counter and the log alone.                         *)
LEMMA KeepsNumbers ==
    ASSUME IInv, TypeOK', s' = s, logged' = logged, given' = given, save' = save,
           pending' = pending
    PROVE  IInv'
  BY DEF IInv, EntryOK, LogOK

LEMMA BeginStep == ASSUME IInv, NEW t \in Sessions, Begin(t) PROVE IInv'
  <1>1. TypeOK'
    BY DEF IInv, TypeOK, Begin, entry, column, Active, Unlocked
  <1> QED BY <1>1, KeepsNumbers DEF Begin, entry, column

LEMMA CommitStep == ASSUME IInv, NEW t \in Sessions, Commit(t) PROVE IInv'
  <1>1. TypeOK /\ own[t] \in Transaction /\ Unlocked /\ UNCHANGED <<entry, column>>
    BY DEF IInv, TypeOK, Commit, Active
  <1>2. def' \in Transaction
    BY <1>1 DEF TypeOK, Commit, Transaction
  <1>3. \A u \in Sessions : Outdated(u) \in Transaction \cup {Nothing}
    BY <1>1 DEF TypeOK, Outdated, Active, Transaction
  <1>4. own' \in [Sessions -> Transaction \cup {Nothing}]
    BY <1>1, <1>3 DEF TypeOK, Commit
  <1>5. TypeOK'
    BY <1>1, <1>2, <1>4 DEF TypeOK, entry, column, Unlocked
  <1> QED BY <1>1, <1>5, KeepsNumbers DEF entry, column

LEMMA RollbackStep == ASSUME IInv, NEW t \in Sessions, Rollback(t) PROVE IInv'
  <1>1. TypeOK'
    BY DEF IInv, TypeOK, Rollback, entry, column, Unlocked
  <1> QED BY <1>1, KeepsNumbers DEF Rollback, entry, column

LEMMA RestartStep ==
    ASSUME Agreed, IInv, NEW t \in Sessions, NEW d \in Definitions, NEW n \in Starts,
           Restart(t, d, n)
    PROVE  IInv'
  <1>1. /\ TypeOK /\ own[t] \in Transaction /\ n \in Int /\ Unlocked
        /\ UNCHANGED <<def, bulk, save, pending>> /\ given' = {} /\ s' = At(n)
    BY SQLSequenceAssumption DEF IInv, TypeOK, Restart, Active, column
  <1>2. pending = {} /\ ~save
    BY <1>1 DEF TypeOK
  <1>3. At(n) \in EntryType /\ ~At(n).called /\ EntryOK(At(n), {})
    BY <1>1, Made
  <1>4. own' \in [Sessions -> Transaction \cup {Nothing}]
    <2>1. Altered(own[t], d, n) \in Transaction
      BY <1>1 DEF Transaction, Altered
    <2> QED BY <1>1, <2>1 DEF TypeOK, Restart
  <1>5. logged' \in Int \cup {Nothing}
    BY <1>1 DEF TypeOK, Restart
  <1>6. TypeOK'
    BY <1>1, <1>2, <1>3, <1>4, <1>5 DEF TypeOK, EntryType, Unlocked
  <1>7. (given \cup pending)' = {}
    BY <1>1, <1>2
  <1> QED BY <1>1, <1>3, <1>6, <1>7 DEF IInv, LogOK

LEMMA NextValueStep ==
    ASSUME Agreed, IInv, NEW t \in Sessions, seq_next_value(t)
    PROVE  IInv'
  <1> DEFINE d == own[t].seq
             e == Entry(own[t])
  <1>1. /\ TypeOK /\ own[t] \in Transaction /\ Unlocked /\ pending = {} /\ ~save
        /\ UNCHANGED <<def, own, bulk, save, pending>>
    BY DEF IInv, TypeOK, seq_next_value, Asked, Active, column
  <1>2. d \in Definitions
    BY <1>1 DEF Transaction
  <1>3. /\ e \in EntryType /\ EntryOK(e, given) /\ given \in SUBSET Int
        /\ s = Nothing => ~e.called
        /\ s # Nothing => e = s
    <2>1. given \cup pending = given /\ given \in SUBSET Int
      BY <1>1 DEF TypeOK
    <2> QED BY <1>1, <2>1, Found
  <1>4. Nothing \notin EntryType
    BY SQLSequenceAssumption DEF EntryType
  <1>5. CASE Fails(d, e)
    <2>1. s' = Failed(d, e) /\ logged' = logged /\ given' = given
      BY <1>5 DEF seq_next_value
    <2>2. /\ s' \in EntryType /\ EntryOK(s', given)
          /\ s'.called = e.called /\ s'.cached = e.cached
      BY <1>2, <1>3, <1>5, <2>1, FailedOK
    <2>3. TypeOK'
      BY <1>1, <2>1, <2>2 DEF TypeOK, EntryType, Unlocked
    <2>4. s'.called /\ ~save' => logged' = s'.cached
      BY <1>1, <1>3, <2>1, <2>2 DEF IInv
    <2>5. (given \cup pending)' = given
      BY <1>1, <2>1
    <2> QED BY <1>1, <2>1, <2>2, <2>3, <2>4, <2>5 DEF IInv, LogOK
  <1>6. CASE ~Fails(d, e)
    <2>1. /\ s' = Advanced(d, e, Cycles(d, e))
          /\ logged' = IF Saves(d, e) THEN s'.cached ELSE logged
          /\ given' = Kept(d, e, given)
      BY <1>6 DEF seq_next_value, Kept
    <2>2. Cycles(d, e) \in BOOLEAN
      BY <1>2, Same DEF Cycles
    <2>3. /\ s' \in EntryType /\ s'.called /\ EntryOK(s', given')
          /\ ~Saves(d, e) => e.called /\ s'.cached = e.cached
      BY <1>2, <1>3, <1>6, <2>1, <2>2, AdvancedOK
    <2>4. given' \in SUBSET Int
      BY <1>2, <1>3, <2>1, FollowingType DEF Kept
    <2>5. logged' = s'.cached
      BY <1>1, <1>3, <2>1, <2>3 DEF IInv
    <2>6. s'.cached \in Int
      BY <2>3 DEF EntryType
    <2>7. TypeOK'
      BY <1>1, <2>3, <2>4, <2>5, <2>6 DEF TypeOK, EntryType, Unlocked
    <2>8. LogOK(logged', given')
      <3>1. logged' # Nothing
        BY <2>5, <2>6, SQLSequenceAssumption
      <3> QED BY <2>3, <2>5, <3>1 DEF LogOK, EntryOK
    <2>9. (given \cup pending)' = given'
      BY <1>1
    <2> QED BY <2>3, <2>5, <2>7, <2>8, <2>9 DEF IInv
  <1> QED BY <1>5, <1>6

LEMMA BulkCreateStep ==
    ASSUME IInv, NEW t \in Sessions, seqbulk_create(t)
    PROVE  IInv'
  <1>1. /\ TypeOK /\ own[t] \in Transaction /\ Unlocked /\ pending = {} /\ ~save
        /\ s' = Entry(own[t]) /\ bulk' = t /\ save' = FALSE /\ pending' = {}
        /\ UNCHANGED <<def, own, logged, given>>
    BY DEF IInv, TypeOK, seqbulk_create, Active
  <1>2. /\ s' \in EntryType /\ EntryOK(s', given \cup pending)
        /\ s = Nothing => ~s'.called
        /\ s # Nothing => s' = s
    BY <1>1, Found
  <1>3. s' # Nothing /\ own[t] # Nothing
    BY <1>1, <1>2, SQLSequenceAssumption DEF EntryType, seqbulk_create, Active
  <1>4. TypeOK'
    BY <1>1, <1>2, <1>3, SQLSequenceAssumption DEF TypeOK, EntryType, Unlocked, Active
  <1>5. (given \cup pending)' = given \cup pending
    BY <1>1
  <1> QED BY <1>1, <1>2, <1>4, <1>5 DEF IInv, LogOK

LEMMA GetValueStep == ASSUME IInv, NEW t \in Sessions, seq_get_value(t) PROVE IInv'
  <1>1. /\ TypeOK /\ own[t] \in Transaction /\ Unlocked /\ pending = {} /\ ~save
        /\ s' = Entry(own[t]) /\ UNCHANGED <<def, own, logged, given, bulk, save, pending>>
    BY DEF IInv, TypeOK, seq_get_value, Active, column
  <1>2. /\ s' \in EntryType /\ EntryOK(s', given \cup pending)
        /\ s = Nothing => ~s'.called
        /\ s # Nothing => s' = s
    BY <1>1, Found
  <1>3. TypeOK'
    BY <1>1, <1>2 DEF TypeOK, EntryType, Unlocked, Active
  <1>4. (given \cup pending)' = given \cup pending
    BY <1>1
  <1> QED BY <1>1, <1>2, <1>3, <1>4 DEF IInv, LogOK

LEMMA BulkNextStep ==
    ASSUME Agreed, IInv, NEW t \in Sessions, seqbulk_next_value(t)
    PROVE  IInv'
  <1> DEFINE d == own[t].seq
             N == given \cup pending
  <1>1. /\ TypeOK /\ own[t] \in Transaction /\ ~Unlocked /\ s # Nothing /\ bulk = t /\ Active(t)
        /\ Entry(own[t]) = s /\ ~Fails(d, s)
        /\ s' = Advanced(d, s, FALSE) /\ save' = (save \/ Saves(d, s))
        /\ UNCHANGED <<def, own, logged, bulk>>
    <2>1. TypeOK /\ own[t] \in Transaction /\ bulk = t /\ Active(t)
      BY DEF IInv, TypeOK, seqbulk_next_value, Asked, Active
    <2>2. ~Unlocked
      BY <2>1, SQLSequenceAssumption DEF Unlocked
    <2>3. s # Nothing
      BY <2>1, <2>2 DEF TypeOK
    <2> QED BY <2>1, <2>2, <2>3 DEF seqbulk_next_value, Entry
  <1>2. d \in Definitions
    BY <1>1 DEF Transaction
  <1>3. s \in EntryType /\ EntryOK(s, N) /\ N \in SUBSET Int
    BY <1>1 DEF IInv, TypeOK, EntryType
  <1>4. (given \cup pending)' = Kept(d, s, N)
    BY DEF seqbulk_next_value, Kept
  <1>5. /\ s' \in EntryType /\ s'.called /\ EntryOK(s', Kept(d, s, N))
        /\ ~Saves(d, s) => s.called /\ s'.cached = s.cached
    BY <1>1, <1>2, <1>3, AdvancedOK
  <1>6. Number(d, s) \in Int /\ Saves(d, s) \in BOOLEAN
    BY <1>2, <1>3, FollowingType, Same DEF Saves, Cycles
  <1>7. given' \in SUBSET Int /\ pending' \in SUBSET Int /\ given' \in {given, {}}
    BY <1>1, <1>6 DEF seqbulk_next_value, TypeOK
  <1>8. s' # Nothing
    BY <1>5, SQLSequenceAssumption DEF EntryType
  <1>9. TypeOK'
    BY <1>1, <1>5, <1>6, <1>7, <1>8 DEF TypeOK, EntryType, Unlocked, Active
  <1>10. ~save' => logged' = s'.cached
    BY <1>1, <1>5 DEF IInv
  <1>11. LogOK(logged', given')
    BY <1>1, <1>7 DEF IInv, LogOK
  <1> QED BY <1>4, <1>5, <1>9, <1>10, <1>11 DEF IInv

LEMMA BulkDestroyStep ==
    ASSUME Agreed, IInv, NEW t \in Sessions, seqbulk_destroy(t)
    PROVE  IInv'
  <1> DEFINE N == given \cup pending
  <1>1. /\ TypeOK /\ ~Unlocked /\ s # Nothing /\ own[t] \in Transaction /\ Entry(own[t]) = s
        /\ bulk' = Nothing /\ save' = FALSE /\ pending' = {}
        /\ logged' = IF save THEN s.cached ELSE logged
        /\ UNCHANGED <<def, own>>
    <2>1. TypeOK /\ bulk = t
      BY DEF IInv, seqbulk_destroy
    <2>2. ~Unlocked
      BY <2>1, SQLSequenceAssumption DEF Unlocked
    <2>3. s # Nothing /\ Active(t)
      BY <2>1, <2>2 DEF TypeOK
    <2> QED BY <2>1, <2>2, <2>3 DEF seqbulk_destroy, Unlock, Entry, TypeOK, Active
  <1>2. s \in EntryType /\ EntryOK(s, N) /\ N \in SUBSET Int /\ given \in SUBSET Int
    BY <1>1 DEF IInv, TypeOK, EntryType
  <1>3. s'.called /\ ~save' => logged' = s'.cached
    <2>1. s'.called = s.called /\ s'.cached = s.cached
      BY <1>1, <1>2 DEF seqbulk_destroy, Failed, EntryType
    <2> QED BY <1>1, <2>1 DEF IInv
  <1>4. s' \in EntryType /\ EntryOK(s', given') /\ given' \in SUBSET Int
    <2>1. CASE s' = s /\ given' = N
      BY <1>2, <2>1
    <2>2. CASE Fails(own[t].seq, s) /\ s' = Failed(own[t].seq, s) /\ given' = given
      <3>1. own[t].seq \in Definitions
        BY <1>1 DEF Transaction
      <3>2. EntryOK(s, given)
        BY <1>2 DEF EntryOK
      <3> QED BY <1>2, <2>2, <3>1, <3>2, FailedOK
    <2> QED BY <1>1, <2>1, <2>2 DEF seqbulk_destroy
  <1>5. LogOK(logged', given')
    <2>1. CASE save
      <3>1. logged' = s.cached /\ s.cached # Nothing
        BY <1>1, <1>2, <2>1, SQLSequenceAssumption DEF EntryType
      <3>2. given' \subseteq N
        BY DEF seqbulk_destroy
      <3> QED BY <1>2, <3>1, <3>2 DEF LogOK, EntryOK
    <2>2. CASE ~save /\ s.called
      <3>1. logged' = s.cached /\ s.cached # Nothing
        BY <1>1, <1>2, <2>2, SQLSequenceAssumption DEF EntryType, IInv
      <3>2. given' \subseteq N
        BY DEF seqbulk_destroy
      <3> QED BY <1>2, <3>1, <3>2 DEF LogOK, EntryOK
    <2>3. CASE ~save /\ ~s.called
      <3>1. pending = {}
        BY <1>1, <2>3 DEF IInv
      <3> QED BY <1>1, <2>3, <3>1 DEF IInv, LogOK, seqbulk_destroy
    <2> QED BY <2>1, <2>2, <2>3
  <1>6. logged' \in Int \cup {Nothing}
    BY <1>1, <1>2 DEF TypeOK, EntryType
  <1>7. TypeOK'
    BY <1>1, <1>4, <1>6 DEF TypeOK, EntryType, Unlocked
  <1>8. pending' = {} /\ (given \cup pending)' = given'
    BY <1>1
  <1> QED BY <1>3, <1>4, <1>5, <1>7, <1>8 DEF IInv

LEMMA CrashStep == ASSUME IInv, Crash PROVE IInv'
  <1>1. TypeOK'
    BY DEF IInv, TypeOK, Crash, Unlock, Unlocked
  <1> QED BY <1>1 DEF IInv, LogOK, Crash, Unlock

LEMMA NextIInv == ASSUME Agreed, IInv, [Next]_vars PROVE IInv'
  <1>1. CASE UNCHANGED vars
    <2>1. TypeOK'
      BY <1>1 DEF vars, entry, column, IInv, TypeOK, Unlocked, Active
    <2> QED BY <1>1, <2>1, KeepsNumbers DEF vars, entry, column
  <1>2. ASSUME NEW t \in Sessions, Begin(t) \/ Commit(t) \/ Rollback(t) PROVE IInv'
    BY <1>2, BeginStep, CommitStep, RollbackStep
  <1>3. ASSUME NEW t \in Sessions, NEW d \in Definitions, NEW n \in Starts, Restart(t, d, n)
        PROVE  IInv'
    BY <1>3, RestartStep
  <1>4. ASSUME NEW t \in Sessions, seq_next_value(t) \/ seq_get_value(t) PROVE IInv'
    BY <1>4, NextValueStep, GetValueStep
  <1>5. ASSUME NEW t \in Sessions,
               seqbulk_create(t) \/ seqbulk_next_value(t) \/ seqbulk_destroy(t)
        PROVE  IInv'
    BY <1>5, BulkCreateStep, BulkNextStep, BulkDestroyStep
  <1>6. CASE Crash
    BY <1>6, CrashStep
  <1> QED BY <1>1, <1>2, <1>3, <1>4, <1>5, <1>6 DEF Next

(* What the next call returns, with the counter or after a crash.          *)
LEMMA FreshOK ==
    ASSUME Agreed, NEW d \in Definitions, NEW e \in EntryType, NEW N \in SUBSET Int,
           EntryOK(e, N)
    PROVE  Fresh(d, e, N)
  <1> SUFFICES ASSUME ~Fails(d, e), ~Cycles(d, e) PROVE Number(d, e) \notin N
    BY DEF Fresh
  <1> DEFINE nr == Number(d, e)
  <1>1. /\ nr = IF e.called THEN e.cur + Inc ELSE e.cur
        /\ InBounds(d, nr) /\ e.cur \in Int /\ e.cached \in Int
    BY FollowingType DEF Number, Fails, Cycles, EntryType
  <1>2. CASE e.called
    BY <1>1, <1>2, SomeType DEF EntryOK
  <1>3. CASE ~e.called
    <2>1. nr = e.cached /\ ~Out(e.cached)
      BY <1>1, <1>3, Same DEF EntryOK
    <2> QED BY <1>1, <2>1 DEF EntryOK
  <1> QED BY <1>2, <1>3

LEMMA IInvNoRepeat == ASSUME Agreed, IInv PROVE NoRepeat
  <1> SUFFICES ASSUME NEW seq \in ({def} \cup {own[t] : t \in Sessions}) \ {Nothing}
               PROVE  /\ Fresh(seq.seq, Entry(seq), given \cup pending)
                      /\ Fresh(seq.seq, sql_create_sequence(seq), given)
    BY DEF NoRepeat
  <1>1. seq \in Transaction
    BY DEF IInv, TypeOK
  <1>2. seq.seq \in Definitions /\ given \cup pending \in SUBSET Int /\ given \in SUBSET Int
    BY <1>1 DEF IInv, TypeOK, Transaction
  <1> QED BY <1>1, <1>2, Found, FreshOK

-----------------------------------------------------------------------------
LEMMA Invariance == ASSUME Agreed PROVE Spec => []IInv
  <1>1. IInv /\ [Next]_vars => IInv'
    BY NextIInv
  <1> QED BY <1>1, InitIInv, PTL DEF Spec

(* The types of the state hold in every reachable state.                   *)
THEOREM TypeCorrect == Agreed /\ Spec => []TypeOK
  <1>1. SUFFICES ASSUME Agreed PROVE Spec => []TypeOK
    OBVIOUS
  <1>2. IInv => TypeOK
    BY DEF IInv
  <1>3. Spec => []IInv
    BY <1>1, Invariance
  <1> QED BY <1>2, <1>3, PTL

(* No number is handed out twice (seq_next_value, seqbulk_next_value) by   *)
(* sessions that agree on increment and bounds, crashes included.          *)
THEOREM NeverRepeats == Agreed /\ Spec => []NoRepeat
  <1>1. SUFFICES ASSUME Agreed PROVE Spec => []NoRepeat
    OBVIOUS
  <1>2. IInv => NoRepeat
    BY <1>1, IInvNoRepeat
  <1>3. Spec => []IInv
    BY <1>1, Invariance
  <1> QED BY <1>2, <1>3, PTL
=============================================================================
