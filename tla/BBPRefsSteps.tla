---------------------------- MODULE BBPRefsSteps ----------------------------
(***************************************************************************)
(* Proofs about BBPRefs, for any threads, slots and addresses: the         *)
(* inductive invariant IInv, sums over the threads and over the steps left *)
(* of their calls, what the counts of a bat say of the threads and views   *)
(* that refer to it, and the steps that fix, retain, load and unload bats  *)
(* or change their mode.                                                   *)
(***************************************************************************)
EXTENDS BBPRefs, TLAPS, FiniteSetTheorems, SequenceTheorems, WellFoundedInduction

-----------------------------------------------------------------------------
(***************************************************************************)
(* The inductive invariant.  What is left of the call of a thread: the     *)
(* forms a call of BATdescriptor, BBPretain, BBPkeepref or BATmode goes    *)
(* through, or else a sequence of steps that give something back.          *)
(***************************************************************************)
Loads(t, i) == Left(t, "base", i) + Left(t, "read", i)
Sets(t, i) == Left(t, "persist", i) + Left(t, "unpersist", i)

(* BATdescriptor of a bat, and of a view for which it has to load the      *)
(* parent p first.                                                         *)
Fetches(t, i) ==
    \/ /\ todo[t] = << <<"fix", i>>, <<"load", i>>, <<"got", i>> >>
       /\ fix[t][i] + lref[t][i] > 0
    \/ todo[t] = << <<"load", i>>, <<"got", i>> >>
    \/ todo[t] = << <<"read", i>>, <<"got", i>> >> /\ bbp[i].parent = 0
    \/ todo[t] = << <<"got", i>> >>
FetchesView(t, i, p) ==
    /\ p = bbp[i].parent
    /\ \/ todo[t] = << <<"fix", p>>, <<"load", p>>, <<"base", i>>, <<"load", i>>, <<"got", i>> >>
       \/ todo[t] = << <<"load", p>>, <<"base", i>>, <<"load", i>>, <<"got", i>> >>
       \/ todo[t] = << <<"read", p>>, <<"base", i>>, <<"load", i>>, <<"got", i>> >>
       \/ todo[t] = << <<"base", i>>, <<"load", i>>, <<"got", i>> >> /\ Loaded(bbp[p])

(* BBPretain and BBPkeepref: who retains a bat has another reference, or   *)
(* a fix.                                                                  *)
Retains(t, i) ==
    /\ lref[t][i] > 0
    /\ \/ todo[t] = << <<"retain", i>> >> /\ fix[t][i] + lref[t][i] > 1
       \/ todo[t] = << <<"retain", i>>, <<"unfix", i>> >>

(* BATmode.                                                                *)
Modes(t, i) ==
    /\ fix[t][i] > 0 /\ bbp[i].parent = 0
    /\ \/ /\ todo[t] = << <<"retain", i>>, <<"persist", i>> >> \/ todo[t] = << <<"persist", i>> >>
          /\ ~Persistent(bbp[i])
       \/ /\ todo[t] = << <<"release", i>>, <<"unpersist", i>> >> \/ todo[t] = << <<"unpersist", i>> >>
          /\ Persistent(bbp[i])

(* Everything that gives something back.                                   *)
GivesBack == {"unfix", "release"} \X Slots
Ends == {"unfix", "release", "unshare", "unload", "freed", "clear"} \X Slots
First(t, step, i) == todo[t] # <<>> /\ todo[t][1] = <<step, i>>
Undoes(t) ==
    /\ \A k \in DOMAIN todo[t]: todo[t][k] \in Ends /\ (k > 1 => todo[t][k] \in GivesBack)
    /\ \A i \in Slots:
        /\ First(t, "unshare", i) => Len(todo[t]) > 1 /\ todo[t][2] = <<"release", i>>
        /\ First(t, "freed", i) => ~Loaded(bbp[i])
        /\ First(t, "clear", i) => bbp[i].lrefs = 0 /\ "DELETED" \notin bbp[i].status

Shape(t) ==
    \/ \E i \in Slots: Fetches(t, i) \/ Retains(t, i) \/ Modes(t, i)
    \/ \E i, p \in Slots: FetchesView(t, i, p)
    \/ Undoes(t)

(* The slots.                                                              *)
Bats == [used : BOOLEAN, refs : Nat, lrefs : Nat, share : Nat, status : SUBSET Flags,
         parent : Slots \cup {0}, heap : Addresses \cup {0}, base : Addresses \cup {0},
         dirty : BOOLEAN, copied : BOOLEAN]
Steps == {"fix", "retain", "base", "load", "read", "got", "unfix", "release", "unshare",
          "unload", "freed", "clear", "persist", "unpersist"} \X Slots
Types ==
    /\ bbp \in [Slots -> Bats]
    /\ todo \in [Threads -> Seq(Steps)]
    /\ fix \in [Threads -> [Slots -> Nat]] /\ lref \in [Threads -> [Slots -> Nat]]
    /\ lost \in [Slots -> Nat] /\ calls \in Nat

(* Nobody refers to slot i.                                                *)
Forgotten(t, i) == /\ fix[t][i] = 0 /\ lref[t][i] = 0
                   /\ \A k \in DOMAIN todo[t]: todo[t][k][2] # i
Unknown(i) == /\ \A t \in Threads: Forgotten(t, i)
              /\ \A v \in Slots: bbp[v].parent # i

(* A view is never anything but in memory, and its base is where the heap  *)
(* of its parent is whenever it holds a fix of this parent.                *)
ViewOK(i, p) ==
    /\ bbp[i].used /\ p # i /\ bbp[p].used /\ bbp[p].parent = 0
    /\ "LOADED" \in bbp[i].status /\ bbp[i].status \subseteq {"LOADED", "UNLOADING", "LOADING"}
    /\ bbp[i].heap = 0
    /\ "LOADING" \in bbp[i].status => bbp[i].refs = 1
    /\ HoldsBase(i) => Loaded(bbp[p]) /\ bbp[i].base = bbp[p].heap
    /\ ~HoldsBase(i) => bbp[i].base = 0

(* The flags of a bat that is in use.                                      *)
BatOK(b) ==
    /\ b.parent = 0 => /\ b.base = 0
                       /\ Loaded(b) /\ "UNLOADING" \notin b.status => b.heap # 0
    /\ ~("DELETED" \in b.status /\ Persistent(b)) /\ ~({"EXISTING", "NEW"} \subseteq b.status)
    /\ "TMP" \in b.status => b.copied /\ ~Persistent(b)
    /\ "UNLOADING" \in b.status => /\ b.refs = 0 /\ "LOADING" \notin b.status
                                   /\ b.lrefs = 0 \/ (Persistent(b) /\ ~BATdirty(b))
    /\ "LOADING" \in b.status => b.refs > 0 /\ (Loaded(b) => b.parent # 0)
    /\ ~Loaded(b) => (Persistent(b) /\ ~BATdirty(b)) \/ (b.refs = 0 /\ b.lrefs = 0)

Slot(i) ==
    /\ ~bbp[i].used => bbp[i] = Empty /\ Unknown(i)
    /\ bbp[i].used => BatOK(bbp[i])
    /\ \A p \in Slots: bbp[i].parent = p => ViewOK(i, p)

Counted(i) ==
    /\ bbp[i].refs = Sum([t \in Threads |-> Fixes(t, i)]) + lost[i] + Cardinality(Holding(i))
    /\ bbp[i].lrefs = Sum([t \in Threads |-> Lrefs(t, i)]) + Own(i) + Cardinality(Views(i))
    /\ bbp[i].share = Sum([t \in Threads |-> Left(t, "unshare", i)]) + Cardinality(Views(i))

(* One thread resets a flag, and one at a time changes the mode.           *)
Flagged(i, flag) == IF flag \in bbp[i].status THEN 1 ELSE 0
Owned(i) ==
    /\ Sum([t \in Threads |-> Loads(t, i)]) = Flagged(i, "LOADING")
    /\ Sum([t \in Threads |-> Unloads(t, i)]) = Flagged(i, "UNLOADING")
    /\ \A t, u \in Threads: Sets(t, i) > 0 /\ Sets(u, i) > 0 => t = u

Readable(t) == \A i \in Slots: fix[t][i] > 0 => Loaded(bbp[i])

IInv ==
    /\ Types
    /\ \A i \in Slots: Slot(i) /\ Counted(i) /\ Owned(i)
    /\ \A t \in Threads: Shape(t) /\ Readable(t)

-----------------------------------------------------------------------------
(***************************************************************************)
(* Sums over the threads.                                                  *)
(***************************************************************************)
Pairs(f, U) == UNION {{t} \X (1 .. f[t]) : t \in U}

(* The parts of the sum are finite: a smallest set of threads for which    *)
(* they are not has a thread to take away.                                 *)
LEMMA PairsFinite ==
    ASSUME NEW f \in [Threads -> Nat], NEW U \in SUBSET Threads
    PROVE  IsFiniteSet(Pairs(f, U))
<1> DEFINE Bad == {V \in SUBSET Threads : ~IsFiniteSet(Pairs(f, V))}
           R == StrictSubsetOrdering(Threads)
<1>1. IsWellFoundedOn(R, SUBSET Threads)
  BY FS_StrictSubsetOrderingWellFounded, FS_FiniteSubsetsOfFinite, BBPRefsAssumption, ZenonT(60)
<1>2. SUFFICES ASSUME Bad # {} PROVE FALSE
  OBVIOUS
<1>3. PICK V \in Bad: \A W \in Bad: <<W, V>> \notin R
  <2> HIDE DEF Bad, R
  <2>1. Bad \subseteq SUBSET Threads
    BY DEF Bad
  <2> QED  BY <1>1, <1>2, <2>1, WFMin
<1>4. V # {}
  <2>1. Pairs(f, {}) = {}
    BY DEF Pairs
  <2> QED  BY <2>1, FS_EmptySet
<1>5. PICK t \in Threads: t \in V
  BY <1>3, <1>4
<1>6. IsFiniteSet(Pairs(f, V \ {t}))
  <2>1. <<V \ {t}, V>> \in R
    BY <1>5 DEF StrictSubsetOrdering
  <2> QED  BY <2>1, <1>3
<1>7. IsFiniteSet({t} \X (1 .. f[t]))
  <2>1. f[t] \in Nat
    BY <1>5
  <2>2. IsFiniteSet(1 .. f[t])
    BY <2>1, FS_Interval
  <2>3. IsFiniteSet({t})
    BY FS_Singleton
  <2> QED  BY <2>2, <2>3, FS_Product
<1>8. Pairs(f, V) = Pairs(f, V \ {t}) \cup ({t} \X (1 .. f[t]))
  BY <1>5 DEF Pairs
<1>9. IsFiniteSet(Pairs(f, V))
  <2>1. IsFiniteSet(Pairs(f, V \ {t}) \cup ({t} \X (1 .. f[t])))
    BY <1>6, <1>7, FS_Union, Zenon
  <2> QED  BY <1>8, <2>1
<1> QED  BY <1>3, <1>9, ZenonT(30)

(* A sum over the threads is one of them and the rest.                    *)
LEMMA SumSplit ==
    ASSUME NEW f \in [Threads -> Nat], NEW t \in Threads
    PROVE  /\ Cardinality(Pairs(f, Threads \ {t})) \in Nat
           /\ Sum(f) = Cardinality(Pairs(f, Threads \ {t})) + f[t]
<1> DEFINE A == Pairs(f, Threads \ {t})
           B == {t} \X (1 .. f[t])
<1>1. IsFiniteSet(A)
  BY PairsFinite
<1>2. IsFiniteSet(B) /\ Cardinality(B) = f[t]
  <2>1. IsFiniteSet({t}) /\ Cardinality({t}) = 1
    BY FS_Singleton
  <2>2. IsFiniteSet(1 .. f[t]) /\ Cardinality(1 .. f[t]) = f[t]
    BY FS_Interval
  <2>3. IsFiniteSet(B) /\ Cardinality(B) = Cardinality({t}) * Cardinality(1 .. f[t])
    BY <2>1, <2>2, FS_Product
  <2> QED  BY <2>1, <2>2, <2>3
<1>3. A \cap B = {}
  BY DEF Pairs
<1>4. Sum(f) = Cardinality(A \cup B)
  <2>1. UNION {{u} \X (1 .. f[u]) : u \in Threads} = A \cup B
    BY DEF Pairs
  <2> QED  BY <2>1 DEF Sum
<1>5. Cardinality(A \cup B) = Cardinality(A) + Cardinality(B) - 0
  <2> HIDE DEF A, B
  <2> QED  BY <1>1, <1>2, <1>3, FS_Union, FS_EmptySet
<1>6. Cardinality(A) \in Nat
  BY <1>1, FS_CardinalityType
<1> QED  BY <1>2, <1>4, <1>5, <1>6

(* A sum of natural numbers is one.                                       *)
LEMMA SumType ==
    ASSUME NEW f \in [Threads -> Nat]
    PROVE  Sum(f) \in Nat
<1>1. Pairs(f, Threads) = UNION {{t} \X (1 .. f[t]) : t \in Threads}
  BY DEF Pairs
<1> QED  BY <1>1, PairsFinite, FS_CardinalityType DEF Sum

(* When one thread changes its number, the sum changes by as much.        *)
LEMMA SumStep ==
    ASSUME NEW f \in [Threads -> Nat], NEW g \in [Threads -> Nat], NEW t \in Threads,
           \A u \in Threads \ {t}: g[u] = f[u]
    PROVE  Sum(g) + f[t] = Sum(f) + g[t]
<1>1. Pairs(g, Threads \ {t}) = Pairs(f, Threads \ {t})
  BY DEF Pairs
<1> QED  BY <1>1, SumSplit

(* Two numbers of two threads are within the sum.                         *)
LEMMA SumTwo ==
    ASSUME NEW f \in [Threads -> Nat], NEW t \in Threads
    PROVE  /\ f[t] <= Sum(f)
           /\ \A u \in Threads \ {t}: f[t] + f[u] <= Sum(f)
<1>1. ASSUME NEW g \in [Threads -> Nat], NEW u \in Threads
      PROVE  g[u] <= Sum(g)
  <2>1. /\ Cardinality(Pairs(g, Threads \ {u})) \in Nat
        /\ Sum(g) = Cardinality(Pairs(g, Threads \ {u})) + g[u]
    BY SumSplit
  <2>2. g[u] \in Nat
    OBVIOUS
  <2> QED  BY <2>1, <2>2
<1>2. ASSUME NEW u \in Threads \ {t}
      PROVE  f[t] + f[u] <= Sum(f)
  <2>1. PICK g \in [Threads -> Nat]: g = [f EXCEPT ![t] = 0]
    OBVIOUS
  <2>2. g[t] = 0 /\ g[u] = f[u] /\ \A w \in Threads \ {t}: g[w] = f[w]
    BY <2>1
  <2>3. Sum(g) + f[t] = Sum(f) + g[t]
    BY <2>2, SumStep
  <2> QED  BY <2>2, <2>3, <1>1, SumType
<1> QED  BY <1>1, <1>2

(* A sum is 0 when every number is.                                       *)
LEMMA SumZero ==
    ASSUME NEW f \in [Threads -> Nat], \A t \in Threads: f[t] = 0
    PROVE  Sum(f) = 0
<1>1. UNION {{t} \X (1 .. f[t]) : t \in Threads} = {}
  OBVIOUS
<1> QED  BY <1>1, FS_EmptySet DEF Sum

(* The sum is 1 when one thread has 1 and the others 0.                   *)
LEMMA SumOnes ==
    ASSUME NEW f \in [Threads -> Nat], \A t \in Threads: f[t] = 1
    PROVE  Sum(f) = Cardinality(Threads)
<1>1. UNION {{t} \X (1 .. f[t]) : t \in Threads} = Threads \X {1}
  OBVIOUS
<1>2. IsFiniteSet({1}) /\ Cardinality({1}) = 1
  BY FS_Singleton
<1>3. Cardinality(Threads \X {1}) = Cardinality(Threads) * Cardinality({1})
  BY <1>2, FS_Product, BBPRefsAssumption
<1>4. Cardinality(Threads) \in Nat
  BY FS_CardinalityType, BBPRefsAssumption
<1>5. Cardinality(Threads) * 1 = Cardinality(Threads)
  BY <1>4
<1> QED  BY <1>1, <1>2, <1>3, <1>5 DEF Sum

-----------------------------------------------------------------------------
(***************************************************************************)
(* How often an element occurs in a sequence.                              *)
(***************************************************************************)
Places(q, x) == {k \in DOMAIN q : q[k] = x}
Occ(q, x) == Cardinality(Places(q, x))
One(a, x) == IF a = x THEN 1 ELSE 0

(* The indicator of an element is 0 or 1.                                 *)
LEMMA OneType ==
    ASSUME NEW a, NEW x
    PROVE  One(a, x) \in {0, 1}
BY DEF One

(* A sequence has a finite number of places.                              *)
LEMMA PlacesFinite ==
    ASSUME NEW S, NEW q \in Seq(S), NEW x
    PROVE  IsFiniteSet(Places(q, x))
<1>1. DOMAIN q = 1 .. Len(q) /\ Len(q) \in Nat
  OBVIOUS
<1>2. IsFiniteSet(1 .. Len(q))
  BY <1>1, FS_Interval
<1>3. Places(q, x) \in SUBSET (1 .. Len(q))
  BY <1>1 DEF Places
<1> QED  BY <1>2, <1>3, FS_Subset

(* So an element occurs a natural number of times.                        *)
LEMMA OccType ==
    ASSUME NEW S, NEW q \in Seq(S), NEW x
    PROVE  Occ(q, x) \in Nat
BY PlacesFinite, FS_CardinalityType DEF Occ

(* It occurs when it is somewhere in the sequence.                        *)
LEMMA OccSome ==
    ASSUME NEW S, NEW q \in Seq(S), NEW x
    PROVE  Occ(q, x) > 0 <=> \E k \in DOMAIN q: q[k] = x
<1>1. IsFiniteSet(Places(q, x))
  BY PlacesFinite
<1>2. Occ(q, x) \in Nat
  BY OccType
<1>3. Occ(q, x) = 0 <=> Places(q, x) = {}
  BY <1>1, FS_EmptySet DEF Occ
<1> QED  BY <1>2, <1>3 DEF Places

(* What occurs in two sequences one after the other.                      *)
LEMMA OccConcat ==
    ASSUME NEW S, NEW p \in Seq(S), NEW q \in Seq(S), NEW x
    PROVE  Occ(p \o q, x) = Occ(p, x) + Occ(q, x)
<1>1. PICK m \in Nat: m = Len(p)
  OBVIOUS
<1>2. PICK n \in Nat: n = Len(q)
  OBVIOUS
<1> DEFINE A == Places(p, x)
           B == Places(q, x)
           C == {k \in (m + 1) .. (m + n) : q[k - m] = x}
           f == [k \in B |-> k + m]
<1>3. DOMAIN p = 1 .. m /\ DOMAIN q = 1 .. n
  BY <1>1, <1>2
<1>4. Places(p \o q, x) = A \cup C
  <2>1. p \o q \in Seq(S) /\ Len(p \o q) = m + n
    BY <1>1, <1>2
  <2>2. DOMAIN (p \o q) = 1 .. (m + n)
    BY <2>1
  <2>3. \A k \in 1 .. (m + n): (p \o q)[k] = IF k <= m THEN p[k] ELSE q[k - m]
    BY <1>1, <1>2
  <2> QED  BY <1>3, <2>2, <2>3 DEF Places
<1>5. A \cap C = {}
  BY <1>3 DEF Places
<1>6. IsFiniteSet(A) /\ IsFiniteSet(B)
  BY PlacesFinite
<1>7. IsFiniteSet(C) /\ Cardinality(C) = Cardinality(B)
  <2>1. f \in [B -> C]
    BY <1>3 DEF Places
  <2>2. \A k, l \in B: f[k] = f[l] => k = l
    BY <1>3 DEF Places
  <2>3. \A c \in C: \E k \in B: f[k] = c
    <3>1. TAKE c \in C
    <3>2. c - m \in B
      BY <1>3 DEF Places
    <3> QED  BY <3>1, <3>2
  <2>4. ExistsBijection(B, C)
    <3> HIDE DEF f, B, C
    <3>1. f \in Injection(B, C)
      BY <2>1, <2>2 DEF Injection, IsInjective
    <3>2. f \in Surjection(B, C)
      BY <2>1, <2>3 DEF Surjection
    <3> QED  BY <3>1, <3>2 DEF ExistsBijection, Bijection
  <2> QED
    <3> HIDE DEF B, C, f
    <3> QED  BY <1>6, <2>4, FS_Bijection
<1>8. Cardinality(A \cup C) = Cardinality(A) + Cardinality(C) - Cardinality(A \cap C)
  <2> HIDE DEF A, C
  <2> QED  BY <1>6, <1>7, FS_Union
<1>9. Cardinality(A \cap C) = 0
  <2> HIDE DEF A, C
  <2> QED  BY <1>5, FS_EmptySet
<1>10. Occ(p, x) \in Nat /\ Occ(q, x) \in Nat
  BY OccType
<1> QED  BY <1>4, <1>7, <1>8, <1>9, <1>10 DEF Occ

(* What occurs in a literal sequence of each length up to five.           *)
LEMMA OccNone ==
    ASSUME NEW x
    PROVE  Occ(<<>>, x) = 0
<1>1. Places(<<>>, x) = {}
  BY DEF Places
<1> QED  BY <1>1, FS_EmptySet DEF Occ

LEMMA OccOne ==
    ASSUME NEW a, NEW x
    PROVE  Occ(<<a>>, x) = One(a, x)
<1>1. Places(<<a>>, x) = IF a = x THEN {1} ELSE {}
  BY DEF Places
<1> QED  BY <1>1, FS_EmptySet, FS_Singleton DEF Occ, One

LEMMA OccTwo ==
    ASSUME NEW a, NEW b, NEW x
    PROVE  Occ(<<a, b>>, x) = One(a, x) + One(b, x)
<1>2. <<a>> \in Seq({a, b}) /\ <<b>> \in Seq({a, b})
  OBVIOUS
<1>1. <<a, b>> = <<a>> \o <<b>>
  <2>1. /\ <<a>> \o <<b>> \in Seq({a, b}) /\ Len(<<a>> \o <<b>>) = 2
        /\ (<<a>> \o <<b>>)[1] = a /\ (<<a>> \o <<b>>)[2] = b
    BY <1>2
  <2>2. <<a, b>> \in Seq({a, b}) /\ Len(<<a, b>>) = 2 /\ <<a, b>>[1] = a /\ <<a, b>>[2] = b
    OBVIOUS
  <2>3. \A k \in 1 .. 2: k = 1 \/ k = 2
    OBVIOUS
  <2> QED  BY <2>1, <2>2, <2>3, SeqEqual
<1>3. Occ(<<a, b>>, x) = Occ(<<a>>, x) + Occ(<<b>>, x)
  <2>1. Occ(<<a>> \o <<b>>, x) = Occ(<<a>>, x) + Occ(<<b>>, x)
    BY <1>2, OccConcat, ZenonT(60)
  <2> QED  BY <1>1, <2>1, Zenon
<1> QED  BY <1>3, OccOne, OneType

LEMMA OccThree ==
    ASSUME NEW a, NEW b, NEW c, NEW x
    PROVE  Occ(<<a, b, c>>, x) = One(a, x) + One(b, x) + One(c, x)
<1>1. <<a, b, c>> = <<a, b>> \o <<c>>
  OBVIOUS
<1>2. <<a, b>> \in Seq({a, b, c}) /\ <<c>> \in Seq({a, b, c})
  OBVIOUS
<1>3. Occ(<<a, b, c>>, x) = Occ(<<a, b>>, x) + Occ(<<c>>, x)
  <2>1. Occ(<<a, b>> \o <<c>>, x) = Occ(<<a, b>>, x) + Occ(<<c>>, x)
    BY <1>2, OccConcat, ZenonT(60)
  <2> QED  BY <1>1, <2>1, Zenon
<1>4. One(a, x) \in Nat /\ One(b, x) \in Nat /\ One(c, x) \in Nat
  BY OneType
<1>5. Occ(<<a, b>>, x) = One(a, x) + One(b, x)
  BY OccOne, OccTwo
<1>6. Occ(<<c>>, x) = One(c, x)
  BY OccOne, OccTwo
<1> QED  BY <1>3, <1>4, <1>5, <1>6

LEMMA OccFour ==
    ASSUME NEW a, NEW b, NEW c, NEW d, NEW x
    PROVE  Occ(<<a, b, c, d>>, x) = One(a, x) + One(b, x) + One(c, x) + One(d, x)
<1>1. <<a, b, c, d>> = <<a, b>> \o <<c, d>>
  OBVIOUS
<1>2. <<a, b>> \in Seq({a, b, c, d}) /\ <<c, d>> \in Seq({a, b, c, d})
  OBVIOUS
<1>3. Occ(<<a, b, c, d>>, x) = Occ(<<a, b>>, x) + Occ(<<c, d>>, x)
  <2>1. Occ(<<a, b>> \o <<c, d>>, x) = Occ(<<a, b>>, x) + Occ(<<c, d>>, x)
    BY <1>2, OccConcat, ZenonT(60)
  <2> QED  BY <1>1, <2>1, Zenon
<1>4. One(a, x) \in Nat /\ One(b, x) \in Nat /\ One(c, x) \in Nat /\ One(d, x) \in Nat
  BY OneType
<1>5. Occ(<<a, b>>, x) = One(a, x) + One(b, x)
  BY OccTwo
<1>6. Occ(<<c, d>>, x) = One(c, x) + One(d, x)
  BY OccTwo
<1> QED  BY <1>3, <1>4, <1>5, <1>6

LEMMA OccFive ==
    ASSUME NEW a, NEW b, NEW c, NEW d, NEW e, NEW x
    PROVE  Occ(<<a, b, c, d, e>>, x)
             = One(a, x) + One(b, x) + One(c, x) + One(d, x) + One(e, x)
<1>1. <<a, b, c, d, e>> = <<a, b, c>> \o <<d, e>>
  OBVIOUS
<1>2. <<a, b, c>> \in Seq({a, b, c, d, e}) /\ <<d, e>> \in Seq({a, b, c, d, e})
  OBVIOUS
<1>3. Occ(<<a, b, c, d, e>>, x) = Occ(<<a, b, c>>, x) + Occ(<<d, e>>, x)
  <2>1. Occ(<<a, b, c>> \o <<d, e>>, x) = Occ(<<a, b, c>>, x) + Occ(<<d, e>>, x)
    BY <1>2, OccConcat, ZenonT(60)
  <2> QED  BY <1>1, <2>1, Zenon
<1>4. /\ One(a, x) \in Nat /\ One(b, x) \in Nat /\ One(c, x) \in Nat
      /\ One(d, x) \in Nat /\ One(e, x) \in Nat
  BY OneType
<1>5. Occ(<<a, b, c>>, x) = One(a, x) + One(b, x) + One(c, x)
  BY OccTwo, OccThree
<1>6. Occ(<<d, e>>, x) = One(d, x) + One(e, x)
  BY OccTwo, OccThree
<1> QED  BY <1>3, <1>4, <1>5, <1>6

(* The first step is done, and others take its place.                      *)
LEMMA OccReplaced ==
    ASSUME NEW S, NEW q \in Seq(S), NEW p \in Seq(S), q # <<>>, NEW x
    PROVE  /\ p \o Tail(q) \in Seq(S)
           /\ Occ(p \o Tail(q), x) = Occ(p, x) + Occ(q, x) - One(q[1], x)
<1>1. Tail(q) \in Seq(S) /\ <<q[1]>> \in Seq(S) /\ q = <<q[1]>> \o Tail(q)
  OBVIOUS
<1>2. Occ(q, x) = Occ(<<q[1]>>, x) + Occ(Tail(q), x)
  <2>1. Occ(<<q[1]>> \o Tail(q), x) = Occ(<<q[1]>>, x) + Occ(Tail(q), x)
    BY <1>1, OccConcat, ZenonT(60)
  <2> QED  BY <1>1, <2>1
<1>3. Occ(<<q[1]>>, x) = One(q[1], x)
  BY OccOne
<1>4. Occ(p \o Tail(q), x) = Occ(p, x) + Occ(Tail(q), x)
  BY <1>1, OccConcat, ZenonT(60)
<1>5. Occ(Tail(q), x) \in Nat /\ Occ(p, x) \in Nat
  BY <1>1, OccType
<1> QED  BY <1>1, <1>2, <1>3, <1>4, <1>5, OneType

-----------------------------------------------------------------------------
(***************************************************************************)
(* The counts of one thread.                                               *)
(***************************************************************************)
LEMMA LeftOcc ==
    \A t \in Threads: \A x, i: Left(t, x, i) = Occ(todo[t], <<x, i>>)
BY DEF Left, Occ, Places

(* How often a step is left in a call is a natural number.                *)
LEMMA LeftType ==
    Types => \A t \in Threads: \A x, i: Left(t, x, i) \in Nat
<1> SUFFICES ASSUME Types, NEW t \in Threads, NEW x, NEW i
             PROVE  Left(t, x, i) \in Nat
  OBVIOUS
<1>1. todo[t] \in Seq(Steps)
  BY DEF Types
<1> QED  BY <1>1, LeftOcc, OccType

(* The same after the step.                                               *)
LEMMA LeftTypeNext ==
    Types' => \A t \in Threads: \A x, i: Left(t, x, i)' \in Nat
<1>1. (Types => \A t \in Threads: \A x, i: Left(t, x, i) \in Nat)'
  BY LeftType, PTL
<1> QED  BY <1>1

(* A step is left when it is somewhere in the call.                       *)
LEMMA LeftSome ==
    Types => \A t \in Threads: \A x, i:
                Left(t, x, i) > 0 <=> \E k \in DOMAIN todo[t]: todo[t][k] = <<x, i>>
<1> SUFFICES ASSUME Types, NEW t \in Threads, NEW x, NEW i
             PROVE  Left(t, x, i) > 0 <=> \E k \in DOMAIN todo[t]: todo[t][k] = <<x, i>>
  OBVIOUS
<1>1. todo[t] \in Seq(Steps)
  BY DEF Types
<1>2. Occ(todo[t], <<x, i>>) > 0 <=> \E k \in DOMAIN todo[t]: todo[t][k] = <<x, i>>
  BY <1>1, OccSome
<1>3. Left(t, x, i) = Occ(todo[t], <<x, i>>)
  BY LeftOcc
<1> QED  BY <1>2, <1>3

(* What is left of a call that has one of the known forms.                 *)
LEMMA LeftLiteral ==
    \A t \in Threads: \A x, i:
        /\ todo[t] = <<>> => Left(t, x, i) = 0
        /\ \A a: todo[t] = <<a>> => Left(t, x, i) = One(a, <<x, i>>)
        /\ \A a, b: todo[t] = <<a, b>> => Left(t, x, i) = One(a, <<x, i>>) + One(b, <<x, i>>)
        /\ \A a, b, c: todo[t] = <<a, b, c>> =>
              Left(t, x, i) = One(a, <<x, i>>) + One(b, <<x, i>>) + One(c, <<x, i>>)
        /\ \A a, b, c, d: todo[t] = <<a, b, c, d>> =>
              Left(t, x, i) = One(a, <<x, i>>) + One(b, <<x, i>>) + One(c, <<x, i>>)
                                + One(d, <<x, i>>)
        /\ \A a, b, c, d, e: todo[t] = <<a, b, c, d, e>> =>
              Left(t, x, i) = One(a, <<x, i>>) + One(b, <<x, i>>) + One(c, <<x, i>>)
                                + One(d, <<x, i>>) + One(e, <<x, i>>)
<1>1. \A t \in Threads: \A x, i: todo[t] = <<>> => Left(t, x, i) = 0
  BY LeftOcc, OccNone
<1>2. ASSUME NEW t \in Threads, NEW x, NEW i, NEW a, todo[t] = <<a>>
      PROVE  Left(t, x, i) = One(a, <<x, i>>)
  BY <1>2, LeftOcc, OccOne
<1>3. ASSUME NEW t \in Threads, NEW x, NEW i, NEW a, NEW b, todo[t] = <<a, b>>
      PROVE  Left(t, x, i) = One(a, <<x, i>>) + One(b, <<x, i>>)
  BY <1>3, LeftOcc, OccTwo
<1>4. ASSUME NEW t \in Threads, NEW x, NEW i, NEW a, NEW b, NEW c, todo[t] = <<a, b, c>>
      PROVE  Left(t, x, i) = One(a, <<x, i>>) + One(b, <<x, i>>) + One(c, <<x, i>>)
  BY <1>4, LeftOcc, OccThree
<1>5. ASSUME NEW t \in Threads, NEW x, NEW i, NEW a, NEW b, NEW c, NEW d, todo[t] = <<a, b, c, d>>
      PROVE  Left(t, x, i) = One(a, <<x, i>>) + One(b, <<x, i>>) + One(c, <<x, i>>)
               + One(d, <<x, i>>)
  BY <1>5, LeftOcc, OccFour
<1>6. ASSUME NEW t \in Threads, NEW x, NEW i, NEW a, NEW b, NEW c, NEW d, NEW e, todo[t] = <<a, b, c, d, e>>
      PROVE  Left(t, x, i) = One(a, <<x, i>>) + One(b, <<x, i>>) + One(c, <<x, i>>)
               + One(d, <<x, i>>) + One(e, <<x, i>>)
  BY <1>6, LeftOcc, OccFive
<1> QED  BY <1>1, <1>2, <1>3, <1>4, <1>5, <1>6

(* Whether a call is on the way to the base of a view counts once.        *)
LEMMA BasedType ==
    \A t \in Threads: \A i: Based(t, i) \in {0, 1}
BY DEF Based

(* A call of BATdescriptor counts at least what its thread uses or gives back. *)
LEMMA FetchesCount ==
    ASSUME Types, NEW t \in Threads, NEW i \in Slots, Fetches(t, i), NEW j \in Slots
    PROVE  Fixes(t, j) \in Nat /\ Fixes(t, j) >= fix[t][j] + Left(t, "unfix", j) /\ Lrefs(t, j) \in Nat
<1>1. fix[t][j] \in Nat /\ lref[t][j] \in Nat
  BY DEF Types
<1>2. /\ Left(t, "unfix", j) = 0 /\ Left(t, "release", j) = 0
      /\ Left(t, "persist", j) = 0 /\ Left(t, "retain", j) = 0
      /\ Left(t, "got", j) \in {0, 1} /\ Left(t, "fix", j) \in {0, 1}
      /\ Left(t, "fix", j) <= Left(t, "got", j)
  <2>1. CASE todo[t] = << <<"fix", i>>, <<"load", i>>, <<"got", i>> >>
    BY <2>1, LeftLiteral DEF One
  <2>2. CASE todo[t] = << <<"load", i>>, <<"got", i>> >>
    BY <2>2, LeftLiteral, SMTT(60) DEF One
  <2>3. CASE todo[t] = << <<"read", i>>, <<"got", i>> >>
    BY <2>3, LeftLiteral, SMTT(30) DEF One
  <2>4. CASE todo[t] = << <<"got", i>> >>
    BY <2>4, LeftLiteral DEF One
  <2> QED  BY <2>1, <2>2, <2>3, <2>4 DEF Fetches
<1> QED  BY <1>1, <1>2, BasedType DEF Fixes, Lrefs

(* A fix taken for the base of a view that is still to be done.            *)
LEMMA FetchesViewCount ==
    ASSUME Types, NEW t \in Threads, NEW i \in Slots, NEW p \in Slots, FetchesView(t, i, p),
           bbp[i].used, p # i, NEW j \in Slots
    PROVE  Fixes(t, j) \in Nat /\ Fixes(t, j) >= fix[t][j] + Left(t, "unfix", j) /\ Lrefs(t, j) \in Nat
<1>1. fix[t][j] \in Nat /\ lref[t][j] \in Nat
  BY DEF Types
<1>2. /\ Left(t, "unfix", j) = 0 /\ Left(t, "release", j) = 0
      /\ Left(t, "persist", j) = 0 /\ Left(t, "retain", j) = 0
      /\ Left(t, "got", j) \in {0, 1} /\ Left(t, "fix", j) \in {0, 1}
      /\ Left(t, "fix", j) = 1 => j = p
      /\ Left(t, "base", i) = 1
  <2>1. CASE todo[t] = << <<"fix", p>>, <<"load", p>>, <<"base", i>>, <<"load", i>>, <<"got", i>> >>
    BY <2>1, LeftLiteral, SMTT(60) DEF One
  <2>2. CASE todo[t] = << <<"load", p>>, <<"base", i>>, <<"load", i>>, <<"got", i>> >>
    BY <2>2, LeftLiteral DEF One
  <2>3. CASE todo[t] = << <<"read", p>>, <<"base", i>>, <<"load", i>>, <<"got", i>> >>
    BY <2>3, LeftLiteral DEF One
  <2>4. CASE todo[t] = << <<"base", i>>, <<"load", i>>, <<"got", i>> >>
    BY <2>4, LeftLiteral DEF One
  <2> QED  BY <2>1, <2>2, <2>3, <2>4 DEF FetchesView
<1>3. Based(t, p) = 1
  BY <1>2 DEF Based, Views, FetchesView
<1> QED  BY <1>1, <1>2, <1>3, BasedType DEF Fixes, Lrefs

(* The same for BBPretain, BBPkeepref and BATmode.                        *)
LEMMA RetainsCount ==
    ASSUME Types, NEW t \in Threads, NEW i \in Slots, Retains(t, i) \/ Modes(t, i), NEW j \in Slots
    PROVE  Fixes(t, j) \in Nat /\ Fixes(t, j) >= fix[t][j] + Left(t, "unfix", j) /\ Lrefs(t, j) \in Nat
<1>1. fix[t][j] \in Nat /\ lref[t][j] \in Nat
  BY DEF Types
<1>2. /\ Left(t, "got", j) = 0 /\ Left(t, "fix", j) = 0
      /\ Left(t, "unfix", j) \in {0, 1} /\ Left(t, "release", j) \in {0, 1}
      /\ Left(t, "persist", j) \in {0, 1} /\ Left(t, "retain", j) \in {0, 1}
      /\ Left(t, "retain", j) = 1 => lref[t][j] > 0 \/ Left(t, "persist", j) = 1
  <2>1. CASE todo[t] = << <<"retain", i>> >> /\ lref[t][i] > 0
    BY <2>1, LeftLiteral DEF One
  <2>2. CASE todo[t] = << <<"retain", i>>, <<"unfix", i>> >> /\ lref[t][i] > 0
    BY <2>2, LeftLiteral DEF One
  <2>3. CASE todo[t] = << <<"retain", i>>, <<"persist", i>> >>
    BY <2>3, LeftLiteral DEF One
  <2>4. CASE todo[t] = << <<"persist", i>> >>
    BY <2>4, LeftLiteral DEF One
  <2>5. CASE todo[t] = << <<"release", i>>, <<"unpersist", i>> >>
    BY <2>5, LeftLiteral DEF One
  <2>6. CASE todo[t] = << <<"unpersist", i>> >>
    BY <2>6, LeftLiteral DEF One
  <2> QED  BY <2>1, <2>2, <2>3, <2>4, <2>5, <2>6 DEF Retains, Modes
<1> QED  BY <1>1, <1>2, BasedType DEF Fixes, Lrefs

(* The same for a call that only gives back.                              *)
LEMMA UndoesCount ==
    ASSUME Types, NEW t \in Threads, Undoes(t), NEW j \in Slots
    PROVE  Fixes(t, j) \in Nat /\ Fixes(t, j) >= fix[t][j] + Left(t, "unfix", j) /\ Lrefs(t, j) \in Nat
<1>1. fix[t][j] \in Nat /\ lref[t][j] \in Nat
  BY DEF Types
<1>2. /\ Left(t, "fix", j) \in Nat /\ Left(t, "got", j) \in Nat /\ Left(t, "unfix", j) \in Nat
      /\ Left(t, "retain", j) \in Nat /\ Left(t, "persist", j) \in Nat
      /\ Left(t, "release", j) \in Nat
  BY LeftType
<1>3. /\ ~(\E k \in DOMAIN todo[t]: todo[t][k] = <<"fix", j>>)
      /\ ~(\E k \in DOMAIN todo[t]: todo[t][k] = <<"retain", j>>)
  BY DEF Undoes, Ends
<1>4. Left(t, "fix", j) = 0 /\ Left(t, "retain", j) = 0
  BY <1>2, <1>3, LeftSome, SMTT(30)
<1> QED  BY <1>1, <1>2, <1>4, BasedType DEF Fixes, Lrefs

(* What each thread contributes to the counts is a number.                 *)
ViewsUsed == \A i \in Slots: bbp[i].parent \in Slots => bbp[i].used /\ bbp[i].parent # i
Shapes == Types /\ ViewsUsed /\ \A t \in Threads: Shape(t)
(* Each thread has a natural number of fixes and of references of a bat.  *)
LEMMA CountsType ==
    Shapes => \A t \in Threads, j \in Slots:
                /\ Fixes(t, j) \in Nat /\ Fixes(t, j) >= fix[t][j] + Left(t, "unfix", j) /\ Lrefs(t, j) \in Nat
                /\ Left(t, "unshare", j) \in Nat /\ Loads(t, j) \in Nat /\ Unloads(t, j) \in Nat
<1> SUFFICES ASSUME Shapes, NEW t \in Threads, NEW j \in Slots
             PROVE  /\ Fixes(t, j) \in Nat /\ Fixes(t, j) >= fix[t][j] + Left(t, "unfix", j) /\ Lrefs(t, j) \in Nat
                    /\ Left(t, "unshare", j) \in Nat /\ Loads(t, j) \in Nat /\ Unloads(t, j) \in Nat
  OBVIOUS
<1>1. Types /\ Shape(t)
  BY DEF Shapes
<1>2. \A i, p \in Slots: FetchesView(t, i, p) => bbp[i].used /\ p # i
  BY DEF Shapes, ViewsUsed, FetchesView
<1>3. Fixes(t, j) \in Nat /\ Fixes(t, j) >= fix[t][j] + Left(t, "unfix", j) /\ Lrefs(t, j) \in Nat
  BY <1>1, <1>2, FetchesCount, FetchesViewCount, RetainsCount, UndoesCount DEF Shape
<1>4. Left(t, "unshare", j) \in Nat /\ Loads(t, j) \in Nat /\ Unloads(t, j) \in Nat
  <2>1. /\ Left(t, "unshare", j) \in Nat /\ Left(t, "base", j) \in Nat /\ Left(t, "read", j) \in Nat
        /\ Left(t, "unload", j) \in Nat /\ Left(t, "freed", j) \in Nat /\ Left(t, "clear", j) \in Nat
    BY <1>1, LeftType
  <2> QED  BY <2>1 DEF Loads, Unloads
<1> QED  BY <1>3, <1>4

-----------------------------------------------------------------------------
(***************************************************************************)
(* What the counts of a bat say.                                           *)
(***************************************************************************)
LEMMA InvShapes ==
    IInv => Shapes
BY DEF IInv, Shapes, ViewsUsed, Slot, ViewOK

(* A bat has a finite number of views.                                    *)
LEMMA ViewsFinite ==
    \A i: /\ IsFiniteSet(Views(i)) /\ Cardinality(Views(i)) \in Nat
          /\ IsFiniteSet(Holding(i)) /\ Cardinality(Holding(i)) \in Nat
          /\ Cardinality(Holding(i)) <= Cardinality(Views(i))
<1> SUFFICES ASSUME NEW i
             PROVE  /\ IsFiniteSet(Views(i)) /\ Cardinality(Views(i)) \in Nat
                    /\ IsFiniteSet(Holding(i)) /\ Cardinality(Holding(i)) \in Nat
                    /\ Cardinality(Holding(i)) <= Cardinality(Views(i))
  OBVIOUS
<1>1. IsFiniteSet(Slots)
  BY BBPRefsAssumption
<1>2. Views(i) \in SUBSET Slots /\ Holding(i) \in SUBSET Views(i)
  BY DEF Views, Holding
<1>3. IsFiniteSet(Views(i))
  BY <1>1, <1>2, FS_Subset
<1>4. IsFiniteSet(Holding(i)) /\ Cardinality(Holding(i)) <= Cardinality(Views(i))
  BY <1>2, <1>3, FS_Subset
<1> QED  BY <1>3, <1>4, FS_CardinalityType

(* The reference of the checkpoint counts once.                           *)
LEMMA OwnType ==
    \A i: Own(i) \in {0, 1}
BY DEF Own

(* The fixes of one thread, or of two, are within the count of the bat.   *)
LEMMA FixesBound ==
    IInv => \A t \in Threads, i \in Slots:
              /\ Fixes(t, i) + lost[i] + Cardinality(Holding(i)) <= bbp[i].refs
              /\ \A u \in Threads \ {t}: Fixes(t, i) + Fixes(u, i) <= bbp[i].refs
<1> SUFFICES ASSUME IInv, NEW t \in Threads, NEW i \in Slots
             PROVE  /\ Fixes(t, i) + lost[i] + Cardinality(Holding(i)) <= bbp[i].refs
                    /\ \A u \in Threads \ {t}: Fixes(t, i) + Fixes(u, i) <= bbp[i].refs
  OBVIOUS
<1>1. PICK f \in [Threads -> Nat]: f = [u \in Threads |-> Fixes(u, i)]
  BY InvShapes, CountsType
<1>2. bbp[i].refs = Sum(f) + lost[i] + Cardinality(Holding(i))
  BY <1>1 DEF IInv, Counted
<1>3. f[t] <= Sum(f) /\ \A u \in Threads \ {t}: f[t] + f[u] <= Sum(f)
  BY <1>1, SumTwo
<1>4. lost[i] \in Nat /\ Cardinality(Holding(i)) \in Nat /\ Sum(f) \in Nat
  BY ViewsFinite, SumType DEF IInv, Types
<1>5. \A u \in Threads: f[u] = Fixes(u, i) /\ f[u] \in Nat
  BY <1>1
<1> QED  BY <1>2, <1>3, <1>4, <1>5

(* The same for logical references.                                       *)
LEMMA LrefsBound ==
    IInv => \A t \in Threads, i \in Slots:
              /\ Lrefs(t, i) + Own(i) + Cardinality(Views(i)) <= bbp[i].lrefs
              /\ \A u \in Threads \ {t}: Lrefs(t, i) + Lrefs(u, i) <= bbp[i].lrefs
<1> SUFFICES ASSUME IInv, NEW t \in Threads, NEW i \in Slots
             PROVE  /\ Lrefs(t, i) + Own(i) + Cardinality(Views(i)) <= bbp[i].lrefs
                    /\ \A u \in Threads \ {t}: Lrefs(t, i) + Lrefs(u, i) <= bbp[i].lrefs
  OBVIOUS
<1>1. PICK f \in [Threads -> Nat]: f = [u \in Threads |-> Lrefs(u, i)]
  BY InvShapes, CountsType
<1>2. bbp[i].lrefs = Sum(f) + Own(i) + Cardinality(Views(i))
  BY <1>1 DEF IInv, Counted
<1>3. f[t] <= Sum(f) /\ \A u \in Threads \ {t}: f[t] + f[u] <= Sum(f)
  BY <1>1, SumTwo
<1>4. Own(i) \in Nat /\ Cardinality(Views(i)) \in Nat /\ Sum(f) \in Nat
  BY ViewsFinite, SumType, OwnType
<1>5. \A u \in Threads: f[u] = Lrefs(u, i) /\ f[u] \in Nat
  BY <1>1
<1> QED  BY <1>2, <1>3, <1>4, <1>5

(* The same for shares.                                                   *)
LEMMA SharesBound ==
    IInv => \A t \in Threads, i \in Slots:
              Left(t, "unshare", i) + Cardinality(Views(i)) <= bbp[i].share
<1> SUFFICES ASSUME IInv, NEW t \in Threads, NEW i \in Slots
             PROVE  Left(t, "unshare", i) + Cardinality(Views(i)) <= bbp[i].share
  OBVIOUS
<1>1. PICK f \in [Threads -> Nat]: f = [u \in Threads |-> Left(u, "unshare", i)]
  BY InvShapes, CountsType
<1>2. bbp[i].share = Sum(f) + Cardinality(Views(i))
  BY <1>1 DEF IInv, Counted
<1>3. f[t] <= Sum(f)
  BY <1>1, SumTwo
<1>4. Cardinality(Views(i)) \in Nat /\ Sum(f) \in Nat
  BY ViewsFinite, SumType
<1>5. f[t] = Left(t, "unshare", i) /\ f[t] \in Nat
  BY <1>1
<1> QED  BY <1>2, <1>3, <1>4, <1>5

(* The flags say that a thread will reset them, and which one that is.     *)
LEMMA OneUnloads ==
    IInv => \A t \in Threads, i \in Slots: Unloads(t, i) > 0 =>
              /\ "UNLOADING" \in bbp[i].status /\ Unloads(t, i) = 1
              /\ \A u \in Threads \ {t}: Unloads(u, i) = 0
<1> SUFFICES ASSUME IInv, NEW t \in Threads, NEW i \in Slots, Unloads(t, i) > 0
             PROVE  /\ "UNLOADING" \in bbp[i].status /\ Unloads(t, i) = 1
                    /\ \A u \in Threads \ {t}: Unloads(u, i) = 0
  OBVIOUS
<1>1. PICK f \in [Threads -> Nat]: f = [u \in Threads |-> Unloads(u, i)]
  BY InvShapes, CountsType
<1>2. Sum(f) = Flagged(i, "UNLOADING")
  BY <1>1 DEF IInv, Owned
<1>3. f[t] <= Sum(f) /\ \A u \in Threads \ {t}: f[t] + f[u] <= Sum(f)
  BY <1>1, SumTwo
<1>4. \A u \in Threads: f[u] = Unloads(u, i) /\ f[u] \in Nat
  BY <1>1
<1> QED  BY <1>2, <1>3, <1>4 DEF Flagged

(* One thread at a time loads a bat.                                      *)
LEMMA OneLoads ==
    IInv => \A t \in Threads, i \in Slots: Loads(t, i) > 0 =>
              /\ "LOADING" \in bbp[i].status /\ Loads(t, i) = 1
              /\ \A u \in Threads \ {t}: Loads(u, i) = 0
<1> SUFFICES ASSUME IInv, NEW t \in Threads, NEW i \in Slots, Loads(t, i) > 0
             PROVE  /\ "LOADING" \in bbp[i].status /\ Loads(t, i) = 1
                    /\ \A u \in Threads \ {t}: Loads(u, i) = 0
  OBVIOUS
<1>1. PICK f \in [Threads -> Nat]: f = [u \in Threads |-> Loads(u, i)]
  BY InvShapes, CountsType
<1>2. Sum(f) = Flagged(i, "LOADING")
  BY <1>1 DEF IInv, Owned
<1>3. f[t] <= Sum(f) /\ \A u \in Threads \ {t}: f[t] + f[u] <= Sum(f)
  BY <1>1, SumTwo
<1>4. \A u \in Threads: f[u] = Loads(u, i) /\ f[u] \in Nat
  BY <1>1
<1> QED  BY <1>2, <1>3, <1>4 DEF Flagged

(* LOADING is only set while a thread loads the bat.                      *)
LEMMA SomeoneLoads ==
    IInv => \A i \in Slots: "LOADING" \in bbp[i].status => \E t \in Threads: Loads(t, i) > 0
<1> SUFFICES ASSUME IInv, NEW i \in Slots, "LOADING" \in bbp[i].status,
                    \A t \in Threads: ~(Loads(t, i) > 0)
             PROVE  FALSE
  OBVIOUS
<1>1. PICK f \in [Threads -> Nat]: f = [u \in Threads |-> Loads(u, i)]
  BY InvShapes, CountsType
<1>2. Sum(f) = 1
  BY <1>1 DEF IInv, Owned, Flagged
<1>3. \A u \in Threads: f[u] = 0
  BY <1>1
<1> QED  BY <1>2, <1>3, SumZero

-----------------------------------------------------------------------------
(***************************************************************************)
(* The form of a call in which a step is left.                             *)
(***************************************************************************)
LEMMA BaseForm ==
    ASSUME Types, NEW t \in Threads, Shape(t), NEW i \in Slots, Left(t, "base", i) > 0
    PROVE  \E p \in Slots: FetchesView(t, i, p)
<1>1. PICK k \in DOMAIN todo[t]: todo[t][k] = <<"base", i>>
  BY LeftSome
<1>2. ASSUME NEW j \in Slots, Fetches(t, j) \/ Retains(t, j) \/ Modes(t, j)
      PROVE  FALSE
  BY <1>1, <1>2 DEF Fetches, Retains, Modes
<1>3. ~Undoes(t)
  BY <1>1 DEF Undoes, Ends
<1>4. PICK j \in Slots, p \in Slots: FetchesView(t, j, p)
  BY <1>2, <1>3 DEF Shape
<1>5. j = i
  BY <1>1, <1>4 DEF FetchesView
<1> QED  BY <1>4, <1>5

(* A thread that reads a bat from disk is within BATdescriptor.           *)
LEMMA ReadForm ==
    ASSUME Types, NEW t \in Threads, Shape(t), NEW i \in Slots, Left(t, "read", i) > 0
    PROVE  \/ todo[t] = << <<"read", i>>, <<"got", i>> >> /\ bbp[i].parent = 0
           \/ \E v \in Slots: /\ FetchesView(t, v, i)
                              /\ todo[t] = << <<"read", i>>, <<"base", v>>, <<"load", v>>, <<"got", v>> >>
<1>1. PICK k \in DOMAIN todo[t]: todo[t][k] = <<"read", i>>
  BY LeftSome
<1>2. ASSUME NEW j \in Slots, Retains(t, j) \/ Modes(t, j)
      PROVE  FALSE
  BY <1>1, <1>2 DEF Retains, Modes
<1>3. ~Undoes(t)
  BY <1>1 DEF Undoes, Ends
<1>4. ASSUME NEW j \in Slots, Fetches(t, j)
      PROVE  todo[t] = << <<"read", i>>, <<"got", i>> >> /\ bbp[i].parent = 0
  BY <1>1, <1>4 DEF Fetches
<1>5. ASSUME NEW j \in Slots, NEW p \in Slots, FetchesView(t, j, p)
      PROVE  p = i /\ todo[t] = << <<"read", i>>, <<"base", j>>, <<"load", j>>, <<"got", j>> >>
  BY <1>1, <1>5 DEF FetchesView
<1> QED  BY <1>2, <1>3, <1>4, <1>5 DEF Shape

(* What is left of the call that brings back a view.                      *)
LEMMA FetchesViewLeft ==
    ASSUME Types, NEW t \in Threads, NEW i \in Slots, NEW p \in Slots, FetchesView(t, i, p), p # i
    PROVE  /\ Left(t, "got", i) = 1 /\ Left(t, "fix", i) = 0 /\ Left(t, "unfix", i) = 0
           /\ Left(t, "base", i) = 1 /\ Left(t, "read", i) = 0
<1>1. CASE todo[t] = << <<"fix", p>>, <<"load", p>>, <<"base", i>>, <<"load", i>>, <<"got", i>> >>
  BY <1>1, LeftLiteral, SMTT(30) DEF One
<1>2. CASE todo[t] = << <<"load", p>>, <<"base", i>>, <<"load", i>>, <<"got", i>> >>
  BY <1>2, LeftLiteral, SMTT(60) DEF One
<1>3. CASE todo[t] = << <<"read", p>>, <<"base", i>>, <<"load", i>>, <<"got", i>> >>
  BY <1>3, LeftLiteral, SMTT(30) DEF One
<1>4. CASE todo[t] = << <<"base", i>>, <<"load", i>>, <<"got", i>> >>
  BY <1>4, LeftLiteral DEF One
<1> QED  BY <1>1, <1>2, <1>3, <1>4 DEF FetchesView

(* Who gives a view its base has the only fix of it.                       *)
LEMMA ViewLoading ==
    IInv => \A i, p \in Slots: "LOADING" \in bbp[i].status /\ bbp[i].parent = p =>
              \A u \in Threads: fix[u][i] = 0 /\ Left(u, "unfix", i) = 0
<1> SUFFICES ASSUME IInv, NEW i \in Slots, NEW p \in Slots, "LOADING" \in bbp[i].status, bbp[i].parent = p,
                    NEW u \in Threads
             PROVE  fix[u][i] = 0 /\ Left(u, "unfix", i) = 0
  OBVIOUS
<1>1. ViewOK(i, p)
  BY DEF IInv, Slot
<1>2. PICK t \in Threads: Loads(t, i) > 0
  BY SomeoneLoads
<1>3. Types /\ Shape(t)
  BY DEF IInv
<1>4. Left(t, "read", i) \in Nat /\ Left(t, "base", i) \in Nat
  BY <1>3, LeftType
<1>5. ~(Left(t, "read", i) > 0)
  <2>1. SUFFICES ASSUME Left(t, "read", i) > 0 PROVE FALSE
    OBVIOUS
  <2>2. bbp[i].parent # 0
    BY BBPRefsAssumption
  <2>3. PICK v \in Slots: FetchesView(t, v, i)
    BY <1>3, <2>1, <2>2, ReadForm
  <2>4. ViewOK(v, i)
    BY <2>3 DEF FetchesView, IInv, Slot
  <2> QED  BY <2>2, <2>4 DEF ViewOK
<1>6. Left(t, "base", i) > 0
  BY <1>2, <1>4, <1>5 DEF Loads
<1>7. FetchesView(t, i, p)
  BY <1>3, <1>6, BaseForm DEF FetchesView
<1>8. /\ Left(t, "got", i) = 1 /\ Left(t, "fix", i) = 0 /\ Left(t, "unfix", i) = 0
      /\ Left(t, "base", i) = 1
  BY <1>1, <1>3, <1>7, FetchesViewLeft DEF ViewOK
<1>9. fix[t][i] \in Nat /\ fix[u][i] \in Nat /\ lost[i] \in Nat
  BY DEF IInv, Types
<1>10. Fixes(t, i) >= fix[t][i] + 1
  BY <1>8, <1>9, BasedType DEF Fixes
<1>11. bbp[i].refs = 1
  BY <1>1 DEF ViewOK
<1>12. CASE u = t
  <2>1. Fixes(t, i) + lost[i] + Cardinality(Holding(i)) <= 1
    BY <1>11, FixesBound
  <2>2. Cardinality(Holding(i)) \in Nat /\ Fixes(t, i) \in Nat
    BY ViewsFinite, InvShapes, CountsType
  <2> QED  BY <2>1, <2>2, <1>8, <1>9, <1>10, <1>12
<1>13. CASE u # t
  <2>1. Fixes(t, i) + Fixes(u, i) <= 1
    BY <1>11, <1>13, FixesBound
  <2>2. Fixes(u, i) >= fix[u][i] + Left(u, "unfix", i)
    BY InvShapes, CountsType
  <2>3. Left(u, "unfix", i) \in Nat /\ Fixes(u, i) \in Nat /\ Fixes(t, i) \in Nat
    BY <1>3, LeftType, InvShapes, CountsType
  <2> QED  BY <2>1, <2>2, <2>3, <1>9, <1>10
<1> QED  BY <1>12, <1>13

-----------------------------------------------------------------------------
(***************************************************************************)
(* A step of one thread, as the others see it.                             *)
(***************************************************************************)
Mentions(u, i) == \E k \in DOMAIN todo[u]: todo[u][k][2] = i
Waits(u) == todo'[u] = todo[u] /\ fix'[u] = fix[u] /\ lref'[u] = lref[u]

(* What may happen to the bats in the call of u, and what never happens to *)
(* any bat.                                                                *)
SeenBy(u, i) ==
    /\ bbp'[i].used = bbp[i].used /\ bbp'[i].parent = bbp[i].parent
    /\ ~Loaded(bbp[i]) /\ Loaded(bbp'[i]) => "UNLOADING" \notin bbp[i].status
    /\ "UNLOADING" \in bbp[i].status =>
          /\ bbp'[i].lrefs = bbp[i].lrefs
          /\ "DELETED" \in bbp'[i].status => "DELETED" \in bbp[i].status
    /\ (Persistent(bbp'[i]) <=> Persistent(bbp[i])) \/ Sets(u, i) = 0
Stands(i) ==
    /\ Loaded(bbp[i]) /\ ~Loaded(bbp'[i]) => bbp[i].refs = 0
    /\ bbp'[i].heap # bbp[i].heap => Holding(i) = {}
    /\ Views(i) # {} => bbp'[i].used /\ bbp'[i].parent = bbp[i].parent

Unseen(u) == Waits(u) /\ \A i \in Slots: Mentions(u, i) => SeenBy(u, i)

(* A step that is left names its bat.                                     *)
LEMMA LeftMentions ==
    Types => \A u \in Threads: \A x, i: Left(u, x, i) > 0 => Mentions(u, i)
BY LeftSome DEF Mentions

(* What is left in a call that waits is the same.                         *)
LEMMA LeftSame ==
    ASSUME NEW u \in Threads, todo'[u] = todo[u]
    PROVE  \A x, i: Left(u, x, i)' = Left(u, x, i)
BY DEF Left

(* So are its counts of a bat whose views stay.                           *)
LEMMA CountsSame ==
    ASSUME Types, NEW u \in Threads, Unseen(u), NEW i \in Slots
    PROVE  /\ (Fixes(u, i))' = Fixes(u, i) /\ (Lrefs(u, i))' = Lrefs(u, i)
           /\ (Left(u, "unshare", i))' = Left(u, "unshare", i)
           /\ (Loads(u, i))' = Loads(u, i) /\ (Unloads(u, i))' = Unloads(u, i)
           /\ (Sets(u, i))' = Sets(u, i)
           /\ (Left(u, "unpersist", i))' = Left(u, "unpersist", i)
<1>1. \A x, j: Left(u, x, j)' = Left(u, x, j)
  BY LeftSame DEF Unseen, Waits
<1>2. Based(u, i)' = Based(u, i)
  <2>1. \A v \in Slots: Left(u, "base", v) > 0 => SeenBy(u, v)
    BY LeftMentions DEF Unseen
  <2>2. \A v \in Slots: Left(u, "base", v) > 0 => (v \in Views(i) <=> v \in Views(i)')
    BY <2>1 DEF SeenBy, Views
  <2>3. (\E v \in Views(i): Left(u, "base", v) > 0) <=> (\E v \in Views(i)': Left(u, "base", v)' > 0)
    <3>1. Views(i) \subseteq Slots /\ Views(i)' \subseteq Slots
      BY DEF Views
    <3> QED  BY <1>1, <2>2, <3>1
  <2> QED  BY <2>3 DEF Based
<1> QED  BY <1>1, <1>2 DEF Fixes, Lrefs, Loads, Unloads, Sets, Unseen, Waits

(* Its call keeps its form, and what it has fixed can be read.             *)
LEMMA FixesPositive ==
    IInv => \A u \in Threads, i \in Slots: Fixes(u, i) > 0 => bbp[i].refs > 0
<1> SUFFICES ASSUME IInv, NEW u \in Threads, NEW i \in Slots, Fixes(u, i) > 0
             PROVE  bbp[i].refs > 0
  OBVIOUS
<1>1. Fixes(u, i) + lost[i] + Cardinality(Holding(i)) <= bbp[i].refs
  BY FixesBound
<1>2. /\ Cardinality(Holding(i)) \in Nat /\ Fixes(u, i) \in Nat /\ lost[i] \in Nat
      /\ bbp[i].refs \in Nat
  BY ViewsFinite, InvShapes, CountsType, SMTT(60) DEF IInv, Types, Bats
<1> QED  BY <1>1, <1>2

(* A bat somebody fixed has a positive count.                             *)
LEMMA FixedPositive ==
    IInv => \A u \in Threads, i \in Slots: fix[u][i] > 0 => bbp[i].refs > 0
<1> SUFFICES ASSUME IInv, NEW u \in Threads, NEW i \in Slots, fix[u][i] > 0
             PROVE  bbp[i].refs > 0
  OBVIOUS
<1>1. /\ Fixes(u, i) \in Nat /\ Fixes(u, i) >= fix[u][i] + Left(u, "unfix", i)
      /\ Left(u, "unfix", i) \in Nat /\ fix[u][i] \in Nat
  BY InvShapes, CountsType, LeftType DEF IInv, Types
<1>2. Fixes(u, i) > 0
  BY <1>1
<1> QED  BY <1>2, FixesPositive

(* So has a bat with a view that holds its base.                          *)
LEMMA HoldingPositive ==
    IInv => \A i, v \in Slots: v \in Holding(i) => bbp[i].refs > 0
<1> SUFFICES ASSUME IInv, NEW i \in Slots, NEW v \in Slots, v \in Holding(i)
             PROVE  bbp[i].refs > 0
  OBVIOUS
<1>1. Cardinality(Holding(i)) > 0
  <2>1. IsFiniteSet(Holding(i)) /\ Holding(i) # {} /\ Cardinality(Holding(i)) \in Nat
    BY ViewsFinite
  <2>2. Cardinality(Holding(i)) # 0
    BY <2>1, FS_EmptySet
  <2> QED  BY <2>1, <2>2
<1>2. bbp[i].refs = Sum([u \in Threads |-> Fixes(u, i)]) + lost[i] + Cardinality(Holding(i))
  BY DEF IInv, Counted
<1>3. Sum([u \in Threads |-> Fixes(u, i)]) \in Nat
  <2>1. [u \in Threads |-> Fixes(u, i)] \in [Threads -> Nat]
    BY InvShapes, CountsType
  <2> QED  BY <2>1, SumType
<1>4. lost[i] \in Nat /\ Cardinality(Holding(i)) \in Nat
  BY ViewsFinite DEF IInv, Types
<1> QED  BY <1>1, <1>2, <1>3, <1>4

(* The calls of the threads that wait keep their form.                    *)
LEMMA ShapeSame ==
    ASSUME IInv, NEW u \in Threads, Unseen(u), \A i \in Slots: Stands(i)
    PROVE  Shape(u)'
<1>0. Types /\ Shape(u)
  BY DEF IInv
<1>1. /\ todo'[u] = todo[u] /\ fix'[u] = fix[u] /\ lref'[u] = lref[u]
      /\ \A i \in Slots: Mentions(u, i) => SeenBy(u, i)
  BY DEF Unseen, Waits
<1>2. ASSUME NEW i \in Slots, Fetches(u, i)
      PROVE  Fetches(u, i)'
  <2>1. Mentions(u, i)
    BY <1>2 DEF Fetches, Mentions
  <2> QED  BY <1>1, <1>2, <2>1 DEF Fetches, SeenBy
<1>3. ASSUME NEW i \in Slots, NEW p \in Slots, FetchesView(u, i, p)
      PROVE  FetchesView(u, i, p)'
  <2>1. Mentions(u, i)
    BY <1>3 DEF FetchesView, Mentions
  <2>2. bbp'[i].parent = p
    BY <1>1, <1>3, <2>1 DEF FetchesView, SeenBy
  <2>3. ASSUME todo[u] = << <<"base", i>>, <<"load", i>>, <<"got", i>> >>, Loaded(bbp[p])
        PROVE  Loaded(bbp'[p])
    <3>1. ViewOK(i, p)
      BY <1>3 DEF FetchesView, IInv, Slot
    <3>2. Left(u, "base", i) > 0 /\ Left(u, "fix", p) = 0
      BY <2>3, LeftLiteral DEF One
    <3>3. Based(u, p) = 1
      BY <1>3, <3>1, <3>2 DEF Based, Views, ViewOK, FetchesView
    <3>4. /\ Left(u, "unfix", p) \in Nat /\ Left(u, "got", p) \in Nat /\ fix[u][p] \in Nat
      BY <1>0, LeftType DEF Types
    <3>5. Fixes(u, p) > 0
      BY <3>2, <3>3, <3>4 DEF Fixes
    <3>6. bbp[p].refs > 0
      BY <3>5, FixesPositive
    <3> QED  BY <2>3, <3>6 DEF Stands
  <2> QED  BY <1>1, <1>3, <2>2, <2>3 DEF FetchesView
<1>4. ASSUME NEW i \in Slots, Retains(u, i)
      PROVE  Retains(u, i)'
  BY <1>1, <1>4 DEF Retains
<1>5. ASSUME NEW i \in Slots, Modes(u, i)
      PROVE  Modes(u, i)'
  <2>1. Mentions(u, i)
    BY <1>5 DEF Modes, Mentions
  <2>2. Sets(u, i) > 0
    <3>1. CASE todo[u] = << <<"retain", i>>, <<"persist", i>> >>
      BY <3>1, LeftLiteral DEF One, Sets
    <3>2. CASE todo[u] = << <<"persist", i>> >>
      BY <3>2, LeftLiteral DEF One, Sets
    <3>3. CASE todo[u] = << <<"release", i>>, <<"unpersist", i>> >>
      BY <3>3, LeftLiteral DEF One, Sets
    <3>4. CASE todo[u] = << <<"unpersist", i>> >>
      BY <3>4, LeftLiteral DEF One, Sets
    <3> QED  BY <1>5, <3>1, <3>2, <3>3, <3>4 DEF Modes
  <2>3. bbp'[i].parent = bbp[i].parent /\ (Persistent(bbp'[i]) <=> Persistent(bbp[i]))
    BY <1>1, <2>1, <2>2 DEF SeenBy
  <2> QED  BY <1>1, <1>5, <2>3 DEF Modes
<1>6. ASSUME Undoes(u)
      PROVE  Undoes(u)'
  <2>1. \A k \in DOMAIN todo'[u]: todo'[u][k] \in Ends /\ (k > 1 => todo'[u][k] \in GivesBack)
    BY <1>1, <1>6 DEF Undoes
  <2>2. ASSUME NEW i \in Slots
        PROVE  First(u, "unshare", i)' => Len(todo'[u]) > 1 /\ todo'[u][2] = <<"release", i>>
    BY <1>1, <1>6 DEF Undoes, First
  <2>3. ASSUME NEW i \in Slots, First(u, "freed", i)
        PROVE  ~Loaded(bbp'[i])
    <3>1. 1 \in DOMAIN todo[u] /\ todo[u][1] = <<"freed", i>>
      BY <1>0, <2>3 DEF First, Types
    <3>2. Mentions(u, i) /\ Left(u, "freed", i) > 0
      BY <1>0, <3>1, LeftSome DEF Mentions
    <3>3. "UNLOADING" \in bbp[i].status
      BY <1>0, <3>2, LeftType, OneUnloads DEF Unloads
    <3> QED  BY <1>1, <1>6, <2>3, <3>2, <3>3 DEF SeenBy, Undoes
  <2>4. ASSUME NEW i \in Slots, First(u, "clear", i)
        PROVE  bbp'[i].lrefs = 0 /\ "DELETED" \notin bbp'[i].status
    <3>1. 1 \in DOMAIN todo[u] /\ todo[u][1] = <<"clear", i>>
      BY <1>0, <2>4 DEF First, Types
    <3>2. Mentions(u, i) /\ Left(u, "clear", i) > 0
      BY <1>0, <3>1, LeftSome DEF Mentions
    <3>3. "UNLOADING" \in bbp[i].status
      BY <1>0, <3>2, LeftType, OneUnloads DEF Unloads
    <3> QED  BY <1>1, <1>6, <2>4, <3>2, <3>3 DEF SeenBy, Undoes
  <2> QED  BY <1>1, <2>1, <2>2, <2>3, <2>4 DEF Undoes, First
<1> QED  BY <1>0, <1>2, <1>3, <1>4, <1>5, <1>6 DEF Shape

-----------------------------------------------------------------------------
(***************************************************************************)
(* A step of thread t keeps the counts when what it adds to the counts of  *)
(* a bat is what it adds to those who refer to it.                         *)
(***************************************************************************)
Accounts(t, j) ==
    /\ bbp'[j].refs + Fixes(t, j) + lost[j] + Cardinality(Holding(j))
         = bbp[j].refs + Fixes(t, j)' + lost'[j] + Cardinality(Holding(j)')
    /\ bbp'[j].lrefs + Lrefs(t, j) + Own(j) + Cardinality(Views(j))
         = bbp[j].lrefs + Lrefs(t, j)' + Own(j)' + Cardinality(Views(j)')
    /\ bbp'[j].share + Left(t, "unshare", j) + Cardinality(Views(j))
         = bbp[j].share + Left(t, "unshare", j)' + Cardinality(Views(j)')
Resets(t, j) ==
    /\ Flagged(j, "LOADING")' + Loads(t, j) = Flagged(j, "LOADING") + Loads(t, j)'
    /\ Flagged(j, "UNLOADING")' + Unloads(t, j) = Flagged(j, "UNLOADING") + Unloads(t, j)'
    /\ Sets(t, j)' > 0 => Sets(t, j) > 0 \/ \A u \in Threads: Sets(u, j) = 0

(* The types of the counts and sets after the step.                       *)
LEMMA CountsTypeNext ==
    Shapes' => (\A t \in Threads, j \in Slots:
                /\ Fixes(t, j) \in Nat /\ Fixes(t, j) >= fix[t][j] + Left(t, "unfix", j) /\ Lrefs(t, j) \in Nat
                /\ Left(t, "unshare", j) \in Nat /\ Loads(t, j) \in Nat /\ Unloads(t, j) \in Nat)'
BY CountsType, PTL

LEMMA ViewsFiniteNext ==
    (\A i: Cardinality(Views(i)) \in Nat /\ Cardinality(Holding(i)) \in Nat)'
<1>1. \A i: Cardinality(Views(i)) \in Nat /\ Cardinality(Holding(i)) \in Nat
  BY ViewsFinite
<1> QED  BY <1>1, PTL

(* The counts stay exact when what the thread changes is accounted for.   *)
LEMMA CountedNext ==
    ASSUME IInv, Shapes', NEW t \in Threads, \A u \in Threads \ {t}: Unseen(u),
           NEW j \in Slots, Accounts(t, j)
    PROVE  Counted(j)'
<1>1. Types /\ Types' /\ Shapes /\ Counted(j)
  BY InvShapes DEF IInv, Shapes
<1>2. /\ Cardinality(Views(j)) \in Nat /\ Cardinality(Holding(j)) \in Nat
      /\ Cardinality(Views(j)') \in Nat /\ Cardinality(Holding(j)') \in Nat
  BY ViewsFinite, ViewsFiniteNext
<1>3. /\ bbp[j].refs \in Nat /\ bbp[j].lrefs \in Nat /\ bbp[j].share \in Nat /\ lost[j] \in Nat
      /\ bbp'[j].refs \in Nat /\ bbp'[j].lrefs \in Nat /\ bbp'[j].share \in Nat /\ lost'[j] \in Nat
  BY <1>1, SMTT(60) DEF Types, Bats
<1>4. Own(j) \in Nat /\ Own(j)' \in Nat
  BY DEF Own
<1>5. /\ \A u \in Threads: Fixes(u, j) \in Nat /\ Lrefs(u, j) \in Nat /\ Left(u, "unshare", j) \in Nat
      /\ \A u \in Threads: Fixes(u, j)' \in Nat /\ Lrefs(u, j)' \in Nat /\ Left(u, "unshare", j)' \in Nat
  BY <1>1, CountsType, CountsTypeNext
<1>6. \A u \in Threads \ {t}: /\ Fixes(u, j)' = Fixes(u, j) /\ Lrefs(u, j)' = Lrefs(u, j)
                             /\ Left(u, "unshare", j)' = Left(u, "unshare", j)
  BY <1>1, CountsSame
<1>7. bbp'[j].refs = Sum([u \in Threads |-> Fixes(u, j)']) + lost'[j] + Cardinality(Holding(j)')
  <2>1. PICK f \in [Threads -> Nat]: f = [u \in Threads |-> Fixes(u, j)]
    BY <1>5
  <2>2. PICK g \in [Threads -> Nat]: g = [u \in Threads |-> Fixes(u, j)']
    BY <1>5
  <2>3. Sum(g) + f[t] = Sum(f) + g[t]
    BY <1>6, <2>1, <2>2, SumStep
  <2>4. Sum(f) \in Nat /\ Sum(g) \in Nat
    BY SumType
  <2>5. bbp[j].refs = Sum(f) + lost[j] + Cardinality(Holding(j))
    BY <1>1, <2>1 DEF Counted
  <2>6. f[t] = Fixes(t, j) /\ g[t] = Fixes(t, j)' /\ f[t] \in Nat /\ g[t] \in Nat
    BY <2>1, <2>2
  <2>7. bbp'[j].refs = Sum(g) + lost'[j] + Cardinality(Holding(j)')
    BY <1>2, <1>3, <2>3, <2>4, <2>5, <2>6 DEF Accounts
  <2> QED  BY <2>2, <2>7
<1>8. bbp'[j].lrefs = Sum([u \in Threads |-> Lrefs(u, j)']) + Own(j)' + Cardinality(Views(j)')
  <2>1. PICK f \in [Threads -> Nat]: f = [u \in Threads |-> Lrefs(u, j)]
    BY <1>5
  <2>2. PICK g \in [Threads -> Nat]: g = [u \in Threads |-> Lrefs(u, j)']
    BY <1>5
  <2>3. Sum(g) + f[t] = Sum(f) + g[t]
    BY <1>6, <2>1, <2>2, SumStep
  <2>4. Sum(f) \in Nat /\ Sum(g) \in Nat
    BY SumType
  <2>5. bbp[j].lrefs = Sum(f) + Own(j) + Cardinality(Views(j))
    BY <1>1, <2>1 DEF Counted
  <2>6. f[t] = Lrefs(t, j) /\ g[t] = Lrefs(t, j)' /\ f[t] \in Nat /\ g[t] \in Nat
    BY <2>1, <2>2
  <2>7. bbp'[j].lrefs + f[t] + Own(j) + Cardinality(Views(j))
          = bbp[j].lrefs + g[t] + Own(j)' + Cardinality(Views(j)')
    BY <2>6 DEF Accounts
  <2>8. bbp'[j].lrefs = Sum(g) + Own(j)' + Cardinality(Views(j)')
    BY <1>2, <1>3, <1>4, <2>3, <2>4, <2>5, <2>6, <2>7
  <2> QED  BY <2>2, <2>8
<1>9. bbp'[j].share = Sum([u \in Threads |-> Left(u, "unshare", j)']) + Cardinality(Views(j)')
  <2>1. PICK f \in [Threads -> Nat]: f = [u \in Threads |-> Left(u, "unshare", j)]
    BY <1>5
  <2>2. PICK g \in [Threads -> Nat]: g = [u \in Threads |-> Left(u, "unshare", j)']
    BY <1>5
  <2>3. Sum(g) + f[t] = Sum(f) + g[t]
    BY <1>6, <2>1, <2>2, SumStep
  <2>4. Sum(f) \in Nat /\ Sum(g) \in Nat
    BY SumType
  <2>5. bbp[j].share = Sum(f) + Cardinality(Views(j))
    BY <1>1, <2>1 DEF Counted
  <2>6. f[t] = Left(t, "unshare", j) /\ g[t] = Left(t, "unshare", j)' /\ f[t] \in Nat /\ g[t] \in Nat
    BY <2>1, <2>2
  <2>7. bbp'[j].share = Sum(g) + Cardinality(Views(j)')
    BY <1>2, <1>3, <2>3, <2>4, <2>5, <2>6 DEF Accounts
  <2> QED  BY <2>2, <2>7
<1> QED  BY <1>7, <1>8, <1>9 DEF Counted

(* The flags stay with those who will reset them.                         *)
LEMMA OwnedNext ==
    ASSUME IInv, Shapes', NEW t \in Threads, \A u \in Threads \ {t}: Unseen(u),
           NEW j \in Slots, Resets(t, j)
    PROVE  Owned(j)'
<1>1. Types /\ Types' /\ Shapes /\ Owned(j)
  BY InvShapes DEF IInv, Shapes
<1>2. /\ \A u \in Threads: Loads(u, j) \in Nat /\ Unloads(u, j) \in Nat
      /\ \A u \in Threads: Loads(u, j)' \in Nat /\ Unloads(u, j)' \in Nat
  BY <1>1, CountsType, CountsTypeNext
<1>3. \A u \in Threads \ {t}: /\ Loads(u, j)' = Loads(u, j) /\ Unloads(u, j)' = Unloads(u, j)
                             /\ Sets(u, j)' = Sets(u, j)
  BY <1>1, CountsSame
<1>4. /\ Flagged(j, "LOADING") \in Nat /\ Flagged(j, "UNLOADING") \in Nat
      /\ Flagged(j, "LOADING")' \in Nat /\ Flagged(j, "UNLOADING")' \in Nat
  BY DEF Flagged
<1>5. Sum([u \in Threads |-> Loads(u, j)']) = Flagged(j, "LOADING")'
  <2>1. PICK f \in [Threads -> Nat]: f = [u \in Threads |-> Loads(u, j)]
    BY <1>2
  <2>2. PICK g \in [Threads -> Nat]: g = [u \in Threads |-> Loads(u, j)']
    BY <1>2
  <2>3. Sum(g) + f[t] = Sum(f) + g[t]
    BY <1>3, <2>1, <2>2, SumStep
  <2>4. Sum(f) \in Nat /\ Sum(g) \in Nat
    BY SumType
  <2>5. Sum(f) = Flagged(j, "LOADING")
    BY <1>1, <2>1 DEF Owned
  <2>6. f[t] = Loads(t, j) /\ g[t] = Loads(t, j)' /\ f[t] \in Nat /\ g[t] \in Nat
    BY <2>1, <2>2
  <2>7. Sum(g) = Flagged(j, "LOADING")'
    BY <1>4, <2>3, <2>4, <2>5, <2>6 DEF Resets
  <2> QED  BY <2>2, <2>7
<1>6. Sum([u \in Threads |-> Unloads(u, j)']) = Flagged(j, "UNLOADING")'
  <2>1. PICK f \in [Threads -> Nat]: f = [u \in Threads |-> Unloads(u, j)]
    BY <1>2
  <2>2. PICK g \in [Threads -> Nat]: g = [u \in Threads |-> Unloads(u, j)']
    BY <1>2
  <2>3. Sum(g) + f[t] = Sum(f) + g[t]
    BY <1>3, <2>1, <2>2, SumStep
  <2>4. Sum(f) \in Nat /\ Sum(g) \in Nat
    BY SumType
  <2>5. Sum(f) = Flagged(j, "UNLOADING")
    BY <1>1, <2>1 DEF Owned
  <2>6. f[t] = Unloads(t, j) /\ g[t] = Unloads(t, j)' /\ f[t] \in Nat /\ g[t] \in Nat
    BY <2>1, <2>2
  <2>7. Sum(g) = Flagged(j, "UNLOADING")'
    BY <1>4, <2>3, <2>4, <2>5, <2>6 DEF Resets
  <2> QED  BY <2>2, <2>7
<1>7. ASSUME NEW u \in Threads, NEW w \in Threads, Sets(u, j)' > 0, Sets(w, j)' > 0
      PROVE  u = w
  BY <1>1, <1>3, <1>7 DEF Resets, Owned
<1> QED  BY <1>5, <1>6, <1>7 DEF Owned

-----------------------------------------------------------------------------
(***************************************************************************)
(* What is to be shown of a step.                                          *)
(***************************************************************************)
LEMMA SlotSame ==
    ASSUME IInv, \A i \in Slots: Stands(i), NEW j \in Slots, bbp'[j] = bbp[j],
           ~bbp[j].used => Unknown(j)'
    PROVE  Slot(j)'
<1>1. Slot(j)
  BY DEF IInv
<1>2. ASSUME NEW p \in Slots, bbp[j].parent = p
      PROVE  ViewOK(j, p)'
  <2>1. ViewOK(j, p)
    BY <1>1, <1>2 DEF Slot
  <2>2. j \in Views(p)
    BY <1>2, <2>1 DEF ViewOK, Views
  <2>3. bbp'[p].used /\ bbp'[p].parent = 0
    BY <2>1, <2>2 DEF Stands, ViewOK
  <2>4. ASSUME HoldsBase(j)
        PROVE  Loaded(bbp'[p]) /\ bbp'[p].heap = bbp[p].heap
    <3>1. j \in Holding(p)
      BY <2>2, <2>4 DEF Holding
    <3>2. bbp[p].refs > 0
      BY <3>1, HoldingPositive
    <3>3. Loaded(bbp[p])
      BY <2>1, <2>4 DEF ViewOK
    <3> QED  BY <3>1, <3>2, <3>3 DEF Stands
  <2> QED  BY <2>1, <2>3, <2>4 DEF ViewOK, HoldsBase
<1>3. bbp'[j].used => BatOK(bbp'[j])
  BY <1>1 DEF Slot
<1>4. ~bbp'[j].used => bbp'[j] = Empty /\ Unknown(j)'
  BY <1>1 DEF Slot
<1> QED  BY <1>2, <1>3, <1>4 DEF Slot

(* What a step of one thread has to say of itself, and of the slots, to keep IInv. *)
LEMMA StepKeeps ==
    ASSUME IInv, Types', NEW t \in Threads, \A u \in Threads \ {t}: Unseen(u),
           \A i \in Slots: Stands(i), \A i \in Slots: Slot(i)', Shape(t)', Readable(t)',
           \A i \in Slots: Accounts(t, i), \A i \in Slots: Resets(t, i)
    PROVE  IInv'
<1>1. ASSUME NEW u \in Threads
      PROVE  Shape(u)' /\ Readable(u)'
  <2>1. CASE u = t
    BY <2>1
  <2>2. CASE u # t
    <3>1. Unseen(u)
      BY <2>2
    <3>2. Shape(u)'
      BY <3>1, ShapeSame
    <3>3. ASSUME NEW i \in Slots, fix'[u][i] > 0
          PROVE  Loaded(bbp'[i])
      <4>1. fix[u][i] > 0
        BY <3>1, <3>3 DEF Unseen, Waits
      <4>2. bbp[i].refs > 0 /\ Loaded(bbp[i])
        BY <4>1, FixedPositive DEF IInv, Readable
      <4> QED  BY <4>2 DEF Stands
    <3> QED  BY <3>2, <3>3 DEF Readable
  <2> QED  BY <2>1, <2>2
<1>2. Shapes'
  <2>1. ViewsUsed'
    BY DEF ViewsUsed, Slot, ViewOK
  <2> QED  BY <1>1, <2>1 DEF Shapes
<1>3. \A i \in Slots: Counted(i)' /\ Owned(i)'
  BY <1>2, CountedNext, OwnedNext
<1> QED  BY <1>1, <1>3 DEF IInv

(* Most steps change one bat, which stays in use.                          *)
Becomes(t, i, b) ==
    /\ bbp[i].used /\ b.used /\ b.parent = bbp[i].parent /\ BatOK(b)
    /\ Loaded(bbp[i]) /\ ~Loaded(b) => bbp[i].refs = 0
    /\ ~Loaded(bbp[i]) /\ Loaded(b) => "UNLOADING" \notin bbp[i].status
    /\ "UNLOADING" \in bbp[i].status =>
          b.lrefs = bbp[i].lrefs /\ ("DELETED" \in b.status => "DELETED" \in bbp[i].status)
    /\ (Persistent(b) <=> Persistent(bbp[i])) \/ Sets(t, i) > 0
    /\ b.heap = bbp[i].heap \/ Holding(i) = {}

(* A step that changes one slot and leaves parents and use alone.         *)
LEMMA LocalStep ==
    ASSUME IInv, Types', NEW t \in Threads, \A u \in Threads \ {t}: Waits(u),
           NEW i \in Slots, NEW b \in Bats, bbp' = [bbp EXCEPT ![i] = b], Becomes(t, i, b),
           \A p \in Slots: b.parent = p => ViewOK(i, p)',
           \A j \in Slots: ~bbp[j].used => Forgotten(t, j)',
           Shape(t)', Readable(t)',
           \A j \in Slots: Accounts(t, j), \A j \in Slots: Resets(t, j)
    PROVE  IInv'
<1>1. bbp \in [Slots -> Bats]
  BY DEF IInv, Types
<1>2. bbp'[i] = b /\ \A j \in Slots \ {i}: bbp'[j] = bbp[j]
  BY <1>1
<1>3. ASSUME NEW u \in Threads \ {t}
      PROVE  Unseen(u)
  <2>1. Sets(t, i) > 0 => Sets(u, i) = 0
    <3>1. Left(u, "persist", i) \in Nat /\ Left(u, "unpersist", i) \in Nat
      BY LeftType DEF IInv
    <3>2. Sets(u, i) \in Nat
      BY <3>1 DEF Sets
    <3>3. ~(Sets(t, i) > 0 /\ Sets(u, i) > 0)
      BY DEF IInv, Owned
    <3> QED  BY <3>2, <3>3
  <2>2. SeenBy(u, i)
    <3>1. bbp'[i] = b
      BY <1>2
    <3>2. b.used = bbp[i].used
      BY <1>1 DEF Becomes, Bats
    <3> QED  BY <3>1, <3>2, <2>1, Zenon DEF SeenBy, Becomes
  <2>3. \A j \in Slots \ {i}: SeenBy(u, j)
    BY <1>2 DEF SeenBy
  <2> QED  BY <2>2, <2>3 DEF Unseen
<1>4. ASSUME NEW j \in Slots
      PROVE  Stands(j)
  <2>1. CASE j = i
    BY <1>2, <2>1 DEF Stands, Becomes
  <2>2. CASE j # i
    <3>1. Views(j) # {} => bbp[j].used
      BY DEF Views, IInv, Slot, ViewOK
    <3> QED  BY <1>2, <2>2, <3>1 DEF Stands
  <2> QED  BY <2>1, <2>2
<1>5. ASSUME NEW j \in Slots
      PROVE  Slot(j)'
  <2>1. CASE j = i
    BY <1>2, <2>1 DEF Slot, Becomes
  <2>2. CASE j # i
    <3>1. ASSUME ~bbp[j].used
          PROVE  Unknown(j)'
      <4>1. Unknown(j)
        BY <3>1 DEF IInv, Slot
      <4>2. \A u \in Threads \ {t}: Forgotten(u, j)'
        BY <4>1 DEF Unknown, Forgotten, Waits
      <4>3. \A v \in Slots: bbp'[v].parent # j
        BY <1>2, <4>1 DEF Unknown, Becomes
      <4> QED  BY <3>1, <4>2, <4>3 DEF Unknown
    <3> QED  BY <1>2, <1>4, <2>2, <3>1, SlotSame
  <2> QED  BY <2>1, <2>2
<1> QED  BY <1>3, <1>4, <1>5, StepKeeps

(***************************************************************************)
(* The rest of a call after a step, and at its beginning.                  *)
(***************************************************************************)
LEMMA Advance ==
    ASSUME Types, NEW t \in Threads, NEW i \in Slots, NEW x, NEW p \in Seq(Steps),
           At(t, x, i), Then(t, p)
    PROVE  /\ todo' \in [Threads -> Seq(Steps)]
           /\ \A u \in Threads \ {t}: todo'[u] = todo[u]
           /\ todo'[t] = p \o Tail(todo[t])
           /\ \A y, j: Left(t, y, j)' = Occ(p, <<y, j>>)
                         + (IF x = y /\ i = j THEN Left(t, y, j) - 1 ELSE Left(t, y, j))
<1>1. todo[t] \in Seq(Steps) /\ todo[t] # <<>> /\ todo[t][1] = <<x, i>>
  BY DEF Types, At
<1>2. p \o Tail(todo[t]) \in Seq(Steps)
  BY <1>1, OccReplaced
<1>3. /\ todo' = [todo EXCEPT ![t] = p \o Tail(todo[t])]
      /\ todo'[t] = p \o Tail(todo[t])
      /\ \A u \in Threads \ {t}: todo'[u] = todo[u]
  BY DEF Types, Then
<1>4. todo' \in [Threads -> Seq(Steps)]
  BY <1>2, <1>3 DEF Types
<1>5. ASSUME NEW y, NEW j
      PROVE  Left(t, y, j)' = Occ(p, <<y, j>>)
                + (IF x = y /\ i = j THEN Left(t, y, j) - 1 ELSE Left(t, y, j))
  <2>1. Left(t, y, j)' = Occ(p \o Tail(todo[t]), <<y, j>>)
    BY <1>3 DEF Left, Occ, Places
  <2>2. Occ(p \o Tail(todo[t]), <<y, j>>)
          = Occ(p, <<y, j>>) + Occ(todo[t], <<y, j>>) - One(<<x, i>>, <<y, j>>)
    <3>1. \A q \in Seq(Steps): \A z: q # <<>> =>
            Occ(p \o Tail(q), z) = Occ(p, z) + Occ(q, z) - One(q[1], z)
      BY OccReplaced
    <3> QED  BY <1>1, <3>1
  <2>3. Occ(todo[t], <<y, j>>) = Left(t, y, j)
    BY LeftOcc
  <2>4. Left(t, y, j) \in Nat /\ Occ(p, <<y, j>>) \in Nat
    BY LeftType, OccType
  <2>5. One(<<x, i>>, <<y, j>>) = IF x = y /\ i = j THEN 1 ELSE 0
    BY DEF One
  <2> QED  BY <2>1, <2>2, <2>3, <2>4, <2>5
<1> QED  BY <1>3, <1>4, <1>5

(* The step that was done is left once less.                              *)
LEMMA Done ==
    ASSUME Types, NEW t \in Threads, NEW i \in Slots, NEW x, At(t, x, i), Then(t, <<>>)
    PROVE  /\ todo' \in [Threads -> Seq(Steps)]
           /\ \A u \in Threads \ {t}: todo'[u] = todo[u]
           /\ todo'[t] = Tail(todo[t])
           /\ \A y, j: Left(t, y, j)' = IF x = y /\ i = j THEN Left(t, y, j) - 1 ELSE Left(t, y, j)
<1>0. <<>> \in Seq(Steps)
  OBVIOUS
<1>1. PICK p \in Seq(Steps): p = <<>>
  BY <1>0, Zenon
<1>2. Then(t, p)
  BY <1>1
<1>3. /\ todo' \in [Threads -> Seq(Steps)]
      /\ \A u \in Threads \ {t}: todo'[u] = todo[u]
      /\ todo'[t] = p \o Tail(todo[t])
      /\ \A y, j: Left(t, y, j)' = Occ(p, <<y, j>>)
                    + (IF x = y /\ i = j THEN Left(t, y, j) - 1 ELSE Left(t, y, j))
  BY <1>2, Advance
<1>4. todo'[t] = Tail(todo[t])
  <2>1. Tail(todo[t]) \in Seq(Steps)
    BY DEF Types, At
  <2>2. p \o Tail(todo[t]) = Tail(todo[t])
    BY <1>1, <2>1, ConcatEmptySeq
  <2> QED  BY <1>3, <2>2
<1>5. ASSUME NEW y, NEW j
      PROVE  Left(t, y, j)' = IF x = y /\ i = j THEN Left(t, y, j) - 1 ELSE Left(t, y, j)
  <2>1. Left(t, y, j) \in Nat
    BY LeftType
  <2>2. Occ(p, <<y, j>>) = 0
    BY <1>1, OccNone
  <2> QED  BY <1>3, <2>1, <2>2
<1> QED  BY <1>3, <1>4, <1>5

(* A call begins with the steps of its sequence.                          *)
LEMMA Begins ==
    ASSUME Types, NEW t \in Threads, NEW q \in Seq(Steps), Called(t, q)
    PROVE  /\ todo' \in [Threads -> Seq(Steps)] /\ calls' \in Nat
           /\ \A u \in Threads \ {t}: todo'[u] = todo[u]
           /\ todo[t] = <<>> /\ todo'[t] = q
           /\ \A y, j: Left(t, y, j) = 0 /\ Left(t, y, j)' = Occ(q, <<y, j>>)
<1>1. todo[t] = <<>> /\ todo' = [todo EXCEPT ![t] = q] /\ calls' \in Nat
  BY DEF Called, Idle, Types
<1>2. todo' \in [Threads -> Seq(Steps)] /\ todo'[t] = q /\ \A u \in Threads \ {t}: todo'[u] = todo[u]
  BY <1>1 DEF Types
<1>3. \A y, j: Left(t, y, j) = 0
  BY <1>1, LeftLiteral
<1>4. \A y, j: Left(t, y, j)' = Occ(q, <<y, j>>)
  BY <1>2 DEF Left, Occ, Places
<1> QED  BY <1>1, <1>2, <1>3, <1>4

(***************************************************************************)
(* The views of a bat when a step changes one bat, which keeps its parent. *)
(***************************************************************************)
LEMMA ViewsLocal ==
    ASSUME Types, NEW i \in Slots, NEW b, bbp' = [bbp EXCEPT ![i] = b],
           b.used = bbp[i].used, b.parent = bbp[i].parent, NEW j
    PROVE  /\ Views(j)' = Views(j)
           /\ bbp[i].parent # j => Holding(j)' = Holding(j)
<1>1. bbp'[i] = b /\ \A v \in Slots \ {i}: bbp'[v] = bbp[v]
  BY DEF Types
<1>2. \A v \in Slots: bbp'[v].used = bbp[v].used /\ bbp'[v].parent = bbp[v].parent
  BY <1>1
<1>3. Views(j)' = Views(j)
  BY <1>2 DEF Views
<1>4. ASSUME bbp[i].parent # j, NEW v \in Views(j)
      PROVE  HoldsBase(v)' <=> HoldsBase(v)
  BY <1>1, <1>4 DEF Views, HoldsBase
<1> QED  BY <1>3, <1>4 DEF Holding

(* Sets of views that a change of another slot leaves alone.              *)
LEMMA HoldingLocal ==
    ASSUME Types, NEW i \in Slots, NEW b, bbp' = [bbp EXCEPT ![i] = b],
           b.used = bbp[i].used, b.parent = bbp[i].parent, NEW j,
           b.parent = j => (HoldsBase(i)' <=> HoldsBase(i))
    PROVE  Holding(j)' = Holding(j)
<1>1. bbp'[i] = b /\ \A v \in Slots \ {i}: bbp'[v] = bbp[v]
  BY DEF Types
<1>2. Views(j)' = Views(j)
  BY ViewsLocal
<1>3. ASSUME NEW v \in Views(j)
      PROVE  HoldsBase(v)' <=> HoldsBase(v)
  BY <1>1, <1>3 DEF Views, HoldsBase
<1> QED  BY <1>2, <1>3 DEF Holding

(* A call is on the way to the base of the same views as before.          *)
LEMMA BasedLocal ==
    ASSUME NEW t \in Threads, NEW j, Views(j)' = Views(j),
           \A v: Left(t, "base", v)' = Left(t, "base", v)
    PROVE  Based(t, j)' = Based(t, j)
BY DEF Based

(* The reference of the checkpoint is where it was.                       *)
LEMMA OwnLocal ==
    ASSUME NEW t \in Threads, \A u \in Threads \ {t}: todo'[u] = todo[u], NEW j \in Slots,
           Left(t, "unpersist", j)' = Left(t, "unpersist", j),
           Persistent(bbp'[j]) <=> Persistent(bbp[j])
    PROVE  Own(j)' = Own(j)
<1>1. \A u \in Threads: Left(u, "unpersist", j)' = Left(u, "unpersist", j)
  BY LeftSame
<1> QED  BY <1>1 DEF Own

(***************************************************************************)
(* A step that changes one bat but neither views nor the fixes these hold. *)
(***************************************************************************)
Refers(t, j) == fix[t][j] + Left(t, "unfix", j) + Left(t, "got", j) - Left(t, "fix", j)
PlainAccounts(t, j) ==
    /\ bbp'[j].refs + Refers(t, j) + lost[j] = bbp[j].refs + Refers(t, j)' + lost'[j]
    /\ bbp'[j].lrefs + (Lrefs(t, j) + Own(j)) = bbp[j].lrefs + (Lrefs(t, j)' + Own(j)')
    /\ bbp'[j].share + Left(t, "unshare", j) = bbp[j].share + Left(t, "unshare", j)'

(* Counts of references and of steps left are all that a plain step has to match. *)
LEMMA AccountsPlain ==
    ASSUME IInv, Types', NEW t \in Threads, NEW j \in Slots,
           Views(j)' = Views(j), Holding(j)' = Holding(j),
           \A v: Left(t, "base", v)' = Left(t, "base", v),
           PlainAccounts(t, j)
    PROVE  Accounts(t, j)
<1>1. Based(t, j)' = Based(t, j) /\ Based(t, j) \in {0, 1}
  BY BasedLocal, BasedType
<1>2. Types
  BY DEF IInv
<1>3. /\ fix[t][j] \in Nat /\ lref[t][j] \in Nat /\ fix'[t][j] \in Nat /\ lref'[t][j] \in Nat
      /\ lost[j] \in Nat /\ lost'[j] \in Nat
      /\ bbp[j].refs \in Nat /\ bbp[j].lrefs \in Nat /\ bbp[j].share \in Nat
      /\ bbp'[j].refs \in Nat /\ bbp'[j].lrefs \in Nat /\ bbp'[j].share \in Nat
  BY <1>2, SMTT(60) DEF Types, Bats
<1>4. \A x: Left(t, x, j) \in Nat /\ Left(t, x, j)' \in Nat
  BY <1>2, LeftType, LeftTypeNext
<1>5. Own(j) \in Nat /\ Own(j)' \in Nat
  BY DEF Own
<1>6. Cardinality(Holding(j)) \in Nat /\ Cardinality(Views(j)) \in Nat
  BY ViewsFinite
<1>0. /\ Refers(t, j) \in Int /\ Refers(t, j)' \in Int /\ Lrefs(t, j) \in Int /\ Lrefs(t, j)' \in Int
       /\ Fixes(t, j) = Refers(t, j) + Based(t, j) /\ Fixes(t, j)' = Refers(t, j)' + Based(t, j)
  BY <1>1, <1>3, <1>4 DEF Refers, Fixes, Lrefs
<1>7. bbp'[j].refs + Fixes(t, j) + lost[j] + Cardinality(Holding(j))
         = bbp[j].refs + Fixes(t, j)' + lost'[j] + Cardinality(Holding(j)')
  BY <1>1, <1>3, <1>6, <1>0 DEF PlainAccounts
<1>8. bbp'[j].lrefs + Lrefs(t, j) + Own(j) + Cardinality(Views(j))
         = bbp[j].lrefs + Lrefs(t, j)' + Own(j)' + Cardinality(Views(j)')
  BY <1>3, <1>5, <1>6, <1>0 DEF PlainAccounts
<1>9. bbp'[j].share + Left(t, "unshare", j) + Cardinality(Views(j))
         = bbp[j].share + Left(t, "unshare", j)' + Cardinality(Views(j)')
  BY <1>3, <1>4, <1>6 DEF PlainAccounts
<1> QED  BY <1>7, <1>8, <1>9 DEF Accounts

(* A view in use keeps its base.                                           *)
Undisturbed(i, b) ==
    b.parent # 0 => /\ b.heap = bbp[i].heap /\ b.base = bbp[i].base /\ Loaded(b)
                    /\ b.status \subseteq {"LOADED", "UNLOADING", "LOADING"}
                    /\ "LOADING" \in b.status => b.refs = 1
                    /\ (b.refs > 0 /\ "LOADING" \notin b.status) <=> HoldsBase(i)

(* A step that changes the counts of one slot, and nothing that others look at. *)
LEMMA PlainStep ==
    ASSUME IInv, Types', NEW t \in Threads, \A u \in Threads \ {t}: Waits(u),
           NEW i \in Slots, NEW b \in Bats, bbp' = [bbp EXCEPT ![i] = b],
           Becomes(t, i, b), Undisturbed(i, b),
           \A v: Left(t, "base", v)' = Left(t, "base", v),
           \A j \in Slots: ~bbp[j].used => Forgotten(t, j)',
           Shape(t)', Readable(t)',
           \A j \in Slots: PlainAccounts(t, j), \A j \in Slots: Resets(t, j)
    PROVE  IInv'
<1>1. Types /\ bbp'[i] = b /\ \A j \in Slots \ {i}: bbp'[j] = bbp[j]
  BY DEF IInv, Types
<1>2. b.used = bbp[i].used /\ b.parent = bbp[i].parent
  BY <1>1 DEF Becomes, Types, Bats
<1>3. HoldsBase(i)' <=> (b.refs > 0 /\ "LOADING" \notin b.status)
  BY <1>1 DEF HoldsBase
<1>4. ASSUME NEW j \in Slots
      PROVE  Accounts(t, j)
  <2>1. Views(j)' = Views(j)
    BY <1>1, <1>2, ViewsLocal
  <2>2. b.parent = j => (HoldsBase(i)' <=> HoldsBase(i))
    BY <1>3, BBPRefsAssumption DEF Undisturbed
  <2>3. Holding(j)' = Holding(j)
    BY <1>1, <1>2, <2>2, HoldingLocal
  <2> QED  BY <2>1, <2>3, AccountsPlain
<1>5. ASSUME NEW p \in Slots, b.parent = p
      PROVE  ViewOK(i, p)'
  <2>1. ViewOK(i, p)
    BY <1>2, <1>5 DEF IInv, Slot
  <2>2. bbp'[p] = bbp[p]
    BY <1>1, <2>1 DEF ViewOK
  <2>3. b.parent # 0
    BY <1>5, BBPRefsAssumption
  <2> QED  BY <1>1, <1>2, <1>3, <2>1, <2>2, <2>3 DEF ViewOK, Undisturbed, Loaded, Becomes
<1> QED  BY <1>4, <1>5, LocalStep

-----------------------------------------------------------------------------
(***************************************************************************)
(* The calls that only begin.                                              *)
(***************************************************************************)
LEMMA KnownUsed ==
    IInv => \A t \in Threads, i \in Slots: fix[t][i] + lref[t][i] > 0 => bbp[i].used
BY DEF IInv, Slot, Unknown, Forgotten

(* A call about bat i that does nothing but to change what its thread has. *)
Announces(t, i, q) ==
    /\ bbp' = bbp /\ lost' = lost /\ bbp[i].used
    /\ fix' \in [Threads -> [Slots -> Nat]] /\ lref' \in [Threads -> [Slots -> Nat]]
    /\ \A u \in Threads \ {t}: fix'[u] = fix[u] /\ lref'[u] = lref[u]
    /\ \A j \in Slots \ {i}: fix'[t][j] = fix[t][j] /\ lref'[t][j] = lref[t][j]
    /\ fix'[t][i] <= fix[t][i]
    /\ \A k \in DOMAIN q: q[k][2] = i
Promises(t, i) ==
    /\ \A y, j: j # i => Left(t, y, j)' = 0
    /\ Left(t, "base", i)' = 0 /\ Left(t, "read", i)' = 0 /\ Left(t, "unload", i)' = 0
    /\ Left(t, "freed", i)' = 0 /\ Left(t, "clear", i)' = 0 /\ Left(t, "unshare", i)' = 0
    /\ Refers(t, i)' = Refers(t, i) /\ Lrefs(t, i)' + Own(i)' = Lrefs(t, i) + Own(i)
    /\ Sets(t, i)' > 0 => \A u \in Threads: Sets(u, i) = 0

(* A call that begins and changes no slot.                                *)
LEMMA CallKeeps ==
    ASSUME IInv, NEW t \in Threads, NEW i \in Slots, NEW q \in Seq(Steps), Called(t, q),
           Announces(t, i, q), Promises(t, i), Shape(t)'
    PROVE  IInv'
<1>1. Types
  BY DEF IInv
<1>2. /\ todo' \in [Threads -> Seq(Steps)] /\ calls' \in Nat
      /\ \A u \in Threads \ {t}: todo'[u] = todo[u]
      /\ todo[t] = <<>> /\ todo'[t] = q
      /\ \A y, j: Left(t, y, j) = 0
  BY <1>1, Begins
<1>3. Types'
  BY <1>1, <1>2 DEF Types, Announces
<1>4. \A u \in Threads \ {t}: Waits(u)
  BY <1>2 DEF Waits, Announces
<1>5. bbp[i] \in Bats /\ bbp' = [bbp EXCEPT ![i] = bbp[i]]
  BY <1>1 DEF Types, Announces
<1>6. Becomes(t, i, bbp[i])
  BY DEF Becomes, IInv, Slot, Announces
<1>7. Undisturbed(i, bbp[i])
  <2>1. \A p \in Slots: bbp[i].parent = p => ViewOK(i, p)
    BY DEF IInv, Slot
  <2>2. bbp[i].parent \in Slots \cup {0}
    BY <1>5 DEF Bats
  <2> QED  BY <2>1, <2>2 DEF Undisturbed, ViewOK, HoldsBase, Loaded
<1>8. \A v: Left(t, "base", v)' = Left(t, "base", v)
  BY <1>2 DEF Promises
<1>9. ASSUME NEW j \in Slots, ~bbp[j].used
      PROVE  Forgotten(t, j)'
  BY <1>2, <1>9, ZenonT(60) DEF Forgotten, IInv, Slot, Unknown, Announces
<1>10. ASSUME NEW j \in Slots, fix'[t][j] > 0
       PROVE  Loaded(bbp'[j])
  <2>1. fix[t][j] \in Nat /\ fix'[t][j] \in Nat
    BY <1>1, <1>3 DEF Types
  <2>3. fix'[t][j] <= fix[t][j]
    BY <2>1 DEF Announces
  <2>2. fix[t][j] > 0
    BY <1>10, <2>1, <2>3
  <2> QED  BY <2>2 DEF IInv, Readable, Announces
<1>11. ASSUME NEW j \in Slots
       PROVE  PlainAccounts(t, j)
  <2>1. bbp' = bbp /\ lost' = lost
    BY DEF Announces
  <2>2. CASE j = i
    <3>1. Left(t, "unshare", i)' = 0 /\ Left(t, "unshare", i) = 0
      BY <1>2 DEF Promises
    <3>2. Refers(t, i)' = Refers(t, i) /\ Lrefs(t, i)' + Own(i)' = Lrefs(t, i) + Own(i)
      BY DEF Promises
    <3> QED  BY <2>1, <2>2, <3>1, <3>2, Zenon DEF PlainAccounts
  <2>3. CASE j # i
    <3>1. \A x: Left(t, x, j)' = Left(t, x, j)
      BY <1>2, <2>3 DEF Promises
    <3>2. Own(j)' = Own(j)
      BY <1>2, <2>1, <3>1, OwnLocal
    <3>3. fix'[t][j] = fix[t][j] /\ lref'[t][j] = lref[t][j]
      BY <2>3 DEF Announces
    <3>4. Refers(t, j)' = Refers(t, j) /\ Lrefs(t, j)' = Lrefs(t, j)
      BY <3>1, <3>3 DEF Refers, Lrefs
    <3> QED  BY <2>1, <3>1, <3>2, <3>4 DEF PlainAccounts
  <2> QED  BY <2>2, <2>3
<1>12. ASSUME NEW j \in Slots
       PROVE  Resets(t, j)
  <2>1. Loads(t, j) = 0 /\ Unloads(t, j) = 0
    BY <1>2 DEF Loads, Unloads
  <2>2. Loads(t, j)' = 0 /\ Unloads(t, j)' = 0
    BY DEF Loads, Unloads, Promises
  <2>3. j # i => Sets(t, j)' = 0
    BY DEF Sets, Promises
  <2>4. /\ Flagged(j, "LOADING")' = Flagged(j, "LOADING")
        /\ Flagged(j, "UNLOADING")' = Flagged(j, "UNLOADING")
    BY DEF Flagged, Announces
  <2>5. Flagged(j, "LOADING") \in Nat /\ Flagged(j, "UNLOADING") \in Nat
    BY DEF Flagged
  <2> QED  BY <2>1, <2>2, <2>3, <2>4, <2>5 DEF Resets, Promises
<1> QED  BY <1>3, <1>4, <1>5, <1>6, <1>7, <1>8, <1>9, <1>10, <1>11, <1>12, PlainStep DEF Readable

(* A call about one bat, step by step.                                     *)
About(t, i, q, names) ==
    /\ q \in Seq(Steps) /\ \A k \in DOMAIN q: q[k][2] = i
    /\ todo[t] = <<>> /\ todo'[t] = q
    /\ \A y, j: Left(t, y, j) = 0 /\ Left(t, y, j)' = IF j = i /\ y \in names THEN 1 ELSE 0

(* The indicator of a step compares its name and its bat.                 *)
LEMMA OnePair ==
    \A x, i, y, j: One(<<x, i>>, <<y, j>>) = IF x = y /\ i = j THEN 1 ELSE 0
BY DEF One

(* The steps of a call about one bat.                                     *)
LEMMA AboutOne ==
    ASSUME Types, NEW t \in Threads, NEW i \in Slots, NEW x, <<x, i>> \in Steps, NEW q,
           q = << <<x, i>> >>, Called(t, q)
    PROVE  About(t, i, q, {x})
<1>1. q \in Seq(Steps)
  OBVIOUS
<1>2. \A k \in DOMAIN q: q[k][2] = i
  OBVIOUS
<1>3. todo[t] = <<>> /\ todo'[t] = q /\ \A y, j: Left(t, y, j) = 0 /\ Left(t, y, j)' = Occ(q, <<y, j>>)
  BY <1>1, Begins
<1>4. \A y, j: Occ(q, <<y, j>>) = One(<<x, i>>, <<y, j>>)
  BY OccOne
<1>5. ASSUME NEW y, NEW j
      PROVE  Left(t, y, j) = 0 /\ Left(t, y, j)' = IF j = i /\ y \in {x} THEN 1 ELSE 0
  <2>1. Left(t, y, j) = 0 /\ Left(t, y, j)' = One(<<x, i>>, <<y, j>>)
    BY <1>3, <1>4, Zenon
  <2>2. /\ One(<<x, i>>, <<y, j>>) = IF x = y /\ i = j THEN 1 ELSE 0
    BY OnePair
  <2> QED  BY <2>1, <2>2
<1> QED  BY <1>1, <1>2, <1>3, <1>5, Zenon DEF About

LEMMA AboutTwo ==
    ASSUME Types, NEW t \in Threads, NEW i \in Slots, NEW x, NEW y, x # y,
           <<x, i>> \in Steps, <<y, i>> \in Steps,
           NEW q, q = << <<x, i>>, <<y, i>> >>, Called(t, q)
    PROVE  About(t, i, q, {x, y})
<1>1. q \in Seq(Steps)
  OBVIOUS
<1>2. \A k \in DOMAIN q: q[k][2] = i
  OBVIOUS
<1>3. todo[t] = <<>> /\ todo'[t] = q /\ \A z, j: Left(t, z, j) = 0 /\ Left(t, z, j)' = Occ(q, <<z, j>>)
  BY <1>1, Begins
<1>4. \A z, j: Occ(q, <<z, j>>) = One(<<x, i>>, <<z, j>>) + One(<<y, i>>, <<z, j>>)
  BY OccTwo
<1>5. ASSUME NEW z, NEW j
      PROVE  Left(t, z, j) = 0 /\ Left(t, z, j)' = IF j = i /\ z \in {x, y} THEN 1 ELSE 0
  <2>1. Left(t, z, j) = 0 /\ Left(t, z, j)' = One(<<x, i>>, <<z, j>>) + One(<<y, i>>, <<z, j>>)
    BY <1>3, <1>4, Zenon
  <2>2. /\ One(<<x, i>>, <<z, j>>) = IF x = z /\ i = j THEN 1 ELSE 0
        /\ One(<<y, i>>, <<z, j>>) = IF y = z /\ i = j THEN 1 ELSE 0
    BY OnePair
  <2> QED  BY <2>1, <2>2
<1> QED  BY <1>1, <1>2, <1>3, <1>5, Zenon DEF About

LEMMA AboutThree ==
    ASSUME Types, NEW t \in Threads, NEW i \in Slots, NEW x, NEW y, NEW z,
           <<x, i>> \in Steps, <<y, i>> \in Steps, <<z, i>> \in Steps,
           x # y, x # z, y # z, NEW q, q = << <<x, i>>, <<y, i>>, <<z, i>> >>, Called(t, q)
    PROVE  About(t, i, q, {x, y, z})
<1>1. q \in Seq(Steps)
  OBVIOUS
<1>2. \A k \in DOMAIN q: q[k][2] = i
  OBVIOUS
<1>3. todo[t] = <<>> /\ todo'[t] = q /\ \A w, j: Left(t, w, j) = 0 /\ Left(t, w, j)' = Occ(q, <<w, j>>)
  BY <1>1, Begins
<1>4. \A w, j: Occ(q, <<w, j>>) = One(<<x, i>>, <<w, j>>) + One(<<y, i>>, <<w, j>>) + One(<<z, i>>, <<w, j>>)
  BY OccThree
<1>5. ASSUME NEW w, NEW j
      PROVE  Left(t, w, j) = 0 /\ Left(t, w, j)' = IF j = i /\ w \in {x, y, z} THEN 1 ELSE 0
  <2>1. Left(t, w, j) = 0 /\ Left(t, w, j)' = One(<<x, i>>, <<w, j>>) + One(<<y, i>>, <<w, j>>) + One(<<z, i>>, <<w, j>>)
    BY <1>3, <1>4, Zenon
  <2>2. /\ One(<<x, i>>, <<w, j>>) = IF x = w /\ i = j THEN 1 ELSE 0
        /\ One(<<y, i>>, <<w, j>>) = IF y = w /\ i = j THEN 1 ELSE 0
        /\ One(<<z, i>>, <<w, j>>) = IF z = w /\ i = j THEN 1 ELSE 0
    BY OnePair
  <2> QED  BY <2>1, <2>2
<1> QED  BY <1>1, <1>2, <1>3, <1>5, Zenon DEF About

(* A sequence that gives back is a form of a call.                        *)
LEMMA GivesUndoes ==
    Types => \A t \in Threads: (\A k \in DOMAIN todo[t]: todo[t][k] \in GivesBack) => Undoes(t)
<1> SUFFICES ASSUME Types, NEW t \in Threads, \A k \in DOMAIN todo[t]: todo[t][k] \in GivesBack
             PROVE  Undoes(t)
  OBVIOUS
<1>1. GivesBack \subseteq Ends
  BY DEF GivesBack, Ends
<1>2. ASSUME NEW i \in Slots, First(t, "unshare", i) \/ First(t, "freed", i) \/ First(t, "clear", i)
      PROVE  FALSE
  <2>1. 1 \in DOMAIN todo[t]
    <3>1. todo[t] \in Seq(Steps) /\ todo[t] # <<>>
      BY <1>2 DEF Types, First
    <3> QED  BY <3>1
  <2>2. todo[t][1] \in GivesBack
    BY <2>1
  <2> QED  BY <1>2, <2>2 DEF First, GivesBack
<1> QED  BY <1>1, <1>2 DEF Undoes

(* The same after the step.                                               *)
LEMMA GivesUndoesNext ==
    Types' => (\A t \in Threads: (\A k \in DOMAIN todo[t]: todo[t][k] \in GivesBack) => Undoes(t))'
BY GivesUndoes, PTL

(* BATdescriptor begins.                                                  *)
LEMMA BATdescriptorKeeps ==
    ASSUME IInv, NEW t \in Threads, NEW i \in Slots, BATdescriptor(t, i)
    PROVE  IInv'
<1>1. PICK q: q = << <<"fix", i>>, <<"load", i>>, <<"got", i>> >>
  OBVIOUS
<1>2. Types /\ Called(t, q) /\ fix[t][i] + lref[t][i] > 0 /\ UNCHANGED <<bbp, fix, lref, lost>>
  BY <1>1, Zenon DEF IInv, BATdescriptor
<1>3. About(t, i, q, {"fix", "load", "got"})
  <2>1. <<"fix", i>> \in Steps /\ <<"load", i>> \in Steps /\ <<"got", i>> \in Steps
    BY DEF Steps
  <2> QED  BY <1>1, <1>2, <2>1, AboutThree
<1>4. Announces(t, i, q)
  <2>1. bbp[i].used
    BY <1>2, KnownUsed
  <2> QED  BY <1>2, <1>3, <2>1 DEF Announces, About, Types
<1>5. Promises(t, i)
  <2>1. Refers(t, i)' = Refers(t, i)
    <3>1. /\ Left(t, "unfix", i)' = 0 /\ Left(t, "got", i)' = 1 /\ Left(t, "fix", i)' = 1
          /\ Left(t, "unfix", i) = 0 /\ Left(t, "got", i) = 0 /\ Left(t, "fix", i) = 0
      BY <1>3 DEF About
    <3> QED  BY <1>2, <3>1 DEF Types, Refers
  <2>2. /\ Left(t, "release", i)' = Left(t, "release", i) /\ Left(t, "persist", i)' = Left(t, "persist", i)
        /\ Left(t, "retain", i)' = Left(t, "retain", i) /\ Left(t, "unpersist", i)' = Left(t, "unpersist", i)
    BY <1>3 DEF About
  <2>3. Lrefs(t, i)' = Lrefs(t, i)
    BY <1>2, <2>2 DEF Lrefs
  <2>4. Own(i)' = Own(i)
    BY <1>2, <1>3, <2>2, Begins, OwnLocal DEF About
  <2>5. Sets(t, i)' = 0
    BY <1>3 DEF Sets, About
  <2> QED  BY <1>3, <2>1, <2>3, <2>4, <2>5 DEF Promises, About
<1>6. Shape(t)'
  <2>1. Fetches(t, i)'
    BY <1>1, <1>2, <1>3 DEF Fetches, About
  <2> QED  BY <2>1 DEF Shape
<1> QED  BY <1>2, <1>3, <1>4, <1>5, <1>6, CallKeeps DEF About

(* BBPunfix begins.                                                       *)
LEMMA BBPunfixKeeps ==
    ASSUME IInv, NEW t \in Threads, NEW i \in Slots, BBPunfix(t, i)
    PROVE  IInv'
<1>1. PICK q: q = << <<"unfix", i>> >>
  OBVIOUS
<1>2. Types /\ Called(t, q) /\ fix[t][i] > 0 /\ fix' = Less(fix, t, i) /\ UNCHANGED <<bbp, lref, lost>>
  BY <1>1, Zenon DEF IInv, BBPunfix
<1>3. About(t, i, q, {"unfix"})
  <2>1. <<"unfix", i>> \in Steps
    BY DEF Steps
  <2> QED  BY <1>1, <1>2, <2>1, AboutOne
<1>4. /\ fix[t][i] \in Nat /\ fix'[t][i] = fix[t][i] - 1
      /\ fix' \in [Threads -> [Slots -> Nat]] /\ \A u \in Threads \ {t}: fix'[u] = fix[u]
      /\ \A j \in Slots \ {i}: fix'[t][j] = fix[t][j]
  BY <1>2 DEF Types, Less
<1>5. Announces(t, i, q)
  <2>1. bbp[i].used
    <3>1. lref[t][i] \in Nat
      BY <1>2 DEF Types
    <3> QED  BY <1>2, <1>4, <3>1, KnownUsed
  <2> QED  BY <1>2, <1>3, <1>4, <2>1 DEF Announces, About, Types
<1>6. Promises(t, i)
  <2>1. Refers(t, i)' = Refers(t, i)
    <3>1. /\ Left(t, "unfix", i)' = 1 /\ Left(t, "got", i)' = 0 /\ Left(t, "fix", i)' = 0
          /\ Left(t, "unfix", i) = 0 /\ Left(t, "got", i) = 0 /\ Left(t, "fix", i) = 0
      BY <1>3 DEF About
    <3> QED  BY <1>4, <3>1 DEF Refers
  <2>2. /\ Left(t, "release", i)' = Left(t, "release", i) /\ Left(t, "persist", i)' = Left(t, "persist", i)
        /\ Left(t, "retain", i)' = Left(t, "retain", i) /\ Left(t, "unpersist", i)' = Left(t, "unpersist", i)
    BY <1>3 DEF About
  <2>3. Lrefs(t, i)' = Lrefs(t, i)
    BY <1>2, <2>2 DEF Lrefs
  <2>4. Own(i)' = Own(i)
    BY <1>2, <1>3, <2>2, Begins, OwnLocal DEF About
  <2>5. Sets(t, i)' = 0
    BY <1>3 DEF Sets, About
  <2> QED  BY <1>3, <2>1, <2>3, <2>4, <2>5 DEF Promises, About
<1>7. Shape(t)'
  <2>1. \A k \in DOMAIN todo'[t]: todo'[t][k] \in GivesBack
    BY <1>1, <1>3 DEF About, GivesBack
  <2>2. Types'
    BY <1>2, <1>3, <1>4, Begins DEF About, Types
  <2> QED  BY <2>1, <2>2, GivesUndoesNext DEF Shape
<1> QED  BY <1>2, <1>3, <1>5, <1>6, <1>7, CallKeeps DEF About

(* BBPretain begins.                                                      *)
LEMMA BBPretainKeeps ==
    ASSUME IInv, NEW t \in Threads, NEW i \in Slots, BBPretain(t, i)
    PROVE  IInv'
<1>1. PICK q: q = << <<"retain", i>> >>
  OBVIOUS
<1>2. /\ Types /\ Called(t, q) /\ fix[t][i] + lref[t][i] > 0
      /\ lref' = More(lref, t, i) /\ UNCHANGED <<bbp, fix, lost>>
  BY <1>1, Zenon DEF IInv, BBPretain
<1>3. About(t, i, q, {"retain"})
  <2>1. <<"retain", i>> \in Steps
    BY DEF Steps
  <2> QED  BY <1>1, <1>2, <2>1, AboutOne
<1>4. /\ lref[t][i] \in Nat /\ fix[t][i] \in Nat /\ lref'[t][i] = lref[t][i] + 1
      /\ lref' \in [Threads -> [Slots -> Nat]] /\ \A u \in Threads \ {t}: lref'[u] = lref[u]
      /\ \A j \in Slots \ {i}: lref'[t][j] = lref[t][j]
  BY <1>2 DEF Types, More
<1>5. Announces(t, i, q)
  <2>1. bbp[i].used
    BY <1>2, KnownUsed
  <2> QED  BY <1>2, <1>3, <1>4, <2>1 DEF Announces, About, Types
<1>6. Promises(t, i)
  <2>1. /\ Left(t, "unfix", i)' = Left(t, "unfix", i) /\ Left(t, "got", i)' = Left(t, "got", i)
        /\ Left(t, "fix", i)' = Left(t, "fix", i)
    BY <1>3 DEF About
  <2>2. Refers(t, i)' = Refers(t, i)
    BY <1>2, <2>1 DEF Refers
  <2>3. Lrefs(t, i)' = Lrefs(t, i)
    <3>1. /\ Left(t, "release", i)' = 0 /\ Left(t, "persist", i)' = 0 /\ Left(t, "retain", i)' = 1
          /\ Left(t, "release", i) = 0 /\ Left(t, "persist", i) = 0 /\ Left(t, "retain", i) = 0
      BY <1>3 DEF About
    <3> QED  BY <1>4, <3>1 DEF Lrefs
  <2>4. Own(i)' = Own(i)
    <3>1. Left(t, "unpersist", i)' = Left(t, "unpersist", i)
      BY <1>3 DEF About
    <3> QED  BY <1>2, <1>3, <3>1, Begins, OwnLocal DEF About
  <2>5. Sets(t, i)' = 0
    BY <1>3 DEF Sets, About
  <2> QED  BY <1>3, <2>2, <2>3, <2>4, <2>5 DEF Promises, About
<1>7. Shape(t)'
  <2>1. Retains(t, i)'
    BY <1>1, <1>2, <1>3, <1>4 DEF Retains, About
  <2> QED  BY <2>1 DEF Shape
<1> QED  BY <1>2, <1>3, <1>5, <1>6, <1>7, CallKeeps DEF About

(* BBPrelease begins.                                                     *)
LEMMA BBPreleaseKeeps ==
    ASSUME IInv, NEW t \in Threads, NEW i \in Slots, BBPrelease(t, i)
    PROVE  IInv'
<1>1. PICK q: q = << <<"release", i>> >>
  OBVIOUS
<1>2. Types /\ Called(t, q) /\ lref[t][i] > 0 /\ lref' = Less(lref, t, i) /\ UNCHANGED <<bbp, fix, lost>>
  BY <1>1, Zenon DEF IInv, BBPrelease
<1>3. About(t, i, q, {"release"})
  <2>1. <<"release", i>> \in Steps
    BY DEF Steps
  <2> QED  BY <1>1, <1>2, <2>1, AboutOne
<1>4. /\ lref[t][i] \in Nat /\ lref'[t][i] = lref[t][i] - 1
      /\ lref' \in [Threads -> [Slots -> Nat]] /\ \A u \in Threads \ {t}: lref'[u] = lref[u]
      /\ \A j \in Slots \ {i}: lref'[t][j] = lref[t][j]
  BY <1>2 DEF Types, Less
<1>5. Announces(t, i, q)
  <2>1. bbp[i].used
    <3>1. fix[t][i] \in Nat
      BY <1>2 DEF Types
    <3> QED  BY <1>2, <1>4, <3>1, KnownUsed
  <2> QED  BY <1>2, <1>3, <1>4, <2>1 DEF Announces, About, Types
<1>6. Promises(t, i)
  <2>1. /\ Left(t, "unfix", i)' = Left(t, "unfix", i) /\ Left(t, "got", i)' = Left(t, "got", i)
        /\ Left(t, "fix", i)' = Left(t, "fix", i)
    BY <1>3 DEF About
  <2>2. Refers(t, i)' = Refers(t, i)
    BY <1>2, <2>1 DEF Refers
  <2>3. Lrefs(t, i)' = Lrefs(t, i)
    <3>1. /\ Left(t, "release", i)' = 1 /\ Left(t, "persist", i)' = 0 /\ Left(t, "retain", i)' = 0
          /\ Left(t, "release", i) = 0 /\ Left(t, "persist", i) = 0 /\ Left(t, "retain", i) = 0
      BY <1>3 DEF About
    <3> QED  BY <1>4, <3>1 DEF Lrefs
  <2>4. Own(i)' = Own(i)
    <3>1. Left(t, "unpersist", i)' = Left(t, "unpersist", i)
      BY <1>3 DEF About
    <3> QED  BY <1>2, <1>3, <3>1, Begins, OwnLocal DEF About
  <2>5. Sets(t, i)' = 0
    BY <1>3 DEF Sets, About
  <2> QED  BY <1>3, <2>2, <2>3, <2>4, <2>5 DEF Promises, About
<1>7. Shape(t)'
  <2>1. \A k \in DOMAIN todo'[t]: todo'[t][k] \in GivesBack
    BY <1>1, <1>3 DEF About, GivesBack
  <2>2. Types'
    BY <1>2, <1>3, <1>4, Begins DEF About, Types
  <2> QED  BY <2>1, <2>2, GivesUndoesNext DEF Shape
<1> QED  BY <1>2, <1>3, <1>5, <1>6, <1>7, CallKeeps DEF About

(* BBPkeepref begins.                                                     *)
LEMMA BBPkeeprefKeeps ==
    ASSUME IInv, NEW t \in Threads, NEW i \in Slots, BBPkeepref(t, i)
    PROVE  IInv'
<1>1. PICK q: q = << <<"retain", i>>, <<"unfix", i>> >>
  OBVIOUS
<1>2. /\ Types /\ Called(t, q) /\ fix[t][i] > 0 /\ fix' = Less(fix, t, i) /\ lref' = More(lref, t, i)
      /\ UNCHANGED <<bbp, lost>>
  BY <1>1, Zenon DEF IInv, BBPkeepref
<1>3. About(t, i, q, {"retain", "unfix"})
  <2>1. <<"retain", i>> \in Steps /\ <<"unfix", i>> \in Steps
    BY DEF Steps
  <2> QED  BY <1>1, <1>2, <2>1, AboutTwo
<1>4. /\ fix[t][i] \in Nat /\ fix'[t][i] = fix[t][i] - 1
      /\ fix' \in [Threads -> [Slots -> Nat]] /\ \A u \in Threads \ {t}: fix'[u] = fix[u]
      /\ \A j \in Slots \ {i}: fix'[t][j] = fix[t][j]
  BY <1>2 DEF Types, Less
<1>5. /\ lref[t][i] \in Nat /\ lref'[t][i] = lref[t][i] + 1
      /\ lref' \in [Threads -> [Slots -> Nat]] /\ \A u \in Threads \ {t}: lref'[u] = lref[u]
      /\ \A j \in Slots \ {i}: lref'[t][j] = lref[t][j]
  BY <1>2 DEF Types, More
<1>6. Announces(t, i, q)
  <2>1. bbp[i].used
    BY <1>2, <1>4, <1>5, KnownUsed
  <2> QED  BY <1>2, <1>3, <1>4, <1>5, <2>1 DEF Announces, About
<1>7. Promises(t, i)
  <2>1. Refers(t, i)' = Refers(t, i)
    <3>1. /\ Left(t, "unfix", i)' = 1 /\ Left(t, "got", i)' = 0 /\ Left(t, "fix", i)' = 0
          /\ Left(t, "unfix", i) = 0 /\ Left(t, "got", i) = 0 /\ Left(t, "fix", i) = 0
      BY <1>3 DEF About
    <3> QED  BY <1>4, <3>1 DEF Refers
  <2>2. Lrefs(t, i)' = Lrefs(t, i)
    <3>1. /\ Left(t, "release", i)' = 0 /\ Left(t, "persist", i)' = 0 /\ Left(t, "retain", i)' = 1
          /\ Left(t, "release", i) = 0 /\ Left(t, "persist", i) = 0 /\ Left(t, "retain", i) = 0
      BY <1>3 DEF About
    <3> QED  BY <1>5, <3>1 DEF Lrefs
  <2>3. Own(i)' = Own(i)
    <3>1. Left(t, "unpersist", i)' = Left(t, "unpersist", i)
      BY <1>3 DEF About
    <3> QED  BY <1>2, <1>3, <3>1, Begins, OwnLocal DEF About
  <2>4. Sets(t, i)' = 0
    BY <1>3 DEF Sets, About
  <2> QED  BY <1>3, <2>1, <2>2, <2>3, <2>4 DEF Promises, About
<1>8. Shape(t)'
  <2>1. Retains(t, i)'
    BY <1>1, <1>3, <1>5 DEF Retains, About
  <2> QED  BY <2>1 DEF Shape
<1> QED  BY <1>2, <1>3, <1>6, <1>7, <1>8, CallKeeps DEF About

(* Nobody else is changing the mode.                                       *)
LEMMA NoneSets ==
    ASSUME Types, NEW t \in Threads, NEW i \in Slots, SetsMode(t, i)
    PROVE  \A u \in Threads: /\ Left(u, "persist", i) = 0 /\ Left(u, "unpersist", i) = 0
                             /\ Sets(u, i) = 0
<1> SUFFICES ASSUME NEW u \in Threads
             PROVE  Left(u, "persist", i) = 0 /\ Left(u, "unpersist", i) = 0 /\ Sets(u, i) = 0
  OBVIOUS
<1>1. Left(u, "persist", i) \in Nat /\ Left(u, "unpersist", i) \in Nat
  BY LeftType
<1>2. ~(Left(u, "persist", i) > 0) /\ ~(Left(u, "unpersist", i) > 0)
  <2>1. \A k \in DOMAIN todo[u]: todo[u][k] # <<"persist", i>> /\ todo[u][k] # <<"unpersist", i>>
    BY DEF SetsMode
  <2>2. /\ Left(u, "persist", i) > 0 <=> \E k \in DOMAIN todo[u]: todo[u][k] = <<"persist", i>>
        /\ Left(u, "unpersist", i) > 0 <=> \E k \in DOMAIN todo[u]: todo[u][k] = <<"unpersist", i>>
    BY LeftSome, Zenon
  <2> QED  BY <2>1, <2>2, Zenon
<1>3. Left(u, "persist", i) = 0 /\ Left(u, "unpersist", i) = 0
  BY <1>1, <1>2
<1> QED  BY <1>3 DEF Sets

(* BATmode begins: a bat is made persistent.                              *)
LEMMA MakePersistentKeeps ==
    ASSUME IInv, NEW t \in Threads, NEW i \in Slots, MakePersistent(t, i)
    PROVE  IInv'
<1>1. PICK q: q = << <<"retain", i>>, <<"persist", i>> >>
  OBVIOUS
<1>2. /\ Types /\ Called(t, q) /\ SetsMode(t, i) /\ ~Persistent(bbp[i])
      /\ UNCHANGED <<bbp, fix, lref, lost>>
  BY <1>1, Zenon DEF IInv, MakePersistent
<1>3. About(t, i, q, {"retain", "persist"})
  <2>1. <<"retain", i>> \in Steps /\ <<"persist", i>> \in Steps
    BY DEF Steps
  <2> QED  BY <1>1, <1>2, <2>1, AboutTwo
<1>4. fix[t][i] > 0 /\ bbp[i].parent = 0 /\ fix[t][i] \in Nat /\ lref[t][i] \in Nat
  BY <1>2 DEF SetsMode, IsView, Types
<1>5. Announces(t, i, q)
  <2>1. bbp[i].used
    BY <1>4, KnownUsed
  <2> QED  BY <1>2, <1>3, <2>1 DEF Announces, About, Types
<1>6. Promises(t, i)
  <2>1. /\ Left(t, "unfix", i)' = Left(t, "unfix", i) /\ Left(t, "got", i)' = Left(t, "got", i)
        /\ Left(t, "fix", i)' = Left(t, "fix", i)
    BY <1>3 DEF About
  <2>2. Refers(t, i)' = Refers(t, i)
    BY <1>2, <2>1 DEF Refers
  <2>3. Lrefs(t, i)' = Lrefs(t, i)
    <3>1. /\ Left(t, "release", i)' = 0 /\ Left(t, "persist", i)' = 1 /\ Left(t, "retain", i)' = 1
          /\ Left(t, "release", i) = 0 /\ Left(t, "persist", i) = 0 /\ Left(t, "retain", i) = 0
      BY <1>3 DEF About
    <3> QED  BY <1>2, <1>4, <3>1 DEF Lrefs
  <2>4. Own(i)' = Own(i)
    <3>1. Left(t, "unpersist", i)' = Left(t, "unpersist", i)
      BY <1>3 DEF About
    <3> QED  BY <1>2, <1>3, <3>1, Begins, OwnLocal DEF About
  <2> QED  BY <1>2, <1>3, <2>2, <2>3, <2>4, NoneSets DEF Promises, About
<1>7. Shape(t)'
  <2>1. Modes(t, i)'
    BY <1>1, <1>2, <1>3, <1>4 DEF Modes, About
  <2> QED  BY <2>1 DEF Shape
<1> QED  BY <1>2, <1>3, <1>5, <1>6, <1>7, CallKeeps DEF About

(* BATmode begins: a bat is made transient.                               *)
LEMMA MakeTransientKeeps ==
    ASSUME IInv, NEW t \in Threads, NEW i \in Slots, MakeTransient(t, i)
    PROVE  IInv'
<1>1. PICK q: q = << <<"release", i>>, <<"unpersist", i>> >>
  OBVIOUS
<1>2. /\ Types /\ Called(t, q) /\ SetsMode(t, i) /\ Persistent(bbp[i])
      /\ UNCHANGED <<bbp, fix, lref, lost>>
  BY <1>1, Zenon DEF IInv, MakeTransient
<1>3. About(t, i, q, {"release", "unpersist"})
  <2>1. <<"release", i>> \in Steps /\ <<"unpersist", i>> \in Steps
    BY DEF Steps
  <2> QED  BY <1>1, <1>2, <2>1, AboutTwo
<1>4. fix[t][i] > 0 /\ bbp[i].parent = 0 /\ fix[t][i] \in Nat /\ lref[t][i] \in Nat
  BY <1>2 DEF SetsMode, IsView, Types
<1>5. Announces(t, i, q)
  <2>1. bbp[i].used
    BY <1>4, KnownUsed
  <2> QED  BY <1>2, <1>3, <2>1 DEF Announces, About, Types
<1>6. Promises(t, i)
  <2>1. /\ Left(t, "unfix", i)' = Left(t, "unfix", i) /\ Left(t, "got", i)' = Left(t, "got", i)
        /\ Left(t, "fix", i)' = Left(t, "fix", i)
    BY <1>3 DEF About
  <2>2. Refers(t, i)' = Refers(t, i)
    BY <1>2, <2>1 DEF Refers
  <2>3. Lrefs(t, i)' = lref[t][i] + 1 /\ Lrefs(t, i) = lref[t][i]
    <3>1. /\ Left(t, "release", i)' = 1 /\ Left(t, "persist", i)' = 0 /\ Left(t, "retain", i)' = 0
          /\ Left(t, "release", i) = 0 /\ Left(t, "persist", i) = 0 /\ Left(t, "retain", i) = 0
      BY <1>3 DEF About
    <3> QED  BY <1>2, <1>4, <3>1 DEF Lrefs
  <2>4. Own(i)' = 0 /\ Own(i) = 1
    <3>1. Left(t, "unpersist", i)' = 1
      BY <1>3 DEF About
    <3>2. \A u \in Threads: Left(u, "unpersist", i) = 0
      BY <1>2, NoneSets
    <3> QED  BY <1>2, <3>1, <3>2 DEF Own
  <2>5. Lrefs(t, i)' + Own(i)' = Lrefs(t, i) + Own(i)
    BY <1>4, <2>3, <2>4
  <2> QED  BY <1>2, <1>3, <2>2, <2>5, NoneSets DEF Promises, About
<1>7. Shape(t)'
  <2>1. Modes(t, i)'
    BY <1>1, <1>2, <1>3, <1>4 DEF Modes, About
  <2> QED  BY <2>1 DEF Shape
<1> QED  BY <1>2, <1>3, <1>5, <1>6, <1>7, CallKeeps DEF About

-----------------------------------------------------------------------------
(***************************************************************************)
(* What the invariant says where a step needs it.                          *)
(***************************************************************************)
LEMMA ViewsPositive ==
    IInv => \A i \in Slots: Views(i) # {} => bbp[i].lrefs > 0
<1> SUFFICES ASSUME IInv, NEW i \in Slots, Views(i) # {}
             PROVE  bbp[i].lrefs > 0
  OBVIOUS
<1>1. Cardinality(Views(i)) \in Nat /\ Cardinality(Views(i)) # 0
  BY ViewsFinite, FS_EmptySet
<1>2. bbp[i].lrefs = Sum([u \in Threads |-> Lrefs(u, i)]) + Own(i) + Cardinality(Views(i))
  BY DEF IInv, Counted
<1>3. Sum([u \in Threads |-> Lrefs(u, i)]) \in Nat
  <2>1. [u \in Threads |-> Lrefs(u, i)] \in [Threads -> Nat]
    BY InvShapes, CountsType
  <2> QED  BY <2>1, SumType
<1>4. Own(i) \in {0, 1}
  BY OwnType
<1> QED  BY <1>1, <1>2, <1>3, <1>4

(* A view has a parent, and no views.                                      *)
LEMMA ViewsHaveNone ==
    IInv => \A i \in Slots: bbp[i].parent # 0 =>
              bbp[i].parent \in Slots /\ ViewOK(i, bbp[i].parent) /\ Views(i) = {}
<1> SUFFICES ASSUME IInv, NEW i \in Slots, bbp[i].parent # 0
             PROVE  bbp[i].parent \in Slots /\ ViewOK(i, bbp[i].parent) /\ Views(i) = {}
  OBVIOUS
<1>1. bbp[i].parent \in Slots
  BY DEF IInv, Types, Bats
<1>2. ViewOK(i, bbp[i].parent)
  BY <1>1 DEF IInv, Slot
<1>3. ASSUME NEW v \in Views(i)
      PROVE  FALSE
  <2>1. ViewOK(v, i)
    BY <1>3 DEF Views, IInv, Slot
  <2> QED  BY <2>1 DEF ViewOK
<1> QED  BY <1>1, <1>2, <1>3

(* A bat without views is the base of none.                               *)
LEMMA ViewsBased ==
    Types => \A t \in Threads, i \in Slots: Views(i) = {} => Based(t, i) = 0
BY DEF Based

(* Who loads a bat has a fix of it.                                        *)
LEMMA LoaderFixes ==
    IInv => \A u \in Threads, i \in Slots: Loads(u, i) > 0 => Fixes(u, i) > 0
<1> SUFFICES ASSUME IInv, NEW u \in Threads, NEW i \in Slots, Loads(u, i) > 0
             PROVE  Fixes(u, i) > 0
  OBVIOUS
<1>1. Types /\ Shape(u) /\ fix[u][i] \in Nat
  BY DEF IInv, Types
<1>2. Left(u, "read", i) \in Nat /\ Left(u, "base", i) \in Nat /\ Based(u, i) \in {0, 1}
  BY <1>1, LeftType, BasedType
<1>3. CASE Left(u, "base", i) > 0
  <2>1. PICK p \in Slots: FetchesView(u, i, p)
    BY <1>1, <1>3, BaseForm
  <2>2. ViewOK(i, p)
    BY <2>1 DEF FetchesView, IInv, Slot
  <2>3. Left(u, "got", i) = 1 /\ Left(u, "fix", i) = 0 /\ Left(u, "unfix", i) = 0
    BY <1>1, <2>1, <2>2, FetchesViewLeft DEF ViewOK
  <2> QED  BY <1>1, <1>2, <2>3 DEF Fixes
<1>4. CASE todo[u] = << <<"read", i>>, <<"got", i>> >>
  <2>1. Left(u, "got", i) = 1 /\ Left(u, "fix", i) = 0 /\ Left(u, "unfix", i) = 0
    BY <1>4, LeftLiteral DEF One
  <2> QED  BY <1>1, <1>2, <2>1 DEF Fixes
<1>5. ASSUME NEW v \in Slots, FetchesView(u, v, i),
             todo[u] = << <<"read", i>>, <<"base", v>>, <<"load", v>>, <<"got", v>> >>
      PROVE  Fixes(u, i) > 0
  <2>1. ViewOK(v, i)
    BY <1>5 DEF FetchesView, IInv, Slot
  <2>2. v # i /\ v \in Views(i)
    BY <1>5, <2>1 DEF ViewOK, Views, FetchesView
  <2>3. /\ Left(u, "got", i) = 0 /\ Left(u, "fix", i) = 0 /\ Left(u, "unfix", i) = 0
        /\ Left(u, "base", v) = 1
    BY <1>5, <2>2, LeftLiteral DEF One
  <2>4. Based(u, i) = 1
    BY <2>2, <2>3 DEF Based
  <2> QED  BY <1>1, <2>3, <2>4 DEF Fixes
<1>6. CASE Left(u, "read", i) > 0
  BY <1>1, <1>4, <1>5, <1>6, ReadForm
<1> QED  BY <1>2, <1>3, <1>6 DEF Loads

-----------------------------------------------------------------------------
(***************************************************************************)
(* The steps within a call.                                                *)
(***************************************************************************)
LEMMA AtUsed ==
    IInv => \A t \in Threads, i \in Slots: \A x: At(t, x, i) => bbp[i].used
<1> SUFFICES ASSUME IInv, NEW t \in Threads, NEW i \in Slots, NEW x, At(t, x, i)
             PROVE  bbp[i].used
  OBVIOUS
<1>1. todo[t] \in Seq(Steps) /\ todo[t] # <<>> /\ todo[t][1] = <<x, i>>
  BY DEF IInv, Types, At
<1>2. 1 \in DOMAIN todo[t] /\ todo[t][1][2] = i
  BY <1>1
<1>3. ~Forgotten(t, i)
  BY <1>2 DEF Forgotten
<1> QED  BY <1>3 DEF IInv, Slot, Unknown

(* The places in a call whose first step was replaced.                    *)
LEMMA PlacesReplaced ==
    ASSUME NEW S, NEW p \in Seq(S), NEW q \in Seq(S), q # <<>>, NEW k \in DOMAIN (p \o Tail(q))
    PROVE  \/ k \in DOMAIN p /\ (p \o Tail(q))[k] = p[k]
           \/ \E n \in DOMAIN q: (p \o Tail(q))[k] = q[n]
<1>0. Tail(q) \in Seq(S)
  OBVIOUS
<1>1. PICK r \in Seq(S): r = Tail(q)
  BY <1>0, Zenon
<1>2. Len(r) = Len(q) - 1 /\ \A n \in 1 .. Len(r): r[n] = q[n + 1]
  BY <1>1
<1>3. k \in 1 .. Len(p) + Len(r)
  <2>1. p \o r \in Seq(S) /\ Len(p \o r) = Len(p) + Len(r)
    OBVIOUS
  <2>2. k \in DOMAIN (p \o r)
    BY <1>1
  <2> QED  BY <2>1, <2>2
<1>4. CASE k <= Len(p)
  BY <1>1, <1>3, <1>4
<1>5. CASE k > Len(p)
  <2>1. k - Len(p) \in 1 .. Len(r)
    BY <1>3, <1>5
  <2>2. (p \o r)[k] = r[k - Len(p)]
    BY <1>3, <1>5
  <2>3. k - Len(p) + 1 \in DOMAIN q /\ r[k - Len(p)] = q[k - Len(p) + 1]
    BY <1>2, <2>1, SMTT(30)
  <2> QED  BY <1>1, <2>2, <2>3
<1> QED  BY <1>3, <1>4, <1>5

(* The thread that steps does not come to know a slot that is not in use. *)
LEMMA StillForgotten ==
    ASSUME IInv, NEW t \in Threads, NEW i \in Slots, NEW x, NEW p \in Seq(Steps), At(t, x, i), Then(t, p),
           fix'[t] = fix[t], lref'[t] = lref[t],
           \A k \in DOMAIN p: p[k][2] \in Slots => bbp[p[k][2]].used
    PROVE  \A j \in Slots: ~bbp[j].used => Forgotten(t, j)'
<1> SUFFICES ASSUME NEW j \in Slots, ~bbp[j].used
             PROVE  Forgotten(t, j)'
  OBVIOUS
<1>1. Forgotten(t, j)
  BY DEF IInv, Slot, Unknown
<1>2. todo[t] \in Seq(Steps) /\ todo[t] # <<>> /\ todo'[t] = p \o Tail(todo[t])
  BY Advance, SMTT(30) DEF IInv, Types, At
<1>3. ASSUME NEW k \in DOMAIN todo'[t]
      PROVE  todo'[t][k][2] # j
  <2>1. \/ k \in DOMAIN p /\ todo'[t][k] = p[k]
        \/ \E n \in DOMAIN todo[t]: todo'[t][k] = todo[t][n]
    <3>1. k \in DOMAIN (p \o Tail(todo[t]))
      BY <1>2
    <3> QED  BY <1>2, <3>1, PlacesReplaced
  <2>2. \A n \in DOMAIN todo[t]: todo[t][n][2] # j
    BY <1>1 DEF Forgotten
  <2>3. k \in DOMAIN p => p[k][2] # j
    OBVIOUS
  <2> QED  BY <2>1, <2>2, <2>3
<1> QED  BY <1>1, <1>3 DEF Forgotten

(* Pointers stay good when nothing that is fixed is unloaded.             *)
LEMMA ReadableKept ==
    ASSUME IInv, NEW t \in Threads, NEW i \in Slots, NEW b, bbp' = [bbp EXCEPT ![i] = b],
           Becomes(t, i, b), fix'[t] = fix[t]
    PROVE  Readable(t)'
<1> SUFFICES ASSUME NEW j \in Slots, fix'[t][j] > 0
             PROVE  Loaded(bbp'[j])
  BY DEF Readable
<1>1. fix[t][j] > 0 /\ bbp'[i] = b /\ (j # i => bbp'[j] = bbp[j])
  BY DEF IInv, Types
<1>2. bbp[j].refs > 0 /\ Loaded(bbp[j])
  BY <1>1, FixedPositive DEF IInv, Readable
<1>3. bbp[j].refs # 0
  BY <1>2 DEF IInv, Types, Bats
<1> QED  BY <1>1, <1>2, <1>3 DEF Becomes

(* Step x of a call, about bat i, which becomes b; the rest of the call    *)
(* begins with p.                                                          *)
Moves(t, i, x, p, b) ==
    /\ p \in Seq(Steps) /\ At(t, x, i) /\ Then(t, p) /\ UNCHANGED clients
    /\ b \in Bats /\ bbp' = [bbp EXCEPT ![i] = b]
    /\ \A k \in DOMAIN p: p[k][2] = i

(* A step of a call about one bat whose accounts balance.                 *)
LEMMA MoveKeeps ==
    ASSUME IInv, NEW t \in Threads, NEW i \in Slots, NEW x, NEW p, NEW b,
           Moves(t, i, x, p, b), Becomes(t, i, b), Undisturbed(i, b),
           Left(t, "base", i)' = Left(t, "base", i), Shape(t)', PlainAccounts(t, i), Resets(t, i)
    PROVE  IInv'
<1>1. Types
  BY DEF IInv
<1>0. p \in Seq(Steps)
  BY DEF Moves
<1>2. /\ todo' \in [Threads -> Seq(Steps)]
      /\ \A u \in Threads \ {t}: todo'[u] = todo[u]
      /\ \A y, j: Left(t, y, j)' = Occ(p, <<y, j>>)
                    + (IF x = y /\ i = j THEN Left(t, y, j) - 1 ELSE Left(t, y, j))
  BY <1>1, <1>0, Advance DEF Moves
<1>3. /\ At(t, x, i) /\ Then(t, p) /\ b \in Bats /\ bbp' = [bbp EXCEPT ![i] = b]
      /\ fix' = fix /\ lref' = lref /\ lost' = lost /\ calls' = calls
  BY DEF Moves, clients
<1>4. Types'
  BY <1>1, <1>2, <1>3 DEF Types
<1>5. \A u \in Threads \ {t}: Waits(u)
  BY <1>2, <1>3 DEF Waits
<1>6. \A j \in Slots: ~bbp[j].used => Forgotten(t, j)'
  <2>1. bbp[i].used
    BY <1>3, AtUsed
  <2>2. \A k \in DOMAIN p: p[k][2] \in Slots => bbp[p[k][2]].used
    BY <2>1 DEF Moves
  <2> QED  BY <1>0, <1>3, <2>2, StillForgotten
<1>7. Readable(t)'
  BY <1>3, ReadableKept
<1>8. ASSUME NEW j, j # i, NEW y
      PROVE  Left(t, y, j)' = Left(t, y, j)
  <2>1. Occ(p, <<y, j>>) = 0
    <3>1. ~(\E k \in DOMAIN p: p[k] = <<y, j>>)
      BY <1>8 DEF Moves
    <3>2. Occ(p, <<y, j>>) \in Nat /\ ~(Occ(p, <<y, j>>) > 0)
      BY <1>0, <3>1, OccType, OccSome
    <3> QED  BY <3>2
  <2>2. Left(t, y, j)' = Occ(p, <<y, j>>) + Left(t, y, j) /\ Left(t, y, j) \in Nat
    BY <1>1, <1>2, <1>8, LeftType
  <2> QED  BY <2>1, <2>2
<1>9. ASSUME NEW j \in Slots, j # i
      PROVE  PlainAccounts(t, j) /\ Resets(t, j)
  <2>1. \A y: Left(t, y, j)' = Left(t, y, j)
    BY <1>8, <1>9
  <2>2. bbp'[j] = bbp[j]
    BY <1>1, <1>3, <1>9 DEF Types
  <2>3. Own(j)' = Own(j)
    BY <1>2, <2>1, <2>2, OwnLocal
  <2>4. Refers(t, j)' = Refers(t, j) /\ Lrefs(t, j)' = Lrefs(t, j)
    BY <1>3, <2>1 DEF Refers, Lrefs
  <2>5. PlainAccounts(t, j)
    BY <1>3, <2>1, <2>2, <2>3, <2>4, Zenon DEF PlainAccounts
  <2>6. /\ Loads(t, j)' = Loads(t, j) /\ Unloads(t, j)' = Unloads(t, j) /\ Sets(t, j)' = Sets(t, j)
        /\ Flagged(j, "LOADING")' = Flagged(j, "LOADING")
        /\ Flagged(j, "UNLOADING")' = Flagged(j, "UNLOADING")
    BY <2>1, <2>2 DEF Loads, Unloads, Sets, Flagged
  <2>7. Resets(t, j)
    BY <2>6, Zenon DEF Resets
  <2> QED  BY <2>5, <2>7
<1>10. \A v: Left(t, "base", v)' = Left(t, "base", v)
  BY <1>8
<1>11. \A j \in Slots: PlainAccounts(t, j) /\ Resets(t, j)
  BY <1>9
<1> QED  BY <1>3, <1>4, <1>5, <1>6, <1>7, <1>10, <1>11, PlainStep

(* The empty sequence of steps.                                           *)
LEMMA NoSteps == \E p: p \in Seq(Steps) /\ p = <<>>
<1>1. <<>> \in Seq(Steps)
  OBVIOUS
<1> QED  BY <1>1, Zenon

(* A slot and its counts.                                                  *)
LEMMA SlotTypes ==
    IInv => \A i \in Slots: /\ bbp[i] \in Bats
                            /\ bbp[i].refs \in Nat /\ bbp[i].lrefs \in Nat /\ bbp[i].share \in Nat
                            /\ lost[i] \in Nat
                            /\ \A t \in Threads: /\ fix[t][i] \in Nat /\ lref[t][i] \in Nat
                                                 /\ Refers(t, i) \in Int /\ Lrefs(t, i) \in Nat
                                                 /\ Fixes(t, i) \in Nat
                                                 /\ Fixes(t, i) >= fix[t][i] + Left(t, "unfix", i)
                            /\ Own(i) \in {0, 1}
<1> SUFFICES ASSUME IInv, NEW i \in Slots
             PROVE  /\ bbp[i] \in Bats
                    /\ bbp[i].refs \in Nat /\ bbp[i].lrefs \in Nat /\ bbp[i].share \in Nat
                    /\ lost[i] \in Nat
                    /\ \A t \in Threads: /\ fix[t][i] \in Nat /\ lref[t][i] \in Nat
                                         /\ Refers(t, i) \in Int /\ Lrefs(t, i) \in Nat
                                         /\ Fixes(t, i) \in Nat
                                         /\ Fixes(t, i) >= fix[t][i] + Left(t, "unfix", i)
                    /\ Own(i) \in {0, 1}
  OBVIOUS
<1>1. Types
  BY DEF IInv
<1>2. /\ bbp[i] \in Bats /\ lost[i] \in Nat /\ Own(i) \in {0, 1}
      /\ bbp[i].refs \in Nat /\ bbp[i].lrefs \in Nat /\ bbp[i].share \in Nat
  BY <1>1, OwnType DEF Types, Bats
<1>3. ASSUME NEW t \in Threads
      PROVE  fix[t][i] \in Nat /\ lref[t][i] \in Nat /\ Refers(t, i) \in Int
  <2>1. fix[t][i] \in Nat /\ lref[t][i] \in Nat
    BY <1>1 DEF Types
  <2>2. \A x: Left(t, x, i) \in Nat
    BY <1>1, LeftType
  <2> QED  BY <2>1, <2>2 DEF Refers
<1> QED  BY <1>2, <1>3, InvShapes, CountsType

(* Who has references left knows that the counts are positive.             *)
LEMMA LrefsPositive ==
    IInv => \A t \in Threads, i \in Slots: Lrefs(t, i) > 0 => bbp[i].lrefs > 0
<1> SUFFICES ASSUME IInv, NEW t \in Threads, NEW i \in Slots, Lrefs(t, i) > 0
             PROVE  bbp[i].lrefs > 0
  OBVIOUS
<1>1. Lrefs(t, i) + Own(i) + Cardinality(Views(i)) <= bbp[i].lrefs
  BY LrefsBound
<1>2. Own(i) \in {0, 1} /\ Cardinality(Views(i)) \in Nat /\ Lrefs(t, i) \in Nat /\ bbp[i].lrefs \in Nat
  BY ViewsFinite, SlotTypes
<1> QED  BY <1>1, <1>2

(* Three kinds of steps of a call: about i, and then the next one.         *)
Passes(t, i, x) ==
    /\ todo'[t] = Tail(todo[t])
    /\ \A y: /\ Left(t, y, i) \in Nat
             /\ y # x => Left(t, y, i)' = Left(t, y, i)
    /\ Left(t, x, i)' = Left(t, x, i) - 1

(* The first step is done and nothing takes its place.                    *)
LEMMA PassesOne ==
    ASSUME Types, NEW t \in Threads, NEW i \in Slots, NEW x, At(t, x, i), Then(t, <<>>)
    PROVE  Passes(t, i, x)
<1>1. todo'[t] = Tail(todo[t]) /\ \A y: Left(t, y, i)' = IF x = y THEN Left(t, y, i) - 1 ELSE Left(t, y, i)
  BY Done
<1>2. \A y: Left(t, y, i) \in Nat
  BY LeftType
<1> QED  BY <1>1, <1>2 DEF Passes

(* A call whose next step retains a bat.                                  *)
LEMMA RetainForm ==
    ASSUME Types, NEW t \in Threads, Shape(t), NEW i \in Slots, At(t, "retain", i)
    PROVE  \/ Retains(t, i) /\ todo[t] = << <<"retain", i>> >> /\ fix[t][i] + lref[t][i] > 1
           \/ Retains(t, i) /\ todo[t] = << <<"retain", i>>, <<"unfix", i>> >>
           \/ Modes(t, i) /\ todo[t] = << <<"retain", i>>, <<"persist", i>> >>
<1>1. todo[t] \in Seq(Steps) /\ todo[t] # <<>> /\ todo[t][1] = <<"retain", i>>
  BY DEF Types, At
<1>2. ASSUME NEW j \in Slots, Fetches(t, j)
      PROVE  FALSE
  BY <1>1, <1>2 DEF Fetches
<1>3. ASSUME NEW j \in Slots, NEW p \in Slots, FetchesView(t, j, p)
      PROVE  FALSE
  BY <1>1, <1>3 DEF FetchesView
<1>4. ~Undoes(t)
  BY <1>1 DEF Undoes, Ends
<1>5. PICK j \in Slots: Retains(t, j) \/ Modes(t, j)
  BY <1>2, <1>3, <1>4 DEF Shape
<1>6. j = i
  BY <1>1, <1>5 DEF Retains, Modes
<1> QED  BY <1>1, <1>5, <1>6 DEF Retains, Modes

(* incref of a logical reference.                                         *)
LEMMA IncLrefKeeps ==
    ASSUME IInv, NEW t \in Threads, NEW i \in Slots, IncLref(t, i)
    PROVE  IInv'
<1>1. /\ Types /\ Shape(t) /\ At(t, "retain", i) /\ Then(t, <<>>) /\ ~Unstable(bbp[i])
      /\ bbp' = [bbp EXCEPT ![i].lrefs = @ + 1] /\ UNCHANGED clients
  BY Zenon DEF IInv, IncLref
<1>2. PICK p: p \in Seq(Steps) /\ p = <<>>
  BY NoSteps
<1>3. PICK b: b = [bbp[i] EXCEPT !.lrefs = @ + 1]
  OBVIOUS
<1>4. /\ bbp[i] \in Bats /\ b \in Bats /\ b.used = bbp[i].used /\ b.refs = bbp[i].refs
      /\ b.lrefs = bbp[i].lrefs + 1 /\ b.share = bbp[i].share /\ b.status = bbp[i].status
      /\ b.parent = bbp[i].parent /\ b.heap = bbp[i].heap /\ b.base = bbp[i].base
      /\ b.dirty = bbp[i].dirty /\ b.copied = bbp[i].copied
  <2>1. bbp[i] \in Bats
    BY <1>1 DEF Types
  <2> QED  BY <1>3, <2>1 DEF Bats
<1>5. bbp' = [bbp EXCEPT ![i] = b] /\ bbp'[i] = b
  <2>1. bbp' = [bbp EXCEPT ![i] = b]
    BY <1>1, <1>3, Zenon
  <2> QED  BY <1>1, <2>1 DEF Types
<1>6. Moves(t, i, "retain", p, b)
  <2>1. \A k \in DOMAIN p: p[k][2] = i
    BY <1>2
  <2> QED  BY <1>1, <1>2, <1>4, <1>5, <2>1, Zenon DEF Moves
<1>7. Passes(t, i, "retain")
  BY <1>1, PassesOne
<1>8. bbp[i].refs > 0 \/ bbp[i].lrefs > 0
  <2>1. Fixes(t, i) > 0 \/ Lrefs(t, i) > 0
    <3>1. /\ fix[t][i] \in Nat /\ lref[t][i] \in Nat /\ Fixes(t, i) \in Nat
          /\ Fixes(t, i) >= fix[t][i] + Left(t, "unfix", i) /\ Left(t, "unfix", i) \in Nat
      BY <1>1, SlotTypes, LeftType
    <3>2. CASE Retains(t, i) /\ todo[t] = << <<"retain", i>> >> /\ fix[t][i] + lref[t][i] > 1
      <4>1. /\ Left(t, "retain", i) = 1 /\ Left(t, "release", i) = 0 /\ Left(t, "persist", i) = 0
        BY <3>2, LeftLiteral DEF One
      <4>2. Lrefs(t, i) = lref[t][i] - 1
        BY <3>1, <4>1 DEF Lrefs
      <4> QED  BY <3>1, <3>2, <4>2
    <3>3. CASE Retains(t, i) /\ todo[t] = << <<"retain", i>>, <<"unfix", i>> >>
      <4>1. Left(t, "unfix", i) = 1
        BY <3>3, LeftLiteral DEF One
      <4> QED  BY <3>1, <4>1
    <3>4. CASE Modes(t, i) /\ todo[t] = << <<"retain", i>>, <<"persist", i>> >>
      BY <3>1, <3>4 DEF Modes
    <3> QED  BY <1>1, <3>2, <3>3, <3>4, RetainForm
  <2> QED  BY <2>1, FixesPositive, LrefsPositive
<1>9. Becomes(t, i, b)
  <2>1. bbp[i].used /\ BatOK(bbp[i])
    BY <1>1, AtUsed DEF IInv, Slot
  <2>2. BatOK(b)
    BY <1>1, <1>4, <1>8, <2>1 DEF BatOK, Unstable, Loaded, Persistent, BATdirty
  <2> QED  BY <1>1, <1>4, <2>1, <2>2 DEF Becomes, Unstable, Loaded, Persistent
<1>10. Undisturbed(i, b)
  <2>1. \A q \in Slots: bbp[i].parent = q => ViewOK(i, q)
    BY DEF IInv, Slot
  <2>2. bbp[i].parent \in Slots \cup {0}
    BY <1>4 DEF Bats
  <2> QED  BY <1>4, <2>1, <2>2 DEF Undisturbed, ViewOK, HoldsBase, Loaded
<1>11. Shape(t)'
  <2>1. Types'
    BY <1>1, <1>4, <1>5, Done DEF Types, clients
  <2>2. CASE todo[t] = << <<"retain", i>> >>
    <3>1. todo'[t] = <<>>
      BY <1>7, <2>2 DEF Passes
    <3> QED  BY <2>1, <3>1, GivesUndoesNext DEF Shape
  <2>3. CASE todo[t] = << <<"retain", i>>, <<"unfix", i>> >>
    <3>1. todo'[t] = << <<"unfix", i>> >>
      BY <1>7, <2>3 DEF Passes
    <3>2. \A k \in DOMAIN todo'[t]: todo'[t][k] \in GivesBack
      BY <3>1 DEF GivesBack
    <3> QED  BY <2>1, <3>2, GivesUndoesNext DEF Shape
  <2>4. CASE Modes(t, i) /\ todo[t] = << <<"retain", i>>, <<"persist", i>> >>
    <3>1. todo'[t] = << <<"persist", i>> >>
      BY <1>7, <2>4 DEF Passes
    <3>2. ~Persistent(bbp[i])
      BY <2>4 DEF Modes
    <3>3. Modes(t, i)'
      BY <1>1, <1>4, <1>5, <2>4, <3>1, <3>2 DEF Modes, clients, Persistent
    <3> QED  BY <3>3 DEF Shape
  <2> QED  BY <1>1, <2>2, <2>3, <2>4, RetainForm
<1>12. PlainAccounts(t, i)
  <2>1. Refers(t, i)' = Refers(t, i) /\ Left(t, "unshare", i)' = Left(t, "unshare", i)
    BY <1>1, <1>7 DEF Passes, Refers, clients
  <2>2. Lrefs(t, i)' = Lrefs(t, i) + 1
    <3>1. lref'[t][i] = lref[t][i] /\ lref[t][i] \in Nat
      BY <1>1 DEF clients, Types
    <3>2. /\ Left(t, "retain", i)' = Left(t, "retain", i) - 1 /\ Left(t, "retain", i) \in Nat
          /\ Left(t, "release", i)' = Left(t, "release", i) /\ Left(t, "release", i) \in Nat
          /\ Left(t, "persist", i)' = Left(t, "persist", i) /\ Left(t, "persist", i) \in Nat
      BY <1>7 DEF Passes
    <3> QED  BY <3>1, <3>2 DEF Lrefs
  <2>3. Own(i)' = Own(i)
    <3>1. Left(t, "unpersist", i)' = Left(t, "unpersist", i)
      BY <1>7 DEF Passes
    <3> QED  BY <1>1, <1>4, <1>5, <3>1, Done, OwnLocal DEF Persistent
  <2>4. bbp[i].lrefs + 1 + (Lrefs(t, i) + Own(i)) = bbp[i].lrefs + (Lrefs(t, i)' + Own(i)')
    <3>1. bbp[i].lrefs \in Nat /\ Lrefs(t, i) \in Nat /\ Own(i) \in Int
      BY SlotTypes
    <3> QED  BY <2>2, <2>3, <3>1
  <2> QED  BY <1>1, <1>4, <1>5, <2>1, <2>4 DEF PlainAccounts, clients
<1>13. Resets(t, i)
  <2>1. Loads(t, i)' = Loads(t, i) /\ Unloads(t, i)' = Unloads(t, i) /\ Sets(t, i)' = Sets(t, i)
    BY <1>7 DEF Passes, Loads, Unloads, Sets
  <2>2. /\ Flagged(i, "LOADING")' = Flagged(i, "LOADING")
        /\ Flagged(i, "UNLOADING")' = Flagged(i, "UNLOADING")
    BY <1>4, <1>5 DEF Flagged
  <2> QED  BY <2>1, <2>2, Zenon DEF Resets
<1>14. Left(t, "base", i)' = Left(t, "base", i)
  BY <1>7 DEF Passes
<1> QED  BY <1>6, <1>9, <1>10, <1>11, <1>12, <1>13, <1>14, MoveKeeps

(* A call whose next step fixes a bat.                                    *)
LEMMA FixForm ==
    ASSUME Types, NEW t \in Threads, Shape(t), NEW i \in Slots, At(t, "fix", i)
    PROVE  \/ Fetches(t, i) /\ todo[t] = << <<"fix", i>>, <<"load", i>>, <<"got", i>> >>
           \/ \E v \in Slots:
                /\ FetchesView(t, v, i)
                /\ todo[t] = << <<"fix", i>>, <<"load", i>>, <<"base", v>>, <<"load", v>>, <<"got", v>> >>
<1>1. todo[t] \in Seq(Steps) /\ todo[t] # <<>> /\ todo[t][1] = <<"fix", i>>
  BY DEF Types, At
<1>2. ASSUME NEW j \in Slots, Retains(t, j) \/ Modes(t, j)
      PROVE  FALSE
  BY <1>1, <1>2 DEF Retains, Modes
<1>3. ~Undoes(t)
  BY <1>1 DEF Undoes, Ends
<1>4. ASSUME NEW j \in Slots, Fetches(t, j)
      PROVE  Fetches(t, i) /\ todo[t] = << <<"fix", i>>, <<"load", i>>, <<"got", i>> >>
  BY <1>1, <1>4 DEF Fetches
<1>5. ASSUME NEW j \in Slots, NEW p \in Slots, FetchesView(t, j, p)
      PROVE  p = i /\ todo[t] = << <<"fix", i>>, <<"load", i>>, <<"base", j>>, <<"load", j>>, <<"got", j>> >>
  BY <1>1, <1>5 DEF FetchesView
<1> QED  BY <1>2, <1>3, <1>4, <1>5 DEF Shape

(* Somebody has a reference of a bat that is to be fixed.                  *)
LEMMA FixKnown ==
    ASSUME IInv, NEW t \in Threads, NEW i \in Slots, At(t, "fix", i)
    PROVE  bbp[i].refs > 0 \/ bbp[i].lrefs > 0
<1>1. Types /\ Shape(t)
  BY DEF IInv
<1>2. CASE Fetches(t, i) /\ todo[t] = << <<"fix", i>>, <<"load", i>>, <<"got", i>> >>
  <2>1. fix[t][i] + lref[t][i] > 0
    BY <1>1, <1>2 DEF Fetches, At
  <2>2. /\ Left(t, "retain", i) = 0 /\ Left(t, "release", i) = 0 /\ Left(t, "persist", i) = 0
        /\ Left(t, "unfix", i) = 0
    BY <1>2, LeftLiteral DEF One
  <2>3. /\ fix[t][i] \in Nat /\ lref[t][i] \in Nat /\ Fixes(t, i) \in Nat
        /\ Fixes(t, i) >= fix[t][i] + Left(t, "unfix", i)
    BY SlotTypes
  <2>4. Lrefs(t, i) = lref[t][i]
    BY <2>2, <2>3 DEF Lrefs
  <2>5. Fixes(t, i) > 0 \/ Lrefs(t, i) > 0
    BY <2>1, <2>2, <2>3, <2>4
  <2> QED  BY <2>5, FixesPositive, LrefsPositive
<1>3. ASSUME NEW v \in Slots, FetchesView(t, v, i)
      PROVE  bbp[i].lrefs > 0
  <2>1. v \in Views(i)
    BY <1>3 DEF FetchesView, Views, IInv, Slot, ViewOK
  <2> QED  BY <2>1, ViewsPositive
<1> QED  BY <1>1, <1>2, <1>3, FixForm

(* incref of a bat, or of a view that is in use already.                  *)
LEMMA IncFixPlain ==
    ASSUME IInv, NEW t \in Threads, NEW i \in Slots, IncFix(t, i), ~(bbp[i].refs = 0 /\ IsView(bbp[i]))
    PROVE  IInv'
<1>1. /\ Types /\ Shape(t) /\ At(t, "fix", i) /\ Then(t, <<>>) /\ ~Unstable(bbp[i])
      /\ bbp' = [bbp EXCEPT ![i].refs = @ + 1, ![i].status = @] /\ UNCHANGED clients
  BY DEF IInv, IncFix
<1>2. PICK p: p \in Seq(Steps) /\ p = <<>>
  BY NoSteps
<1>3. PICK b: b = [bbp[i] EXCEPT !.refs = @ + 1]
  OBVIOUS
<1>4. /\ bbp[i] \in Bats /\ b \in Bats /\ b.used = bbp[i].used /\ b.refs = bbp[i].refs + 1
      /\ b.lrefs = bbp[i].lrefs /\ b.share = bbp[i].share /\ b.status = bbp[i].status
      /\ b.parent = bbp[i].parent /\ b.heap = bbp[i].heap /\ b.base = bbp[i].base
      /\ b.dirty = bbp[i].dirty /\ b.copied = bbp[i].copied
  <2>1. bbp[i] \in Bats
    BY <1>1 DEF Types
  <2> QED  BY <1>3, <2>1 DEF Bats
<1>5. bbp' = [bbp EXCEPT ![i] = b] /\ bbp'[i] = b
  <2>1. bbp \in [Slots -> Bats]
    BY <1>1 DEF Types
  <2>2. bbp' = [bbp EXCEPT ![i] = b]
    BY <1>1, <1>3, <2>1 DEF Bats
  <2> QED  BY <2>1, <2>2
<1>6. Moves(t, i, "fix", p, b)
  <2>1. \A k \in DOMAIN p: p[k][2] = i
    BY <1>2
  <2> QED  BY <1>1, <1>2, <1>4, <1>5, <2>1, Zenon DEF Moves
<1>7. Passes(t, i, "fix")
  BY <1>1, PassesOne
<1>8. Becomes(t, i, b)
  <2>1. bbp[i].used /\ BatOK(bbp[i])
    BY <1>1, AtUsed DEF IInv, Slot
  <2>2. bbp[i].refs > 0 \/ bbp[i].lrefs > 0
    BY <1>1, FixKnown
  <2>3. bbp[i].refs \in Nat
    BY SlotTypes
  <2>4. BatOK(b)
    BY <1>1, <1>4, <2>1, <2>2, <2>3 DEF BatOK, Unstable, Loaded, Persistent, BATdirty
  <2> QED  BY <1>1, <1>4, <2>1, <2>4 DEF Becomes, Unstable, Loaded, Persistent
<1>9. Undisturbed(i, b)
  <2>1. ASSUME bbp[i].parent # 0
        PROVE  HoldsBase(i) /\ Loaded(bbp[i]) /\ bbp[i].status \subseteq {"LOADED", "UNLOADING", "LOADING"}
    <3>1. bbp[i].refs > 0 /\ "LOADING" \notin bbp[i].status
      BY <1>1, <2>1, SlotTypes DEF Unstable, IsView
    <3> QED  BY <2>1, <3>1, ViewsHaveNone DEF HoldsBase, ViewOK, Loaded
  <2>2. b.refs > 0
    BY <1>4, SlotTypes
  <2> QED  BY <1>4, <2>1, <2>2 DEF Undisturbed, HoldsBase, Loaded
<1>10. Shape(t)'
  <2>1. CASE Fetches(t, i) /\ todo[t] = << <<"fix", i>>, <<"load", i>>, <<"got", i>> >>
    <3>1. todo'[t] = << <<"load", i>>, <<"got", i>> >>
      BY <1>7, <2>1 DEF Passes
    <3> QED  BY <3>1 DEF Shape, Fetches
  <2>2. ASSUME NEW v \in Slots, FetchesView(t, v, i),
               todo[t] = << <<"fix", i>>, <<"load", i>>, <<"base", v>>, <<"load", v>>, <<"got", v>> >>
        PROVE  Shape(t)'
    <3>1. todo'[t] = << <<"load", i>>, <<"base", v>>, <<"load", v>>, <<"got", v>> >>
      BY <1>7, <2>2 DEF Passes
    <3>2. bbp'[v].parent = i
      BY <1>1, <1>4, <1>5, <2>2 DEF FetchesView, Types
    <3> QED  BY <3>1, <3>2 DEF Shape, FetchesView
  <2> QED  BY <1>1, <2>1, <2>2, FixForm
<1>11. PlainAccounts(t, i)
  <2>1. Lrefs(t, i)' = Lrefs(t, i) /\ Left(t, "unshare", i)' = Left(t, "unshare", i)
    BY <1>1, <1>7 DEF Passes, Lrefs, clients
  <2>2. Refers(t, i)' = Refers(t, i) + 1
    <3>1. fix'[t][i] = fix[t][i] /\ fix[t][i] \in Nat
      BY <1>1 DEF clients, Types
    <3>2. /\ Left(t, "fix", i)' = Left(t, "fix", i) - 1 /\ Left(t, "fix", i) \in Nat
          /\ Left(t, "unfix", i)' = Left(t, "unfix", i) /\ Left(t, "unfix", i) \in Nat
          /\ Left(t, "got", i)' = Left(t, "got", i) /\ Left(t, "got", i) \in Nat
      BY <1>7 DEF Passes
    <3> QED  BY <3>1, <3>2 DEF Refers
  <2>3. Own(i)' = Own(i)
    <3>1. Left(t, "unpersist", i)' = Left(t, "unpersist", i)
      BY <1>7 DEF Passes
    <3> QED  BY <1>1, <1>4, <1>5, <3>1, Done, OwnLocal DEF Persistent
  <2>4. bbp[i].refs + 1 + Refers(t, i) + lost[i] = bbp[i].refs + (Refers(t, i) + 1) + lost[i]
    <3>1. bbp[i].refs \in Nat /\ Refers(t, i) \in Int /\ lost[i] \in Nat
      BY SlotTypes
    <3> QED  BY <3>1
  <2> QED  BY <1>1, <1>4, <1>5, <2>1, <2>2, <2>3, <2>4 DEF PlainAccounts, clients
<1>12. Resets(t, i)
  <2>1. Loads(t, i)' = Loads(t, i) /\ Unloads(t, i)' = Unloads(t, i) /\ Sets(t, i)' = Sets(t, i)
    BY <1>7 DEF Passes, Loads, Unloads, Sets
  <2>2. /\ Flagged(i, "LOADING")' = Flagged(i, "LOADING")
        /\ Flagged(i, "UNLOADING")' = Flagged(i, "UNLOADING")
    BY <1>4, <1>5 DEF Flagged
  <2> QED  BY <2>1, <2>2, Zenon DEF Resets
<1>13. Left(t, "base", i)' = Left(t, "base", i)
  BY <1>7 DEF Passes
<1> QED  BY <1>6, <1>8, <1>9, <1>10, <1>11, <1>12, <1>13, MoveKeeps

(* Sequences one after the other, as literals.                            *)
LEMMA ThreeAndTwo ==
    ASSUME NEW a, NEW b, NEW c, NEW d, NEW e
    PROVE  <<a, b, c, d, e>> = <<a, b, c>> \o <<d, e>>
OBVIOUS

(* The first fix of a view: its parent will be fixed for it.               *)
LEMMA IncFixFirst ==
    ASSUME IInv, NEW t \in Threads, NEW i \in Slots, IncFix(t, i), bbp[i].refs = 0, IsView(bbp[i])
    PROVE  IInv'
<1>1. /\ Types /\ Shape(t) /\ At(t, "fix", i) /\ ~Unstable(bbp[i]) /\ UNCHANGED clients
  BY DEF IInv, IncFix
<1>2. PICK q: q = bbp[i].parent
  OBVIOUS
<1>3. q \in Slots /\ ViewOK(i, q) /\ Views(i) = {} /\ q # i
  BY <1>2, ViewsHaveNone DEF IsView, ViewOK
<1>4. PICK p: p = << <<"fix", q>>, <<"load", q>>, <<"base", i>> >>
  OBVIOUS
<1>5. p \in Seq(Steps)
  <2>1. <<"fix", q>> \in Steps /\ <<"load", q>> \in Steps /\ <<"base", i>> \in Steps
    BY <1>3 DEF Steps
  <2> QED  BY <1>4, <2>1
<1>6. PICK b: b = [bbp[i] EXCEPT !.refs = @ + 1, !.status = @ \cup {"LOADING"}]
  OBVIOUS
<1>25. Then(t, p)
  BY <1>2, <1>4 DEF IncFix
<1>7. bbp' = [bbp EXCEPT ![i].refs = @ + 1, ![i].status = @ \cup {"LOADING"}]
  BY DEF IncFix, WhileRebased
<1>8. /\ bbp[i] \in Bats /\ b \in Bats /\ b.used = bbp[i].used /\ b.refs = 1
      /\ b.lrefs = bbp[i].lrefs /\ b.share = bbp[i].share /\ b.status = bbp[i].status \cup {"LOADING"}
      /\ b.parent = q /\ b.heap = bbp[i].heap /\ b.base = bbp[i].base
      /\ b.dirty = bbp[i].dirty /\ b.copied = bbp[i].copied
  <2>1. bbp[i] \in Bats
    BY <1>1 DEF Types
  <2>2. [bbp[i] EXCEPT !.refs = @ + 1, !.status = @ \cup {"LOADING"}] \in Bats
    <3>1. bbp[i].status \cup {"LOADING"} \in SUBSET Flags /\ bbp[i].refs + 1 \in Nat
      BY <2>1 DEF Bats, Flags
    <3> QED  BY <2>1, <3>1 DEF Bats
  <2>3. /\ b.used = bbp[i].used /\ b.refs = bbp[i].refs + 1
        /\ b.lrefs = bbp[i].lrefs /\ b.share = bbp[i].share /\ b.status = bbp[i].status \cup {"LOADING"}
        /\ b.parent = bbp[i].parent /\ b.heap = bbp[i].heap /\ b.base = bbp[i].base
        /\ b.dirty = bbp[i].dirty /\ b.copied = bbp[i].copied
    BY <1>6, <2>1 DEF Bats
  <2> QED  BY <1>2, <1>6, <2>1, <2>2, <2>3
<1>9. bbp' = [bbp EXCEPT ![i] = b] /\ bbp'[i] = b
  <2>1. bbp \in [Slots -> Bats]
    BY <1>1 DEF Types
  <2>2. bbp' = [bbp EXCEPT ![i] = b]
    BY <1>6, <1>7, <2>1 DEF Bats
  <2> QED  BY <2>1, <2>2
<1>10. /\ todo' \in [Threads -> Seq(Steps)] /\ \A u \in Threads \ {t}: todo'[u] = todo[u]
       /\ todo'[t] = p \o Tail(todo[t])
  BY <1>1, <1>5, <1>25, Advance
<1>11. fix' = fix /\ lref' = lref /\ lost' = lost /\ calls' = calls
  BY <1>1 DEF clients
<1>12. Types'
  BY <1>1, <1>8, <1>9, <1>10, <1>11 DEF Types
<1>13. todo[t] = << <<"fix", i>>, <<"load", i>>, <<"got", i>> >>
  <2>1. ASSUME NEW v \in Slots, FetchesView(t, v, i)
        PROVE  FALSE
    <3>1. v \in Views(i)
      BY <2>1 DEF FetchesView, Views, IInv, Slot, ViewOK
    <3> QED  BY <1>3, <3>1
  <2> QED  BY <1>1, <2>1, FixForm
<1>14. todo'[t] = << <<"fix", q>>, <<"load", q>>, <<"base", i>>, <<"load", i>>, <<"got", i>> >>
  <2>1. Tail(todo[t]) = << <<"load", i>>, <<"got", i>> >>
    BY <1>13
  <2>2. todo'[t] = << <<"fix", q>>, <<"load", q>>, <<"base", i>> >> \o << <<"load", i>>, <<"got", i>> >>
    BY <1>4, <1>10, <2>1, Zenon
  <2>3. << <<"fix", q>>, <<"load", q>>, <<"base", i>>, <<"load", i>>, <<"got", i>> >>
          = << <<"fix", q>>, <<"load", q>>, <<"base", i>> >> \o << <<"load", i>>, <<"got", i>> >>
    <3>1. PICK c1, c2, c3, c4, c5: /\ c1 = <<"fix", q>> /\ c2 = <<"load", q>> /\ c3 = <<"base", i>>
                                  /\ c4 = <<"load", i>> /\ c5 = <<"got", i>>
      OBVIOUS
    <3>2. <<c1, c2, c3, c4, c5>> = <<c1, c2, c3>> \o <<c4, c5>>
      BY ThreeAndTwo
    <3> QED  BY <3>1, <3>2, Zenon
  <2> QED  BY <2>2, <2>3, Zenon
<1>15. /\ \A y: Left(t, y, i) = IF y \in {"fix", "load", "got"} THEN 1 ELSE 0
       /\ \A y: Left(t, y, i)' = IF y \in {"base", "load", "got"} THEN 1 ELSE 0
       /\ \A y: Left(t, y, q) = 0
       /\ \A y: Left(t, y, q)' = IF y \in {"fix", "load"} THEN 1 ELSE 0
       /\ \A y, j: j \notin {i, q} => Left(t, y, j) = 0 /\ Left(t, y, j)' = 0
  <2>1. \A y, j: Left(t, y, j) = IF j = i /\ y \in {"fix", "load", "got"} THEN 1 ELSE 0
    <3>1. \A y, j: Left(t, y, j) = One(<<"fix", i>>, <<y, j>>) + One(<<"load", i>>, <<y, j>>)
                                     + One(<<"got", i>>, <<y, j>>)
      BY <1>13, LeftLiteral
    <3>2. ASSUME NEW y, NEW j
          PROVE  Left(t, y, j) = IF j = i /\ y \in {"fix", "load", "got"} THEN 1 ELSE 0
      <4>1. /\ One(<<"fix", i>>, <<y, j>>) = IF "fix" = y /\ i = j THEN 1 ELSE 0
            /\ One(<<"load", i>>, <<y, j>>) = IF "load" = y /\ i = j THEN 1 ELSE 0
            /\ One(<<"got", i>>, <<y, j>>) = IF "got" = y /\ i = j THEN 1 ELSE 0
        BY OnePair
      <4> QED  BY <3>1, <4>1
    <3> QED  BY <3>2
  <2>2. \A y, j: Left(t, y, j)' = Occ(p, <<y, j>>)
                     + (IF "fix" = y /\ i = j THEN Left(t, y, j) - 1 ELSE Left(t, y, j))
    <3>1. PICK z: z = "fix"
      OBVIOUS
    <3>2. At(t, z, i)
      BY <1>1, <3>1, Zenon
    <3>3. /\ todo'[t] = p \o Tail(todo[t])
          /\ \A y, j: Left(t, y, j)' = Occ(p, <<y, j>>)
               + (IF z = y /\ i = j THEN Left(t, y, j) - 1 ELSE Left(t, y, j))
      BY <1>1, <1>5, <1>25, <3>2, Advance
    <3> QED  BY <3>1, <3>3, Zenon
  <2>3. \A y, j: Occ(p, <<y, j>>) = One(<<"fix", q>>, <<y, j>>) + One(<<"load", q>>, <<y, j>>)
                                      + One(<<"base", i>>, <<y, j>>)
    BY <1>4, OccThree
  <2>4. ASSUME NEW y, NEW j
        PROVE  /\ j = i => Left(t, y, j)' = IF y \in {"base", "load", "got"} THEN 1 ELSE 0
               /\ j = q => Left(t, y, j)' = IF y \in {"fix", "load"} THEN 1 ELSE 0
               /\ j \notin {i, q} => Left(t, y, j)' = 0
    <3>1. /\ One(<<"fix", q>>, <<y, j>>) = IF "fix" = y /\ q = j THEN 1 ELSE 0
          /\ One(<<"load", q>>, <<y, j>>) = IF "load" = y /\ q = j THEN 1 ELSE 0
          /\ One(<<"base", i>>, <<y, j>>) = IF "base" = y /\ i = j THEN 1 ELSE 0
      BY OnePair
    <3>2. Left(t, y, j) = IF j = i /\ y \in {"fix", "load", "got"} THEN 1 ELSE 0
      BY <2>1
    <3>3. Left(t, y, j)' = (One(<<"fix", q>>, <<y, j>>) + One(<<"load", q>>, <<y, j>>)
                              + One(<<"base", i>>, <<y, j>>))
                     + (IF "fix" = y /\ i = j THEN Left(t, y, j) - 1 ELSE Left(t, y, j))
      BY <2>2, <2>3
    <3> QED  BY <1>3, <3>1, <3>2, <3>3
  <2> QED  BY <1>3, <2>1, <2>4
<1>16. Becomes(t, i, b)
  <2>1. bbp[i].used /\ BatOK(bbp[i])
    BY <1>1, AtUsed DEF IInv, Slot
  <2>2. "LOADED" \in bbp[i].status
    BY <1>3 DEF ViewOK
  <2>3. q # 0
    BY <1>3, BBPRefsAssumption
  <2>4. BatOK(b)
    BY <1>1, <1>8, <2>1, <2>2, <2>3 DEF BatOK, Unstable, Loaded, Persistent, BATdirty
  <2> QED  BY <1>1, <1>2, <1>8, <2>1, <2>2, <2>4 DEF Becomes, Unstable, Loaded, Persistent
<1>17. \A r \in Slots: b.parent = r => ViewOK(i, r)'
  <2>1. bbp'[q] = bbp[q]
    BY <1>1, <1>3, <1>9 DEF Types
  <2>2. bbp[i].base = 0
    BY <1>3 DEF ViewOK, HoldsBase
  <2>3. ViewOK(i, q)'
    BY <1>3, <1>8, <1>9, <2>1, <2>2 DEF ViewOK, HoldsBase
  <2> QED  BY <1>8, <2>3
<1>18. \A j \in Slots: ~bbp[j].used => Forgotten(t, j)'
  <2>1. bbp[i].used /\ bbp[q].used
    BY <1>3 DEF ViewOK
  <2>2. \A k \in DOMAIN p: p[k][2] \in Slots => bbp[p[k][2]].used
    BY <1>4, <2>1
  <2> QED  BY <1>1, <1>5, <1>25, <1>11, <2>2, StillForgotten
<1>19. Shape(t)'
  <2>1. FetchesView(t, i, q)'
    BY <1>8, <1>9, <1>14 DEF FetchesView
  <2> QED  BY <1>3, <2>1 DEF Shape
<1>20. Readable(t)'
  BY <1>9, <1>11, <1>16, ReadableKept
<1>21. \A u \in Threads \ {t}: Waits(u)
  BY <1>10, <1>11 DEF Waits
<1>22. ASSUME NEW j \in Slots
       PROVE  Views(j)' = Views(j) /\ Holding(j)' = Holding(j) /\ Own(j)' = Own(j)
  <2>1. Views(j)' = Views(j)
    BY <1>1, <1>2, <1>8, <1>9, ViewsLocal
  <2>2. HoldsBase(i)' <=> HoldsBase(i)
    BY <1>8, <1>9 DEF HoldsBase
  <2>3. Holding(j)' = Holding(j)
    BY <1>1, <1>2, <1>8, <1>9, <2>2, HoldingLocal
  <2>4. Left(t, "unpersist", j)' = Left(t, "unpersist", j)
    BY <1>15
  <2>5. Persistent(bbp'[j]) <=> Persistent(bbp[j])
    BY <1>1, <1>8, <1>9 DEF Persistent, Types
  <2> QED  BY <1>10, <2>1, <2>3, <2>4, <2>5, OwnLocal
<1>23. ASSUME NEW j \in Slots
       PROVE  Accounts(t, j)
  <2>1. /\ bbp'[j].lrefs = bbp[j].lrefs /\ bbp'[j].share = bbp[j].share
        /\ (j # i => bbp'[j].refs = bbp[j].refs) /\ lost'[j] = lost[j]
    BY <1>1, <1>8, <1>9, <1>11 DEF Types
  <2>2. Lrefs(t, j)' = Lrefs(t, j) /\ Left(t, "unshare", j)' = Left(t, "unshare", j)
    BY <1>11, <1>15 DEF Lrefs
  <2>3. bbp'[j].refs + Fixes(t, j) = bbp[j].refs + Fixes(t, j)'
    <3>1. fix[t][j] \in Nat /\ fix'[t][j] = fix[t][j] /\ bbp[j].refs \in Nat
      BY <1>11, SlotTypes
    <3>2. CASE j = i
      <4>1. Based(t, i) = 0 /\ Based(t, i)' = 0
        BY <1>3, <1>22 DEF Based
      <4>2. /\ Left(t, "unfix", i) = 0 /\ Left(t, "got", i) = 1 /\ Left(t, "fix", i) = 1
            /\ Left(t, "unfix", i)' = 0 /\ Left(t, "got", i)' = 1 /\ Left(t, "fix", i)' = 0
        BY <1>15
      <4>3. Fixes(t, i) = fix[t][i] /\ Fixes(t, i)' = fix[t][i] + 1
        BY <3>1, <3>2, <4>1, <4>2 DEF Fixes
      <4> QED  BY <1>8, <1>9, <3>1, <3>2, <4>3
    <3>3. CASE j = q
      <4>1. Based(t, q) = 0
        BY <1>15 DEF Based, Views
      <4>2. Based(t, q)' = 1
        <5>1. i \in Views(q)'
          BY <1>3, <1>8, <1>9 DEF Views, ViewOK
        <5>2. Left(t, "base", i)' = 1
          BY <1>15
        <5> QED  BY <5>1, <5>2 DEF Based
      <4>3. /\ Left(t, "unfix", q) = 0 /\ Left(t, "got", q) = 0 /\ Left(t, "fix", q) = 0
            /\ Left(t, "unfix", q)' = 0 /\ Left(t, "got", q)' = 0 /\ Left(t, "fix", q)' = 1
        BY <1>15
      <4>4. Fixes(t, q) = fix[t][q] /\ Fixes(t, q)' = fix[t][q]
        BY <3>1, <3>3, <4>1, <4>2, <4>3 DEF Fixes
      <4> QED  BY <1>3, <2>1, <3>1, <3>3, <4>4
    <3>4. CASE j \notin {i, q}
      <4>1. Based(t, j) = 0 /\ Based(t, j)' = 0
        <5>1. \A v \in Views(j): v # i
          BY <1>2, <3>4 DEF Views
        <5>2. \A v: v # i => Left(t, "base", v) = 0 /\ Left(t, "base", v)' = 0
          BY <1>15
        <5>3. \A v \in Views(j): ~(Left(t, "base", v) > 0) /\ ~(Left(t, "base", v)' > 0)
          BY <5>1, <5>2
        <5> QED  BY <1>22, <5>3 DEF Based
      <4>2. /\ Left(t, "unfix", j) = 0 /\ Left(t, "got", j) = 0 /\ Left(t, "fix", j) = 0
            /\ Left(t, "unfix", j)' = 0 /\ Left(t, "got", j)' = 0 /\ Left(t, "fix", j)' = 0
        BY <1>15, <3>4
      <4>3. Fixes(t, j) = fix[t][j] /\ Fixes(t, j)' = fix[t][j]
        BY <3>1, <4>1, <4>2 DEF Fixes
      <4> QED  BY <2>1, <3>1, <3>4, <4>3
    <3> QED  BY <3>2, <3>3, <3>4
  <2>4. Accounts(t, j)
    <3>1. bbp'[j].refs + Fixes(t, j) + lost[j] + Cardinality(Holding(j))
            = bbp[j].refs + Fixes(t, j)' + lost[j] + Cardinality(Holding(j))
      BY <2>3, Zenon
    <3> QED  BY <1>22, <2>1, <2>2, <3>1, Zenon DEF Accounts
  <2> QED  BY <2>4
<1>24. ASSUME NEW j \in Slots
       PROVE  Resets(t, j)
  <2>1. Sets(t, j)' = 0 /\ Unloads(t, j)' = Unloads(t, j)
    BY <1>15 DEF Sets, Unloads
  <2>2. Flagged(j, "UNLOADING")' = Flagged(j, "UNLOADING")
    BY <1>1, <1>8, <1>9 DEF Flagged, Types
  <2>3. CASE j = i
    <3>1. Loads(t, i) = 0 /\ Loads(t, i)' = 1
      BY <1>15 DEF Loads
    <3>2. Flagged(i, "LOADING") = 0 /\ Flagged(i, "LOADING")' = 1
      BY <1>1, <1>8, <1>9 DEF Flagged, Unstable
    <3> QED  BY <2>1, <2>2, <2>3, <3>1, <3>2 DEF Resets
  <2>4. CASE j # i
    <3>1. Loads(t, j) = 0 /\ Loads(t, j)' = 0
      BY <1>3, <1>15, <2>4 DEF Loads
    <3>2. Flagged(j, "LOADING")' = Flagged(j, "LOADING")
      BY <1>1, <1>9, <2>4 DEF Flagged, Types
    <3> QED  BY <2>1, <2>2, <3>1, <3>2 DEF Resets
  <2> QED  BY <2>3, <2>4
<1> QED  BY <1>8, <1>9, <1>12, <1>16, <1>17, <1>18, <1>19, <1>20, <1>21, <1>23, <1>24, LocalStep


(* incref of a fix.                                                       *)
LEMMA IncFixKeeps ==
    ASSUME IInv, NEW t \in Threads, NEW i \in Slots, IncFix(t, i)
    PROVE  IInv'
BY IncFixPlain, IncFixFirst

-----------------------------------------------------------------------------
(***************************************************************************)
(* A step in the place of which comes one other step, z, about the same    *)
(* bat.                                                                    *)
(***************************************************************************)
Turns(t, i, x, z) ==
    /\ todo'[t] = << <<z, i>> >> \o Tail(todo[t])
    /\ \A y: /\ Left(t, y, i) \in Nat
             /\ y \notin {x, z} => Left(t, y, i)' = Left(t, y, i)
    /\ Left(t, x, i)' = Left(t, x, i) - 1
    /\ Left(t, z, i)' = Left(t, z, i) + 1

Only(p, s) == p = <<s>>

(* A sequence of one step.                                                *)
LEMMA OneStep ==
    ASSUME NEW s \in Steps
    PROVE  \E p: p \in Seq(Steps) /\ Only(p, s)
<1>1. <<s>> \in Seq(Steps)
  OBVIOUS
<1> QED  BY <1>1, Zenon DEF Only

(* What is left when the first step was replaced by others.               *)
LEMMA AdvanceLeft ==
    ASSUME Types, NEW t \in Threads, NEW i \in Slots, NEW x, NEW p, p \in Seq(Steps),
           At(t, x, i), Then(t, p)
    PROVE  /\ todo'[t] = p \o Tail(todo[t])
           /\ \A y, j: Left(t, y, j)' = Occ(p, <<y, j>>)
                         + (IF x = y /\ i = j THEN Left(t, y, j) - 1 ELSE Left(t, y, j))
BY Advance

(* One step turns into another.                                           *)
LEMMA TurnsOne ==
    ASSUME Types, NEW t \in Threads, NEW i \in Slots, NEW x, NEW z, x # z, NEW p,
           p \in Seq(Steps), Only(p, <<z, i>>), At(t, x, i), Then(t, p)
    PROVE  Turns(t, i, x, z)
<1>1. /\ todo'[t] = p \o Tail(todo[t])
      /\ \A y, j: Left(t, y, j)' = Occ(p, <<y, j>>)
                    + (IF x = y /\ i = j THEN Left(t, y, j) - 1 ELSE Left(t, y, j))
  BY AdvanceLeft
<1>2. \A y: Left(t, y, i) \in Nat
  BY LeftType
<1>3. ASSUME NEW y
      PROVE  Left(t, y, i)' = IF y = z THEN Left(t, y, i) + 1
                              ELSE IF y = x THEN Left(t, y, i) - 1 ELSE Left(t, y, i)
  <2>1. Occ(p, <<y, i>>) = One(<<z, i>>, <<y, i>>)
    BY OccOne DEF Only
  <2>2. One(<<z, i>>, <<y, i>>) = IF z = y /\ i = i THEN 1 ELSE 0
    BY OnePair
  <2>3. Left(t, y, i)' = Occ(p, <<y, i>>) + (IF x = y /\ i = i THEN Left(t, y, i) - 1 ELSE Left(t, y, i))
    BY <1>1
  <2>4. Left(t, y, i) \in Nat
    BY <1>2
  <2> QED  BY <2>1, <2>2, <2>3, <2>4
<1>4. todo'[t] = << <<z, i>> >> \o Tail(todo[t])
  BY <1>1, Zenon DEF Only
<1> QED  BY <1>2, <1>3, <1>4 DEF Turns

(* Sequences one after the other, as literals.                            *)
LEMMA OneAndOne ==
    ASSUME NEW a, NEW b
    PROVE  <<a, b>> = <<a>> \o <<b>>
<1>1. <<a>> \in Seq({a, b}) /\ <<b>> \in Seq({a, b})
  OBVIOUS
<1>2. /\ <<a>> \o <<b>> \in Seq({a, b}) /\ Len(<<a>> \o <<b>>) = 2
      /\ (<<a>> \o <<b>>)[1] = a /\ (<<a>> \o <<b>>)[2] = b
  BY <1>1
<1>3. <<a, b>> \in Seq({a, b}) /\ Len(<<a, b>>) = 2 /\ <<a, b>>[1] = a /\ <<a, b>>[2] = b
  OBVIOUS
<1>4. \A k \in 1 .. 2: k = 1 \/ k = 2
  OBVIOUS
<1> QED  BY <1>2, <1>3, <1>4, SeqEqual

(* The same with four elements.                                           *)
LEMMA OneAndThree ==
    ASSUME NEW a, NEW b, NEW c, NEW d
    PROVE  <<a, b, c, d>> = <<a>> \o <<b, c, d>>
OBVIOUS

(* A bat that stays as it is, and steps that no count depends on.          *)
LEMMA SameBat ==
    ASSUME IInv, NEW t \in Threads, NEW i \in Slots, bbp[i].used
    PROVE  Becomes(t, i, bbp[i]) /\ Undisturbed(i, bbp[i])
<1>1. Becomes(t, i, bbp[i])
  BY DEF Becomes, IInv, Slot
<1>2. \A p \in Slots: bbp[i].parent = p => ViewOK(i, p)
  BY DEF IInv, Slot
<1>3. bbp[i].parent \in Slots \cup {0}
  BY DEF IInv, Types, Bats
<1> QED  BY <1>1, <1>2, <1>3 DEF Undisturbed, ViewOK, HoldsBase, Loaded

Uncounted == {"base", "load", "read", "unload", "freed", "clear"}
(* Steps that count for nothing do not change the counts.                 *)
LEMMA QuietAccounts ==
    ASSUME IInv, NEW t \in Threads, NEW i \in Slots, UNCHANGED clients,
           \A u \in Threads \ {t}: todo'[u] = todo[u],
           \A y: y \notin Uncounted => Left(t, y, i)' = Left(t, y, i),
           bbp'[i].refs = bbp[i].refs, bbp'[i].lrefs = bbp[i].lrefs, bbp'[i].share = bbp[i].share,
           Persistent(bbp'[i]) <=> Persistent(bbp[i])
    PROVE  PlainAccounts(t, i)
<1>1. fix' = fix /\ lref' = lref /\ lost' = lost
  BY DEF clients
<1>2. /\ Left(t, "fix", i)' = Left(t, "fix", i) /\ Left(t, "unfix", i)' = Left(t, "unfix", i)
      /\ Left(t, "got", i)' = Left(t, "got", i) /\ Left(t, "retain", i)' = Left(t, "retain", i)
      /\ Left(t, "release", i)' = Left(t, "release", i) /\ Left(t, "unshare", i)' = Left(t, "unshare", i)
      /\ Left(t, "persist", i)' = Left(t, "persist", i)
      /\ Left(t, "unpersist", i)' = Left(t, "unpersist", i)
  BY DEF Uncounted
<1>3. Refers(t, i)' = Refers(t, i) /\ Lrefs(t, i)' = Lrefs(t, i)
  BY <1>1, <1>2 DEF Refers, Lrefs
<1>4. Own(i)' = Own(i)
  BY <1>2, OwnLocal
<1> QED  BY <1>1, <1>2, <1>3, <1>4, Zenon DEF PlainAccounts

(* A call whose next step looks whether a bat has to be loaded.           *)
LEMMA LoadForm ==
    ASSUME Types, NEW t \in Threads, Shape(t), NEW i \in Slots, At(t, "load", i)
    PROVE  \/ todo[t] = << <<"load", i>>, <<"got", i>> >>
           \/ \E v \in Slots: /\ FetchesView(t, v, i)
                              /\ todo[t] = << <<"load", i>>, <<"base", v>>, <<"load", v>>, <<"got", v>> >>
<1>1. todo[t] \in Seq(Steps) /\ todo[t] # <<>> /\ todo[t][1] = <<"load", i>>
  BY DEF Types, At
<1>2. ASSUME NEW j \in Slots, Retains(t, j) \/ Modes(t, j)
      PROVE  FALSE
  BY <1>1, <1>2 DEF Retains, Modes
<1>3. ~Undoes(t)
  BY <1>1 DEF Undoes, Ends
<1>4. ASSUME NEW j \in Slots, Fetches(t, j)
      PROVE  todo[t] = << <<"load", i>>, <<"got", i>> >>
  BY <1>1, <1>4 DEF Fetches
<1>5. ASSUME NEW j \in Slots, NEW p \in Slots, FetchesView(t, j, p)
      PROVE  p = i /\ todo[t] = << <<"load", i>>, <<"base", j>>, <<"load", j>>, <<"got", j>> >>
  BY <1>1, <1>5 DEF FetchesView
<1> QED  BY <1>2, <1>3, <1>4, <1>5 DEF Shape

(* A bat that is in memory.                                                *)
LEMMA LoadSame ==
    ASSUME IInv, NEW t \in Threads, NEW i \in Slots, At(t, "load", i), Loaded(bbp[i]), Then(t, <<>>),
           UNCHANGED bbp, UNCHANGED clients
    PROVE  IInv'
<1>1. Types /\ Shape(t) /\ bbp[i] \in Bats /\ bbp' = [bbp EXCEPT ![i] = bbp[i]] /\ bbp'[i] = bbp[i]
  BY DEF IInv, Types
<1>2. PICK p: p \in Seq(Steps) /\ p = <<>>
  BY NoSteps
<1>3. Moves(t, i, "load", p, bbp[i])
  <2>1. \A k \in DOMAIN p: p[k][2] = i
    BY <1>2
  <2> QED  BY <1>1, <1>2, <2>1, Zenon DEF Moves
<1>4. Passes(t, i, "load")
  BY <1>1, PassesOne
<1>5. Becomes(t, i, bbp[i]) /\ Undisturbed(i, bbp[i])
  BY AtUsed, SameBat
<1>6. Shape(t)'
  <2>1. CASE todo[t] = << <<"load", i>>, <<"got", i>> >>
    <3>1. todo'[t] = << <<"got", i>> >>
      BY <1>4, <2>1 DEF Passes
    <3> QED  BY <3>1 DEF Shape, Fetches
  <2>2. ASSUME NEW v \in Slots, FetchesView(t, v, i),
               todo[t] = << <<"load", i>>, <<"base", v>>, <<"load", v>>, <<"got", v>> >>
        PROVE  Shape(t)'
    <3>1. todo'[t] = << <<"base", v>>, <<"load", v>>, <<"got", v>> >>
      BY <1>4, <2>2 DEF Passes
    <3>2. FetchesView(t, v, i)'
      BY <2>2, <3>1 DEF FetchesView
    <3> QED  BY <3>2 DEF Shape
  <2> QED  BY <1>1, <2>1, <2>2, LoadForm
<1>7. PlainAccounts(t, i)
  <2>1. \A y: y \notin Uncounted => Left(t, y, i)' = Left(t, y, i)
    BY <1>4 DEF Passes, Uncounted
  <2>2. \A u \in Threads \ {t}: todo'[u] = todo[u]
    BY <1>1, Done
  <2> QED  BY <1>1, <2>1, <2>2, QuietAccounts
<1>8. Resets(t, i)
  <2>1. Loads(t, i)' = Loads(t, i) /\ Unloads(t, i)' = Unloads(t, i) /\ Sets(t, i)' = Sets(t, i)
    BY <1>4 DEF Passes, Loads, Unloads, Sets
  <2>2. /\ Flagged(i, "LOADING")' = Flagged(i, "LOADING")
        /\ Flagged(i, "UNLOADING")' = Flagged(i, "UNLOADING")
    BY DEF Flagged
  <2> QED  BY <2>1, <2>2, Zenon DEF Resets
<1>9. Left(t, "base", i)' = Left(t, "base", i)
  BY <1>4 DEF Passes
<1> QED  BY <1>3, <1>5, <1>6, <1>7, <1>8, <1>9, MoveKeeps

(* Who is about to load a bat has a fix of it.                             *)
LEMMA LoadFixes ==
    ASSUME IInv, NEW t \in Threads, NEW i \in Slots, At(t, "load", i)
    PROVE  bbp[i].refs > 0
<1>1. Types /\ Shape(t) /\ fix[t][i] \in Nat /\ Based(t, i) \in {0, 1}
  BY BasedType DEF IInv, Types
<1>2. CASE todo[t] = << <<"load", i>>, <<"got", i>> >>
  <2>1. Left(t, "got", i) = 1 /\ Left(t, "fix", i) = 0 /\ Left(t, "unfix", i) = 0
    BY <1>2, LeftLiteral DEF One
  <2>2. Fixes(t, i) > 0
    BY <1>1, <2>1 DEF Fixes
  <2> QED  BY <2>2, FixesPositive
<1>3. ASSUME NEW v \in Slots, FetchesView(t, v, i),
             todo[t] = << <<"load", i>>, <<"base", v>>, <<"load", v>>, <<"got", v>> >>
      PROVE  bbp[i].refs > 0
  <2>1. v # i /\ v \in Views(i)
    BY <1>3 DEF FetchesView, IInv, Slot, ViewOK, Views
  <2>2. /\ Left(t, "got", i) = 0 /\ Left(t, "fix", i) = 0 /\ Left(t, "unfix", i) = 0
        /\ Left(t, "base", v) = 1
    BY <1>3, <2>1, LeftLiteral DEF One
  <2>3. Based(t, i) = 1
    BY <2>1, <2>2 DEF Based
  <2>4. Fixes(t, i) > 0
    BY <1>1, <2>2, <2>3 DEF Fixes
  <2> QED  BY <2>4, FixesPositive
<1> QED  BY <1>1, <1>2, <1>3, LoadForm

(* Nobody else loads it: it gets the flag.                                 *)
LEMMA LoadBegins ==
    ASSUME IInv, NEW t \in Threads, NEW i \in Slots, At(t, "load", i), ~Loaded(bbp[i]), ~Unstable(bbp[i]),
           bbp' = [bbp EXCEPT ![i].status = @ \cup {"LOADING"}], Then(t, << <<"read", i>> >>),
           UNCHANGED clients
    PROVE  IInv'
<1>1. Types /\ Shape(t) /\ fix' = fix /\ lref' = lref
  BY DEF IInv, clients
<1>2. PICK p: p \in Seq(Steps) /\ Only(p, <<"read", i>>)
  <2>1. <<"read", i>> \in Steps
    BY DEF Steps
  <2> QED  BY <2>1, OneStep
<1>3. PICK b: b = [bbp[i] EXCEPT !.status = @ \cup {"LOADING"}]
  OBVIOUS
<1>4. /\ bbp[i] \in Bats /\ b \in Bats /\ b.used = bbp[i].used /\ b.refs = bbp[i].refs
      /\ b.lrefs = bbp[i].lrefs /\ b.share = bbp[i].share /\ b.status = bbp[i].status \cup {"LOADING"}
      /\ b.parent = bbp[i].parent /\ b.heap = bbp[i].heap /\ b.base = bbp[i].base
      /\ b.dirty = bbp[i].dirty /\ b.copied = bbp[i].copied
  <2>1. bbp[i] \in Bats
    BY <1>1 DEF Types
  <2>2. bbp[i].status \cup {"LOADING"} \in SUBSET Flags
    BY <2>1 DEF Bats, Flags
  <2> QED  BY <1>3, <2>1, <2>2 DEF Bats
<1>5. bbp' = [bbp EXCEPT ![i] = b] /\ bbp'[i] = b
  <2>1. bbp' = [bbp EXCEPT ![i] = b]
    BY <1>3, Zenon
  <2> QED  BY <1>1, <2>1 DEF Types
<1>6. Then(t, p)
  BY <1>2, Zenon DEF Only
<1>7. Moves(t, i, "load", p, b)
  <2>1. \A k \in DOMAIN p: p[k][2] = i
    BY <1>2 DEF Only
  <2> QED  BY <1>1, <1>2, <1>4, <1>5, <1>6, <2>1, Zenon DEF Moves
<1>8. Turns(t, i, "load", "read")
  BY <1>1, <1>2, <1>6, TurnsOne
<1>9. bbp[i].parent = 0 /\ bbp[i].refs > 0 /\ bbp[i].used /\ BatOK(bbp[i])
  BY ViewsHaveNone, LoadFixes, AtUsed, ZenonT(30) DEF ViewOK, Loaded, IInv, Slot
<1>10. Becomes(t, i, b)
  <2>1. BatOK(b)
    BY <1>4, <1>9 DEF BatOK, Unstable, Loaded, Persistent, BATdirty
  <2> QED  BY <1>4, <1>9, <2>1 DEF Becomes, Unstable, Loaded, Persistent
<1>11. Undisturbed(i, b)
  BY <1>4, <1>9 DEF Undisturbed
<1>12. Shape(t)'
  <2>1. CASE todo[t] = << <<"load", i>>, <<"got", i>> >>
    <3>1. Tail(todo[t]) = << <<"got", i>> >>
      BY <2>1
    <3>2. << <<"read", i>>, <<"got", i>> >> = << <<"read", i>> >> \o << <<"got", i>> >>
      BY OneAndOne
    <3>3. todo'[t] = << <<"read", i>>, <<"got", i>> >>
      BY <1>8, <3>1, <3>2, Zenon DEF Turns
    <3> QED  BY <1>4, <1>5, <1>9, <3>3 DEF Shape, Fetches
  <2>2. ASSUME NEW v \in Slots, FetchesView(t, v, i),
               todo[t] = << <<"load", i>>, <<"base", v>>, <<"load", v>>, <<"got", v>> >>
        PROVE  Shape(t)'
    <3>1. Tail(todo[t]) = << <<"base", v>>, <<"load", v>>, <<"got", v>> >>
      BY <2>2
    <3>2. << <<"read", i>>, <<"base", v>>, <<"load", v>>, <<"got", v>> >>
            = << <<"read", i>> >> \o << <<"base", v>>, <<"load", v>>, <<"got", v>> >>
      <4>1. PICK c1, c2, c3, c4: /\ c1 = <<"read", i>> /\ c2 = <<"base", v>>
                                 /\ c3 = <<"load", v>> /\ c4 = <<"got", v>>
        OBVIOUS
      <4>2. <<c1, c2, c3, c4>> = <<c1>> \o <<c2, c3, c4>>
        BY OneAndThree
      <4> QED  BY <4>1, <4>2, Zenon
    <3>3. todo'[t] = << <<"read", i>>, <<"base", v>>, <<"load", v>>, <<"got", v>> >>
      BY <1>8, <3>1, <3>2, Zenon DEF Turns
    <3>4. bbp'[v].parent = bbp[v].parent
      BY <1>1, <1>4, <1>5 DEF Types
    <3>5. FetchesView(t, v, i)'
      BY <2>2, <3>3, <3>4 DEF FetchesView
    <3> QED  BY <3>5 DEF Shape
  <2> QED  BY <1>1, <2>1, <2>2, LoadForm
<1>13. PlainAccounts(t, i)
  <2>1. \A y: y \notin Uncounted => Left(t, y, i)' = Left(t, y, i)
    BY <1>8 DEF Turns, Uncounted
  <2>2. \A u \in Threads \ {t}: todo'[u] = todo[u]
    BY <1>1 DEF Then, Types
  <2>3. Persistent(bbp'[i]) <=> Persistent(bbp[i])
    BY <1>4, <1>5 DEF Persistent
  <2> QED  BY <1>4, <1>5, <2>1, <2>2, <2>3, QuietAccounts
<1>14. Resets(t, i)
  <2>1. Unloads(t, i)' = Unloads(t, i) /\ Sets(t, i)' = Sets(t, i)
    BY <1>8 DEF Turns, Unloads, Sets
  <2>2. Flagged(i, "UNLOADING")' = Flagged(i, "UNLOADING")
    BY <1>4, <1>5 DEF Flagged
  <2>3. Loads(t, i)' = Loads(t, i) + 1 /\ Loads(t, i) \in Nat
    <3>1. /\ Left(t, "base", i)' = Left(t, "base", i) /\ Left(t, "base", i) \in Nat
          /\ Left(t, "read", i)' = Left(t, "read", i) + 1 /\ Left(t, "read", i) \in Nat
      BY <1>8 DEF Turns
    <3> QED  BY <3>1 DEF Loads
  <2>4. Flagged(i, "LOADING") = 0 /\ Flagged(i, "LOADING")' = 1
    BY <1>4, <1>5 DEF Flagged, Unstable
  <2> QED  BY <2>1, <2>2, <2>3, <2>4 DEF Resets
<1>15. Left(t, "base", i)' = Left(t, "base", i)
  BY <1>8 DEF Turns
<1> QED  BY <1>7, <1>10, <1>11, <1>12, <1>13, <1>14, <1>15, MoveKeeps

(* getBBPdescriptor sets LOADING or finds the bat loaded.                 *)
LEMMA LoadKeeps ==
    ASSUME IInv, NEW t \in Threads, NEW i \in Slots, Load(t, i)
    PROVE  IInv'
BY LoadSame, LoadBegins DEF Load

(* A step to be taken next is left.                                       *)
LEMMA AtLeft ==
    Types => \A t \in Threads: \A x, i: At(t, x, i) => Left(t, x, i) > 0
<1> SUFFICES ASSUME Types, NEW t \in Threads, NEW x, NEW i, At(t, x, i)
             PROVE  Left(t, x, i) > 0
  OBVIOUS
<1>1. todo[t] \in Seq(Steps) /\ todo[t] # <<>> /\ todo[t][1] = <<x, i>>
  BY DEF Types, At
<1>2. 1 \in DOMAIN todo[t]
  BY <1>1
<1> QED  BY <1>1, <1>2, LeftSome

(* A bat that is being loaded is the parent of no view that has its base.  *)
LEMMA ReadFacts ==
    ASSUME IInv, NEW t \in Threads, NEW i \in Slots, At(t, "read", i)
    PROVE  /\ bbp[i].used /\ bbp[i].parent = 0 /\ bbp[i].refs > 0 /\ BatOK(bbp[i])
           /\ ~Loaded(bbp[i]) /\ "LOADING" \in bbp[i].status /\ "UNLOADING" \notin bbp[i].status
           /\ Persistent(bbp[i]) /\ ~BATdirty(bbp[i])
           /\ Holding(i) = {} /\ Loads(t, i) = 1
<1>1. Types /\ Shape(t) /\ Left(t, "read", i) > 0
  BY AtLeft DEF IInv
<1>2. /\ Left(t, "read", i) \in Nat /\ Left(t, "base", i) \in Nat
  BY <1>1, LeftType
<1>3. Loads(t, i) > 0
  BY <1>1, <1>2 DEF Loads
<1>4. "LOADING" \in bbp[i].status /\ Loads(t, i) = 1
  BY <1>3, OneLoads
<1>5. bbp[i].used /\ BatOK(bbp[i])
  BY AtUsed DEF IInv, Slot
<1>6. bbp[i].parent = 0
  BY <1>1, ReadForm DEF FetchesView, IInv, Slot, ViewOK
<1>7. bbp[i].refs > 0 /\ ~Loaded(bbp[i])
  BY <1>4, <1>5, <1>6 DEF BatOK
<1>8. bbp[i].refs \in Nat
  BY SlotTypes
<1>9. Persistent(bbp[i]) /\ ~BATdirty(bbp[i]) /\ "UNLOADING" \notin bbp[i].status
  BY <1>5, <1>7, <1>8 DEF BatOK
<1>10. ASSUME NEW v \in Holding(i)
       PROVE  FALSE
  <2>1. v \in Slots /\ ViewOK(v, i) /\ HoldsBase(v)
    BY <1>10 DEF Holding, Views, IInv, Slot
  <2> QED  BY <1>7, <2>1 DEF ViewOK
<1> QED  BY <1>4, <1>5, <1>6, <1>7, <1>9, <1>10

(* The bat with and without success.                                       *)
Reads(t, i, b) ==
    /\ b \in Bats /\ b.used = bbp[i].used /\ b.refs = bbp[i].refs
    /\ b.lrefs = bbp[i].lrefs /\ b.share = bbp[i].share
    /\ b.parent = bbp[i].parent /\ b.base = bbp[i].base /\ b.copied = bbp[i].copied
    /\ \/ /\ b.status = (bbp[i].status \ {"LOADING"}) \cup {"LOADED"}
          /\ b.heap \in Addresses /\ ~b.dirty
       \/ /\ b.status = bbp[i].status \ {"LOADING"} /\ todo[t][2] = <<"got", i>>
          /\ b.heap = bbp[i].heap /\ b.dirty = bbp[i].dirty

(* A load ends: LOADING is reset, and the heap is there unless it failed.  *)
LEMMA ReadEnds ==
    ASSUME IInv, NEW t \in Threads, NEW i \in Slots, At(t, "read", i), Then(t, <<>>), UNCHANGED clients,
           NEW b, Reads(t, i, b), bbp' = [bbp EXCEPT ![i] = b]
    PROVE  IInv'
<1>1. Types /\ Shape(t) /\ b \in Bats /\ bbp'[i] = b
  BY DEF IInv, Types, Reads
<1>2. PICK p: p \in Seq(Steps) /\ p = <<>>
  BY NoSteps
<1>3. Moves(t, i, "read", p, b)
  <2>1. \A k \in DOMAIN p: p[k][2] = i
    BY <1>2
  <2> QED  BY <1>1, <1>2, <2>1, Zenon DEF Moves
<1>4. Passes(t, i, "read")
  BY <1>1, PassesOne
<1>5. /\ bbp[i].used /\ bbp[i].parent = 0 /\ bbp[i].refs > 0 /\ BatOK(bbp[i])
      /\ ~Loaded(bbp[i]) /\ "LOADING" \in bbp[i].status /\ "UNLOADING" \notin bbp[i].status
      /\ Persistent(bbp[i]) /\ ~BATdirty(bbp[i])
      /\ Holding(i) = {} /\ Loads(t, i) = 1
  BY ReadFacts
<1>6. Becomes(t, i, b)
  <2>1. b.heap \in Addresses => b.heap # 0
    BY BBPRefsAssumption
  <2>2. BatOK(b)
    BY <1>5, <2>1 DEF BatOK, Reads, Loaded, Persistent, BATdirty
  <2> QED  BY <1>5, <2>2 DEF Becomes, Reads, Loaded, Persistent
<1>7. Undisturbed(i, b)
  BY <1>5 DEF Undisturbed, Reads
<1>8. Shape(t)'
  <2>1. Left(t, "read", i) > 0
    BY <1>1, AtLeft
  <2>2. CASE todo[t] = << <<"read", i>>, <<"got", i>> >>
    <3>1. todo'[t] = << <<"got", i>> >>
      BY <1>4, <2>2 DEF Passes
    <3> QED  BY <3>1 DEF Shape, Fetches
  <2>3. ASSUME NEW v \in Slots, FetchesView(t, v, i),
               todo[t] = << <<"read", i>>, <<"base", v>>, <<"load", v>>, <<"got", v>> >>
        PROVE  Shape(t)'
    <3>1. todo'[t] = << <<"base", v>>, <<"load", v>>, <<"got", v>> >>
      BY <1>4, <2>3 DEF Passes
    <3>2. todo[t][2] # <<"got", i>>
      BY <2>3
    <3>3. Loaded(bbp'[i])
      BY <1>1, <3>2 DEF Reads, Loaded
    <3>4. bbp'[v].parent = bbp[v].parent
      BY <1>1 DEF Reads, Types
    <3>5. FetchesView(t, v, i)'
      BY <2>3, <3>1, <3>3, <3>4 DEF FetchesView
    <3> QED  BY <3>5 DEF Shape
  <2> QED  BY <1>1, <2>1, <2>2, <2>3, ReadForm
<1>9. PlainAccounts(t, i)
  <2>1. \A y: y \notin Uncounted => Left(t, y, i)' = Left(t, y, i)
    BY <1>4 DEF Passes, Uncounted
  <2>2. \A u \in Threads \ {t}: todo'[u] = todo[u]
    BY <1>1, Done
  <2>3. Persistent(bbp'[i]) <=> Persistent(bbp[i])
    BY <1>1 DEF Persistent, Reads
  <2>4. bbp'[i].refs = bbp[i].refs /\ bbp'[i].lrefs = bbp[i].lrefs /\ bbp'[i].share = bbp[i].share
    BY <1>1 DEF Reads
  <2> QED  BY <2>1, <2>2, <2>3, <2>4, QuietAccounts
<1>10. Resets(t, i)
  <2>1. Unloads(t, i)' = Unloads(t, i) /\ Sets(t, i)' = Sets(t, i)
    BY <1>4 DEF Passes, Unloads, Sets
  <2>2. Flagged(i, "UNLOADING")' = Flagged(i, "UNLOADING")
    BY <1>1 DEF Flagged, Reads
  <2>3. Loads(t, i)' = 0
    <3>1. /\ Left(t, "base", i)' = Left(t, "base", i) /\ Left(t, "base", i) \in Nat
          /\ Left(t, "read", i)' = Left(t, "read", i) - 1 /\ Left(t, "read", i) \in Nat
      BY <1>4 DEF Passes
    <3> QED  BY <1>5, <3>1 DEF Loads
  <2>4. Flagged(i, "LOADING") = 1 /\ Flagged(i, "LOADING")' = 0
    BY <1>1, <1>5 DEF Flagged, Reads
  <2> QED  BY <1>5, <2>1, <2>2, <2>3, <2>4 DEF Resets
<1>11. Left(t, "base", i)' = Left(t, "base", i)
  BY <1>4 DEF Passes
<1> QED  BY <1>3, <1>6, <1>7, <1>8, <1>9, <1>10, <1>11, MoveKeeps

(* BATload_intern.                                                        *)
LEMMA ReadKeeps ==
    ASSUME IInv, NEW t \in Threads, NEW i \in Slots, Read(t, i)
    PROVE  IInv'
<1>1. At(t, "read", i) /\ Then(t, <<>>) /\ UNCHANGED clients
  BY DEF Read
<1>2. bbp \in [Slots -> Bats] /\ bbp[i] \in Bats
  BY DEF IInv, Types
<1>3. ASSUME NEW a \in Addresses,
             bbp' = [bbp EXCEPT ![i].status = (@ \ {"LOADING"}) \cup {"LOADED"},
                                ![i].heap = a, ![i].dirty = FALSE]
      PROVE  IInv'
  <2>1. PICK b: b = [bbp[i] EXCEPT !.status = (@ \ {"LOADING"}) \cup {"LOADED"}, !.heap = a, !.dirty = FALSE]
    OBVIOUS
  <2>2. bbp' = [bbp EXCEPT ![i] = b]
    BY <1>2, <1>3, <2>1 DEF Bats
  <2>3. Reads(t, i, b)
    <3>1. (bbp[i].status \ {"LOADING"}) \cup {"LOADED"} \in SUBSET Flags
      BY <1>2 DEF Bats, Flags
    <3>2. b \in Bats
      BY <1>2, <2>1, <3>1 DEF Bats
    <3> QED  BY <1>2, <2>1, <3>2 DEF Reads, Bats
  <2> QED  BY <1>1, <2>2, <2>3, ReadEnds
<1>4. ASSUME todo[t][2] = <<"got", i>>, bbp' = [bbp EXCEPT ![i].status = @ \ {"LOADING"}]
      PROVE  IInv'
  <2>1. PICK b: b = [bbp[i] EXCEPT !.status = @ \ {"LOADING"}]
    OBVIOUS
  <2>2. bbp' = [bbp EXCEPT ![i] = b]
    BY <1>4, <2>1, Zenon
  <2>3. Reads(t, i, b)
    <3>1. bbp[i].status \ {"LOADING"} \in SUBSET Flags
      BY <1>2 DEF Bats, Flags
    <3>2. b \in Bats
      BY <1>2, <2>1, <3>1 DEF Bats
    <3> QED  BY <1>2, <1>4, <2>1, <3>2 DEF Reads, Bats
  <2> QED  BY <1>1, <2>2, <2>3, ReadEnds
<1> QED  BY <1>3, <1>4 DEF Read

(* BATdescriptor returns: the fix is somebody's, or nobody's.              *)
LEMMA GotKeeps ==
    ASSUME IInv, NEW t \in Threads, NEW i \in Slots, Got(t, i)
    PROVE  IInv'
<1>1. /\ Types /\ Shape(t) /\ At(t, "got", i) /\ Then(t, <<>>)
      /\ bbp' = bbp /\ lref' = lref /\ calls' = calls
      /\ \/ Loaded(bbp[i]) /\ fix' = [fix EXCEPT ![t][i] = @ + 1] /\ lost' = lost
         \/ ~Loaded(bbp[i]) /\ lost' = [lost EXCEPT ![i] = @ + 1] /\ fix' = fix
  BY DEF IInv, Got
<1>2. /\ todo' \in [Threads -> Seq(Steps)]
      /\ \A u \in Threads \ {t}: todo'[u] = todo[u]
      /\ todo'[t] = Tail(todo[t])
      /\ \A y, j: Left(t, y, j)' = IF "got" = y /\ i = j THEN Left(t, y, j) - 1 ELSE Left(t, y, j)
  <2>1. PICK x: x = "got"
    OBVIOUS
  <2>2. At(t, x, i)
    BY <1>1, <2>1, Zenon
  <2>3. /\ todo' \in [Threads -> Seq(Steps)]
        /\ \A u \in Threads \ {t}: todo'[u] = todo[u]
        /\ todo'[t] = Tail(todo[t])
        /\ \A y, j: Left(t, y, j)' = IF x = y /\ i = j THEN Left(t, y, j) - 1 ELSE Left(t, y, j)
    BY <1>1, <2>2, Done
  <2> QED  BY <2>1, <2>3, Zenon
<1>3. Types'
  <2>1. fix' \in [Threads -> [Slots -> Nat]] /\ lost' \in [Slots -> Nat]
    <3>1. fix \in [Threads -> [Slots -> Nat]] /\ lost \in [Slots -> Nat]
      BY <1>1 DEF Types
    <3>2. fix' = [fix EXCEPT ![t][i] = @ + 1] => fix' \in [Threads -> [Slots -> Nat]]
      BY <3>1
    <3>3. lost' = [lost EXCEPT ![i] = @ + 1] => lost' \in [Slots -> Nat]
      BY <3>1
    <3> QED  BY <1>1, <3>1, <3>2, <3>3, Zenon
  <2> QED  BY <1>1, <1>2, <2>1, Zenon DEF Types
<1>4. /\ bbp[i].used /\ bbp[i] \in Bats /\ bbp' = [bbp EXCEPT ![i] = bbp[i]]
      /\ Becomes(t, i, bbp[i]) /\ Undisturbed(i, bbp[i])
  BY <1>1, AtUsed, SameBat DEF Types
<1>5. \A u \in Threads \ {t}: Waits(u)
  BY <1>1, <1>2 DEF Waits, Types
<1>6. /\ \A j \in Slots \ {i}: fix'[t][j] = fix[t][j] /\ lost'[j] = lost[j]
      /\ \/ Loaded(bbp[i]) /\ fix'[t][i] = fix[t][i] + 1 /\ lost'[i] = lost[i]
         \/ ~Loaded(bbp[i]) /\ fix'[t][i] = fix[t][i] /\ lost'[i] = lost[i] + 1
  BY <1>1 DEF Types
<1>7. todo'[t] = <<>>
  <2>1. todo[t] \in Seq(Steps) /\ todo[t] # <<>> /\ todo[t][1] = <<"got", i>>
    BY <1>1 DEF Types, At
  <2>2. ~Undoes(t)
    BY <2>1 DEF Undoes, Ends
  <2>3. \A j \in Slots: ~Retains(t, j) /\ ~Modes(t, j)
    BY <2>1 DEF Retains, Modes
  <2>4. \A j, p \in Slots: ~FetchesView(t, j, p)
    BY <2>1 DEF FetchesView
  <2>5. PICK j \in Slots: Fetches(t, j)
    BY <1>1, <2>2, <2>3, <2>4 DEF Shape
  <2>6. todo[t] = << <<"got", j>> >>
    BY <2>1, <2>5 DEF Fetches
  <2> QED  BY <1>2, <2>6
<1>8. Shape(t)'
  BY <1>3, <1>7, GivesUndoesNext DEF Shape
<1>9. ASSUME NEW j \in Slots, ~bbp[j].used
      PROVE  Forgotten(t, j)'
  <2>1. j # i /\ Forgotten(t, j)
    BY <1>4, <1>9 DEF IInv, Slot, Unknown
  <2> QED  BY <1>1, <1>6, <1>7, <2>1 DEF Forgotten
<1>10. ASSUME NEW j \in Slots, fix'[t][j] > 0
       PROVE  Loaded(bbp'[j])
  BY <1>1, <1>6, <1>10 DEF IInv, Readable
<1>11. ASSUME NEW j \in Slots
       PROVE  PlainAccounts(t, j)
  <2>1. \A y: y # "got" => Left(t, y, j)' = Left(t, y, j)
    BY <1>2
  <2>2. Own(j)' = Own(j)
    BY <1>1, <1>2, <2>1, OwnLocal
  <2>3. Lrefs(t, j)' = Lrefs(t, j) /\ Left(t, "unshare", j)' = Left(t, "unshare", j)
    BY <1>1, <2>1 DEF Lrefs
  <2>4. bbp'[j].refs + Refers(t, j) + lost[j] = bbp[j].refs + Refers(t, j)' + lost'[j]
    <3>1. /\ fix[t][j] \in Nat /\ lost[j] \in Nat /\ bbp[j].refs \in Nat
          /\ \A y: Left(t, y, j) \in Nat
      BY <1>1, SlotTypes, LeftType
    <3>2. /\ Left(t, "fix", j)' = Left(t, "fix", j) /\ Left(t, "unfix", j)' = Left(t, "unfix", j)
          /\ Left(t, "got", j)' = IF j = i THEN Left(t, "got", j) - 1 ELSE Left(t, "got", j)
          /\ Left(t, "fix", j) \in Nat /\ Left(t, "unfix", j) \in Nat /\ Left(t, "got", j) \in Nat
      BY <1>2, <2>1, <3>1
    <3>3. CASE j # i
      <4>1. Refers(t, j)' = Refers(t, j) /\ lost'[j] = lost[j]
        BY <1>6, <3>2, <3>3 DEF Refers
      <4> QED  BY <1>1, <4>1, Zenon
    <3>4. CASE j = i /\ fix'[t][i] = fix[t][i] + 1 /\ lost'[i] = lost[i]
      <4>1. Refers(t, j)' = Refers(t, j)
        BY <3>1, <3>2, <3>4 DEF Refers
      <4> QED  BY <1>1, <3>4, <4>1, Zenon
    <3>5. CASE j = i /\ fix'[t][i] = fix[t][i] /\ lost'[i] = lost[i] + 1
      <4>1. Refers(t, j)' = Refers(t, j) - 1 /\ Refers(t, j) \in Int
        BY <3>1, <3>2, <3>5 DEF Refers
      <4>2. bbp[j].refs + Refers(t, j) + lost[j] = bbp[j].refs + (Refers(t, j) - 1) + (lost[j] + 1)
        BY <3>1, <4>1
      <4>3. bbp'[j].refs = bbp[j].refs /\ lost'[j] = lost[j] + 1
        BY <1>1, <3>5, Zenon
      <4> QED  BY <4>1, <4>2, <4>3, Zenon
    <3> QED  BY <1>6, <3>3, <3>4, <3>5
  <2> QED  BY <1>1, <2>2, <2>3, <2>4, Zenon DEF PlainAccounts
<1>12. ASSUME NEW j \in Slots
       PROVE  Resets(t, j)
  <2>1. Loads(t, j)' = Loads(t, j) /\ Unloads(t, j)' = Unloads(t, j) /\ Sets(t, j)' = Sets(t, j)
    BY <1>2 DEF Loads, Unloads, Sets
  <2>2. /\ Flagged(j, "LOADING")' = Flagged(j, "LOADING")
        /\ Flagged(j, "UNLOADING")' = Flagged(j, "UNLOADING")
    BY <1>1 DEF Flagged
  <2> QED  BY <2>1, <2>2, Zenon DEF Resets
<1>13. \A v: Left(t, "base", v)' = Left(t, "base", v)
  BY <1>2
<1> QED  BY <1>3, <1>4, <1>5, <1>8, <1>9, <1>10, <1>11, <1>12, <1>13, PlainStep DEF Readable

-----------------------------------------------------------------------------
(***************************************************************************)
(* The steps that give back.                                               *)
(***************************************************************************)
LEMMA UndoForm ==
    ASSUME Types, NEW t \in Threads, Shape(t), NEW i \in Slots, NEW x, At(t, x, i),
           x \in {"unfix", "unshare", "unload", "freed", "clear"}
    PROVE  Undoes(t)
<1>1. todo[t] \in Seq(Steps) /\ todo[t] # <<>> /\ todo[t][1] = <<x, i>>
  BY DEF Types, At
<1>2. todo[t][1][1] \notin {"fix", "retain", "base", "load", "read", "got", "persist", "unpersist", "release"}
  BY <1>1
<1>3. \A j \in Slots: ~Fetches(t, j)
  BY <1>2 DEF Fetches
<1>4. \A j, p \in Slots: ~FetchesView(t, j, p)
  BY <1>2 DEF FetchesView
<1>5. \A j \in Slots: ~Retains(t, j) /\ ~Modes(t, j)
  BY <1>2 DEF Retains, Modes
<1> QED  BY <1>3, <1>4, <1>5 DEF Shape

(* What comes after the first step.                                        *)
Gives(q) == q \in Seq(Steps) /\ \A k \in DOMAIN q: q[k] \in GivesBack

(* Behind the first step a call only gives back.                          *)
LEMMA RestGives ==
    ASSUME Types, NEW t \in Threads, Undoes(t), todo[t] # <<>>
    PROVE  Gives(Tail(todo[t]))
<1>1. todo[t] \in Seq(Steps)
  BY DEF Types
<1>2. /\ Tail(todo[t]) \in Seq(Steps) /\ Len(Tail(todo[t])) = Len(todo[t]) - 1
      /\ \A k \in 1 .. Len(Tail(todo[t])): Tail(todo[t])[k] = todo[t][k + 1]
  BY <1>1
<1>3. ASSUME NEW k \in DOMAIN Tail(todo[t])
      PROVE  Tail(todo[t])[k] \in GivesBack
  <2>1. k \in Nat /\ k \in 1 .. Len(Tail(todo[t])) /\ k + 1 \in DOMAIN todo[t] /\ k + 1 > 1
    BY <1>1, <1>2
  <2> QED  BY <1>2, <2>1 DEF Undoes
<1> QED  BY <1>2, <1>3 DEF Gives

(* A call stays one that gives back when its first step is done.          *)
LEMMA GivesNext ==
    ASSUME Types', NEW t \in Threads, Gives(todo'[t])
    PROVE  Shape(t)'
BY GivesUndoesNext DEF Gives, Shape

(* One step of an unloading, and then the rest.                            *)
LEMMA OneThenGives ==
    ASSUME Types', NEW t \in Threads, NEW i \in Slots, NEW z \in {"unload", "freed", "clear", "unfix"}, NEW r,
           Gives(r), todo'[t] = << <<z, i>> >> \o r,
           z = "freed" => ~Loaded(bbp'[i]),
           z = "clear" => bbp'[i].lrefs = 0 /\ "DELETED" \notin bbp'[i].status
    PROVE  Shape(t)'
<1>0. r \in Seq(Steps) /\ << <<z, i>> >> \in Seq(Steps) /\ <<z, i>> \in Ends
  BY DEF Gives, Steps, Ends
<1>1. PICK q: q = << <<z, i>> >> \o r
  OBVIOUS
<1>2. /\ q \in Seq(Steps) /\ Len(q) = 1 + Len(r) /\ q[1] = <<z, i>>
      /\ \A k \in 2 .. 1 + Len(r): q[k] = r[k - 1]
  BY <1>0, <1>1
<1>3. ASSUME NEW k \in DOMAIN q
      PROVE  q[k] \in Ends /\ (k > 1 => q[k] \in GivesBack)
  <2>1. k \in Nat /\ (k = 1 \/ (k \in 2 .. 1 + Len(r) /\ k - 1 \in DOMAIN r))
    <3>1. r \in Seq(Steps) /\ q \in Seq(Steps) /\ Len(q) = 1 + Len(r)
      BY <1>0, <1>2
    <3>2. Len(r) \in Nat /\ DOMAIN r = 1 .. Len(r) /\ DOMAIN q = 1 .. Len(q)
      BY <3>1
    <3>3. k \in 1 .. 1 + Len(r)
      BY <3>1, <3>2
    <3> QED  BY <3>2, <3>3
  <2>2. CASE k = 1
    <3>1. q[1] \in Ends
      BY <1>0, <1>2, Zenon
    <3>2. ~(1 > 1)
      OBVIOUS
    <3> QED  BY <2>2, <3>1, <3>2, Zenon
  <2>3. CASE k \in 2 .. 1 + Len(r) /\ k - 1 \in DOMAIN r
    <3>1. q[k] = r[k - 1] /\ r[k - 1] \in GivesBack
      BY <1>2, <2>3 DEF Gives
    <3> QED  BY <3>1 DEF GivesBack, Ends
  <2> QED  BY <2>1, <2>2, <2>3
<1>4. todo'[t] = q
  BY <1>1
<1>5. Undoes(t)'
  <2>1. \A k \in DOMAIN todo'[t]: todo'[t][k] \in Ends /\ (k > 1 => todo'[t][k] \in GivesBack)
    BY <1>3, <1>4, Zenon
  <2>2. todo'[t][1] = <<z, i>>
    BY <1>2, <1>4, Zenon
  <2>3. ASSUME NEW j \in Slots
        PROVE  /\ todo'[t][1] = <<"unshare", j>> => FALSE
               /\ todo'[t][1] = <<"freed", j>> => ~Loaded(bbp'[j])
               /\ todo'[t][1] = <<"clear", j>> => bbp'[j].lrefs = 0 /\ "DELETED" \notin bbp'[j].status
    BY <2>2
  <2> QED  BY <2>1, <2>3 DEF Undoes, First
<1> QED  BY <1>5 DEF Shape

(* An unloading is under way.                                              *)
LEMMA UnloadFacts ==
    ASSUME IInv, NEW t \in Threads, NEW i \in Slots, NEW x \in {"unload", "freed", "clear"}, At(t, x, i)
    PROVE  /\ bbp[i].used /\ BatOK(bbp[i]) /\ "UNLOADING" \in bbp[i].status
           /\ bbp[i].refs = 0 /\ "LOADING" \notin bbp[i].status
           /\ bbp[i].lrefs = 0 \/ (Persistent(bbp[i]) /\ ~BATdirty(bbp[i]))
           /\ Unloads(t, i) = 1 /\ Holding(i) = {}
<1>1. Types
  BY DEF IInv
<1>2. Left(t, x, i) > 0 /\ Left(t, "unload", i) \in Nat /\ Left(t, "freed", i) \in Nat /\ Left(t, "clear", i) \in Nat
  BY <1>1, AtLeft, LeftType
<1>3. Unloads(t, i) > 0
  BY <1>2 DEF Unloads
<1>4. "UNLOADING" \in bbp[i].status /\ Unloads(t, i) = 1
  BY <1>3, OneUnloads
<1>5. bbp[i].used /\ BatOK(bbp[i])
  BY AtUsed DEF IInv, Slot
<1>6. /\ bbp[i].refs = 0 /\ "LOADING" \notin bbp[i].status
      /\ bbp[i].lrefs = 0 \/ (Persistent(bbp[i]) /\ ~BATdirty(bbp[i]))
  BY <1>4, <1>5 DEF BatOK
<1>7. \A v \in Holding(i): FALSE
  <2>1. Holding(i) \subseteq Slots
    BY DEF Holding, Views
  <2> QED  BY <1>6, <2>1, HoldingPositive
<1> QED  BY <1>4, <1>5, <1>6, <1>7

(* The memory of a bat goes; one that nobody knows any more goes itself.   *)
LEMMA UnloadTurns ==
    ASSUME IInv, NEW t \in Threads, NEW i \in Slots, NEW z \in {"freed", "clear"},
           At(t, "unload", i), Then(t, << <<z, i>> >>), UNCHANGED clients, NEW b, b \in Bats,
           bbp' = [bbp EXCEPT ![i] = b], b.used = bbp[i].used, b.refs = bbp[i].refs, b.lrefs = bbp[i].lrefs,
           b.share = bbp[i].share, b.parent = bbp[i].parent, b.heap = 0, b.base = 0,
           b.dirty = bbp[i].dirty, b.copied = bbp[i].copied,
           z = "freed" => /\ b.status = bbp[i].status \ {"LOADED"}
                          /\ bbp[i].lrefs # 0 \/ "DELETED" \in bbp[i].status,
           z = "clear" => /\ b.status = bbp[i].status
                          /\ bbp[i].lrefs = 0 /\ "DELETED" \notin bbp[i].status
    PROVE  IInv'
<1>1. Types /\ Shape(t) /\ bbp'[i] = b
  BY DEF IInv, Types
<1>2. PICK p: p \in Seq(Steps) /\ Only(p, <<z, i>>)
  <2>1. <<z, i>> \in Steps
    BY DEF Steps
  <2> QED  BY <2>1, OneStep
<1>3. Then(t, p)
  BY <1>2, Zenon DEF Only
<1>4. Moves(t, i, "unload", p, b)
  <2>1. \A k \in DOMAIN p: p[k][2] = i
    BY <1>2 DEF Only
  <2> QED  BY <1>2, <1>3, <2>1, Zenon DEF Moves
<1>5. Turns(t, i, "unload", z)
  <2>1. "unload" # z
    OBVIOUS
  <2> QED  BY <1>1, <1>2, <1>3, <2>1, TurnsOne
<1>6. /\ bbp[i].used /\ BatOK(bbp[i]) /\ "UNLOADING" \in bbp[i].status
      /\ bbp[i].refs = 0 /\ "LOADING" \notin bbp[i].status
      /\ bbp[i].lrefs = 0 \/ (Persistent(bbp[i]) /\ ~BATdirty(bbp[i]))
      /\ Unloads(t, i) = 1 /\ Holding(i) = {}
  BY UnloadFacts
<1>7. /\ b.status \subseteq bbp[i].status /\ "UNLOADING" \in b.status
      /\ Persistent(b) <=> Persistent(bbp[i])
      /\ ("LOADED" \in b.status <=> "LOADED" \in bbp[i].status /\ z = "clear")
      /\ \A f: f # "LOADED" => (f \in b.status <=> f \in bbp[i].status)
  BY <1>6 DEF Persistent
<1>8. Becomes(t, i, b)
  <2>1. BatOK(b)
    BY <1>6, <1>7 DEF BatOK, Persistent, BATdirty, Loaded
  <2> QED  BY <1>6, <1>7, <2>1 DEF Becomes, Loaded
<1>9. Undisturbed(i, b)
  <2>1. SUFFICES ASSUME bbp[i].parent # 0
                 PROVE  /\ b.heap = bbp[i].heap /\ b.base = bbp[i].base /\ Loaded(b)
                        /\ b.status \subseteq {"LOADED", "UNLOADING", "LOADING"}
                        /\ "LOADING" \in b.status => b.refs = 1
                        /\ (b.refs > 0 /\ "LOADING" \notin b.status) <=> HoldsBase(i)
    BY DEF Undisturbed
  <2>2. ViewOK(i, bbp[i].parent)
    BY <2>1, ViewsHaveNone
  <2>3. ~HoldsBase(i) /\ ~(b.refs > 0)
    BY <1>6 DEF HoldsBase
  <2>4. bbp[i].heap = 0 /\ bbp[i].base = 0 /\ bbp[i].status \subseteq {"LOADED", "UNLOADING", "LOADING"}
        /\ "LOADED" \in bbp[i].status
    BY <2>2, <2>3 DEF ViewOK
  <2>5. bbp[i].lrefs = 0 /\ "DELETED" \notin bbp[i].status
    BY <1>6, <2>4 DEF Persistent
  <2> QED  BY <1>6, <1>7, <2>3, <2>4, <2>5 DEF Loaded
<1>10. Shape(t)'
  <2>1. todo[t] # <<>> /\ Gives(Tail(todo[t]))
    <3>1. Undoes(t)
      BY <1>1, UndoForm
    <3> QED  BY <1>1, <3>1, RestGives DEF At
  <2>2. Types'
    BY <1>1, <1>2, <1>3, Advance DEF Types, clients
  <2>3. PICK r: r = Tail(todo[t])
    OBVIOUS
  <2>4. Gives(r) /\ todo'[t] = << <<z, i>> >> \o r
    BY <1>5, <2>1, <2>3, Zenon DEF Turns
  <2>5. z = "freed" => ~Loaded(bbp'[i])
    BY <1>1, <1>7 DEF Loaded
  <2>6. z = "clear" => bbp'[i].lrefs = 0 /\ "DELETED" \notin bbp'[i].status
    BY <1>1
  <2>7. z \in {"unload", "freed", "clear", "unfix"}
    OBVIOUS
  <2> QED  BY <2>2, <2>4, <2>5, <2>6, <2>7, OneThenGives
<1>11. PlainAccounts(t, i)
  <2>1. \A y: y \notin Uncounted => Left(t, y, i)' = Left(t, y, i)
    BY <1>5 DEF Turns, Uncounted
  <2>2. \A u \in Threads \ {t}: todo'[u] = todo[u]
    BY <1>1 DEF Then, Types
  <2> QED  BY <1>1, <1>7, <2>1, <2>2, QuietAccounts
<1>12. Resets(t, i)
  <2>1. Loads(t, i)' = Loads(t, i) /\ Sets(t, i)' = Sets(t, i)
    BY <1>5 DEF Turns, Loads, Sets
  <2>2. Unloads(t, i)' = Unloads(t, i)
    <3>1. \A y: Left(t, y, i) \in Nat
      BY <1>5 DEF Turns
    <3>2. CASE z = "freed"
      <4>1. /\ Left(t, "unload", i)' = Left(t, "unload", i) - 1
            /\ Left(t, "freed", i)' = Left(t, "freed", i) + 1
            /\ Left(t, "clear", i)' = Left(t, "clear", i)
        BY <1>5, <3>2 DEF Turns
      <4> QED  BY <3>1, <4>1 DEF Unloads
    <3>3. CASE z = "clear"
      <4>1. /\ Left(t, "unload", i)' = Left(t, "unload", i) - 1
            /\ Left(t, "clear", i)' = Left(t, "clear", i) + 1
            /\ Left(t, "freed", i)' = Left(t, "freed", i)
        BY <1>5, <3>3 DEF Turns
      <4> QED  BY <3>1, <4>1 DEF Unloads
    <3> QED  BY <3>2, <3>3
  <2>3. /\ Flagged(i, "LOADING")' = Flagged(i, "LOADING")
        /\ Flagged(i, "UNLOADING")' = Flagged(i, "UNLOADING")
    BY <1>1, <1>7 DEF Flagged
  <2> QED  BY <2>1, <2>2, <2>3, Zenon DEF Resets
<1>13. Left(t, "base", i)' = Left(t, "base", i)
  BY <1>5 DEF Turns
<1> QED  BY <1>4, <1>8, <1>9, <1>10, <1>11, <1>12, <1>13, MoveKeeps

(* BBPfree and BBPdestroy begin.                                          *)
LEMMA UnloadKeeps ==
    ASSUME IInv, NEW t \in Threads, NEW i \in Slots, Unload(t, i)
    PROVE  IInv'
<1> DEFINE destroy == bbp[i].lrefs = 0 /\ "DELETED" \notin bbp[i].status
           st == IF destroy THEN bbp[i].status ELSE bbp[i].status \ {"LOADED"}
<1>1. /\ At(t, "unload", i) /\ UNCHANGED clients
      /\ bbp' = [bbp EXCEPT ![i].heap = 0, ![i].base = 0, ![i].status = IF destroy THEN @ ELSE @ \ {"LOADED"}]
      /\ Then(t, IF destroy THEN << <<"clear", i>> >> ELSE << <<"freed", i>> >>)
  BY Zenon DEF Unload
<1>2. bbp \in [Slots -> Bats] /\ bbp[i] \in Bats
  BY DEF IInv, Types
<1>3. PICK b: b = [bbp[i] EXCEPT !.heap = 0, !.base = 0, !.status = IF destroy THEN @ ELSE @ \ {"LOADED"}]
  OBVIOUS
<1>4. bbp' = [bbp EXCEPT ![i] = b]
  BY <1>1, <1>2, <1>3 DEF Bats
<1>5. /\ b \in Bats /\ b.used = bbp[i].used /\ b.refs = bbp[i].refs /\ b.lrefs = bbp[i].lrefs
      /\ b.share = bbp[i].share /\ b.parent = bbp[i].parent /\ b.heap = 0 /\ b.base = 0
      /\ b.dirty = bbp[i].dirty /\ b.copied = bbp[i].copied /\ b.status = st
  <2>1. st \in SUBSET Flags
    BY <1>2 DEF Bats
  <2> QED  BY <1>2, <1>3, <2>1 DEF Bats
<1>6. CASE destroy
  <2>1. Then(t, << <<"clear", i>> >>)
    BY <1>1, <1>6, Zenon
  <2>2. PICK z: z = "clear"
    OBVIOUS
  <2>3. Then(t, << <<z, i>> >>)
    BY <2>1, <2>2, Zenon
  <2> QED  BY <1>1, <1>4, <1>5, <1>6, <2>2, <2>3, UnloadTurns
<1>7. CASE ~destroy
  <2>1. Then(t, << <<"freed", i>> >>)
    BY <1>1, <1>7, Zenon
  <2>2. PICK z: z = "freed"
    OBVIOUS
  <2>3. Then(t, << <<z, i>> >>)
    BY <2>1, <2>2, Zenon
  <2> QED  BY <1>1, <1>4, <1>5, <1>7, <2>2, <2>3, UnloadTurns, ZenonT(60)
<1> QED  BY <1>6, <1>7

(* BBPfree ends and resets UNLOADING.                                     *)
LEMMA FreedKeeps ==
    ASSUME IInv, NEW t \in Threads, NEW i \in Slots, Freed(t, i)
    PROVE  IInv'
<1>1. /\ Types /\ Shape(t) /\ At(t, "freed", i) /\ Then(t, <<>>) /\ UNCHANGED clients
      /\ bbp' = [bbp EXCEPT ![i].status = Stable(bbp[i])]
  BY Zenon DEF IInv, Freed
<1>2. PICK p: p \in Seq(Steps) /\ p = <<>>
  BY NoSteps
<1>3. PICK b: b = [bbp[i] EXCEPT !.status = Stable(bbp[i])]
  OBVIOUS
<1>4. /\ bbp[i] \in Bats /\ b \in Bats /\ b.used = bbp[i].used /\ b.refs = bbp[i].refs
      /\ b.lrefs = bbp[i].lrefs /\ b.share = bbp[i].share /\ b.status = bbp[i].status \ {"UNLOADING"}
      /\ b.parent = bbp[i].parent /\ b.heap = bbp[i].heap /\ b.base = bbp[i].base
      /\ b.dirty = bbp[i].dirty /\ b.copied = bbp[i].copied
  <2>1. bbp[i] \in Bats
    BY <1>1 DEF Types
  <2>2. Stable(bbp[i]) = bbp[i].status \ {"UNLOADING"} /\ Stable(bbp[i]) \in SUBSET Flags
    BY <2>1 DEF Bats, Stable
  <2> QED  BY <1>3, <2>1, <2>2 DEF Bats
<1>5. bbp' = [bbp EXCEPT ![i] = b] /\ bbp'[i] = b
  <2>1. bbp' = [bbp EXCEPT ![i] = b]
    BY <1>1, <1>3, Zenon
  <2> QED  BY <1>1, <2>1 DEF Types
<1>6. Moves(t, i, "freed", p, b)
  <2>1. \A k \in DOMAIN p: p[k][2] = i
    BY <1>2
  <2> QED  BY <1>1, <1>2, <1>4, <1>5, <2>1, Zenon DEF Moves
<1>7. Passes(t, i, "freed")
  BY <1>1, PassesOne
<1>8. Undoes(t) /\ ~Loaded(bbp[i])
  <2>1. Undoes(t)
    BY <1>1, UndoForm
  <2> QED  BY <1>1, <2>1 DEF Undoes, First, At
<1>9. /\ bbp[i].used /\ BatOK(bbp[i]) /\ "UNLOADING" \in bbp[i].status
      /\ bbp[i].refs = 0 /\ Unloads(t, i) = 1 /\ Holding(i) = {}
  BY <1>1, UnloadFacts
<1>10. bbp[i].parent = 0
  BY <1>8, ViewsHaveNone DEF ViewOK, Loaded
<1>11. Becomes(t, i, b)
  <2>1. BatOK(b)
    BY <1>4, <1>8, <1>9, <1>10 DEF BatOK, Loaded, Persistent, BATdirty
  <2> QED  BY <1>4, <1>8, <1>9, <2>1 DEF Becomes, Loaded, Persistent
<1>12. Undisturbed(i, b)
  BY <1>4, <1>10 DEF Undisturbed
<1>13. Shape(t)'
  <2>1. Types'
    BY <1>1, <1>4, <1>5, Done DEF Types, clients
  <2>2. Gives(todo'[t])
    BY <1>1, <1>7, <1>8, RestGives DEF Passes, At
  <2> QED  BY <2>1, <2>2, GivesNext
<1>14. PlainAccounts(t, i)
  <2>1. \A y: y \notin Uncounted => Left(t, y, i)' = Left(t, y, i)
    BY <1>7 DEF Passes, Uncounted
  <2>2. \A u \in Threads \ {t}: todo'[u] = todo[u]
    BY <1>1, Done
  <2>3. Persistent(bbp'[i]) <=> Persistent(bbp[i])
    BY <1>4, <1>5 DEF Persistent
  <2> QED  BY <1>1, <1>4, <1>5, <2>1, <2>2, <2>3, QuietAccounts
<1>15. Resets(t, i)
  <2>1. Loads(t, i)' = Loads(t, i) /\ Sets(t, i)' = Sets(t, i)
    BY <1>7 DEF Passes, Loads, Sets
  <2>2. Flagged(i, "LOADING")' = Flagged(i, "LOADING")
    BY <1>4, <1>5 DEF Flagged
  <2>3. Unloads(t, i)' = 0
    <3>1. /\ Left(t, "unload", i)' = Left(t, "unload", i) /\ Left(t, "unload", i) \in Nat
          /\ Left(t, "clear", i)' = Left(t, "clear", i) /\ Left(t, "clear", i) \in Nat
          /\ Left(t, "freed", i)' = Left(t, "freed", i) - 1 /\ Left(t, "freed", i) \in Nat
      BY <1>7 DEF Passes
    <3> QED  BY <1>9, <3>1 DEF Unloads
  <2>4. Flagged(i, "UNLOADING") = 1 /\ Flagged(i, "UNLOADING")' = 0
    BY <1>4, <1>5, <1>9 DEF Flagged
  <2> QED  BY <1>9, <2>1, <2>2, <2>3, <2>4 DEF Resets
<1>16. Left(t, "base", i)' = Left(t, "base", i)
  BY <1>7 DEF Passes
<1> QED  BY <1>6, <1>11, <1>12, <1>13, <1>14, <1>15, <1>16, MoveKeeps

(* decref of a share.                                                     *)
LEMMA DecShareKeeps ==
    ASSUME IInv, NEW t \in Threads, NEW i \in Slots, DecShare(t, i)
    PROVE  IInv'
<1>1. /\ Types /\ Shape(t) /\ At(t, "unshare", i) /\ Then(t, <<>>) /\ UNCHANGED clients
      /\ bbp' = [bbp EXCEPT ![i].share = @ - 1]
  BY Zenon DEF IInv, DecShare
<1>2. PICK p: p \in Seq(Steps) /\ p = <<>>
  BY NoSteps
<1>3. PICK b: b = [bbp[i] EXCEPT !.share = @ - 1]
  OBVIOUS
<1>17. bbp[i].share \in Nat /\ bbp[i].share > 0
  <2>1. Left(t, "unshare", i) + Cardinality(Views(i)) <= bbp[i].share
    BY SharesBound
  <2>2. Left(t, "unshare", i) > 0 /\ Left(t, "unshare", i) \in Nat /\ Cardinality(Views(i)) \in Nat
    BY <1>1, AtLeft, LeftType, ViewsFinite
  <2>3. bbp[i].share \in Nat
    BY SlotTypes
  <2> QED  BY <2>1, <2>2, <2>3
<1>4. /\ bbp[i] \in Bats /\ b \in Bats /\ b.used = bbp[i].used /\ b.refs = bbp[i].refs
      /\ b.lrefs = bbp[i].lrefs /\ b.share = bbp[i].share - 1 /\ b.status = bbp[i].status
      /\ b.parent = bbp[i].parent /\ b.heap = bbp[i].heap /\ b.base = bbp[i].base
      /\ b.dirty = bbp[i].dirty /\ b.copied = bbp[i].copied
  <2>1. bbp[i] \in Bats
    BY <1>1 DEF Types
  <2>2. bbp[i].share - 1 \in Nat
    BY <1>17
  <2> QED  BY <1>3, <2>1, <2>2 DEF Bats
<1>5. bbp' = [bbp EXCEPT ![i] = b] /\ bbp'[i] = b
  <2>1. bbp' = [bbp EXCEPT ![i] = b]
    BY <1>1, <1>3, Zenon
  <2> QED  BY <1>1, <2>1 DEF Types
<1>6. Moves(t, i, "unshare", p, b)
  <2>1. \A k \in DOMAIN p: p[k][2] = i
    BY <1>2
  <2> QED  BY <1>1, <1>2, <1>4, <1>5, <2>1, Zenon DEF Moves
<1>7. Passes(t, i, "unshare")
  BY <1>1, PassesOne
<1>8. Becomes(t, i, b)
  <2>1. bbp[i].used /\ BatOK(bbp[i])
    BY <1>1, AtUsed DEF IInv, Slot
  <2>2. BatOK(b)
    BY <1>4, <2>1 DEF BatOK, Loaded, Persistent, BATdirty
  <2> QED  BY <1>4, <2>1, <2>2 DEF Becomes, Loaded, Persistent
<1>9. Undisturbed(i, b)
  <2>1. \A q \in Slots: bbp[i].parent = q => ViewOK(i, q)
    BY DEF IInv, Slot
  <2>2. bbp[i].parent \in Slots \cup {0}
    BY <1>4 DEF Bats
  <2> QED  BY <1>4, <2>1, <2>2 DEF Undisturbed, ViewOK, HoldsBase, Loaded
<1>10. Shape(t)'
  <2>1. Types'
    BY <1>1, <1>4, <1>5, Done DEF Types, clients
  <2>2. Undoes(t)
    BY <1>1, UndoForm
  <2>3. Gives(todo'[t])
    BY <1>1, <1>7, <2>2, RestGives DEF Passes, At
  <2> QED  BY <2>1, <2>3, GivesNext
<1>11. PlainAccounts(t, i)
  <2>1. Refers(t, i)' = Refers(t, i) /\ Lrefs(t, i)' = Lrefs(t, i)
    BY <1>1, <1>7 DEF Passes, Refers, Lrefs, clients
  <2>2. Left(t, "unshare", i)' = Left(t, "unshare", i) - 1 /\ Left(t, "unshare", i) \in Nat
    BY <1>7 DEF Passes
  <2>3. Own(i)' = Own(i)
    <3>1. Left(t, "unpersist", i)' = Left(t, "unpersist", i)
      BY <1>7 DEF Passes
    <3> QED  BY <1>1, <1>4, <1>5, <3>1, Done, OwnLocal DEF Persistent
  <2>4. bbp[i].share - 1 + Left(t, "unshare", i) = bbp[i].share + (Left(t, "unshare", i) - 1)
    BY <1>17, <2>2
  <2>5. bbp'[i].share + Left(t, "unshare", i) = bbp[i].share + Left(t, "unshare", i)'
    BY <1>4, <1>5, <2>2, <2>4, Zenon
  <2>6. bbp'[i].refs = bbp[i].refs /\ bbp'[i].lrefs = bbp[i].lrefs /\ lost' = lost
    BY <1>1, <1>4, <1>5 DEF clients
  <2> QED  BY <2>1, <2>3, <2>5, <2>6, Zenon DEF PlainAccounts
<1>12. Resets(t, i)
  <2>1. Loads(t, i)' = Loads(t, i) /\ Unloads(t, i)' = Unloads(t, i) /\ Sets(t, i)' = Sets(t, i)
    BY <1>7 DEF Passes, Loads, Unloads, Sets
  <2>2. /\ Flagged(i, "LOADING")' = Flagged(i, "LOADING")
        /\ Flagged(i, "UNLOADING")' = Flagged(i, "UNLOADING")
    BY <1>4, <1>5 DEF Flagged
  <2> QED  BY <2>1, <2>2, Zenon DEF Resets
<1>13. Left(t, "base", i)' = Left(t, "base", i)
  BY <1>7 DEF Passes
<1> QED  BY <1>6, <1>8, <1>9, <1>10, <1>11, <1>12, <1>13, MoveKeeps

-----------------------------------------------------------------------------
(***************************************************************************)
(* BATmode.                                                                *)
(***************************************************************************)
LEMMA ModeForm ==
    ASSUME IInv, NEW t \in Threads, NEW i \in Slots, NEW x, At(t, x, i), x \in {"persist", "unpersist"}
    PROVE  /\ todo[t] = << <<x, i>> >> /\ Modes(t, i)
           /\ Persistent(bbp[i]) <=> x = "unpersist"
           /\ bbp[i].used /\ BatOK(bbp[i]) /\ bbp[i].parent = 0 /\ bbp[i].refs > 0 /\ Loaded(bbp[i])
           /\ "UNLOADING" \notin bbp[i].status
           /\ Sets(t, i) > 0 /\ \A u \in Threads \ {t}: Sets(u, i) = 0
<1>1. Types /\ Shape(t) /\ todo[t] \in Seq(Steps) /\ todo[t] # <<>> /\ todo[t][1] = <<x, i>>
  BY DEF IInv, Types, At
<1>2. todo[t][1] = <<x, i>> /\ x \in {"persist", "unpersist"}
  BY <1>1
<1>3. \A j \in Slots: ~Fetches(t, j) /\ ~Retains(t, j)
  BY <1>2 DEF Fetches, Retains
<1>4. \A j, p \in Slots: ~FetchesView(t, j, p)
  BY <1>2 DEF FetchesView
<1>5. ~Undoes(t)
  BY <1>1, SMTT(30) DEF Undoes, Ends
<1>6. PICK j \in Slots: Modes(t, j)
  BY <1>1, <1>3, <1>4, <1>5 DEF Shape
<1>7. \/ todo[t] = << <<"persist", j>> >> /\ ~Persistent(bbp[j]) /\ x = "persist" /\ j = i
      \/ todo[t] = << <<"unpersist", j>> >> /\ Persistent(bbp[j]) /\ x = "unpersist" /\ j = i
  BY <1>2, <1>6 DEF Modes
<1>8. fix[t][i] > 0 /\ bbp[i].parent = 0 /\ Modes(t, i)
  BY <1>6, <1>7 DEF Modes
<1>9. bbp[i].refs > 0 /\ Loaded(bbp[i])
  BY <1>8, FixedPositive DEF IInv, Readable
<1>10. bbp[i].used /\ BatOK(bbp[i])
  BY AtUsed DEF IInv, Slot
<1>11. "UNLOADING" \notin bbp[i].status
  <2>1. bbp[i].refs # 0
    BY <1>9, SlotTypes
  <2> QED  BY <1>10, <2>1 DEF BatOK
<1>12. Left(t, x, i) > 0 /\ \A u \in Threads: Left(u, "persist", i) \in Nat /\ Left(u, "unpersist", i) \in Nat
  BY <1>1, AtLeft, LeftType
<1>13. Sets(t, i) > 0 /\ \A u \in Threads: Sets(u, i) \in Nat
  BY <1>12 DEF Sets
<1>14. ASSUME NEW u \in Threads \ {t}
       PROVE  Sets(u, i) = 0
  <2>1. ~(Sets(t, i) > 0 /\ Sets(u, i) > 0)
    BY DEF IInv, Owned
  <2> QED  BY <1>13, <2>1
<1> QED  BY <1>7, <1>8, <1>9, <1>10, <1>11, <1>13, <1>14

(* The status is another one, and the call is at its end.                  *)
LEMMA ModeEnds ==
    ASSUME IInv, NEW t \in Threads, NEW i \in Slots, NEW x, At(t, x, i), x \in {"persist", "unpersist"},
           Then(t, <<>>), UNCHANGED clients, NEW st, st \in SUBSET Flags,
           bbp' = [bbp EXCEPT ![i].status = st], BatOK([bbp[i] EXCEPT !.status = st]),
           "LOADED" \in st, \A f \in {"LOADING", "UNLOADING"}: f \in st <=> f \in bbp[i].status,
           st \cap {"EXISTING", "NEW"} # {} <=> x = "persist"
    PROVE  IInv'
<1>1. Types /\ Shape(t)
  BY DEF IInv
<1>2. PICK p: p \in Seq(Steps) /\ p = <<>>
  BY NoSteps
<1>3. PICK b: b = [bbp[i] EXCEPT !.status = st]
  OBVIOUS
<1>4. /\ bbp[i] \in Bats /\ b \in Bats /\ b.used = bbp[i].used /\ b.refs = bbp[i].refs
      /\ b.lrefs = bbp[i].lrefs /\ b.share = bbp[i].share /\ b.status = st
      /\ b.parent = bbp[i].parent /\ b.heap = bbp[i].heap /\ b.base = bbp[i].base
      /\ b.dirty = bbp[i].dirty /\ b.copied = bbp[i].copied
  <2>1. bbp[i] \in Bats
    BY <1>1 DEF Types
  <2> QED  BY <1>3, <2>1 DEF Bats
<1>5. bbp' = [bbp EXCEPT ![i] = b] /\ bbp'[i] = b
  <2>1. bbp' = [bbp EXCEPT ![i] = b]
    BY <1>3, Zenon
  <2> QED  BY <1>1, <2>1 DEF Types
<1>6. Moves(t, i, x, p, b)
  <2>1. \A k \in DOMAIN p: p[k][2] = i
    BY <1>2
  <2> QED  BY <1>1, <1>2, <1>4, <1>5, <2>1, Zenon DEF Moves
<1>7. Passes(t, i, x)
  BY <1>1, PassesOne
<1>8. /\ todo[t] = << <<x, i>> >> /\ Modes(t, i)
      /\ Persistent(bbp[i]) <=> x = "unpersist"
      /\ bbp[i].used /\ BatOK(bbp[i]) /\ bbp[i].parent = 0 /\ bbp[i].refs > 0 /\ Loaded(bbp[i])
      /\ "UNLOADING" \notin bbp[i].status
      /\ Sets(t, i) > 0 /\ \A u \in Threads \ {t}: Sets(u, i) = 0
  BY ModeForm
<1>9. Becomes(t, i, b)
  <2>1. BatOK(b)
    BY <1>3
  <2> QED  BY <1>4, <1>8, <2>1 DEF Becomes, Loaded
<1>10. Undisturbed(i, b)
  BY <1>4, <1>8 DEF Undisturbed
<1>11. Shape(t)'
  <2>1. Types'
    BY <1>1, <1>4, <1>5, Done, ZenonT(60) DEF Types, clients
  <2>2. todo'[t] = <<>>
    BY <1>7, <1>8 DEF Passes
  <2> QED  BY <2>1, <2>2, GivesUndoesNext DEF Shape
<1>12. Left(t, "persist", i) \in {0, 1} /\ Left(t, "unpersist", i) \in {0, 1}
       /\ (Left(t, "persist", i) = 1 <=> x = "persist")
       /\ (Left(t, "unpersist", i) = 1 <=> x = "unpersist")
  <2>1. Left(t, "persist", i) = One(<<x, i>>, <<"persist", i>>)
        /\ Left(t, "unpersist", i) = One(<<x, i>>, <<"unpersist", i>>)
    BY <1>8, LeftLiteral
  <2>2. /\ One(<<x, i>>, <<"persist", i>>) = IF x = "persist" /\ i = i THEN 1 ELSE 0
        /\ One(<<x, i>>, <<"unpersist", i>>) = IF x = "unpersist" /\ i = i THEN 1 ELSE 0
    BY OnePair
  <2> QED  BY <2>1, <2>2
<1>13. PlainAccounts(t, i)
  <2>1. Refers(t, i)' = Refers(t, i) /\ Left(t, "unshare", i)' = Left(t, "unshare", i)
    BY <1>1, <1>7 DEF Passes, Refers, clients
  <2>2. \A u \in Threads \ {t}: Left(u, "unpersist", i)' = 0
    <3>1. \A u \in Threads \ {t}: todo'[u] = todo[u]
      BY <1>1, Done
    <3>2. ASSUME NEW u \in Threads \ {t}
          PROVE  Left(u, "unpersist", i)' = 0
      <4>1. Left(u, "unpersist", i)' = Left(u, "unpersist", i)
        BY <3>1, LeftSame
      <4>2. Sets(u, i) = 0 /\ Left(u, "persist", i) \in Nat /\ Left(u, "unpersist", i) \in Nat
        BY <1>1, <1>8, LeftType
      <4> QED  BY <4>1, <4>2 DEF Sets
    <3> QED  BY <3>2
  <2>3. Own(i) = 0
    BY <1>8, <1>12 DEF Own
  <2>4. CASE x = "persist"
    <3>1. Left(t, "unpersist", i)' = 0
      BY <1>7, <1>12, <2>4 DEF Passes
    <3>2. Persistent(bbp'[i])
      BY <1>4, <1>5, <2>4 DEF Persistent
    <3>3. Own(i)' = 1
      BY <2>2, <3>1, <3>2 DEF Own
    <3>4. lref'[t][i] = lref[t][i] /\ lref[t][i] \in Nat
      BY <1>1 DEF clients, Types
    <3>5. /\ Left(t, "persist", i)' = Left(t, "persist", i) - 1
          /\ Left(t, "release", i)' = Left(t, "release", i) /\ Left(t, "release", i) \in Nat
          /\ Left(t, "retain", i)' = Left(t, "retain", i) /\ Left(t, "retain", i) \in Nat
          /\ Left(t, "persist", i) \in Nat
      BY <1>7, <2>4 DEF Passes
    <3>6. Lrefs(t, i)' + Own(i)' = Lrefs(t, i) + Own(i)
      BY <2>3, <3>3, <3>4, <3>5 DEF Lrefs
    <3> QED  BY <1>4, <1>5, <2>1, <3>6, Zenon DEF PlainAccounts, clients
  <2>5. CASE x = "unpersist"
    <3>1. ~Persistent(bbp'[i])
      BY <1>4, <1>5, <2>5 DEF Persistent
    <3>2. Own(i)' = 0
      BY <3>1 DEF Own
    <3>3. Lrefs(t, i)' = Lrefs(t, i)
      BY <1>1, <1>7, <2>5 DEF Passes, Lrefs, clients
    <3> QED  BY <1>4, <1>5, <2>1, <2>3, <3>2, <3>3, Zenon DEF PlainAccounts, clients
  <2> QED  BY <2>4, <2>5
<1>14. Resets(t, i)
  <2>1. Loads(t, i)' = Loads(t, i) /\ Unloads(t, i)' = Unloads(t, i)
    BY <1>7 DEF Passes, Loads, Unloads
  <2>2. /\ Flagged(i, "LOADING")' = Flagged(i, "LOADING")
        /\ Flagged(i, "UNLOADING")' = Flagged(i, "UNLOADING")
    BY <1>4, <1>5 DEF Flagged
  <2> QED  BY <1>8, <2>1, <2>2, Zenon DEF Resets
<1>15. Left(t, "base", i)' = Left(t, "base", i)
  BY <1>7 DEF Passes
<1> QED  BY <1>6, <1>9, <1>10, <1>11, <1>13, <1>14, <1>15, MoveKeeps

(* BATmode sets the status of a persistent bat.                           *)
LEMMA PersistKeeps ==
    ASSUME IInv, NEW t \in Threads, NEW i \in Slots, Persist(t, i)
    PROVE  IInv'
<1>1. At(t, "persist", i) /\ Then(t, <<>>) /\ UNCHANGED clients /\ bbp[i] \in Bats
      /\ bbp' = [bbp EXCEPT ![i].status = PersistentStatus(bbp[i])]
  BY DEF Persist, IInv, Types
<1>2. PICK x: x = "persist"
  OBVIOUS
<1>3. PICK st: st = PersistentStatus(bbp[i])
  OBVIOUS
<1>4. At(t, x, i) /\ x \in {"persist", "unpersist"} /\ bbp' = [bbp EXCEPT ![i].status = st]
  BY <1>1, <1>2, <1>3, Zenon
<1>5. /\ BatOK(bbp[i]) /\ bbp[i].parent = 0 /\ bbp[i].refs > 0 /\ Loaded(bbp[i])
      /\ "UNLOADING" \notin bbp[i].status /\ ~Persistent(bbp[i])
  BY <1>2, <1>4, ModeForm
<1>6. /\ st \in SUBSET Flags /\ "LOADED" \in st
      /\ \A f \in {"LOADING", "UNLOADING"}: f \in st <=> f \in bbp[i].status
      /\ st \cap {"EXISTING", "NEW"} # {} /\ "DELETED" \notin st /\ ~({"EXISTING", "NEW"} \subseteq st)
      /\ "TMP" \in st => "TMP" \in bbp[i].status /\ ~bbp[i].copied
  BY <1>1, <1>3, <1>5 DEF PersistentStatus, Bats, Flags, Loaded, Persistent
<1>7. BatOK([bbp[i] EXCEPT !.status = st])
  <2>1. PICK b: b = [bbp[i] EXCEPT !.status = st]
    OBVIOUS
  <2>2. /\ b.refs = bbp[i].refs /\ b.lrefs = bbp[i].lrefs /\ b.status = st
        /\ b.parent = bbp[i].parent /\ b.heap = bbp[i].heap /\ b.base = bbp[i].base
        /\ b.dirty = bbp[i].dirty /\ b.copied = bbp[i].copied
    BY <1>1, <2>1 DEF Bats
  <2>3. BatOK(b)
    BY <1>5, <1>6, <2>2 DEF BatOK, Loaded, Persistent, BATdirty
  <2> QED  BY <2>1, <2>3
<1> QED  BY <1>1, <1>2, <1>4, <1>6, <1>7, ModeEnds, ZenonT(60)

(* BATmode sets the status of a transient bat.                            *)
LEMMA UnpersistKeeps ==
    ASSUME IInv, NEW t \in Threads, NEW i \in Slots, Unpersist(t, i)
    PROVE  IInv'
<1>1. At(t, "unpersist", i) /\ Then(t, <<>>) /\ UNCHANGED clients /\ bbp[i] \in Bats
      /\ bbp' = [bbp EXCEPT ![i].status = TransientStatus(bbp[i])]
  BY DEF Unpersist, IInv, Types
<1>2. PICK x: x = "unpersist"
  OBVIOUS
<1>3. PICK st: st = TransientStatus(bbp[i])
  OBVIOUS
<1>4. At(t, x, i) /\ x \in {"persist", "unpersist"} /\ bbp' = [bbp EXCEPT ![i].status = st]
  BY <1>1, <1>2, <1>3, Zenon
<1>5. /\ BatOK(bbp[i]) /\ bbp[i].parent = 0 /\ bbp[i].refs > 0 /\ Loaded(bbp[i])
      /\ "UNLOADING" \notin bbp[i].status /\ Persistent(bbp[i])
  BY <1>2, <1>4, ModeForm
<1>6. /\ st \in SUBSET Flags /\ "LOADED" \in st
      /\ \A f \in {"LOADING", "UNLOADING"}: f \in st <=> f \in bbp[i].status
  BY <1>1, <1>3, <1>5 DEF TransientStatus, Bats, Flags, Loaded
<1>9. /\ "EXISTING" \notin st /\ "NEW" \notin st
      /\ "TMP" \in st => "TMP" \in bbp[i].status \/ bbp[i].copied
  BY <1>1, <1>3 DEF TransientStatus, Bats
<1>7. BatOK([bbp[i] EXCEPT !.status = st])
  <2>1. PICK b: b = [bbp[i] EXCEPT !.status = st]
    OBVIOUS
  <2>2. /\ b.refs = bbp[i].refs /\ b.lrefs = bbp[i].lrefs /\ b.status = st
        /\ b.parent = bbp[i].parent /\ b.heap = bbp[i].heap /\ b.base = bbp[i].base
        /\ b.dirty = bbp[i].dirty /\ b.copied = bbp[i].copied
    BY <1>1, <2>1 DEF Bats
  <2>3. BatOK(b)
    BY <1>5, <1>6, <1>9, <2>2 DEF BatOK, Loaded, Persistent, BATdirty
  <2> QED  BY <2>1, <2>3
<1>8. st \cap {"EXISTING", "NEW"} # {} <=> x = "persist"
  BY <1>2, <1>9
<1>10. Then(t, <<>>) /\ UNCHANGED clients
  BY <1>1
<1> QED  BY <1>4, <1>6, <1>7, <1>8, <1>10, ModeEnds

-----------------------------------------------------------------------------
(***************************************************************************)
(* decref, but for the last fix of a view.                                 *)
(***************************************************************************)
(* Bat i with one reference less is b.                                     *)
Loses(t, i, x, b) ==
    /\ At(t, x, i) /\ Dropped(t, i, b, <<>>) /\ "UNLOADING" \notin bbp[i].status
    /\ b \in Bats /\ b.used = bbp[i].used /\ b.share = bbp[i].share /\ b.status = bbp[i].status
    /\ b.parent = bbp[i].parent /\ b.heap = bbp[i].heap /\ b.base = bbp[i].base
    /\ b.dirty = bbp[i].dirty /\ b.copied = bbp[i].copied
    /\ bbp[i].refs > 0 \/ bbp[i].lrefs > 0
    /\ "LOADING" \in bbp[i].status => b.refs > 0
    /\ Undisturbed(i, b)
    /\ \/ x = "unfix" /\ b.refs = bbp[i].refs - 1 /\ b.lrefs = bbp[i].lrefs
       \/ x = "release" /\ b.refs = bbp[i].refs /\ b.lrefs = bbp[i].lrefs - 1

(* A sequence with nothing before it.                                     *)
LEMMA WithNothing ==
    ASSUME NEW S, NEW q, q \in Seq(S)
    PROVE  q \o <<>> = q
BY ConcatEmptySeq

(* A bat that is not in memory is not unloaded.                            *)
LEMMA LosesForm ==
    ASSUME IInv, NEW t \in Threads, NEW i \in Slots, NEW x, NEW b, Loses(t, i, x, b)
    PROVE  \/ /\ Keeps(b) \/ ~Loaded(b)
              /\ bbp' = [bbp EXCEPT ![i] = b] /\ Then(t, <<>>) /\ UNCHANGED clients
           \/ /\ ~Keeps(b) /\ Loaded(b)
              /\ bbp' = [bbp EXCEPT ![i] = [b EXCEPT !.status = @ \cup {"UNLOADING"}]]
              /\ Then(t, << <<"unload", i>> >>) /\ UNCHANGED clients
<1> DEFINE swap == ~Keeps(b) /\ (Loaded(b) \/ "TMP" \in b.status)
<1>1. /\ bbp' = [bbp EXCEPT ![i] = IF swap THEN [b EXCEPT !.status = @ \cup {"UNLOADING"}] ELSE b]
      /\ Then(t, (IF swap /\ Loaded(b) THEN << <<"unload", i>> >> ELSE <<>>) \o <<>>)
      /\ UNCHANGED clients
  BY Zenon DEF Loses, Dropped
<1>2. ~Loaded(b) => "TMP" \notin b.status
  <2>1. bbp[i].used /\ BatOK(bbp[i])
    BY AtUsed DEF Loses, IInv, Slot
  <2>2. bbp[i].refs # 0 \/ bbp[i].lrefs # 0
    BY SlotTypes DEF Loses
  <2> QED  BY <2>1, <2>2 DEF Loses, BatOK, Loaded
<1>3. swap <=> ~Keeps(b) /\ Loaded(b)
  BY <1>2
<1>4. <<"unload", i>> \in Steps
  BY DEF Steps
<1>5. CASE swap
  <2>1. PICK q: q \in Seq(Steps) /\ q = << <<"unload", i>> >>
    <3>1. << <<"unload", i>> >> \in Seq(Steps)
      BY <1>4
    <3> QED  BY <3>1, Zenon
  <2>2. Then(t, q \o <<>>)
    BY <1>1, <1>3, <1>5, <2>1, Zenon
  <2>3. q \o <<>> = q
    BY <2>1, WithNothing
  <2>4. Then(t, << <<"unload", i>> >>)
    BY <2>1, <2>2, <2>3, Zenon
  <2> QED  BY <1>1, <1>3, <1>5, <2>4, Zenon
<1>6. CASE ~swap
  <2>1. PICK q: q \in Seq(Steps) /\ q = <<>>
    BY NoSteps
  <2>2. Then(t, q \o <<>>)
    BY <1>1, <1>6, <2>1, Zenon
  <2>3. q \o <<>> = q
    BY <2>1, WithNothing
  <2>4. Then(t, <<>>)
    BY <2>1, <2>2, <2>3, Zenon
  <2> QED  BY <1>1, <1>3, <1>6, <2>4, Zenon
<1> QED  BY <1>5, <1>6

(* The counts, when only a step that gives something back is left out.     *)
LEMMA LosesAccounts ==
    ASSUME IInv, NEW t \in Threads, NEW i \in Slots, NEW x, NEW b, Loses(t, i, x, b), UNCHANGED clients,
           \A u \in Threads \ {t}: todo'[u] = todo[u],
           \A y: y # x /\ y \notin Uncounted => Left(t, y, i)' = Left(t, y, i),
           Left(t, x, i)' = Left(t, x, i) - 1,
           bbp'[i].refs = b.refs, bbp'[i].lrefs = b.lrefs, bbp'[i].share = b.share,
           Persistent(bbp'[i]) <=> Persistent(bbp[i])
    PROVE  PlainAccounts(t, i)
<1>1. fix' = fix /\ lref' = lref /\ lost' = lost /\ Types
  BY DEF clients, IInv
<1>2. \A y: Left(t, y, i) \in Nat
  BY <1>1, LeftType
<1>3. fix[t][i] \in Nat /\ lref[t][i] \in Nat /\ lost[i] \in Nat /\ bbp[i].refs \in Nat /\ bbp[i].lrefs \in Nat
  BY SlotTypes
<1>4. CASE x = "unfix" /\ b.refs = bbp[i].refs - 1 /\ b.lrefs = bbp[i].lrefs
  <2>1. /\ Left(t, "fix", i)' = Left(t, "fix", i) /\ Left(t, "unfix", i)' = Left(t, "unfix", i) - 1
        /\ Left(t, "got", i)' = Left(t, "got", i) /\ Left(t, "retain", i)' = Left(t, "retain", i)
        /\ Left(t, "release", i)' = Left(t, "release", i) /\ Left(t, "unshare", i)' = Left(t, "unshare", i)
        /\ Left(t, "persist", i)' = Left(t, "persist", i)
        /\ Left(t, "unpersist", i)' = Left(t, "unpersist", i)
    BY <1>4 DEF Uncounted
  <2>2. Lrefs(t, i)' = Lrefs(t, i)
    BY <1>1, <2>1 DEF Lrefs
  <2>3. Refers(t, i)' = Refers(t, i) - 1 /\ Refers(t, i) \in Int
    BY <1>1, <1>2, <1>3, <2>1 DEF Refers
  <2>4. Own(i)' = Own(i)
    BY <2>1, OwnLocal
  <2>5. bbp[i].refs - 1 + Refers(t, i) + lost[i] = bbp[i].refs + (Refers(t, i) - 1) + lost[i]
    BY <1>3, <2>3
  <2>6. bbp'[i].refs + Refers(t, i) + lost[i] = bbp[i].refs + Refers(t, i)' + lost'[i]
    BY <1>1, <1>4, <2>3, <2>5, Zenon
  <2>7. bbp'[i].lrefs = bbp[i].lrefs /\ bbp'[i].share = bbp[i].share
    BY <1>4 DEF Loses
  <2> QED  BY <2>1, <2>2, <2>4, <2>6, <2>7, Zenon DEF PlainAccounts
<1>5. CASE x = "release" /\ b.refs = bbp[i].refs /\ b.lrefs = bbp[i].lrefs - 1
  <2>1. /\ Left(t, "fix", i)' = Left(t, "fix", i) /\ Left(t, "unfix", i)' = Left(t, "unfix", i)
        /\ Left(t, "got", i)' = Left(t, "got", i) /\ Left(t, "retain", i)' = Left(t, "retain", i)
        /\ Left(t, "release", i)' = Left(t, "release", i) - 1
        /\ Left(t, "unshare", i)' = Left(t, "unshare", i)
        /\ Left(t, "persist", i)' = Left(t, "persist", i)
        /\ Left(t, "unpersist", i)' = Left(t, "unpersist", i)
    BY <1>5 DEF Uncounted
  <2>2. Refers(t, i)' = Refers(t, i)
    BY <1>1, <2>1 DEF Refers
  <2>3. Lrefs(t, i)' = Lrefs(t, i) - 1 /\ Lrefs(t, i) \in Int
    BY <1>1, <1>2, <1>3, <2>1 DEF Lrefs
  <2>4. Own(i)' = Own(i) /\ Own(i) \in {0, 1}
    BY <2>1, OwnLocal, OwnType
  <2>5. bbp[i].lrefs - 1 + (Lrefs(t, i) + Own(i)) = bbp[i].lrefs + (Lrefs(t, i) - 1 + Own(i))
    BY <1>3, <2>3, <2>4
  <2>6. bbp'[i].lrefs + (Lrefs(t, i) + Own(i)) = bbp[i].lrefs + (Lrefs(t, i)' + Own(i)')
    BY <1>5, <2>3, <2>4, <2>5, Zenon
  <2>7. bbp'[i].refs = bbp[i].refs /\ bbp'[i].share = bbp[i].share
    BY <1>5 DEF Loses
  <2> QED  BY <1>1, <2>1, <2>2, <2>6, <2>7, Zenon DEF PlainAccounts
<1> QED  BY <1>4, <1>5 DEF Loses

(* A fix or a reference is given up and the bat stays in memory.          *)
LEMMA LosesStays ==
    ASSUME IInv, NEW t \in Threads, NEW i \in Slots, NEW x, NEW b, Loses(t, i, x, b),
           Keeps(b) \/ ~Loaded(b),
           bbp' = [bbp EXCEPT ![i] = b], Then(t, <<>>), UNCHANGED clients, Shape(t)'
    PROVE  IInv'
<1>1. /\ Types /\ At(t, x, i) /\ "UNLOADING" \notin bbp[i].status
      /\ b \in Bats /\ b.used = bbp[i].used /\ b.share = bbp[i].share /\ b.status = bbp[i].status
      /\ b.parent = bbp[i].parent /\ b.heap = bbp[i].heap /\ b.base = bbp[i].base
      /\ b.dirty = bbp[i].dirty /\ b.copied = bbp[i].copied /\ Undisturbed(i, b)
      /\ "LOADING" \in bbp[i].status => b.refs > 0
      /\ bbp[i].refs > 0 \/ bbp[i].lrefs > 0
      /\ x \in {"unfix", "release"}
  BY DEF Loses, IInv
<1>2. PICK p: p \in Seq(Steps) /\ p = <<>>
  BY NoSteps
<1>3. bbp'[i] = b
  BY <1>1 DEF Types
<1>4. Moves(t, i, x, p, b)
  <2>1. \A k \in DOMAIN p: p[k][2] = i
    BY <1>2
  <2> QED  BY <1>1, <1>2, <2>1, Zenon DEF Moves
<1>5. Passes(t, i, x)
  BY <1>1, PassesOne
<1>6. Becomes(t, i, b)
  <2>1. bbp[i].used /\ BatOK(bbp[i]) /\ (bbp[i].refs # 0 \/ bbp[i].lrefs # 0)
    BY <1>1, AtUsed, SlotTypes DEF IInv, Slot
  <2>2. BatOK(b)
    BY <1>1, <2>1 DEF BatOK, Loaded, Persistent, BATdirty
  <2> QED  BY <1>1, <2>1, <2>2 DEF Becomes, Loaded, Persistent
<1>7. PlainAccounts(t, i)
  <2>1. /\ \A y: y # x /\ y \notin Uncounted => Left(t, y, i)' = Left(t, y, i)
        /\ Left(t, x, i)' = Left(t, x, i) - 1
    BY <1>5 DEF Passes
  <2>2. \A u \in Threads \ {t}: todo'[u] = todo[u]
    BY <1>1, Done
  <2>3. Persistent(bbp'[i]) <=> Persistent(bbp[i])
    BY <1>1, <1>3 DEF Persistent
  <2>4. bbp'[i].refs = b.refs /\ bbp'[i].lrefs = b.lrefs /\ bbp'[i].share = b.share
    BY <1>3
  <2> QED  BY <2>1, <2>2, <2>3, <2>4, LosesAccounts
<1>8. Resets(t, i)
  <2>1. Loads(t, i)' = Loads(t, i) /\ Unloads(t, i)' = Unloads(t, i) /\ Sets(t, i)' = Sets(t, i)
    BY <1>1, <1>5 DEF Passes, Loads, Unloads, Sets
  <2>2. /\ Flagged(i, "LOADING")' = Flagged(i, "LOADING")
        /\ Flagged(i, "UNLOADING")' = Flagged(i, "UNLOADING")
    BY <1>1, <1>3 DEF Flagged
  <2> QED  BY <2>1, <2>2, Zenon DEF Resets
<1>9. Left(t, "base", i)' = Left(t, "base", i)
  BY <1>1, <1>5 DEF Passes
<1> QED  BY <1>1, <1>4, <1>6, <1>7, <1>8, <1>9, MoveKeeps

(* A fix or a reference is given up and the bat is unloaded.              *)
LEMMA LosesGoes ==
    ASSUME IInv, NEW t \in Threads, NEW i \in Slots, NEW x, NEW b, Loses(t, i, x, b), ~Keeps(b), Loaded(b),
           bbp' = [bbp EXCEPT ![i] = [b EXCEPT !.status = @ \cup {"UNLOADING"}]],
           Then(t, << <<"unload", i>> >>), UNCHANGED clients, Undoes(t)
    PROVE  IInv'
<1>1. /\ Types /\ At(t, x, i) /\ "UNLOADING" \notin bbp[i].status
      /\ b \in Bats /\ b.used = bbp[i].used /\ b.share = bbp[i].share /\ b.status = bbp[i].status
      /\ b.parent = bbp[i].parent /\ b.heap = bbp[i].heap /\ b.base = bbp[i].base
      /\ b.dirty = bbp[i].dirty /\ b.copied = bbp[i].copied /\ Undisturbed(i, b)
      /\ "LOADING" \in bbp[i].status => b.refs > 0
      /\ x \in {"unfix", "release"}
  BY DEF Loses, IInv
<1>2. PICK p: p \in Seq(Steps) /\ Only(p, <<"unload", i>>)
  <2>1. <<"unload", i>> \in Steps
    BY DEF Steps
  <2> QED  BY <2>1, OneStep
<1>3. Then(t, p)
  BY <1>2, Zenon DEF Only
<1>4. PICK c: c = [b EXCEPT !.status = @ \cup {"UNLOADING"}]
  OBVIOUS
<1>5. /\ c \in Bats /\ c.used = b.used /\ c.share = b.share /\ c.status = b.status \cup {"UNLOADING"}
      /\ c.refs = b.refs /\ c.lrefs = b.lrefs /\ c.parent = b.parent /\ c.heap = b.heap /\ c.base = b.base
      /\ c.dirty = b.dirty /\ c.copied = b.copied
  <2>1. b.status \cup {"UNLOADING"} \in SUBSET Flags
    BY <1>1 DEF Bats, Flags
  <2> QED  BY <1>1, <1>4, <2>1 DEF Bats
<1>6. bbp' = [bbp EXCEPT ![i] = c] /\ bbp'[i] = c
  <2>1. bbp' = [bbp EXCEPT ![i] = c]
    BY <1>4, Zenon
  <2> QED  BY <1>1, <2>1 DEF Types
<1>7. /\ b.refs = 0
      /\ b.lrefs = 0 \/ (Persistent(b) /\ ~BATdirty(b))
      /\ b.refs \in Nat /\ b.lrefs \in Nat
  <2>1. b.refs \in Nat /\ b.lrefs \in Nat
    BY <1>1 DEF Bats
  <2> QED  BY <2>1 DEF Keeps
<1>8. Moves(t, i, x, p, c)
  <2>1. \A k \in DOMAIN p: p[k][2] = i
    BY <1>2 DEF Only
  <2> QED  BY <1>1, <1>2, <1>3, <1>5, <1>6, <2>1, Zenon DEF Moves
<1>9. Turns(t, i, x, "unload")
  <2>1. PICK z: z = "unload"
    OBVIOUS
  <2>2. x # z /\ Only(p, <<z, i>>)
    BY <1>1, <1>2, <2>1
  <2>3. Turns(t, i, x, z)
    BY <1>1, <1>2, <1>3, <2>2, TurnsOne
  <2> QED  BY <2>1, <2>3
<1>10. Becomes(t, i, c)
  <2>1. bbp[i].used /\ BatOK(bbp[i])
    BY <1>1, AtUsed DEF IInv, Slot
  <2>2. BatOK(c)
    <3>1. /\ "LOADING" \notin c.status /\ "UNLOADING" \in c.status /\ Loaded(c) /\ Loaded(bbp[i])
          /\ Persistent(c) <=> Persistent(bbp[i])
          /\ \A f: f # "UNLOADING" => (f \in c.status <=> f \in bbp[i].status)
      BY <1>1, <1>5, <1>7 DEF Loaded, Persistent
    <3>2. c.refs = 0 /\ (c.lrefs = 0 \/ (Persistent(c) /\ ~BATdirty(c)))
      BY <1>1, <1>5, <1>7, <3>1 DEF BATdirty, Persistent
    <3>3. ~({"EXISTING", "NEW"} \subseteq c.status)
      BY <2>1, <3>1 DEF BatOK
    <3> QED  BY <1>1, <1>5, <2>1, <3>1, <3>2, <3>3 DEF BatOK, Loaded
  <2> QED  BY <1>1, <1>5, <2>1, <2>2 DEF Becomes, Loaded, Persistent
<1>11. Undisturbed(i, c)
  BY <1>1, <1>5, <1>7 DEF Undisturbed, Loaded
<1>12. Shape(t)'
  <2>1. todo[t] # <<>> /\ Gives(Tail(todo[t]))
    BY <1>1, RestGives DEF At
  <2>2. Types'
    BY <1>1, <1>2, <1>3, <1>5, <1>6, Advance, ZenonT(60) DEF Types, clients
  <2>3. PICK r: r = Tail(todo[t])
    OBVIOUS
  <2>4. PICK z: z = "unload"
    OBVIOUS
  <2>5. Gives(r) /\ todo'[t] = << <<z, i>> >> \o r
    BY <1>9, <2>1, <2>3, <2>4, Zenon DEF Turns
  <2>6. z \in {"unload", "freed", "clear", "unfix"} /\ z # "freed" /\ z # "clear"
    BY <2>4
  <2> QED  BY <2>2, <2>5, <2>6, OneThenGives
<1>13. PlainAccounts(t, i)
  <2>1. /\ \A y: y # x /\ y \notin Uncounted => Left(t, y, i)' = Left(t, y, i)
        /\ Left(t, x, i)' = Left(t, x, i) - 1
    BY <1>9, ZenonT(30) DEF Turns, Uncounted
  <2>2. \A u \in Threads \ {t}: todo'[u] = todo[u]
    BY <1>1, <1>3 DEF Then, Types
  <2>3. Persistent(bbp'[i]) <=> Persistent(bbp[i])
    BY <1>1, <1>5, <1>6 DEF Persistent
  <2>4. bbp'[i].refs = b.refs /\ bbp'[i].lrefs = b.lrefs /\ bbp'[i].share = b.share
    BY <1>5, <1>6
  <2> QED  BY <2>1, <2>2, <2>3, <2>4, LosesAccounts
<1>14. Resets(t, i)
  <2>1. Loads(t, i)' = Loads(t, i) /\ Sets(t, i)' = Sets(t, i)
    BY <1>1, <1>9 DEF Turns, Loads, Sets
  <2>2. Unloads(t, i)' = Unloads(t, i) + 1 /\ Unloads(t, i) \in Nat
    <3>1. /\ Left(t, "unload", i)' = Left(t, "unload", i) + 1 /\ Left(t, "unload", i) \in Nat
          /\ Left(t, "freed", i)' = Left(t, "freed", i) /\ Left(t, "freed", i) \in Nat
          /\ Left(t, "clear", i)' = Left(t, "clear", i) /\ Left(t, "clear", i) \in Nat
      BY <1>1, <1>9 DEF Turns
    <3> QED  BY <3>1 DEF Unloads
  <2>3. /\ Flagged(i, "LOADING")' = Flagged(i, "LOADING")
        /\ Flagged(i, "UNLOADING")' = 1 /\ Flagged(i, "UNLOADING") = 0
    BY <1>1, <1>5, <1>6 DEF Flagged
  <2>4. 1 + Unloads(t, i) = 0 + (Unloads(t, i) + 1)
    BY <2>2
  <2> QED  BY <2>1, <2>2, <2>3, <2>4, Zenon DEF Resets
<1>15. Left(t, "base", i)' = Left(t, "base", i)
  BY <1>1, <1>9 DEF Turns
<1> QED  BY <1>8, <1>10, <1>11, <1>12, <1>13, <1>14, <1>15, MoveKeeps
=============================================================================
