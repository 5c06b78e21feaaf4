--------------------------- MODULE BBPRefsProofs ---------------------------
(***************************************************************************)
(* The other steps of BBPRefs: references that are given back, slots that  *)
(* are cleared, checkpoints, new bats and views.  All of them keep IInv,   *)
(* and so the counts are exact, pointers stay good, a slot is given away   *)
(* only when nothing refers to it, and what is unloaded can be read back.  *)
(***************************************************************************)
EXTENDS BBPRefsSteps

-----------------------------------------------------------------------------

(* A call whose next step releases a bat.                                 *)
LEMMA ReleaseForm ==
    ASSUME Types, NEW t \in Threads, Shape(t), NEW i \in Slots, At(t, "release", i)
    PROVE  /\ Undoes(t) \/ (Modes(t, i) /\ todo[t] = << <<"release", i>>, <<"unpersist", i>> >>)
           /\ Lrefs(t, i) > 0
<1>1. todo[t] \in Seq(Steps) /\ todo[t] # <<>> /\ todo[t][1] = <<"release", i>>
  BY DEF Types, At
<1>2. todo[t][1] = <<"release", i>>
  BY <1>1
<1>3. \A j \in Slots: ~Fetches(t, j) /\ ~Retains(t, j)
  BY <1>2 DEF Fetches, Retains
<1>4. \A j, p \in Slots: ~FetchesView(t, j, p)
  BY <1>2 DEF FetchesView
<1>5. ASSUME NEW j \in Slots, Modes(t, j)
      PROVE  Modes(t, i) /\ todo[t] = << <<"release", i>>, <<"unpersist", i>> >>
  BY <1>2, <1>5 DEF Modes
<1>6. Undoes(t) \/ (Modes(t, i) /\ todo[t] = << <<"release", i>>, <<"unpersist", i>> >>)
  BY <1>3, <1>4, <1>5 DEF Shape
<1>7. Left(t, "retain", i) = 0
  <2>1. CASE Undoes(t)
    <3>1. \A k \in DOMAIN todo[t]: todo[t][k] # <<"retain", i>>
      BY <2>1 DEF Undoes, Ends
    <3> QED  BY <3>1, LeftSome, LeftType
  <2>2. CASE todo[t] = << <<"release", i>>, <<"unpersist", i>> >>
    BY <2>2, LeftLiteral DEF One
  <2> QED  BY <1>6, <2>1, <2>2
<1>8. /\ Left(t, "release", i) > 0 /\ Left(t, "release", i) \in Nat /\ Left(t, "persist", i) \in Nat
      /\ lref[t][i] \in Nat
  <2>1. PICK x: x = "release"
    OBVIOUS
  <2>2. Left(t, x, i) > 0
    BY <2>1, AtLeft, Zenon
  <2> QED  BY <2>1, <2>2, LeftType DEF Types
<1>9. Lrefs(t, i) > 0
  BY <1>7, <1>8 DEF Lrefs
<1> QED  BY <1>6, <1>9, ZenonT(30)

(* decref of a logical reference.                                         *)
LEMMA DecLrefKeeps ==
    ASSUME IInv, NEW t \in Threads, NEW i \in Slots, DecLref(t, i)
    PROVE  IInv'
<1>1. /\ Types /\ Shape(t) /\ At(t, "release", i) /\ MayDrop(bbp[i])
      /\ Dropped(t, i, [bbp[i] EXCEPT !.lrefs = @ - 1], <<>>)
  BY Zenon DEF IInv, DecLref
<1>2. PICK x: x = "release"
  OBVIOUS
<1>3. PICK b: b = [bbp[i] EXCEPT !.lrefs = @ - 1]
  OBVIOUS
<1>4. At(t, x, i) /\ Dropped(t, i, b, <<>>)
  BY <1>1, <1>2, <1>3, Zenon
<1>5. /\ Undoes(t) \/ (Modes(t, i) /\ todo[t] = << <<"release", i>>, <<"unpersist", i>> >>)
      /\ Lrefs(t, i) > 0
  BY <1>1, ReleaseForm
<1>6. bbp[i].lrefs > 0 /\ bbp[i].lrefs \in Nat
  BY <1>5, LrefsPositive, SlotTypes
<1>7. /\ bbp[i] \in Bats /\ b \in Bats /\ b.used = bbp[i].used /\ b.refs = bbp[i].refs
      /\ b.lrefs = bbp[i].lrefs - 1 /\ b.share = bbp[i].share /\ b.status = bbp[i].status
      /\ b.parent = bbp[i].parent /\ b.heap = bbp[i].heap /\ b.base = bbp[i].base
      /\ b.dirty = bbp[i].dirty /\ b.copied = bbp[i].copied
  <2>1. bbp[i] \in Bats
    BY <1>1 DEF Types
  <2>2. bbp[i].lrefs - 1 \in Nat
    BY <1>6
  <2> QED  BY <1>3, <2>1, <2>2 DEF Bats
<1>8. Loses(t, i, x, b)
  <2>1. Undisturbed(i, b)
    <3>1. \A q \in Slots: bbp[i].parent = q => ViewOK(i, q)
      BY DEF IInv, Slot
    <3>2. bbp[i].parent \in Slots \cup {0}
      BY <1>7 DEF Bats
    <3> QED  BY <1>7, <3>1, <3>2 DEF Undisturbed, ViewOK, HoldsBase, Loaded
  <2>2. "LOADING" \in bbp[i].status => b.refs > 0
    <3>1. bbp[i].used /\ BatOK(bbp[i])
      BY <1>4, AtUsed DEF IInv, Slot
    <3> QED  BY <1>7, <3>1 DEF BatOK
  <2> QED  BY <1>1, <1>2, <1>4, <1>6, <1>7, <2>1, <2>2 DEF Loses, MayDrop
<1>9. CASE /\ Keeps(b) \/ ~Loaded(b)
           /\ bbp' = [bbp EXCEPT ![i] = b] /\ Then(t, <<>>) /\ UNCHANGED clients
  <2>1. Passes(t, i, x) /\ Types'
    BY <1>1, <1>4, <1>7, <1>9, PassesOne, Done DEF Types, clients
  <2>2. CASE Undoes(t)
    <3>1. Gives(todo'[t])
      BY <1>1, <2>1, <2>2, RestGives DEF Passes, At
    <3> QED  BY <1>8, <1>9, <2>1, <3>1, GivesNext, LosesStays
  <2>3. CASE Modes(t, i) /\ todo[t] = << <<"release", i>>, <<"unpersist", i>> >>
    <3>1. todo'[t] = << <<"unpersist", i>> >>
      BY <2>1, <2>3 DEF Passes
    <3>2. Persistent(bbp[i]) /\ fix[t][i] > 0 /\ bbp[i].parent = 0
      BY <2>3 DEF Modes
    <3>3. bbp'[i] = b /\ fix' = fix
      BY <1>1, <1>9 DEF Types, clients
    <3>4. Modes(t, i)'
      BY <1>7, <3>1, <3>2, <3>3 DEF Modes, Persistent
    <3>5. Shape(t)'
      BY <3>4 DEF Shape
    <3> QED  BY <1>8, <1>9, <3>5, LosesStays
  <2> QED  BY <1>5, <2>2, <2>3
<1>10. CASE /\ ~Keeps(b) /\ Loaded(b)
            /\ bbp' = [bbp EXCEPT ![i] = [b EXCEPT !.status = @ \cup {"UNLOADING"}]]
            /\ Then(t, << <<"unload", i>> >>) /\ UNCHANGED clients
  <2>1. ~Modes(t, i)
    <3>1. SUFFICES ASSUME fix[t][i] > 0 PROVE FALSE
      BY DEF Modes
    <3>2. b.refs > 0
      BY <1>7, <3>1, FixedPositive
    <3> QED  BY <1>10, <3>2 DEF Keeps
  <2>2. Undoes(t)
    BY <1>5, <2>1
  <2> QED  BY <1>8, <1>10, <2>2, LosesGoes
<1> QED  BY <1>8, <1>9, <1>10, LosesForm

(* A call whose next step unfixes a bat.                                  *)
LEMMA UnfixFacts ==
    ASSUME IInv, NEW t \in Threads, NEW i \in Slots, At(t, "unfix", i)
    PROVE  /\ Undoes(t) /\ bbp[i].refs > 0 /\ bbp[i].refs \in Nat
           /\ bbp[i].used /\ BatOK(bbp[i])
           /\ "LOADING" \in bbp[i].status => bbp[i].refs > 1 /\ bbp[i].parent = 0
<1>1. Types /\ Shape(t)
  BY DEF IInv
<1>2. Undoes(t)
  BY <1>1, UndoForm
<1>3. Left(t, "unfix", i) > 0 /\ Left(t, "unfix", i) \in Nat
  <2>1. PICK x: x = "unfix"
    OBVIOUS
  <2>2. Left(t, x, i) > 0
    BY <1>1, <2>1, AtLeft, Zenon
  <2> QED  BY <1>1, <2>1, <2>2, LeftType
<1>4. Fixes(t, i) > 0 /\ bbp[i].refs \in Nat
  <2>1. fix[t][i] \in Nat /\ Fixes(t, i) \in Nat /\ Fixes(t, i) >= fix[t][i] + Left(t, "unfix", i)
    BY SlotTypes
  <2> QED  BY <1>3, <2>1, SlotTypes
<1>5. bbp[i].refs > 0
  BY <1>4, FixesPositive
<1>6. bbp[i].used /\ BatOK(bbp[i])
  BY AtUsed DEF IInv, Slot
<1>7. ASSUME "LOADING" \in bbp[i].status
      PROVE  bbp[i].refs > 1 /\ bbp[i].parent = 0
  <2>1. bbp[i].parent = 0
    <3>1. bbp[i].parent \notin Slots
      BY <1>3, <1>7, ViewLoading
    <3> QED  BY <1>1, <3>1 DEF Types, Bats
  <2>2. PICK u \in Threads: Loads(u, i) > 0
    BY <1>7, SomeoneLoads
  <2>3. Fixes(u, i) > 0
    BY <2>2, LoaderFixes
  <2>4. u # t
    <3>1. \A k \in DOMAIN todo[t]: todo[t][k] # <<"base", i>> /\ todo[t][k] # <<"read", i>>
      BY <1>2 DEF Undoes, Ends
    <3>2. ~(Left(t, "base", i) > 0) /\ ~(Left(t, "read", i) > 0)
      BY <1>1, <3>1, LeftSome, ZenonT(60)
    <3>3. Left(t, "base", i) \in Nat /\ Left(t, "read", i) \in Nat
      BY <1>1, LeftType
    <3>4. Loads(t, i) = 0
      BY <3>2, <3>3 DEF Loads
    <3> QED  BY <2>2, <3>4
  <2>5. Fixes(t, i) + Fixes(u, i) <= bbp[i].refs
    BY <2>4, FixesBound
  <2>6. Fixes(t, i) \in Nat /\ Fixes(u, i) \in Nat
    BY SlotTypes
  <2> QED  BY <1>4, <2>1, <2>3, <2>5, <2>6
<1> QED  BY <1>2, <1>4, <1>5, <1>6, <1>7

(* decref of a fix, unless it is the last one of a loaded view.           *)
LEMMA DecFixPlain ==
    ASSUME IInv, NEW t \in Threads, NEW i \in Slots, DecFix(t, i),
           ~(bbp[i].refs = 1 /\ Loaded(bbp[i]) /\ IsView(bbp[i]))
    PROVE  IInv'
<1> DEFINE last == bbp[i].refs = 1 /\ Loaded(bbp[i]) /\ IsView(bbp[i])
<1>1. Types /\ Shape(t) /\ At(t, "unfix", i)
  BY Zenon DEF IInv, DecFix
<1>2. PICK x: x = "unfix"
  OBVIOUS
<1>3. PICK b: b = [bbp[i] EXCEPT !.refs = @ - 1, !.base = IF last THEN Offset(i) ELSE @]
  OBVIOUS
<1>4. MayDrop(b) /\ Dropped(t, i, b, <<>>)
  <2>1. /\ MayDrop(b)
        /\ Dropped(t, i, b, IF last THEN << <<"unfix", b.parent>> >> ELSE <<>>)
    BY <1>3, Zenon DEF DecFix
  <2> QED  BY <2>1, Zenon
<1>5. At(t, x, i)
  BY <1>1, <1>2, Zenon
<1>6. /\ Undoes(t) /\ bbp[i].refs > 0 /\ bbp[i].refs \in Nat /\ bbp[i].used /\ BatOK(bbp[i])
      /\ "LOADING" \in bbp[i].status => bbp[i].refs > 1 /\ bbp[i].parent = 0
  BY <1>1, UnfixFacts
<1>7. /\ bbp[i] \in Bats /\ b \in Bats /\ b.used = bbp[i].used /\ b.refs = bbp[i].refs - 1
      /\ b.lrefs = bbp[i].lrefs /\ b.share = bbp[i].share /\ b.status = bbp[i].status
      /\ b.parent = bbp[i].parent /\ b.heap = bbp[i].heap /\ b.base = bbp[i].base
      /\ b.dirty = bbp[i].dirty /\ b.copied = bbp[i].copied
  <2>1. bbp[i] \in Bats
    BY <1>1 DEF Types
  <2>2. bbp[i].refs - 1 \in Nat
    BY <1>6
  <2>3. b = [bbp[i] EXCEPT !.refs = @ - 1, !.base = @]
    BY <1>3, Zenon
  <2> QED  BY <2>1, <2>2, <2>3 DEF Bats
<1>8. Loses(t, i, x, b)
  <2>1. Undisturbed(i, b)
    <3>1. SUFFICES ASSUME bbp[i].parent # 0
                   PROVE  /\ b.heap = bbp[i].heap /\ b.base = bbp[i].base /\ Loaded(b)
                          /\ b.status \subseteq {"LOADED", "UNLOADING", "LOADING"}
                          /\ "LOADING" \in b.status => b.refs = 1
                          /\ (b.refs > 0 /\ "LOADING" \notin b.status) <=> HoldsBase(i)
      BY <1>7 DEF Undisturbed
    <3>2. ViewOK(i, bbp[i].parent)
      BY <3>1, ViewsHaveNone
    <3>3. Loaded(bbp[i]) /\ bbp[i].status \subseteq {"LOADED", "UNLOADING", "LOADING"}
          /\ "LOADING" \notin bbp[i].status
      BY <1>6, <3>1, <3>2 DEF ViewOK, Loaded
    <3>4. bbp[i].refs # 1
      BY <3>1, <3>3 DEF IsView
    <3>5. b.refs > 0 /\ HoldsBase(i)
      BY <1>6, <1>7, <3>3, <3>4 DEF HoldsBase
    <3> QED  BY <1>7, <3>3, <3>5 DEF Loaded
  <2>2. "LOADING" \in bbp[i].status => b.refs > 0
    BY <1>6, <1>7
  <2> QED  BY <1>2, <1>4, <1>5, <1>6, <1>7, <2>1, <2>2 DEF Loses, MayDrop
<1>9. CASE /\ Keeps(b) \/ ~Loaded(b)
           /\ bbp' = [bbp EXCEPT ![i] = b] /\ Then(t, <<>>) /\ UNCHANGED clients
  <2>1. Passes(t, i, x) /\ Types'
    BY <1>1, <1>5, <1>7, <1>9, PassesOne, Done, ZenonT(30) DEF Types, clients
  <2>2. Gives(todo'[t])
    BY <1>1, <1>6, <2>1, RestGives DEF Passes, At
  <2> QED  BY <1>8, <1>9, <2>1, <2>2, GivesNext, LosesStays
<1>10. CASE /\ ~Keeps(b) /\ Loaded(b)
            /\ bbp' = [bbp EXCEPT ![i] = [b EXCEPT !.status = @ \cup {"UNLOADING"}]]
            /\ Then(t, << <<"unload", i>> >>) /\ UNCHANGED clients
  BY <1>6, <1>8, <1>10, LosesGoes
<1> QED  BY <1>8, <1>9, <1>10, LosesForm

(* The last fix of view i: the fix of its parent q goes after it.          *)
Lasts(t, i, q, b, p, goes) ==
    /\ At(t, "unfix", i) /\ p \in Seq(Steps) /\ Then(t, p) /\ UNCHANGED clients
    /\ \A k \in DOMAIN p: p[k][2] \in {i, q}
    /\ \A y, j: Occ(p, <<y, j>>) = (IF y = "unfix" /\ j = q THEN 1 ELSE 0)
                                 + (IF goes /\ y = "unload" /\ j = i THEN 1 ELSE 0)
    /\ b \in Bats /\ bbp' = [bbp EXCEPT ![i] = b]
    /\ b.used = bbp[i].used /\ b.lrefs = bbp[i].lrefs /\ b.share = bbp[i].share
    /\ b.parent = q /\ b.heap = bbp[i].heap /\ b.dirty = bbp[i].dirty /\ b.copied = bbp[i].copied
    /\ b.refs = 0 /\ b.base = 0
    /\ b.status = IF goes THEN bbp[i].status \cup {"UNLOADING"} ELSE bbp[i].status
    /\ goes \in BOOLEAN /\ (goes => b.lrefs = 0)

(* What is left of a call that gives back the last fix.                   *)
LEMMA LastsLeft ==
    ASSUME IInv, NEW t \in Threads, NEW i \in Slots, NEW q, NEW b, NEW p, NEW goes,
           Lasts(t, i, q, b, p, goes), q # i
    PROVE  /\ \A y, j: Left(t, y, j) \in Nat
           /\ \A y: y \notin {"unfix", "unload"} => \A j: Left(t, y, j)' = Left(t, y, j)
           /\ Left(t, "unfix", i)' = Left(t, "unfix", i) - 1
           /\ Left(t, "unfix", q)' = Left(t, "unfix", q) + 1
           /\ \A j: j \notin {i, q} => Left(t, "unfix", j)' = Left(t, "unfix", j)
           /\ Left(t, "unload", i)' = IF goes THEN Left(t, "unload", i) + 1 ELSE Left(t, "unload", i)
           /\ \A j: j # i => Left(t, "unload", j)' = Left(t, "unload", j)
<1>1. Types
  BY DEF IInv
<1>2. PICK x: x = "unfix"
  OBVIOUS
<1>3. p \in Seq(Steps) /\ At(t, x, i) /\ Then(t, p)
  BY <1>2, Zenon DEF Lasts
<1>4. /\ todo'[t] = p \o Tail(todo[t])
      /\ \A y, j: Left(t, y, j)' = Occ(p, <<y, j>>)
                   + (IF x = y /\ i = j THEN Left(t, y, j) - 1 ELSE Left(t, y, j))
  BY <1>1, <1>3, AdvanceLeft
<1>5. \A y, j: Left(t, y, j) \in Nat
  BY <1>1, LeftType
<1>6. \A y, j: Occ(p, <<y, j>>) = (IF y = "unfix" /\ j = q THEN 1 ELSE 0)
                                + (IF goes /\ y = "unload" /\ j = i THEN 1 ELSE 0)
  BY Zenon DEF Lasts
<1>7. ASSUME NEW y, NEW j
      PROVE  /\ y \notin {"unfix", "unload"} => Left(t, y, j)' = Left(t, y, j)
             /\ y = "unfix" /\ j = i => Left(t, y, j)' = Left(t, y, j) - 1
             /\ y = "unfix" /\ j = q => Left(t, y, j)' = Left(t, y, j) + 1
             /\ y = "unfix" /\ j \notin {i, q} => Left(t, y, j)' = Left(t, y, j)
             /\ y = "unload" /\ j = i => Left(t, y, j)' = IF goes THEN Left(t, y, j) + 1 ELSE Left(t, y, j)
             /\ y = "unload" /\ j # i => Left(t, y, j)' = Left(t, y, j)
  <2>1. Left(t, y, j)' = ((IF y = "unfix" /\ j = q THEN 1 ELSE 0)
                                + (IF goes /\ y = "unload" /\ j = i THEN 1 ELSE 0))
                 + (IF x = y /\ i = j THEN Left(t, y, j) - 1 ELSE Left(t, y, j))
    BY <1>4, <1>6
  <2>2. Left(t, y, j) \in Nat
    BY <1>5
  <2> QED  BY <1>2, <2>1, <2>2
<1> QED  BY <1>5, <1>7

(* The view is unloaded or not, and its parent is unfixed.                *)
LEMMA LastsKeeps ==
    ASSUME IInv, NEW t \in Threads, NEW i \in Slots, NEW q \in Slots, NEW b, NEW p, NEW goes,
           Lasts(t, i, q, b, p, goes), bbp[i].parent = q, bbp[i].refs = 1, Types' => Shape(t)'
    PROVE  IInv'
<1>1. /\ Types /\ At(t, "unfix", i) /\ p \in Seq(Steps) /\ Then(t, p) /\ UNCHANGED clients
      /\ b \in Bats /\ bbp' = [bbp EXCEPT ![i] = b]
      /\ b.used = bbp[i].used /\ b.lrefs = bbp[i].lrefs /\ b.share = bbp[i].share
      /\ b.parent = q /\ b.heap = bbp[i].heap /\ b.dirty = bbp[i].dirty /\ b.copied = bbp[i].copied
      /\ b.refs = 0 /\ b.base = 0
      /\ b.status = IF goes THEN bbp[i].status \cup {"UNLOADING"} ELSE bbp[i].status
      /\ goes \in BOOLEAN /\ (goes => b.lrefs = 0)
  BY Zenon DEF Lasts, IInv
<1>2. q # 0 /\ ViewOK(i, q) /\ Views(i) = {} /\ q # i
  BY ViewsHaveNone, BBPRefsAssumption DEF ViewOK
<1>3. /\ bbp[i].used /\ BatOK(bbp[i]) /\ "LOADING" \notin bbp[i].status /\ "LOADED" \in bbp[i].status
      /\ bbp[i].status \subseteq {"LOADED", "UNLOADING", "LOADING"} /\ HoldsBase(i)
      /\ "UNLOADING" \notin bbp[i].status
  <2>1. ~("LOADING" \in bbp[i].status)
    BY <1>1, <1>2, UnfixFacts
  <2>2. bbp[i].used /\ BatOK(bbp[i])
    BY <1>1, UnfixFacts
  <2> QED  BY <1>2, <2>1, <2>2 DEF ViewOK, BatOK, HoldsBase
<1>4. bbp'[i] = b /\ \A j \in Slots \ {i}: bbp'[j] = bbp[j]
  BY <1>1 DEF Types
<1>5. /\ todo' \in [Threads -> Seq(Steps)] /\ \A u \in Threads \ {t}: todo'[u] = todo[u]
  BY <1>1, Advance
<1>6. fix' = fix /\ lref' = lref /\ lost' = lost /\ calls' = calls
  BY <1>1 DEF clients
<1>7. Types'
  BY <1>1, <1>4, <1>5, <1>6, SMTT(30) DEF Types
<1>8. /\ \A y, j: Left(t, y, j) \in Nat
      /\ \A y: y \notin {"unfix", "unload"} => \A j: Left(t, y, j)' = Left(t, y, j)
      /\ Left(t, "unfix", i)' = Left(t, "unfix", i) - 1
      /\ Left(t, "unfix", q)' = Left(t, "unfix", q) + 1
      /\ \A j: j \notin {i, q} => Left(t, "unfix", j)' = Left(t, "unfix", j)
      /\ Left(t, "unload", i)' = IF goes THEN Left(t, "unload", i) + 1 ELSE Left(t, "unload", i)
      /\ \A j: j # i => Left(t, "unload", j)' = Left(t, "unload", j)
  BY <1>2, LastsLeft
<1>9. Becomes(t, i, b)
  <2>1. BatOK(b)
    BY <1>1, <1>2, <1>3 DEF BatOK, Loaded, Persistent
  <2> QED  BY <1>1, <1>3, <2>1 DEF Becomes, Loaded, Persistent
<1>10. \A r \in Slots: b.parent = r => ViewOK(i, r)'
  <2>2. /\ "LOADED" \in b.status /\ b.status \subseteq {"LOADED", "UNLOADING", "LOADING"}
        /\ "LOADING" \notin b.status
    BY <1>1, <1>3
  <2>3. bbp'[q] = bbp[q] /\ bbp'[i] = b
    BY <1>2, <1>4
  <2>4. /\ bbp[i].used /\ q # i /\ bbp[q].used /\ bbp[q].parent = 0 /\ bbp[i].heap = 0
    BY <1>2 DEF ViewOK
  <2>1. ViewOK(i, q)'
    <3>1. b.used /\ b.heap = 0 /\ b.refs = 0 /\ ~(b.refs > 0) /\ b.base = 0
      BY <1>1, <2>4
    <3> QED  BY <2>2, <2>3, <2>4, <3>1 DEF ViewOK, HoldsBase
  <2> QED  BY <1>1, <2>1
<1>11. \A j \in Slots: ~bbp[j].used => Forgotten(t, j)'
  <2>1. bbp[i].used /\ bbp[q].used
    BY <1>2 DEF ViewOK
  <2>2. \A k \in DOMAIN p: p[k][2] \in Slots => bbp[p[k][2]].used
    BY <2>1 DEF Lasts
  <2> QED  BY <1>1, <1>6, <2>2, StillForgotten
<1>12. Readable(t)'
  BY <1>1, <1>6, <1>9, ReadableKept
<1>13. \A u \in Threads \ {t}: Waits(u)
  BY <1>5, <1>6 DEF Waits
<1>14. ASSUME NEW j \in Slots
       PROVE  Views(j)' = Views(j) /\ Own(j)' = Own(j) /\ Based(t, j)' = Based(t, j) /\ Lrefs(t, j)' = Lrefs(t, j)
  <2>1. Views(j)' = Views(j)
    BY <1>1, ViewsLocal
  <2>2. /\ Left(t, "release", j)' = Left(t, "release", j) /\ Left(t, "persist", j)' = Left(t, "persist", j)
        /\ Left(t, "retain", j)' = Left(t, "retain", j) /\ Left(t, "unpersist", j)' = Left(t, "unpersist", j)
    BY <1>8
  <2>3. Persistent(bbp'[j]) <=> Persistent(bbp[j])
    <3>1. Persistent(b) <=> Persistent(bbp[i])
      BY <1>1 DEF Persistent
    <3> QED  BY <1>4, <3>1
  <2>4. Own(j)' = Own(j)
    BY <1>5, <2>2, <2>3, OwnLocal
  <2>5. Based(t, j)' = Based(t, j)
    BY <1>8, <2>1, BasedLocal
  <2> QED  BY <1>6, <2>1, <2>2, <2>4, <2>5 DEF Lrefs
<1>15. Holding(q) = Holding(q)' \cup {i} /\ i \notin Holding(q)' /\ \A j \in Slots \ {q}: Holding(j)' = Holding(j)
  <2>1. \A v \in Slots \ {i}: HoldsBase(v)' <=> HoldsBase(v)
    BY <1>4 DEF HoldsBase
  <2>2. ~HoldsBase(i)'
    BY <1>1, <1>4 DEF HoldsBase
  <2>3. i \in Views(q) /\ \A j \in Slots \ {q}: i \notin Views(j)
    BY <1>3 DEF Views
  <2>4. \A j \in Slots: Views(j) \subseteq Slots
    BY DEF Views
  <2> QED  BY <1>3, <1>14, <2>1, <2>2, <2>3, <2>4 DEF Holding
<1>16. Cardinality(Holding(q)) = Cardinality(Holding(q)') + 1 /\ Cardinality(Holding(q)') \in Nat
  <2>1. IsFiniteSet(Holding(q)')
    <3>1. IsFiniteSet(Holding(q)) /\ Holding(q)' \subseteq Holding(q)
      BY <1>15, ViewsFinite
    <3> QED  BY <3>1, FS_Subset
  <2>2. PICK H: H = Holding(q)'
    OBVIOUS
  <2>3. Cardinality(H \cup {i}) = Cardinality(H) + 1 /\ Cardinality(H) \in Nat
    BY <1>15, <2>1, <2>2, FS_AddElement, FS_CardinalityType
  <2> QED  BY <1>15, <2>2, <2>3, Zenon
<1>17. ASSUME NEW j \in Slots
       PROVE  Accounts(t, j)
  <2>1. /\ bbp'[j].lrefs = bbp[j].lrefs /\ bbp'[j].share = bbp[j].share
        /\ (j # i => bbp'[j].refs = bbp[j].refs) /\ lost'[j] = lost[j]
    BY <1>1, <1>4, <1>6
  <2>2. Left(t, "unshare", j)' = Left(t, "unshare", j) /\ Left(t, "got", j)' = Left(t, "got", j)
        /\ Left(t, "fix", j)' = Left(t, "fix", j)
    BY <1>8
  <2>3. /\ fix[t][j] \in Nat /\ fix'[t][j] = fix[t][j] /\ bbp[j].refs \in Nat /\ lost[j] \in Nat
        /\ Based(t, j) \in {0, 1}
    BY <1>1, <1>6, SlotTypes, BasedType
  <2>4. \A y: Left(t, y, j) \in Nat
    BY <1>8
  <2>5. bbp'[j].refs + Fixes(t, j) + lost[j] + Cardinality(Holding(j))
          = bbp[j].refs + Fixes(t, j)' + lost'[j] + Cardinality(Holding(j)')
    <3>1. CASE j = i
      <4>1. Fixes(t, i)' = Fixes(t, i) - 1 /\ Fixes(t, i) \in Int
        BY <1>8, <1>14, <2>2, <2>3, <2>4, <3>1, SMTT(30) DEF Fixes
      <4>2. Holding(i)' = Holding(i) /\ Cardinality(Holding(i)) \in Nat
        BY <1>2, <1>15, ViewsFinite
      <4>3. bbp'[i].refs = 0 /\ bbp[i].refs = 1
        BY <1>1, <1>4
      <4> QED  BY <2>1, <2>3, <3>1, <4>1, <4>2, <4>3
    <3>2. CASE j = q
      <4>1. Fixes(t, q)' = Fixes(t, q) + 1 /\ Fixes(t, q) \in Int
        BY <1>8, <1>14, <2>2, <2>3, <2>4, <3>2 DEF Fixes
      <4>2. bbp'[q].refs = bbp[q].refs
        BY <1>2, <2>1, <3>2
      <4> QED  BY <1>16, <2>1, <2>3, <3>2, <4>1, <4>2
    <3>3. CASE j \notin {i, q}
      <4>1. Fixes(t, j)' = Fixes(t, j)
        BY <1>8, <1>14, <2>2, <2>3, <3>3 DEF Fixes
      <4>2. Holding(j)' = Holding(j)
        BY <1>15, <3>3
      <4> QED  BY <2>1, <3>3, <4>1, <4>2, Zenon
    <3> QED  BY <3>1, <3>2, <3>3
  <2> QED  BY <1>14, <2>1, <2>2, <2>5, Zenon DEF Accounts
<1>18. ASSUME NEW j \in Slots
       PROVE  Resets(t, j)
  <2>1. Loads(t, j)' = Loads(t, j) /\ Sets(t, j)' = Sets(t, j)
    BY <1>8 DEF Loads, Sets
  <2>2. Flagged(j, "LOADING")' = Flagged(j, "LOADING")
    BY <1>1, <1>4 DEF Flagged
  <2>3. /\ Left(t, "freed", j)' = Left(t, "freed", j) /\ Left(t, "freed", j) \in Nat
        /\ Left(t, "clear", j)' = Left(t, "clear", j) /\ Left(t, "clear", j) \in Nat
        /\ Left(t, "unload", j) \in Nat
    BY <1>8
  <2>4. Flagged(j, "UNLOADING")' + Unloads(t, j) = Flagged(j, "UNLOADING") + Unloads(t, j)'
    <3>1. CASE j = i /\ goes
      <4>1. Unloads(t, i)' = Unloads(t, i) + 1 /\ Unloads(t, i) \in Nat
        BY <1>8, <2>3, <3>1 DEF Unloads
      <4>2. Flagged(i, "UNLOADING") = 0 /\ Flagged(i, "UNLOADING")' = 1
        BY <1>1, <1>3, <1>4, <3>1 DEF Flagged
      <4> QED  BY <3>1, <4>1, <4>2
    <3>2. CASE ~(j = i /\ goes)
      <4>1. Left(t, "unload", j)' = Left(t, "unload", j)
        BY <1>8, <3>2
      <4>2. Unloads(t, j)' = Unloads(t, j)
        BY <2>3, <4>1 DEF Unloads
      <4>3. Flagged(j, "UNLOADING")' = Flagged(j, "UNLOADING")
        BY <1>1, <1>4, <3>2 DEF Flagged
      <4> QED  BY <4>2, <4>3, Zenon
    <3> QED  BY <3>1, <3>2
  <2> QED  BY <2>1, <2>2, <2>4, Zenon DEF Resets
<1>19. Shape(t)'
  BY <1>7
<1> QED  BY <1>1, <1>7, <1>9, <1>10, <1>11, <1>12, <1>13, <1>17, <1>18, <1>19, LocalStep

(* What gives back may come before what gives back.                       *)
LEMMA GivesBefore ==
    ASSUME NEW s \in GivesBack, NEW r, Gives(r)
    PROVE  Gives(<<s>> \o r)
<1>0. r \in Seq(Steps) /\ s \in Steps
  BY DEF Gives, GivesBack, Steps
<1>1. PICK m: m = <<s>> \o r
  OBVIOUS
<1>2. /\ m \in Seq(Steps) /\ Len(m) = 1 + Len(r) /\ m[1] = s
      /\ \A k \in 2 .. 1 + Len(r): m[k] = r[k - 1]
  BY <1>0, <1>1
<1>3. ASSUME NEW k \in DOMAIN m
      PROVE  m[k] \in GivesBack
  <2>1. k = 1 \/ (k \in 2 .. 1 + Len(r) /\ k - 1 \in DOMAIN r)
    <3>1. Len(r) \in Nat /\ DOMAIN r = 1 .. Len(r) /\ DOMAIN m = 1 .. Len(m)
      BY <1>0, <1>2
    <3>2. k \in 1 .. 1 + Len(r)
      BY <1>2, <3>1
    <3> QED  BY <3>1, <3>2
  <2> QED  BY <1>2, <2>1 DEF Gives
<1> QED  BY <1>1, <1>2, <1>3 DEF Gives

(* What is left of the call, with and without the unloading.               *)
LEMMA LastsAlone ==
    ASSUME IInv, NEW t \in Threads, NEW i \in Slots, NEW q \in Slots, At(t, "unfix", i),
           Then(t, <<>> \o << <<"unfix", q>> >>)
    PROVE  \E p: /\ p \in Seq(Steps) /\ Then(t, p) /\ \A k \in DOMAIN p: p[k][2] \in {i, q}
                 /\ \A y, j: Occ(p, <<y, j>>) = (IF y = "unfix" /\ j = q THEN 1 ELSE 0)
                                              + (IF FALSE /\ y = "unload" /\ j = i THEN 1 ELSE 0)
                 /\ Types' => Shape(t)'
<1>1. <<"unfix", q>> \in Steps /\ <<"unfix", q>> \in GivesBack
  BY DEF Steps, GivesBack
<1>2. PICK p: p \in Seq(Steps) /\ Only(p, <<"unfix", q>>)
  BY <1>1, OneStep
<1>3. Then(t, p)
  <2>1. <<>> \o p = p
    BY <1>2, ConcatEmptySeq
  <2> QED  BY <1>2, <2>1, Zenon DEF Only
<1>4. \A k \in DOMAIN p: p[k][2] \in {i, q}
  BY <1>2 DEF Only
<1>5. ASSUME NEW y, NEW j
      PROVE  Occ(p, <<y, j>>) = (IF y = "unfix" /\ j = q THEN 1 ELSE 0)
                              + (IF FALSE /\ y = "unload" /\ j = i THEN 1 ELSE 0)
  <2>1. Occ(p, <<y, j>>) = One(<<"unfix", q>>, <<y, j>>)
    BY <1>2, OccOne DEF Only
  <2>2. One(<<"unfix", q>>, <<y, j>>) = IF "unfix" = y /\ q = j THEN 1 ELSE 0
    BY OnePair
  <2> QED  BY <2>1, <2>2
<1>6. ASSUME Types'
      PROVE  Shape(t)'
  <2>1. Types /\ Shape(t)
    BY DEF IInv
  <2>2. Undoes(t)
    BY UnfixFacts
  <2>3. Gives(Tail(todo[t]))
    BY <2>1, <2>2, RestGives DEF At
  <2>4. PICK x: x = "unfix"
    OBVIOUS
  <2>5. At(t, x, i)
    BY <2>4, Zenon
  <2>6. todo'[t] = p \o Tail(todo[t]) /\ \A y, j: Left(t, y, j)' = Occ(p, <<y, j>>)
                         + (IF x = y /\ i = j THEN Left(t, y, j) - 1 ELSE Left(t, y, j))
    BY <1>2, <1>3, <2>1, <2>5, AdvanceLeft, SMTT(60)
  <2>7. Gives(<< <<"unfix", q>> >> \o Tail(todo[t]))
    BY <1>1, <2>3, GivesBefore
  <2>8. Gives(todo'[t])
    BY <1>2, <2>6, <2>7, Zenon DEF Only
  <2> QED  BY <1>6, <2>8, GivesNext
<1>7. \A y, j: Occ(p, <<y, j>>) = (IF y = "unfix" /\ j = q THEN 1 ELSE 0)
                                + (IF FALSE /\ y = "unload" /\ j = i THEN 1 ELSE 0)
  BY <1>5, Zenon
<1> QED  BY <1>2, <1>3, <1>4, <1>6, <1>7, Zenon

(* Three sequences one after the other.                                   *)
LEMMA ThreeParts ==
    ASSUME NEW S, NEW a, NEW b, NEW c, a \in Seq(S), b \in Seq(S), c \in Seq(S)
    PROVE  (a \o b) \o c = a \o (b \o c)
BY ConcatAssociative, SMTT(60)

(* The last fix of a view: unload the view, then unfix its parent.        *)
LEMMA LastsBoth ==
    ASSUME IInv, NEW t \in Threads, NEW i \in Slots, NEW q \in Slots, At(t, "unfix", i),
           Then(t, << <<"unload", i>> >> \o << <<"unfix", q>> >>)
    PROVE  \E p: /\ p \in Seq(Steps) /\ Then(t, p) /\ \A k \in DOMAIN p: p[k][2] \in {i, q}
                 /\ \A y, j: Occ(p, <<y, j>>) = (IF y = "unfix" /\ j = q THEN 1 ELSE 0)
                                              + (IF TRUE /\ y = "unload" /\ j = i THEN 1 ELSE 0)
                 /\ Types' => Shape(t)'
<1>1. <<"unload", i>> \in Steps /\ <<"unfix", q>> \in Steps /\ <<"unfix", q>> \in GivesBack
  BY DEF Steps, GivesBack
<1>2. PICK r: r \in Seq(Steps) /\ Only(r, <<"unload", i>>)
  BY <1>1, OneStep
<1>3. PICK s: s \in Seq(Steps) /\ Only(s, <<"unfix", q>>)
  BY <1>1, OneStep
<1>4. PICK p: p = r \o s
  OBVIOUS
<1>5. p \in Seq(Steps)
  BY <1>2, <1>3, <1>4
<1>6. Then(t, p)
  BY <1>2, <1>3, <1>4, Zenon DEF Only
<1>7. \A k \in DOMAIN p: p[k][2] \in {i, q}
  <2>1. p = << <<"unload", i>>, <<"unfix", q>> >>
    <3>1. PICK a, b: a = <<"unload", i>> /\ b = <<"unfix", q>>
      OBVIOUS
    <3>2. <<a, b>> = <<a>> \o <<b>>
      BY OneAndOne
    <3> QED  BY <1>2, <1>3, <1>4, <3>1, <3>2, Zenon DEF Only
  <2> QED  BY <2>1
<1>8. ASSUME NEW y, NEW j
      PROVE  Occ(p, <<y, j>>) = (IF y = "unfix" /\ j = q THEN 1 ELSE 0)
                              + (IF TRUE /\ y = "unload" /\ j = i THEN 1 ELSE 0)
  <2>1. Occ(p, <<y, j>>) = Occ(r, <<y, j>>) + Occ(s, <<y, j>>)
    BY <1>2, <1>3, <1>4, OccConcat
  <2>2. Occ(r, <<y, j>>) = One(<<"unload", i>>, <<y, j>>)
    BY <1>2, OccOne DEF Only
  <2>3. Occ(s, <<y, j>>) = One(<<"unfix", q>>, <<y, j>>)
    BY <1>3, OccOne DEF Only
  <2>4. /\ One(<<"unload", i>>, <<y, j>>) = IF "unload" = y /\ i = j THEN 1 ELSE 0
        /\ One(<<"unfix", q>>, <<y, j>>) = IF "unfix" = y /\ q = j THEN 1 ELSE 0
    BY OnePair
  <2> QED  BY <2>1, <2>2, <2>3, <2>4
<1>9. ASSUME Types'
      PROVE  Shape(t)'
  <2>1. Types /\ Shape(t)
    BY DEF IInv
  <2>2. Undoes(t)
    BY UnfixFacts
  <2>3. Gives(Tail(todo[t]))
    BY <2>1, <2>2, RestGives DEF At
  <2>4. PICK x: x = "unfix"
    OBVIOUS
  <2>5. At(t, x, i)
    BY <2>4, Zenon
  <2>6. todo'[t] = p \o Tail(todo[t]) /\ \A y, j: Left(t, y, j)' = Occ(p, <<y, j>>)
                         + (IF x = y /\ i = j THEN Left(t, y, j) - 1 ELSE Left(t, y, j))
    BY <1>5, <1>6, <2>1, <2>5, AdvanceLeft
  <2>7. PICK w: w = s \o Tail(todo[t])
    OBVIOUS
  <2>8. Gives(w)
    <3>1. Gives(<< <<"unfix", q>> >> \o Tail(todo[t]))
      BY <1>1, <2>3, GivesBefore
    <3> QED  BY <1>3, <2>7, <3>1, Zenon DEF Only
  <2>9. PICK z: z = "unload"
    OBVIOUS
  <2>10. todo'[t] = << <<z, i>> >> \o w
    <3>1. Tail(todo[t]) \in Seq(Steps)
      BY <2>3 DEF Gives
    <3>2. PICK v: v = Tail(todo[t])
      OBVIOUS
    <3>3. r \in Seq(Steps) /\ s \in Seq(Steps) /\ v \in Seq(Steps)
      BY <1>2, <1>3, <3>1, <3>2, Zenon
    <3>4. (r \o s) \o v = r \o (s \o v)
      BY <3>3, ThreeParts, SMTT(60)
    <3> QED  BY <1>2, <1>4, <2>6, <2>7, <2>9, <3>2, <3>4, Zenon DEF Only
  <2>11. z \in {"unload", "freed", "clear", "unfix"} /\ z # "freed" /\ z # "clear"
    BY <2>9
  <2> QED  BY <1>9, <2>8, <2>10, <2>11, OneThenGives
<1>10. \A y, j: Occ(p, <<y, j>>) = (IF y = "unfix" /\ j = q THEN 1 ELSE 0)
                                 + (IF TRUE /\ y = "unload" /\ j = i THEN 1 ELSE 0)
  BY <1>8, Zenon
<1> QED  BY <1>5, <1>6, <1>7, <1>9, <1>10, Zenon

(* decref of the last fix of a loaded view.                               *)
LEMMA DecFixLast ==
    ASSUME IInv, NEW t \in Threads, NEW i \in Slots, DecFix(t, i),
           bbp[i].refs = 1 /\ Loaded(bbp[i]) /\ IsView(bbp[i])
    PROVE  IInv'
<1> DEFINE last == bbp[i].refs = 1 /\ Loaded(bbp[i]) /\ IsView(bbp[i])
<1>1. Types /\ At(t, "unfix", i)
  BY Zenon DEF IInv, DecFix
<1>2. PICK q: q = bbp[i].parent
  OBVIOUS
<1>3. q \in Slots /\ ViewOK(i, q)
  BY <1>2, ViewsHaveNone DEF IsView
<1>4. PICK b: b = [bbp[i] EXCEPT !.refs = @ - 1, !.base = IF last THEN Offset(i) ELSE @]
  OBVIOUS
<1>5. "LOADING" \notin bbp[i].status
  BY <1>1, UnfixFacts
<1>6. Offset(i) = 0
  <2>1. bbp[i].base = bbp[q].heap
    BY <1>3, <1>5 DEF ViewOK, HoldsBase
  <2>2. bbp[q].heap \in Nat
    <3>1. bbp[q] \in Bats
      BY <1>1, <1>3 DEF Types
    <3>2. bbp[q].heap \in Addresses \cup {0}
      BY <3>1 DEF Bats
    <3>3. \A a \in Addresses \cup {0}: a \in Nat
      BY BBPRefsAssumption
    <3> QED  BY <3>2, <3>3, Zenon
  <2>3. Offset(i) = bbp[q].heap - bbp[q].heap
    BY <1>2, <2>1, Zenon DEF Offset
  <2> QED  BY <2>2, <2>3
<1>7. /\ bbp[i] \in Bats /\ b \in Bats /\ b.used = bbp[i].used /\ b.refs = 0
      /\ b.lrefs = bbp[i].lrefs /\ b.share = bbp[i].share /\ b.status = bbp[i].status
      /\ b.parent = q /\ b.heap = bbp[i].heap /\ b.base = 0
      /\ b.dirty = bbp[i].dirty /\ b.copied = bbp[i].copied
  <2>1. bbp[i] \in Bats
    BY <1>1 DEF Types
  <2>2. b = [bbp[i] EXCEPT !.refs = bbp[i].refs - 1, !.base = 0]
    BY <1>4, <1>6, Zenon
  <2>3. bbp[i].refs - 1 = 0
    OBVIOUS
  <2>4. b = [bbp[i] EXCEPT !.refs = 0, !.base = 0]
    BY <2>2, <2>3, Zenon
  <2>5. PICK a: a = bbp[i]
    OBVIOUS
  <2>6. a \in Bats /\ b = [a EXCEPT !.refs = 0, !.base = 0] /\ a.parent = q
    BY <1>2, <2>1, <2>4, <2>5, Zenon
  <2>7. /\ b \in Bats /\ b.used = a.used /\ b.refs = 0
        /\ b.lrefs = a.lrefs /\ b.share = a.share /\ b.status = a.status
        /\ b.parent = a.parent /\ b.heap = a.heap /\ b.base = 0
        /\ b.dirty = a.dirty /\ b.copied = a.copied
    BY <2>6 DEF Bats
  <2> QED  BY <2>1, <2>5, <2>6, <2>7, Zenon
<1>8. b.lrefs \in Nat /\ (~Keeps(b) <=> b.lrefs = 0) /\ Loaded(b)
  <2>1. ~Persistent(b) /\ Loaded(b)
    BY <1>3, <1>7 DEF ViewOK, Persistent, Loaded
  <2>2. b.lrefs \in Nat
    BY <1>7 DEF Bats
  <2> QED  BY <1>7, <2>1, <2>2 DEF Keeps
<1>9. Dropped(t, i, b, << <<"unfix", q>> >>)
  <2>1. b.parent = q
    BY <1>7
  <2>2. Dropped(t, i, b, IF last THEN << <<"unfix", b.parent>> >> ELSE <<>>)
    BY <1>4, Zenon DEF DecFix
  <2> QED  BY <2>1, <2>2, Zenon
<1> DEFINE swap == ~Keeps(b) /\ (Loaded(b) \/ "TMP" \in b.status)
<1>10. /\ bbp' = [bbp EXCEPT ![i] = IF swap THEN [b EXCEPT !.status = @ \cup {"UNLOADING"}] ELSE b]
       /\ Then(t, (IF swap /\ Loaded(b) THEN << <<"unload", i>> >> ELSE <<>>) \o << <<"unfix", q>> >>)
       /\ UNCHANGED clients
  BY <1>9, Zenon DEF Dropped
<1>11. CASE b.lrefs = 0
  <2>1. swap /\ Loaded(b)
    BY <1>8, <1>11
  <2>2. Then(t, << <<"unload", i>> >> \o << <<"unfix", q>> >>)
    BY <1>10, <2>1, Zenon
  <2>3. PICK p: /\ p \in Seq(Steps) /\ Then(t, p) /\ \A k \in DOMAIN p: p[k][2] \in {i, q}
                /\ \A y, j: Occ(p, <<y, j>>) = (IF y = "unfix" /\ j = q THEN 1 ELSE 0)
                                             + (IF TRUE /\ y = "unload" /\ j = i THEN 1 ELSE 0)
                /\ Types' => Shape(t)'
    BY <1>1, <1>3, <2>2, LastsBoth
  <2>4. PICK c: c = [b EXCEPT !.status = @ \cup {"UNLOADING"}]
    OBVIOUS
  <2>5. bbp' = [bbp EXCEPT ![i] = c]
    BY <1>10, <2>1, <2>4, Zenon
  <2>6. /\ c \in Bats /\ c.used = bbp[i].used /\ c.refs = 0
        /\ c.lrefs = bbp[i].lrefs /\ c.share = bbp[i].share /\ c.status = bbp[i].status \cup {"UNLOADING"}
        /\ c.parent = q /\ c.heap = bbp[i].heap /\ c.base = 0
        /\ c.dirty = bbp[i].dirty /\ c.copied = bbp[i].copied
    <3>1. b.status \cup {"UNLOADING"} \in SUBSET Flags
      BY <1>7 DEF Bats, Flags
    <3> QED  BY <1>7, <2>4, <3>1 DEF Bats
  <2>7. PICK goes: goes = TRUE
    OBVIOUS
  <2>8. /\ \A y, j: Occ(p, <<y, j>>) = (IF y = "unfix" /\ j = q THEN 1 ELSE 0)
                                     + (IF goes /\ y = "unload" /\ j = i THEN 1 ELSE 0)
    BY <2>3, <2>7, Zenon
  <2>9. Lasts(t, i, q, c, p, goes)
    <3>1. goes \in BOOLEAN /\ (goes => c.lrefs = 0)
          /\ c.status = IF goes THEN bbp[i].status \cup {"UNLOADING"} ELSE bbp[i].status
      BY <1>7, <1>11, <2>6, <2>7
    <3> QED  BY <1>1, <1>10, <2>3, <2>5, <2>6, <2>8, <3>1, Zenon DEF Lasts
  <2> QED  BY <1>2, <1>3, <2>3, <2>9, LastsKeeps
<1>12. CASE b.lrefs # 0
  <2>1. ~swap
    BY <1>8, <1>12
  <2>2. Then(t, <<>> \o << <<"unfix", q>> >>)
    BY <1>10, <2>1, Zenon
  <2>3. PICK p: /\ p \in Seq(Steps) /\ Then(t, p) /\ \A k \in DOMAIN p: p[k][2] \in {i, q}
                /\ \A y, j: Occ(p, <<y, j>>) = (IF y = "unfix" /\ j = q THEN 1 ELSE 0)
                                             + (IF FALSE /\ y = "unload" /\ j = i THEN 1 ELSE 0)
                /\ Types' => Shape(t)'
    BY <1>1, <1>3, <2>2, LastsAlone
  <2>4. bbp' = [bbp EXCEPT ![i] = b]
    BY <1>10, <2>1, Zenon
  <2>5. PICK goes: goes = FALSE
    OBVIOUS
  <2>6. /\ \A y, j: Occ(p, <<y, j>>) = (IF y = "unfix" /\ j = q THEN 1 ELSE 0)
                                     + (IF goes /\ y = "unload" /\ j = i THEN 1 ELSE 0)
    BY <2>3, <2>5, Zenon
  <2>7. Lasts(t, i, q, b, p, goes)
    <3>1. goes \in BOOLEAN /\ (goes => b.lrefs = 0)
          /\ b.status = IF goes THEN bbp[i].status \cup {"UNLOADING"} ELSE bbp[i].status
      BY <1>7, <2>5
    <3> QED  BY <1>1, <1>7, <1>10, <2>3, <2>4, <2>6, <3>1, Zenon DEF Lasts
  <2> QED  BY <1>2, <1>3, <2>3, <2>7, LastsKeeps
<1> QED  BY <1>11, <1>12

(* decref of a fix.                                                       *)
LEMMA DecFixKeeps ==
    ASSUME IInv, NEW t \in Threads, NEW i \in Slots, DecFix(t, i)
    PROVE  IInv'
BY DecFixPlain, DecFixLast

-----------------------------------------------------------------------------
(***************************************************************************)
(* The base of a view, whose parent is loaded: the fix of the parent is    *)
(* now that of the view.                                                   *)
(***************************************************************************)
LEMMA RebaseFacts ==
    ASSUME IInv, NEW t \in Threads, NEW i \in Slots, At(t, "base", i), NEW q, q = bbp[i].parent
    PROVE  /\ q \in Slots /\ q # 0 /\ q # i /\ ViewOK(i, q) /\ Views(i) = {} /\ Loaded(bbp[q])
           /\ todo[t] = << <<"base", i>>, <<"load", i>>, <<"got", i>> >>
           /\ "LOADING" \in bbp[i].status /\ "UNLOADING" \notin bbp[i].status
           /\ bbp[i].used /\ BatOK(bbp[i])
           /\ bbp[i].refs = 1 /\ bbp[i].base = 0
<1>1. /\ Types /\ Shape(t)
  BY DEF IInv
<1>2. todo[t] # <<>> /\ todo[t][1] = <<"base", i>>
  BY DEF At
<1>3. Left(t, "base", i) > 0
  BY <1>1, AtLeft
<1>4. PICK p \in Slots: FetchesView(t, i, p)
  BY <1>1, <1>3, BaseForm
<1>5. p = q
  BY <1>4 DEF FetchesView
<1>6. todo[t] = << <<"base", i>>, <<"load", i>>, <<"got", i>> >> /\ Loaded(bbp[q])
  BY <1>2, <1>4, <1>5 DEF FetchesView
<1>7. q \in Slots /\ q # 0 /\ ViewOK(i, q) /\ Views(i) = {} /\ q # i
  <2>1. q \in Slots /\ q # 0
    BY <1>4, <1>5, BBPRefsAssumption
  <2>2. ViewOK(i, q) /\ Views(i) = {}
    BY <2>1, ViewsHaveNone
  <2> QED  BY <2>1, <2>2 DEF ViewOK
<1>8. Loads(t, i) > 0
  <2>1. Left(t, "read", i) \in Nat /\ Left(t, "base", i) \in Nat
    BY <1>1, LeftType
  <2> QED  BY <1>3, <2>1 DEF Loads
<1>9. "LOADING" \in bbp[i].status
  BY <1>8, OneLoads
<1>10. bbp[i].used /\ BatOK(bbp[i])
  BY <1>7 DEF ViewOK, IInv, Slot
<1>11. "UNLOADING" \notin bbp[i].status
  BY <1>9, <1>10 DEF BatOK
<1>12. bbp[i].refs = 1 /\ bbp[i].base = 0
  BY <1>7, <1>9 DEF ViewOK, HoldsBase
<1> QED  BY <1>6, <1>7, <1>9, <1>10, <1>11, <1>12

(* What the step makes of the view, b, and what is left then.              *)
Rebases(t, i, q, b) ==
    /\ At(t, "base", i) /\ Then(t, <<>>) /\ UNCHANGED clients
    /\ b \in Bats /\ bbp' = [bbp EXCEPT ![i] = b]
    /\ b.used = bbp[i].used /\ b.lrefs = bbp[i].lrefs /\ b.share = bbp[i].share
    /\ b.parent = q /\ b.heap = bbp[i].heap /\ b.dirty = bbp[i].dirty /\ b.copied = bbp[i].copied
    /\ b.refs = bbp[i].refs /\ b.base = bbp[q].heap
    /\ b.status = bbp[i].status \ {"LOADING"}

(* What incref does to a view whose base it sets.                         *)
LEMMA RebaseForm ==
    ASSUME IInv, NEW t \in Threads, NEW i \in Slots, Rebase(t, i), NEW q, q = bbp[i].parent
    PROVE  \E b: Rebases(t, i, q, b)
<1>1. Types /\ At(t, "base", i) /\ Then(t, <<>>) /\ UNCHANGED clients
  BY Zenon DEF IInv, Rebase
<1>2. q \in Slots /\ q # i /\ bbp[i].base = 0
  BY <1>1, RebaseFacts
<1>3. bbp \in [Slots -> Bats]
  BY <1>1 DEF Types
<1>4. PICK h: h = bbp[q].heap
  OBVIOUS
<1>5. h \in Addresses \cup {0} /\ h + 0 = h
  <2>1. bbp[q] \in Bats
    BY <1>2, <1>3
  <2>2. h \in Addresses \cup {0}
    BY <1>4, <2>1 DEF Bats
  <2>3. \A a \in Addresses \cup {0}: a \in Nat
    BY BBPRefsAssumption
  <2> QED  BY <2>2, <2>3
<1>6. PICK a: a = bbp[i]
  OBVIOUS
<1>7. a \in Bats /\ a.base = 0 /\ a.parent = q
  BY <1>2, <1>3, <1>6
<1>8. PICK b: b = [a EXCEPT !.base = h, !.status = @ \ {"LOADING"}]
  OBVIOUS
<1>9. /\ b \in Bats /\ b.used = a.used /\ b.lrefs = a.lrefs /\ b.share = a.share
      /\ b.parent = a.parent /\ b.heap = a.heap /\ b.dirty = a.dirty /\ b.copied = a.copied
      /\ b.refs = a.refs /\ b.base = h /\ b.status = a.status \ {"LOADING"}
  <2>1. a.status \ {"LOADING"} \in SUBSET Flags
    BY <1>7 DEF Bats
  <2> QED  BY <1>5, <1>7, <1>8, <2>1 DEF Bats
<1>10. bbp' = [bbp EXCEPT ![i].base = h + 0, ![i].status = @ \ {"LOADING"}]
  <2>1. bbp' = [bbp EXCEPT ![i].base = bbp[bbp[i].parent].heap + @, ![i].status = @ \ {"LOADING"}]
    BY Zenon DEF Rebase
  <2>2. bbp' = [bbp EXCEPT ![i].base = bbp[bbp[i].parent].heap + bbp[i].base, ![i].status = @ \ {"LOADING"}]
    BY <1>3, <2>1
  <2> QED  BY <1>2, <1>4, <2>2, Zenon
<1>11. bbp' = [bbp EXCEPT ![i].base = h, ![i].status = @ \ {"LOADING"}]
  BY <1>5, <1>10, Zenon
<1>12. bbp' = [bbp EXCEPT ![i] = b]
  BY <1>3, <1>6, <1>8, <1>11 DEF Bats
<1> QED  BY <1>1, <1>4, <1>6, <1>7, <1>9, <1>12, Zenon DEF Rebases

(* What is left of that call.                                             *)
LEMMA RebaseLeft ==
    ASSUME IInv, NEW t \in Threads, NEW i \in Slots, NEW q, NEW b, Rebases(t, i, q, b), q = bbp[i].parent
    PROVE  /\ todo'[t] = << <<"load", i>>, <<"got", i>> >>
           /\ \A y, j: Left(t, y, j) \in Nat
           /\ \A y: y # "base" => \A j: Left(t, y, j)' = Left(t, y, j)
           /\ \A j: Left(t, "base", j) = IF j = i THEN 1 ELSE 0
           /\ \A j: Left(t, "base", j)' = 0
<1>1. Types
  BY DEF IInv
<1>2. todo[t] = << <<"base", i>>, <<"load", i>>, <<"got", i>> >>
  BY RebaseFacts DEF Rebases
<1>3. /\ todo'[t] = Tail(todo[t])
      /\ \A y, j: Left(t, y, j)' = IF "base" = y /\ i = j THEN Left(t, y, j) - 1 ELSE Left(t, y, j)
  BY <1>1, Done DEF Rebases
<1>4. todo'[t] = << <<"load", i>>, <<"got", i>> >>
  BY <1>2, <1>3
<1>5. \A j: Left(t, "base", j) = IF j = i THEN 1 ELSE 0
  <2>1. \A j: Left(t, "base", j) = One(<<"base", i>>, <<"base", j>>) + One(<<"load", i>>, <<"base", j>>)
                                     + One(<<"got", i>>, <<"base", j>>)
    BY <1>2, LeftLiteral
  <2>2. ASSUME NEW j
        PROVE  Left(t, "base", j) = IF j = i THEN 1 ELSE 0
    <3>1. /\ One(<<"base", i>>, <<"base", j>>) = IF "base" = "base" /\ i = j THEN 1 ELSE 0
          /\ One(<<"load", i>>, <<"base", j>>) = IF "load" = "base" /\ i = j THEN 1 ELSE 0
          /\ One(<<"got", i>>, <<"base", j>>) = IF "got" = "base" /\ i = j THEN 1 ELSE 0
      BY OnePair
    <3> QED  BY <2>1, <3>1
  <2> QED  BY <2>2
<1>6. \A y, j: Left(t, y, j) \in Nat
  BY <1>1, LeftType
<1>7. ASSUME NEW y, NEW j
      PROVE  /\ y # "base" => Left(t, y, j)' = Left(t, y, j)
             /\ y = "base" => Left(t, y, j)' = 0
  BY <1>3, <1>5
<1> QED  BY <1>4, <1>5, <1>6, <1>7

(* incref sets the base of the view and resets its LOADING.               *)
LEMMA RebaseKeeps ==
    ASSUME IInv, NEW t \in Threads, NEW i \in Slots, Rebase(t, i)
    PROVE  IInv'
<1>1. PICK q: q = bbp[i].parent
  OBVIOUS
<1>2. PICK b: Rebases(t, i, q, b)
  BY <1>1, RebaseForm
<1>3. /\ Types /\ At(t, "base", i) /\ Then(t, <<>>) /\ UNCHANGED clients
      /\ b \in Bats /\ bbp' = [bbp EXCEPT ![i] = b]
      /\ b.used = bbp[i].used /\ b.lrefs = bbp[i].lrefs /\ b.share = bbp[i].share
      /\ b.parent = q /\ b.heap = bbp[i].heap /\ b.dirty = bbp[i].dirty /\ b.copied = bbp[i].copied
      /\ b.refs = bbp[i].refs /\ b.base = bbp[q].heap
      /\ b.status = bbp[i].status \ {"LOADING"}
  BY <1>2, Zenon DEF Rebases, IInv
<1>4. /\ q \in Slots /\ q # 0 /\ q # i /\ ViewOK(i, q) /\ Views(i) = {} /\ Loaded(bbp[q])
      /\ "LOADING" \in bbp[i].status /\ "UNLOADING" \notin bbp[i].status
      /\ bbp[i].used /\ BatOK(bbp[i])
      /\ bbp[i].refs = 1 /\ bbp[i].base = 0
  BY <1>1, <1>3, RebaseFacts
<1>5. bbp'[i] = b /\ \A j \in Slots \ {i}: bbp'[j] = bbp[j]
  BY <1>3 DEF Types
<1>6. /\ todo' \in [Threads -> Seq(Steps)] /\ \A u \in Threads \ {t}: todo'[u] = todo[u]
  BY <1>3, Done
<1>7. fix' = fix /\ lref' = lref /\ lost' = lost /\ calls' = calls
  BY <1>3 DEF clients
<1>8. Types'
  BY <1>3, <1>5, <1>6, <1>7 DEF Types
<1>9. /\ todo'[t] = << <<"load", i>>, <<"got", i>> >>
      /\ \A y, j: Left(t, y, j) \in Nat
      /\ \A y: y # "base" => \A j: Left(t, y, j)' = Left(t, y, j)
      /\ \A j: Left(t, "base", j) = IF j = i THEN 1 ELSE 0
      /\ \A j: Left(t, "base", j)' = 0
  BY <1>1, <1>2, RebaseLeft
<1>10. "LOADED" \in bbp[i].status /\ bbp[i].status \subseteq {"LOADED", "UNLOADING", "LOADING"}
  BY <1>4 DEF ViewOK
<1>11. Becomes(t, i, b)
  <2>1. BatOK(b)
    BY <1>3, <1>4, <1>10 DEF BatOK, Loaded, Persistent
  <2> QED  BY <1>1, <1>3, <1>4, <1>10, <2>1 DEF Becomes, Loaded, Persistent
<1>12. \A r \in Slots: b.parent = r => ViewOK(i, r)'
  <2>1. bbp'[q] = bbp[q] /\ bbp'[i] = b
    BY <1>4, <1>5
  <2>2. bbp[q].used /\ bbp[q].parent = 0 /\ bbp[i].heap = 0
    BY <1>4 DEF ViewOK
  <2>3. /\ b.used /\ b.heap = 0 /\ b.refs > 0 /\ "LOADING" \notin b.status /\ "LOADED" \in b.status
        /\ b.status \subseteq {"LOADED", "UNLOADING", "LOADING"}
    BY <1>3, <1>4, <1>10, <2>2
  <2>4. ViewOK(i, q)'
    BY <1>3, <1>4, <2>1, <2>2, <2>3 DEF ViewOK, HoldsBase
  <2> QED  BY <1>3, <2>4
<1>13. \A j \in Slots: ~bbp[j].used => Forgotten(t, j)'
  <2>1. PICK p: p \in Seq(Steps) /\ p = <<>>
    BY NoSteps
  <2>2. Then(t, p) /\ \A k \in DOMAIN p: p[k][2] \in Slots => bbp[p[k][2]].used
    BY <1>3, <2>1
  <2> QED  BY <1>3, <1>7, <2>1, <2>2, StillForgotten
<1>14. Readable(t)'
  BY <1>3, <1>7, <1>11, ReadableKept
<1>15. \A u \in Threads \ {t}: Waits(u)
  BY <1>6, <1>7 DEF Waits
<1>16. Shape(t)'
  <2>1. Fetches(t, i)'
    BY <1>9 DEF Fetches
  <2> QED  BY <2>1 DEF Shape
<1>17. ASSUME NEW j \in Slots
       PROVE  Views(j)' = Views(j) /\ Own(j)' = Own(j) /\ Lrefs(t, j)' = Lrefs(t, j)
  <2>1. Views(j)' = Views(j)
    BY <1>1, <1>3, ViewsLocal
  <2>2. /\ Left(t, "release", j)' = Left(t, "release", j) /\ Left(t, "persist", j)' = Left(t, "persist", j)
        /\ Left(t, "retain", j)' = Left(t, "retain", j) /\ Left(t, "unpersist", j)' = Left(t, "unpersist", j)
    BY <1>9
  <2>3. Persistent(bbp'[j]) <=> Persistent(bbp[j])
    <3>1. Persistent(b) <=> Persistent(bbp[i])
      BY <1>3 DEF Persistent
    <3> QED  BY <1>5, <3>1
  <2>4. Own(j)' = Own(j)
    BY <1>6, <2>2, <2>3, OwnLocal
  <2> QED  BY <1>7, <2>1, <2>2, <2>4 DEF Lrefs
<1>18. i \in Views(q) /\ \A j \in Slots \ {q}: i \notin Views(j)
  BY <1>1, <1>4 DEF Views
<1>19. /\ Based(t, q) = 1 /\ \A j \in Slots \ {q}: Based(t, j) = 0
       /\ \A j \in Slots: Based(t, j)' = 0
  <2>1. Left(t, "base", i) > 0 /\ \A j: j # i => ~(Left(t, "base", j) > 0)
    BY <1>9
  <2>2. \A j: ~(Left(t, "base", j)' > 0)
    BY <1>9
  <2> QED  BY <1>4, <1>18, <2>1, <2>2 DEF Based
<1>20. Holding(q)' = Holding(q) \cup {i} /\ i \notin Holding(q) /\ \A j \in Slots \ {q}: Holding(j)' = Holding(j)
  <2>1. \A v \in Slots \ {i}: HoldsBase(v)' <=> HoldsBase(v)
    BY <1>5 DEF HoldsBase
  <2>2. HoldsBase(i)' /\ ~HoldsBase(i)
    BY <1>3, <1>4, <1>5 DEF HoldsBase
  <2>3. \A j \in Slots: Views(j) \subseteq Slots
    BY DEF Views
  <2> QED  BY <1>4, <1>17, <1>18, <2>1, <2>2, <2>3 DEF Holding
<1>21. Cardinality(Holding(q)') = Cardinality(Holding(q)) + 1 /\ Cardinality(Holding(q)) \in Nat
  <2>1. PICK H: H = Holding(q)
    OBVIOUS
  <2>2. Cardinality(H \cup {i}) = Cardinality(H) + 1 /\ Cardinality(H) \in Nat
    BY <1>20, <2>1, ViewsFinite, FS_AddElement, FS_CardinalityType
  <2> QED  BY <1>20, <2>1, <2>2, Zenon
<1>22. ASSUME NEW j \in Slots
       PROVE  Accounts(t, j)
  <2>1. /\ bbp'[j].lrefs = bbp[j].lrefs /\ bbp'[j].share = bbp[j].share
        /\ bbp'[j].refs = bbp[j].refs /\ lost'[j] = lost[j]
    BY <1>3, <1>5, <1>7
  <2>2. /\ Left(t, "unshare", j)' = Left(t, "unshare", j) /\ Left(t, "got", j)' = Left(t, "got", j)
        /\ Left(t, "fix", j)' = Left(t, "fix", j) /\ Left(t, "unfix", j)' = Left(t, "unfix", j)
    BY <1>9
  <2>3. fix[t][j] \in Nat /\ fix'[t][j] = fix[t][j] /\ bbp[j].refs \in Nat /\ lost[j] \in Nat
    BY <1>7, SlotTypes
  <2>4. \A y: Left(t, y, j) \in Nat
    BY <1>9
  <2>5. bbp'[j].refs + Fixes(t, j) + lost[j] + Cardinality(Holding(j))
          = bbp[j].refs + Fixes(t, j)' + lost'[j] + Cardinality(Holding(j)')
    <3>1. CASE j = q
      <4>1. Fixes(t, q) = Fixes(t, q)' + 1 /\ Fixes(t, q)' \in Int
        BY <1>19, <2>2, <2>3, <2>4, <3>1 DEF Fixes
      <4> QED  BY <1>21, <2>1, <2>3, <3>1, <4>1
    <3>2. CASE j # q
      <4>1. Fixes(t, j)' = Fixes(t, j)
        BY <1>19, <2>2, <2>3, <3>2 DEF Fixes
      <4>2. Holding(j)' = Holding(j)
        BY <1>20, <3>2
      <4> QED  BY <2>1, <4>1, <4>2, Zenon
    <3> QED  BY <3>1, <3>2
  <2> QED  BY <1>17, <2>1, <2>2, <2>5, Zenon DEF Accounts
<1>23. ASSUME NEW j \in Slots
       PROVE  Resets(t, j)
  <2>1. /\ Unloads(t, j)' = Unloads(t, j) /\ Sets(t, j)' = Sets(t, j)
        /\ Left(t, "read", j)' = Left(t, "read", j) /\ Left(t, "read", j) \in Nat
    BY <1>9 DEF Unloads, Sets
  <2>2. Flagged(j, "UNLOADING")' = Flagged(j, "UNLOADING")
    BY <1>3, <1>5 DEF Flagged
  <2>3. Flagged(j, "LOADING")' + Loads(t, j) = Flagged(j, "LOADING") + Loads(t, j)'
    <3>1. CASE j = i
      <4>1. Flagged(i, "LOADING") = 1 /\ Flagged(i, "LOADING")' = 0
        BY <1>3, <1>4, <1>5 DEF Flagged
      <4>2. Left(t, "base", i) = 1 /\ Left(t, "base", i)' = 0
        BY <1>9
      <4> QED  BY <2>1, <3>1, <4>1, <4>2 DEF Loads
    <3>2. CASE j # i
      <4>1. Flagged(j, "LOADING")' = Flagged(j, "LOADING")
        BY <1>5, <3>2 DEF Flagged
      <4>2. Left(t, "base", j) = 0 /\ Left(t, "base", j)' = 0
        BY <1>9, <3>2
      <4>3. Loads(t, j)' = Loads(t, j)
        BY <2>1, <4>2 DEF Loads
      <4> QED  BY <4>1, <4>3, Zenon
    <3> QED  BY <3>1, <3>2
  <2> QED  BY <2>1, <2>2, <2>3, Zenon DEF Resets
<1> QED  BY <1>3, <1>8, <1>11, <1>12, <1>13, <1>14, <1>15, <1>16, <1>22, <1>23, LocalStep

-----------------------------------------------------------------------------
(***************************************************************************)
(* A bat without references is named only by the thread that unloads it,   *)
(* and by its current step.                                                *)
(***************************************************************************)
Unnamed(u, i) == /\ fix[u][i] = 0 /\ Fixes(u, i) = 0 /\ Lrefs(u, i) = 0
                 /\ Left(u, "unfix", i) = 0 /\ Left(u, "release", i) = 0

(* A bat with no counts has no views, and no step is left that counts.    *)
LEMMA NoReferences ==
    IInv => \A i \in Slots: bbp[i].refs = 0 /\ bbp[i].lrefs = 0 =>
              Views(i) = {} /\ Own(i) = 0 /\ \A u \in Threads: Unnamed(u, i)
<1> SUFFICES ASSUME IInv, NEW i \in Slots, bbp[i].refs = 0 /\ bbp[i].lrefs = 0
             PROVE  Views(i) = {} /\ Own(i) = 0 /\ \A u \in Threads: Unnamed(u, i)
  OBVIOUS
<1>1. Types /\ \A u \in Threads: Shape(u)
  BY DEF IInv
<1>2. Views(i) = {}
  <2>1. ~(bbp[i].lrefs > 0)
    OBVIOUS
  <2> QED  BY <2>1, ViewsPositive
<1>3. ASSUME NEW u \in Threads
      PROVE  fix[u][i] = 0 /\ Fixes(u, i) = 0 /\ Lrefs(u, i) = 0 /\ Left(u, "unfix", i) = 0 /\ Own(i) = 0
  <2>1. /\ Fixes(u, i) \in Nat /\ Fixes(u, i) >= fix[u][i] + Left(u, "unfix", i)
        /\ fix[u][i] \in Nat /\ Lrefs(u, i) \in Nat /\ Own(i) \in {0, 1}
    BY SlotTypes
  <2>2. Left(u, "unfix", i) \in Nat /\ Cardinality(Views(i)) \in Nat
    BY <1>1, LeftType, ViewsFinite
  <2>3. ~(Fixes(u, i) > 0)
    <3>1. ~(bbp[i].refs > 0)
      OBVIOUS
    <3> QED  BY <3>1, FixesPositive
  <2>4. Lrefs(u, i) + Own(i) + Cardinality(Views(i)) <= 0
    BY LrefsBound
  <2> QED  BY <2>1, <2>2, <2>3, <2>4
<1>4. Own(i) = 0
  <2>1. ASSUME Threads = {}
        PROVE  Own(i) = 0
    <3>1. bbp[i].lrefs = Sum([u \in Threads |-> Lrefs(u, i)]) + Own(i) + Cardinality(Views(i))
      BY DEF IInv, Counted
    <3>2. Sum([u \in Threads |-> Lrefs(u, i)]) \in Nat
      <4>1. [u \in Threads |-> Lrefs(u, i)] \in [Threads -> Nat]
        BY InvShapes, CountsType
      <4> QED  BY <4>1, SumType
    <3>3. Own(i) \in {0, 1} /\ Cardinality(Views(i)) \in Nat
      BY OwnType, ViewsFinite
    <3> QED  BY <3>1, <3>2, <3>3
  <2> QED  BY <1>3, <2>1
<1>5. ASSUME NEW u \in Threads
      PROVE  Left(u, "release", i) = 0
  <2>1. /\ Left(u, "release", i) \in Nat /\ Left(u, "persist", i) \in Nat /\ Left(u, "retain", i) \in Nat
        /\ lref[u][i] \in Nat
    BY <1>1, LeftType, SlotTypes
  <2>2. SUFFICES ASSUME Left(u, "release", i) > 0 PROVE FALSE
    BY <2>1
  <2>3. PICK k \in DOMAIN todo[u]: todo[u][k] = <<"release", i>>
    BY <1>1, <2>2, LeftSome
  <2>4. Left(u, "retain", i) = 0
    <3>1. ~(\E n \in DOMAIN todo[u]: todo[u][n] = <<"retain", i>>)
      <4>1. ASSUME NEW j \in Slots, Fetches(u, j) \/ Retains(u, j)
            PROVE  FALSE
        BY <2>3, <4>1 DEF Fetches, Retains
      <4>2. ASSUME NEW j \in Slots, NEW p \in Slots, FetchesView(u, j, p)
            PROVE  FALSE
        BY <2>3, <4>2 DEF FetchesView
      <4>3. ASSUME NEW j \in Slots, Modes(u, j)
            PROVE  todo[u] = << <<"release", j>>, <<"unpersist", j>> >>
        BY <2>3, <4>3 DEF Modes
      <4>4. CASE Undoes(u)
        BY <4>4 DEF Undoes, Ends
      <4>5. ASSUME NEW j \in Slots, todo[u] = << <<"release", j>>, <<"unpersist", j>> >>
            PROVE  ~(\E n \in DOMAIN todo[u]: todo[u][n] = <<"retain", i>>)
        BY <4>5
      <4> QED  BY <1>1, <4>1, <4>2, <4>3, <4>4, <4>5 DEF Shape
    <3> QED  BY <1>1, <2>1, <3>1, LeftSome
  <2> QED  BY <1>3, <2>1, <2>2, <2>4 DEF Lrefs
<1> QED  BY <1>2, <1>3, <1>4, <1>5 DEF Unnamed

Unloading == {"unload", "freed", "clear"}

(* Who still names such a bat is about to unload or to clear it.          *)
LEMMA OnlyUnloaders ==
    IInv => \A i \in Slots: bbp[i].refs = 0 /\ bbp[i].lrefs = 0 =>
              \A u \in Threads: \A k \in DOMAIN todo[u]: todo[u][k][2] = i =>
                 k = 1 /\ todo[u][k][1] \in Unloading /\ Undoes(u)
<1> SUFFICES ASSUME IInv, NEW i \in Slots, bbp[i].refs = 0 /\ bbp[i].lrefs = 0,
                    NEW u \in Threads, NEW k \in DOMAIN todo[u], todo[u][k][2] = i
             PROVE  k = 1 /\ todo[u][k][1] \in Unloading /\ Undoes(u)
  OBVIOUS
<1>1. Types /\ Shape(u) /\ Unnamed(u, i) /\ Views(i) = {}
  BY NoReferences DEF IInv
<1>2. /\ fix[u][i] = 0 /\ Fixes(u, i) = 0 /\ Lrefs(u, i) = 0 /\ lref[u][i] \in Nat
      /\ Left(u, "unfix", i) = 0 /\ Left(u, "release", i) = 0 /\ Based(u, i) \in {0, 1}
  BY <1>1, SlotTypes, BasedType DEF Unnamed
<1>3. ~Fetches(u, i)
  <2>1. CASE /\ todo[u] = << <<"fix", i>>, <<"load", i>>, <<"got", i>> >>
             /\ fix[u][i] + lref[u][i] > 0
    <3>1. Left(u, "release", i) = 0 /\ Left(u, "persist", i) = 0 /\ Left(u, "retain", i) = 0
      BY <2>1, LeftLiteral DEF One
    <3> QED  BY <1>2, <2>1, <3>1 DEF Lrefs
  <2>2. CASE todo[u] = << <<"load", i>>, <<"got", i>> >>
    <3>1. Left(u, "got", i) = 1 /\ Left(u, "fix", i) = 0
      BY <2>2, LeftLiteral DEF One
    <3> QED  BY <1>2, <3>1 DEF Fixes
  <2>3. CASE todo[u] = << <<"read", i>>, <<"got", i>> >>
    <3>1. Left(u, "got", i) = 1 /\ Left(u, "fix", i) = 0
      BY <2>3, LeftLiteral DEF One
    <3> QED  BY <1>2, <3>1 DEF Fixes
  <2>4. CASE todo[u] = << <<"got", i>> >>
    <3>1. Left(u, "got", i) = 1 /\ Left(u, "fix", i) = 0
      BY <2>4, LeftLiteral DEF One
    <3> QED  BY <1>2, <3>1 DEF Fixes
  <2> QED  BY <2>1, <2>2, <2>3, <2>4 DEF Fetches
<1>4. ~Retains(u, i) /\ ~Modes(u, i)
  <2>1. CASE todo[u] = << <<"retain", i>> >> /\ fix[u][i] + lref[u][i] > 1
    <3>1. Left(u, "release", i) = 0 /\ Left(u, "persist", i) = 0 /\ Left(u, "retain", i) = 1
      BY <2>1, LeftLiteral DEF One
    <3> QED  BY <1>2, <2>1, <3>1 DEF Lrefs
  <2>2. CASE todo[u] = << <<"retain", i>>, <<"unfix", i>> >>
    <3>1. Left(u, "unfix", i) = 1
      BY <2>2, LeftLiteral DEF One
    <3> QED  BY <1>2, <3>1
  <2> QED  BY <1>2, <2>1, <2>2 DEF Retains, Modes
<1>5. ASSUME NEW v \in Slots, NEW p \in Slots, FetchesView(u, v, p)
      PROVE  i \notin {v, p}
  <2>1. ViewOK(v, p)
    BY <1>5 DEF FetchesView, IInv, Slot
  <2>2. v \in Views(p)
    BY <1>5, <2>1 DEF ViewOK, Views, FetchesView
  <2>3. /\ Left(u, "got", v) = 1 /\ Left(u, "fix", v) = 0 /\ Left(u, "unfix", v) = 0
    BY <1>1, <1>5, <2>1, FetchesViewLeft DEF ViewOK
  <2>4. v # i
    BY <1>2, <2>3 DEF Fixes
  <2> QED  BY <1>1, <2>2, <2>4
<1>6. ASSUME NEW j \in Slots, Fetches(u, j) \/ Retains(u, j) \/ Modes(u, j)
      PROVE  j = i
  BY <1>6 DEF Fetches, Retains, Modes
<1>7. ASSUME NEW v \in Slots, NEW p \in Slots, FetchesView(u, v, p)
      PROVE  i \in {v, p}
  BY <1>7 DEF FetchesView
<1>8. Undoes(u)
  BY <1>1, <1>3, <1>4, <1>5, <1>6, <1>7 DEF Shape
<1>9. todo[u] \in Seq(Steps) /\ k \in Nat /\ k >= 1
  BY <1>1 DEF Types
<1>10. todo[u][k] # <<"unfix", i>> /\ todo[u][k] # <<"release", i>>
  BY <1>1, <1>2, LeftSome
<1>11. todo[u][k] \in Ends /\ (k > 1 => todo[u][k] \in GivesBack)
  BY <1>8 DEF Undoes
<1>12. k = 1
  <2>1. todo[u][k] \notin GivesBack
    BY <1>10 DEF GivesBack
  <2> QED  BY <1>9, <1>11, <2>1
<1>13. todo[u][k] # <<"unshare", i>>
  <2>1. SUFFICES ASSUME todo[u][1] = <<"unshare", i>> PROVE FALSE
    BY <1>12
  <2>2. todo[u] # <<>>
    BY <1>9
  <2>3. Len(todo[u]) > 1 /\ todo[u][2] = <<"release", i>>
    BY <1>8, <2>1, <2>2 DEF Undoes, First
  <2>4. 2 \in DOMAIN todo[u]
    BY <1>9, <2>3
  <2> QED  BY <1>1, <1>2, <2>3, <2>4, LeftSome
<1>14. todo[u][k][1] \in Unloading
  BY <1>10, <1>11, <1>13 DEF Ends, Unloading
<1> QED  BY <1>8, <1>12, <1>14

(* A view less for its parent, and then the rest.                          *)
LEMMA TwoBefore ==
    ASSUME NEW S, NEW a \in S, NEW b \in S, NEW r, r \in Seq(S), NEW m, m = <<a, b>> \o r
    PROVE  /\ m \in Seq(S) /\ Len(m) = 2 + Len(r) /\ Len(r) \in Nat /\ m[1] = a /\ m[2] = b
           /\ \A k \in DOMAIN m: k = 1 \/ k = 2 \/ (k \in Nat /\ k > 2 /\ k - 2 \in DOMAIN r /\ m[k] = r[k - 2])
<1>1. <<a, b>> \in Seq(S)
  OBVIOUS
<1>2. PICK c: c = <<a, b>> /\ c \in Seq(S)
  BY <1>1, Zenon
<1>3. Len(c) = 2 /\ c[1] = a /\ c[2] = b
  BY <1>2
<1>4. m = c \o r
  BY <1>2
<1>5. /\ m \in Seq(S) /\ Len(m) = 2 + Len(r) /\ Len(r) \in Nat /\ m[1] = a /\ m[2] = b
      /\ \A k \in 3 .. 2 + Len(r): m[k] = r[k - 2]
  BY <1>2, <1>3, <1>4
<1>6. ASSUME NEW k \in DOMAIN m
      PROVE  k = 1 \/ k = 2 \/ (k \in Nat /\ k > 2 /\ k - 2 \in DOMAIN r /\ m[k] = r[k - 2])
  <2>1. DOMAIN m = 1 .. Len(m) /\ DOMAIN r = 1 .. Len(r)
    BY <1>5
  <2>2. k \in 1 .. 2 + Len(r)
    BY <1>5, <2>1
  <2>3. k = 1 \/ k = 2 \/ (k \in 3 .. 2 + Len(r) /\ k > 2 /\ k - 2 \in 1 .. Len(r) /\ k \in Nat)
    BY <1>5, <2>2
  <2> QED  BY <1>5, <2>1, <2>3
<1> QED  BY <1>5, <1>6

(* The share of the parent is given back before the reference.            *)
LEMMA UnshareThenGives ==
    ASSUME Types', NEW t \in Threads, NEW q \in Slots, NEW r, Gives(r), NEW a, NEW b,
           a = <<"unshare", q>>, b = <<"release", q>>, todo'[t] = <<a, b>> \o r
    PROVE  Shape(t)'
<1>1. a \in Steps /\ b \in Steps /\ a \in Ends /\ b \in GivesBack /\ b \in Ends /\ r \in Seq(Steps)
  BY DEF Steps, Ends, GivesBack, Gives
<1>2. PICK m: m = <<a, b>> \o r
  OBVIOUS
<1>3. /\ m \in Seq(Steps) /\ Len(m) = 2 + Len(r) /\ Len(r) \in Nat /\ m[1] = a /\ m[2] = b
      /\ \A k \in DOMAIN m: k = 1 \/ k = 2 \/ (k \in Nat /\ k > 2 /\ k - 2 \in DOMAIN r /\ m[k] = r[k - 2])
  BY <1>1, <1>2, TwoBefore
<1>4. ASSUME NEW k \in DOMAIN m
      PROVE  m[k] \in Ends /\ (k > 1 => m[k] \in GivesBack)
  <2>1. CASE k = 1
    <3>1. m[1] \in Ends
      BY <1>1, <1>3, Zenon
    <3>2. ~(1 > 1)
      OBVIOUS
    <3> QED  BY <2>1, <3>1, <3>2, Zenon
  <2>2. CASE k = 2
    BY <1>1, <1>3, <2>2
  <2>3. CASE k \in Nat /\ k > 2 /\ k - 2 \in DOMAIN r /\ m[k] = r[k - 2]
    <3>1. r[k - 2] \in GivesBack
      BY <2>3 DEF Gives
    <3> QED  BY <2>3, <3>1 DEF GivesBack, Ends
  <2> QED  BY <1>3, <2>1, <2>2, <2>3
<1>5. todo'[t] = m
  BY <1>2
<1>6. Undoes(t)'
  <2>1. \A k \in DOMAIN todo'[t]: todo'[t][k] \in Ends /\ (k > 1 => todo'[t][k] \in GivesBack)
    BY <1>4, <1>5, Zenon
  <2>2. todo'[t][1] = a /\ todo'[t][2] = b
    BY <1>3, <1>5, Zenon
  <2>3. Len(todo'[t]) > 1
    BY <1>3, <1>5
  <2>4. ASSUME NEW j \in Slots
        PROVE  /\ todo'[t][1] = <<"unshare", j>> => todo'[t][2] = <<"release", j>>
               /\ todo'[t][1] = <<"freed", j>> => FALSE
               /\ todo'[t][1] = <<"clear", j>> => FALSE
    BY <2>2
  <2> QED  BY <2>1, <2>3, <2>4 DEF Undoes, First
<1> QED  BY <1>6 DEF Shape

(* The slot is free; the rest of the call begins with p, about the parent  *)
(* q.                                                                      *)
Clears(t, i, q, p) ==
    /\ At(t, "clear", i) /\ p \in Seq(Steps) /\ Then(t, p) /\ UNCHANGED clients
    /\ bbp' = [bbp EXCEPT ![i] = Empty]
    /\ \A k \in DOMAIN p: p[k][2] = q /\ q \in Slots
    /\ \A y, j: Occ(p, <<y, j>>) = IF q # 0 /\ j = q /\ y \in {"unshare", "release"} THEN 1 ELSE 0
    /\ Types' => Shape(t)'

(* A call whose next step clears a slot.                                  *)
LEMMA ClearForm ==
    ASSUME IInv, NEW t \in Threads, NEW i \in Slots, Clear(t, i), NEW q, q = bbp[i].parent
    PROVE  \E p: Clears(t, i, q, p)
<1>1. /\ Types /\ Shape(t) /\ At(t, "clear", i) /\ UNCHANGED clients
      /\ bbp' = [bbp EXCEPT ![i] = Empty]
      /\ Then(t, IF IsView(bbp[i]) THEN GDKunshare(bbp[i].parent) ELSE <<>>)
  BY Zenon DEF IInv, Clear
<1>2. PICK x: x = "clear"
  OBVIOUS
<1>3. At(t, x, i)
  BY <1>1, <1>2, Zenon
<1>4. Gives(Tail(todo[t]))
  <2>1. Undoes(t)
    BY <1>1, <1>2, <1>3, UndoForm
  <2> QED  BY <1>1, <2>1, RestGives DEF At
<1>5. CASE q = 0
  <2>1. PICK p: p \in Seq(Steps) /\ p = <<>>
    BY NoSteps
  <2>2. Then(t, p)
    BY <1>1, <1>5, <2>1 DEF IsView
  <2>3. \A y, j: Occ(p, <<y, j>>) = 0
    BY <2>1, OccNone
  <2>4. ASSUME Types'
        PROVE  Shape(t)'
    <3>1. todo'[t] = p \o Tail(todo[t])
      BY <1>1, <1>3, <2>1, <2>2, AdvanceLeft
    <3>2. Tail(todo[t]) \in Seq(Steps)
      BY <1>4 DEF Gives
    <3>3. p \o Tail(todo[t]) = Tail(todo[t])
      BY <2>1, <3>2, ConcatEmptySeq
    <3>4. Gives(todo'[t])
      BY <1>4, <3>1, <3>3, Zenon
    <3> QED  BY <2>4, <3>4, GivesNext
  <2>5. \A k \in DOMAIN p: p[k][2] = q /\ q \in Slots
    BY <2>1
  <2>6. \A y, j: Occ(p, <<y, j>>) = IF q # 0 /\ j = q /\ y \in {"unshare", "release"} THEN 1 ELSE 0
    BY <1>5, <2>3
  <2> QED  BY <1>1, <2>1, <2>2, <2>4, <2>5, <2>6, Zenon DEF Clears
<1>6. CASE q # 0
  <2>1. q \in Slots
    BY <1>6, ViewsHaveNone
  <2>2. PICK a, b: a = <<"unshare", q>> /\ b = <<"release", q>>
    OBVIOUS
  <2>3. a \in Steps /\ b \in Steps /\ a[2] = q /\ b[2] = q
    BY <2>1, <2>2 DEF Steps
  <2>4. <<a, b>> \in Seq(Steps) /\ \A k \in DOMAIN <<a, b>>: <<a, b>>[k][2] = q
    BY <2>3
  <2>5. PICK p: p = <<a, b>>
    OBVIOUS
  <2>6. p \in Seq(Steps) /\ \A k \in DOMAIN p: p[k][2] = q /\ q \in Slots
    BY <2>1, <2>4, <2>5, Zenon
  <2>7. Then(t, p)
    BY <1>1, <1>6, <2>2, <2>5, Zenon DEF IsView, GDKunshare
  <2>8. ASSUME NEW y, NEW j
        PROVE  Occ(p, <<y, j>>) = IF q # 0 /\ j = q /\ y \in {"unshare", "release"} THEN 1 ELSE 0
    <3>1. Occ(p, <<y, j>>) = One(a, <<y, j>>) + One(b, <<y, j>>)
      BY <2>5, OccTwo
    <3>2. /\ One(a, <<y, j>>) = IF "unshare" = y /\ q = j THEN 1 ELSE 0
          /\ One(b, <<y, j>>) = IF "release" = y /\ q = j THEN 1 ELSE 0
      BY <2>2, OnePair
    <3> QED  BY <1>6, <3>1, <3>2
  <2>9. ASSUME Types'
        PROVE  Shape(t)'
    <3>1. todo'[t] = p \o Tail(todo[t])
      BY <1>1, <1>3, <2>6, <2>7, AdvanceLeft
    <3>2. todo'[t] = <<a, b>> \o Tail(todo[t])
      BY <2>5, <3>1, Zenon
    <3> QED  BY <1>4, <2>1, <2>2, <2>9, <3>2, UnshareThenGives
  <2>10. \A y, j: Occ(p, <<y, j>>) = IF q # 0 /\ j = q /\ y \in {"unshare", "release"} THEN 1 ELSE 0
    BY <2>8, Zenon
  <2> QED  BY <1>1, <2>6, <2>7, <2>9, <2>10, Zenon DEF Clears
<1> QED  BY <1>5, <1>6

(* Nobody refers to a slot that is cleared.                               *)
LEMMA ClearFacts ==
    ASSUME IInv, NEW t \in Threads, NEW i \in Slots, At(t, "clear", i)
    PROVE  /\ bbp[i].refs = 0 /\ bbp[i].lrefs = 0 /\ bbp[i].share = 0 /\ Unloads(t, i) = 1
           /\ "UNLOADING" \in bbp[i].status /\ "LOADING" \notin bbp[i].status
           /\ \A u \in Threads \ {t}: ~Mentions(u, i)
           /\ \A k \in DOMAIN Tail(todo[t]): Tail(todo[t])[k][2] # i
<1>1. /\ bbp[i].refs = 0 /\ Unloads(t, i) = 1 /\ "UNLOADING" \in bbp[i].status
      /\ "LOADING" \notin bbp[i].status
  BY UnloadFacts
<1>2. Types /\ Shape(t)
  BY DEF IInv
<1>3. Undoes(t)
  BY <1>2, UndoForm
<1>4. bbp[i].lrefs = 0
  BY <1>3 DEF Undoes, First, At
<1>5. \A u \in Threads: \A k \in DOMAIN todo[u]: todo[u][k][2] = i =>
         k = 1 /\ todo[u][k][1] \in Unloading /\ Undoes(u)
  BY <1>1, <1>4, OnlyUnloaders
<1>6. ASSUME NEW u \in Threads \ {t}
      PROVE  ~Mentions(u, i)
  <2>1. Unloads(u, i) = 0
    <3>1. Unloads(t, i) > 0
      BY <1>1
    <3> QED  BY <3>1, OneUnloads
  <2>2. SUFFICES ASSUME NEW k \in DOMAIN todo[u], todo[u][k][2] = i PROVE FALSE
    BY DEF Mentions
  <2>3. PICK x: x = todo[u][k][1]
    OBVIOUS
  <2>4. x \in Unloading
    BY <1>5, <2>2, <2>3
  <2>5. todo[u][k] = <<x, i>>
    <3>1. todo[u] \in Seq(Steps)
      BY <1>2 DEF Types
    <3>2. todo[u][k] \in Steps
      BY <3>1
    <3> QED  BY <2>2, <2>3, <3>2 DEF Steps
  <2>6. Left(u, x, i) > 0
    BY <1>2, <2>5, LeftSome
  <2>7. Left(u, "unload", i) \in Nat /\ Left(u, "freed", i) \in Nat /\ Left(u, "clear", i) \in Nat
    BY <1>2, LeftType
  <2> QED  BY <2>1, <2>4, <2>6, <2>7 DEF Unloads, Unloading
<1>7. ASSUME NEW k \in DOMAIN Tail(todo[t])
      PROVE  Tail(todo[t])[k][2] # i
  <2>1. todo[t] \in Seq(Steps) /\ todo[t] # <<>>
    BY <1>2 DEF Types, At
  <2>2. /\ Tail(todo[t]) \in Seq(Steps) /\ Len(Tail(todo[t])) = Len(todo[t]) - 1
        /\ \A n \in 1 .. Len(Tail(todo[t])): Tail(todo[t])[n] = todo[t][n + 1]
    BY <2>1
  <2>3. k \in 1 .. Len(Tail(todo[t])) /\ k + 1 \in DOMAIN todo[t] /\ k + 1 # 1
    BY <2>1, <2>2
  <2> QED  BY <1>5, <2>2, <2>3
<1>8. bbp[i].share = 0
  <2>1. \A u \in Threads: Left(u, "unshare", i) = 0
    <3>1. ASSUME NEW u \in Threads
          PROVE  ~(\E k \in DOMAIN todo[u]: todo[u][k] = <<"unshare", i>>)
      <4>1. SUFFICES ASSUME NEW k \in DOMAIN todo[u], todo[u][k] = <<"unshare", i>> PROVE FALSE
        OBVIOUS
      <4>2. todo[u][k][1] = "unshare" /\ todo[u][k][2] = i
        BY <4>1
      <4> QED  BY <1>5, <4>2 DEF Unloading
    <3>2. ASSUME NEW u \in Threads
          PROVE  Left(u, "unshare", i) = 0
      <4>1. ~(\E k \in DOMAIN todo[u]: todo[u][k] = <<"unshare", i>>)
        BY <3>1
      <4>2. ~(Left(u, "unshare", i) > 0)
        BY <1>2, <4>1, LeftSome, SMTT(60)
      <4>3. Left(u, "unshare", i) \in Nat
        BY <1>2, LeftType
      <4> QED  BY <4>2, <4>3
    <3> QED  BY <3>2
  <2>2. PICK f \in [Threads -> Nat]: f = [u \in Threads |-> Left(u, "unshare", i)]
    <3>1. \A u \in Threads: Left(u, "unshare", i) \in Nat
      BY <1>2, LeftType
    <3> QED  BY <3>1
  <2>3. \A u \in Threads: f[u] = 0
    BY <2>1, <2>2
  <2>4. Sum(f) = 0
    BY <2>3, SumZero
  <2>5. bbp[i].share = Sum(f) + Cardinality(Views(i))
    BY <2>2 DEF IInv, Counted
  <2>6. Cardinality(Views(i)) = 0
    BY <1>1, <1>4, NoReferences, FS_EmptySet
  <2> QED  BY <2>4, <2>5, <2>6
<1> QED  BY <1>1, <1>4, <1>6, <1>7, <1>8

(* What is left of a call that cleared a slot.                            *)
LEMMA ClearLeft ==
    ASSUME IInv, NEW t \in Threads, NEW i \in Slots, NEW q, NEW p, Clears(t, i, q, p), q # i
    PROVE  /\ \A y, j: Left(t, y, j) \in Nat
           /\ \A y: y \notin {"clear", "unshare", "release"} => \A j: Left(t, y, j)' = Left(t, y, j)
           /\ \A j: Left(t, "clear", j)' = IF j = i THEN Left(t, "clear", j) - 1 ELSE Left(t, "clear", j)
           /\ \A j: Left(t, "unshare", j)' = IF q # 0 /\ j = q THEN Left(t, "unshare", j) + 1 ELSE Left(t, "unshare", j)
           /\ \A j: Left(t, "release", j)' = IF q # 0 /\ j = q THEN Left(t, "release", j) + 1 ELSE Left(t, "release", j)
<1>1. Types
  BY DEF IInv
<1>2. PICK x: x = "clear"
  OBVIOUS
<1>3. p \in Seq(Steps) /\ At(t, x, i) /\ Then(t, p)
  BY <1>2, Zenon DEF Clears
<1>4. /\ todo'[t] = p \o Tail(todo[t])
      /\ \A y, j: Left(t, y, j)' = Occ(p, <<y, j>>)
                   + (IF x = y /\ i = j THEN Left(t, y, j) - 1 ELSE Left(t, y, j))
  BY <1>1, <1>3, AdvanceLeft
<1>5. \A y, j: Left(t, y, j) \in Nat
  BY <1>1, LeftType
<1>6. \A y, j: Occ(p, <<y, j>>) = IF q # 0 /\ j = q /\ y \in {"unshare", "release"} THEN 1 ELSE 0
  BY Zenon DEF Clears
<1>7. ASSUME NEW y, NEW j
      PROVE  /\ y \notin {"clear", "unshare", "release"} => Left(t, y, j)' = Left(t, y, j)
             /\ y = "clear" => Left(t, y, j)' = IF j = i THEN Left(t, y, j) - 1 ELSE Left(t, y, j)
             /\ y \in {"unshare", "release"} =>
                  Left(t, y, j)' = IF q # 0 /\ j = q THEN Left(t, y, j) + 1 ELSE Left(t, y, j)
  <2>1. Left(t, y, j)' = Occ(p, <<y, j>>) + (IF x = y /\ i = j THEN Left(t, y, j) - 1 ELSE Left(t, y, j))
    BY <1>4, Zenon
  <2>2. Left(t, y, j) \in Nat
    BY <1>5
  <2>3. Occ(p, <<y, j>>) = IF q # 0 /\ j = q /\ y \in {"unshare", "release"} THEN 1 ELSE 0
    BY <1>6
  <2> QED  BY <1>2, <2>1, <2>2, <2>3
<1> QED  BY <1>5, <1>7

(* BBPclear.                                                              *)
LEMMA ClearKeeps ==
    ASSUME IInv, NEW t \in Threads, NEW i \in Slots, Clear(t, i)
    PROVE  IInv'
<1>1. PICK q: q = bbp[i].parent
  OBVIOUS
<1>2. PICK p: Clears(t, i, q, p)
  BY <1>1, ClearForm
<1>3. /\ Types /\ At(t, "clear", i) /\ p \in Seq(Steps) /\ Then(t, p) /\ UNCHANGED clients
      /\ bbp' = [bbp EXCEPT ![i] = Empty]
      /\ \A k \in DOMAIN p: p[k][2] = q /\ q \in Slots
      /\ Types' => Shape(t)'
  BY <1>2, Zenon DEF Clears, IInv
<1>4. /\ bbp[i].refs = 0 /\ bbp[i].lrefs = 0 /\ bbp[i].share = 0 /\ Unloads(t, i) = 1
      /\ "UNLOADING" \in bbp[i].status /\ "LOADING" \notin bbp[i].status
      /\ \A u \in Threads \ {t}: ~Mentions(u, i)
      /\ \A k \in DOMAIN Tail(todo[t]): Tail(todo[t])[k][2] # i
  BY <1>3, ClearFacts
<1>5. Views(i) = {} /\ Own(i) = 0 /\ \A u \in Threads: Unnamed(u, i)
  BY <1>4, NoReferences
<1>6. bbp'[i] = Empty /\ \A j \in Slots \ {i}: bbp'[j] = bbp[j]
  BY <1>3 DEF Types
<1>7. /\ todo' \in [Threads -> Seq(Steps)] /\ \A u \in Threads \ {t}: todo'[u] = todo[u]
      /\ todo'[t] = p \o Tail(todo[t])
  BY <1>3, Advance
<1>8. fix' = fix /\ lref' = lref /\ lost' = lost /\ calls' = calls
  BY <1>3 DEF clients
<1>9. Types'
  <2>1. Empty \in Bats
    BY DEF Empty, Bats, Flags
  <2> QED  BY <1>3, <1>6, <1>7, <1>8, <2>1 DEF Types
<1>10. bbp[i].used /\ (q # 0 => q \in Slots /\ q # i /\ bbp[q].used /\ bbp[q].parent = 0) /\ q # i
  <2>1. bbp[i].used
    BY <1>3, UnloadFacts
  <2>2. q # 0 => q \in Slots /\ ViewOK(i, q)
    BY <1>1, ViewsHaveNone
  <2> QED  BY <2>1, <2>2, BBPRefsAssumption DEF ViewOK
<1>11. /\ \A y, j: Left(t, y, j) \in Nat
       /\ \A y: y \notin {"clear", "unshare", "release"} => \A j: Left(t, y, j)' = Left(t, y, j)
       /\ \A j: Left(t, "clear", j)' = IF j = i THEN Left(t, "clear", j) - 1 ELSE Left(t, "clear", j)
       /\ \A j: Left(t, "unshare", j)' = IF q # 0 /\ j = q THEN Left(t, "unshare", j) + 1 ELSE Left(t, "unshare", j)
       /\ \A j: Left(t, "release", j)' = IF q # 0 /\ j = q THEN Left(t, "release", j) + 1 ELSE Left(t, "release", j)
  BY <1>2, <1>10, ClearLeft
<1>12. \A u \in Threads \ {t}: Unseen(u)
  <2>1. ASSUME NEW u \in Threads \ {t}, NEW j \in Slots, Mentions(u, j)
        PROVE  SeenBy(u, j)
    <3>1. j # i
      BY <1>4, <2>1
    <3> QED  BY <1>6, <3>1 DEF SeenBy
  <2> QED  BY <1>7, <1>8, <2>1 DEF Unseen, Waits
<1>13. \A j \in Slots: ~(bbp[j].parent = i)
  <2>1. ASSUME NEW j \in Slots, bbp[j].parent = i
        PROVE  j \in Views(i)
    BY <2>1 DEF Views, IInv, Slot, ViewOK
  <2> QED  BY <1>5, <2>1
<1>14. ASSUME NEW j \in Slots
       PROVE  Stands(j)
  <2>1. CASE j = i
    <3>1. Holding(i) = {}
      BY <1>5 DEF Holding
    <3> QED  BY <1>4, <1>5, <2>1, <3>1 DEF Stands
  <2>2. CASE j # i
    <3>1. Views(j) # {} => bbp[j].used
      BY DEF Views, IInv, Slot, ViewOK
    <3> QED  BY <1>6, <2>2, <3>1 DEF Stands
  <2> QED  BY <2>1, <2>2
<1>15. Left(t, "retain", i) = 0 /\ lref[t][i] = 0 /\ \A u \in Threads: Forgotten(u, i)'
  <2>1. ASSUME NEW u \in Threads \ {t}
        PROVE  Forgotten(u, i)'
    <3>1. \A x: ~(Left(u, x, i) > 0)
      BY <1>3, <1>4, <2>1, LeftMentions
    <3>2. \A x: Left(u, x, i) \in Nat
      BY <1>3, LeftType
    <3>3. Left(u, "release", i) = 0 /\ Left(u, "persist", i) = 0 /\ Left(u, "retain", i) = 0
      BY <3>1, <3>2
    <3>4. lref[u][i] = 0 /\ fix[u][i] = 0
      BY <1>5, <3>3, SlotTypes DEF Unnamed, Lrefs
    <3> QED  BY <1>4, <1>7, <1>8, <2>1, <3>4 DEF Forgotten, Mentions
  <2>2. Left(t, "retain", i) = 0 /\ Left(t, "persist", i) = 0
    <3>1. Undoes(t)
      <4>1. PICK x: x = "clear"
        OBVIOUS
      <4>2. At(t, x, i) /\ x \in {"unfix", "unshare", "unload", "freed", "clear"} /\ Shape(t)
        BY <1>3, <4>1, Zenon DEF IInv
      <4> QED  BY <1>3, <4>2, UndoForm
    <3>2. /\ ~(\E k \in DOMAIN todo[t]: todo[t][k] = <<"retain", i>>)
          /\ ~(\E k \in DOMAIN todo[t]: todo[t][k] = <<"persist", i>>)
      BY <3>1 DEF Undoes, Ends
    <3>3. ~(Left(t, "retain", i) > 0) /\ ~(Left(t, "persist", i) > 0)
      BY <1>3, <3>2, LeftSome
    <3> QED  BY <1>11, <3>3
  <2>3. lref[t][i] = 0 /\ fix[t][i] = 0
    BY <1>5, <2>2, SlotTypes DEF Unnamed, Lrefs
  <2>4. ASSUME NEW k \in DOMAIN todo'[t]
        PROVE  todo'[t][k][2] # i
    <3>1. PICK r: r = Tail(todo[t])
      OBVIOUS
    <3>2. r \in Seq(Steps)
      BY <1>3, <3>1 DEF Types, At
    <3>3. todo'[t] = p \o r
      BY <1>7, <3>1
    <3>4. k \in DOMAIN (p \o r)
      BY <2>4, <3>3
    <3>5. \/ k \in DOMAIN p /\ (p \o r)[k] = p[k]
          \/ \E n \in DOMAIN r: (p \o r)[k] = r[n]
      <4>1. /\ DOMAIN p = 1 .. Len(p) /\ DOMAIN r = 1 .. Len(r) /\ Len(p) \in Nat /\ Len(r) \in Nat
            /\ DOMAIN (p \o r) = 1 .. Len(p) + Len(r)
        BY <1>3, <3>2
      <4>2. CASE k <= Len(p)
        BY <1>3, <3>2, <3>4, <4>1, <4>2
      <4>3. CASE k > Len(p)
        <5>1. k - Len(p) \in DOMAIN r /\ (p \o r)[k] = r[k - Len(p)]
          BY <1>3, <3>2, <3>4, <4>1, <4>3
        <5> QED  BY <5>1
      <4> QED  BY <3>4, <4>1, <4>2, <4>3
    <3>6. \A n \in DOMAIN r: r[n][2] # i
      BY <1>4, <3>1
    <3>7. \A n \in DOMAIN p: p[n][2] # i
      BY <1>3, <1>10
    <3> QED  BY <3>3, <3>5, <3>6, <3>7
  <2>5. Forgotten(t, i)'
    BY <1>8, <2>3, <2>4 DEF Forgotten
  <2> QED  BY <2>1, <2>2, <2>3, <2>5
<1>16. ASSUME NEW j \in Slots
       PROVE  Slot(j)'
  <2>1. CASE j = i
    <3>1. \A v \in Slots: bbp'[v].parent # i
      <4>1. Empty.parent = 0 /\ i # 0
        BY BBPRefsAssumption DEF Empty
      <4> QED  BY <1>6, <1>13, <4>1
    <3>2. Unknown(i)'
      BY <1>15, <3>1 DEF Unknown
    <3>3. ~bbp'[i].used /\ \A r \in Slots: bbp'[i].parent # r
      BY <1>6, BBPRefsAssumption DEF Empty
    <3> QED  BY <1>6, <2>1, <3>2, <3>3 DEF Slot
  <2>2. CASE j # i
    <3>1. ASSUME ~bbp[j].used
          PROVE  Unknown(j)'
      <4>1. Unknown(j)
        BY <3>1 DEF IInv, Slot
      <4>2. \A u \in Threads \ {t}: Forgotten(u, j)'
        BY <1>7, <1>8, <4>1, SMTT(60) DEF Unknown, Forgotten
      <4>3. \A v \in Slots: bbp'[v].parent # j
        <5>1. Empty.parent = 0 /\ j # 0
          BY BBPRefsAssumption DEF Empty
        <5> QED  BY <1>6, <4>1, <5>1 DEF Unknown
      <4>4. Forgotten(t, j)'
        <5>1. \A k \in DOMAIN p: p[k][2] \in Slots => bbp[p[k][2]].used
          <6>1. 0 \notin Slots
            BY BBPRefsAssumption
          <6> QED  BY <1>3, <1>10, <6>1
        <5> QED  BY <1>3, <1>8, <3>1, <5>1, StillForgotten
      <4> QED  BY <4>2, <4>3, <4>4 DEF Unknown
    <3> QED  BY <1>6, <1>14, <2>2, <3>1, SlotSame
  <2> QED  BY <2>1, <2>2
<1>17. Shape(t)'
  BY <1>3, <1>9
<1>18. Readable(t)'
  <2>1. SUFFICES ASSUME NEW j \in Slots, fix'[t][j] > 0 PROVE Loaded(bbp'[j])
    BY DEF Readable
  <2>2. j # i
    <3>1. fix[t][i] = 0
      BY <1>5 DEF Unnamed
    <3> QED  BY <1>8, <2>1, <3>1
  <2> QED  BY <1>6, <1>8, <2>1, <2>2 DEF IInv, Readable
<1>19. /\ q # 0 => Views(q) = Views(q)' \cup {i} /\ i \notin Views(q)'
       /\ \A j \in Slots: j # q => Views(j)' = Views(j)
       /\ \A j \in Slots: Holding(j)' = Holding(j)
  <2>1. Empty.used = FALSE /\ Empty.refs = 0
    BY DEF Empty
  <2>2. \A j: i \notin Views(j)' /\ i \notin Holding(j)'
    BY <1>6, <2>1 DEF Views, Holding
  <2>3. \A v \in Slots \ {i}: \A j: (v \in Views(j)' <=> v \in Views(j)) /\ (v \in Holding(j)' <=> v \in Holding(j))
    BY <1>6 DEF Views, Holding, HoldsBase
  <2>4. \A j: i \in Views(j) <=> j = q
    BY <1>1, <1>10 DEF Views
  <2>5. \A j: i \notin Holding(j)
    BY <1>4 DEF Holding, HoldsBase
  <2>6. \A j: /\ Views(j) \subseteq Slots /\ Views(j)' \subseteq Slots
              /\ Holding(j) \subseteq Slots /\ Holding(j)' \subseteq Slots
    BY DEF Views, Holding
  <2>7. q # 0 => Views(q) = Views(q)' \cup {i} /\ i \notin Views(q)'
    BY <2>2, <2>3, <2>4, <2>6
  <2>8. ASSUME NEW j \in Slots, j # q
        PROVE  Views(j)' = Views(j)
    <3>1. /\ i \notin Views(j) /\ i \notin Views(j)'
          /\ \A v \in Slots \ {i}: v \in Views(j)' <=> v \in Views(j)
          /\ Views(j) \subseteq Slots /\ Views(j)' \subseteq Slots
      BY <2>2, <2>3, <2>4, <2>6, <2>8
    <3> QED  BY <3>1
  <2>9. \A j \in Slots: Holding(j)' = Holding(j)
    BY <2>2, <2>3, <2>5, <2>6
  <2> QED  BY <2>7, <2>8, <2>9
<1>20. q # 0 => Cardinality(Views(q)) = Cardinality(Views(q)') + 1 /\ Cardinality(Views(q)') \in Nat
  <2>1. SUFFICES ASSUME q # 0
                 PROVE  Cardinality(Views(q)) = Cardinality(Views(q)') + 1 /\ Cardinality(Views(q)') \in Nat
    OBVIOUS
  <2>2. PICK V: V = Views(q)'
    OBVIOUS
  <2>3. IsFiniteSet(V)
    <3>1. IsFiniteSet(Views(q)) /\ V \subseteq Views(q)
      BY <1>19, <2>1, <2>2, ViewsFinite
    <3> QED  BY <3>1, FS_Subset
  <2>4. Cardinality(V \cup {i}) = Cardinality(V) + 1 /\ Cardinality(V) \in Nat
    BY <1>19, <2>1, <2>2, <2>3, FS_AddElement, FS_CardinalityType
  <2> QED  BY <1>19, <2>1, <2>2, <2>4, Zenon
<1>21. \A j \in Slots: Based(t, j)' = Based(t, j)
  <2>1. \A v: Left(t, "base", v)' = Left(t, "base", v)
    BY <1>11
  <2>2. ~(Left(t, "base", i) > 0)
    <3>1. ~(Loads(t, i) > 0)
      BY <1>4, OneLoads
    <3>2. Left(t, "base", i) \in Nat /\ Left(t, "read", i) \in Nat
      BY <1>11
    <3> QED  BY <3>1, <3>2 DEF Loads
  <2>3. ASSUME NEW j \in Slots, NEW v, v # i
        PROVE  v \in Views(j)' <=> v \in Views(j)
    <3>1. CASE j = q
      <4>1. Views(j) = Views(j)' \cup {i}
        BY <1>19, <3>1, BBPRefsAssumption
      <4> QED  BY <2>3, <4>1
    <3>2. CASE j # q
      BY <1>19, <3>2
    <3> QED  BY <3>1, <3>2
  <2> QED  BY <2>1, <2>2, <2>3 DEF Based
<1>22. ASSUME NEW j \in Slots
       PROVE  Own(j)' = Own(j)
  <2>1. CASE j = i
    <3>1. ~Persistent(bbp'[i])
      BY <1>6 DEF Persistent, Empty
    <3> QED  BY <1>5, <2>1, <3>1 DEF Own
  <2>2. CASE j # i
    <3>1. Left(t, "unpersist", j)' = Left(t, "unpersist", j)
      BY <1>11
    <3> QED  BY <1>6, <1>7, <2>2, <3>1, OwnLocal
  <2> QED  BY <2>1, <2>2
<1>23. ASSUME NEW j \in Slots
       PROVE  Accounts(t, j)
  <2>1. /\ bbp'[j].lrefs = bbp[j].lrefs /\ bbp'[j].share = bbp[j].share
        /\ bbp'[j].refs = bbp[j].refs /\ lost'[j] = lost[j]
    <3>1. Empty.refs = 0 /\ Empty.lrefs = 0 /\ Empty.share = 0
      BY DEF Empty
    <3>2. CASE j = i
      BY <1>4, <1>6, <1>8, <3>1, <3>2
    <3>3. CASE j # i
      BY <1>6, <1>8, <3>3
    <3> QED  BY <3>2, <3>3
  <2>2. /\ Left(t, "unfix", j)' = Left(t, "unfix", j) /\ Left(t, "got", j)' = Left(t, "got", j)
        /\ Left(t, "fix", j)' = Left(t, "fix", j) /\ Left(t, "persist", j)' = Left(t, "persist", j)
        /\ Left(t, "retain", j)' = Left(t, "retain", j)
    BY <1>11
  <2>3. Fixes(t, j)' = Fixes(t, j)
    BY <1>8, <1>21, <2>2 DEF Fixes
  <2>4. CASE j # q
    <3>1. Left(t, "unshare", j)' = Left(t, "unshare", j) /\ Left(t, "release", j)' = Left(t, "release", j)
      BY <1>11, <2>4
    <3>2. Lrefs(t, j)' = Lrefs(t, j)
      BY <1>8, <2>2, <3>1 DEF Lrefs
    <3> QED  BY <1>19, <1>22, <2>1, <2>3, <2>4, <3>1, <3>2, Zenon DEF Accounts
  <2>5. CASE j = q
    <3>1. q # 0
      BY <2>5, BBPRefsAssumption
    <3>2. Left(t, "unshare", j)' = Left(t, "unshare", j) + 1 /\ Left(t, "release", j)' = Left(t, "release", j) + 1
      BY <1>11, <2>5, <3>1
    <3>3. /\ lref[t][j] \in Nat /\ Left(t, "unshare", j) \in Nat /\ Left(t, "release", j) \in Nat
          /\ Left(t, "persist", j) \in Nat /\ Left(t, "retain", j) \in Nat
          /\ bbp[j].lrefs \in Nat /\ bbp[j].share \in Nat /\ Own(j) \in {0, 1}
      BY <1>11, SlotTypes
    <3>4. Lrefs(t, j)' = Lrefs(t, j) + 1 /\ Lrefs(t, j) \in Int
      BY <1>8, <2>2, <3>2, <3>3 DEF Lrefs
    <3>5. Cardinality(Views(j)) = Cardinality(Views(j)') + 1 /\ Cardinality(Views(j)') \in Nat
      BY <1>20, <2>5, <3>1
    <3>6. bbp'[j].lrefs + Lrefs(t, j) + Own(j) + Cardinality(Views(j))
            = bbp[j].lrefs + Lrefs(t, j)' + Own(j)' + Cardinality(Views(j)')
      BY <1>22, <2>1, <3>3, <3>4, <3>5
    <3>7. bbp'[j].share + Left(t, "unshare", j) + Cardinality(Views(j))
            = bbp[j].share + Left(t, "unshare", j)' + Cardinality(Views(j)')
      BY <2>1, <3>2, <3>3, <3>5
    <3>8. bbp'[j].refs + Fixes(t, j) + lost[j] + Cardinality(Holding(j))
            = bbp[j].refs + Fixes(t, j)' + lost'[j] + Cardinality(Holding(j)')
      BY <1>19, <2>1, <2>3, Zenon
    <3> QED  BY <3>6, <3>7, <3>8 DEF Accounts
  <2> QED  BY <2>4, <2>5
<1>24. ASSUME NEW j \in Slots
       PROVE  Resets(t, j)
  <2>1. Loads(t, j)' = Loads(t, j) /\ Sets(t, j)' = Sets(t, j)
    BY <1>11 DEF Loads, Sets
  <2>2. Empty.status = {}
    BY DEF Empty
  <2>3. Flagged(j, "LOADING")' = Flagged(j, "LOADING")
    BY <1>4, <1>6, <2>2 DEF Flagged
  <2>4. Flagged(j, "UNLOADING")' + Unloads(t, j) = Flagged(j, "UNLOADING") + Unloads(t, j)'
    <3>1. /\ Left(t, "unload", j)' = Left(t, "unload", j) /\ Left(t, "freed", j)' = Left(t, "freed", j)
          /\ Left(t, "unload", j) \in Nat /\ Left(t, "freed", j) \in Nat /\ Left(t, "clear", j) \in Nat
      BY <1>11
    <3>2. CASE j = i
      <4>1. Flagged(i, "UNLOADING") = 1 /\ Flagged(i, "UNLOADING")' = 0
        BY <1>4, <1>6, <2>2 DEF Flagged
      <4>2. Left(t, "clear", j)' = Left(t, "clear", j) - 1
        BY <1>11, <3>2
      <4>3. Unloads(t, j)' = Unloads(t, j) - 1 /\ Unloads(t, j) \in Int
        BY <3>1, <4>2 DEF Unloads
      <4> QED  BY <3>2, <4>1, <4>3
    <3>3. CASE j # i
      <4>1. Flagged(j, "UNLOADING")' = Flagged(j, "UNLOADING")
        BY <1>6, <3>3 DEF Flagged
      <4>2. Left(t, "clear", j)' = Left(t, "clear", j)
        BY <1>11, <3>3
      <4>3. Unloads(t, j)' = Unloads(t, j)
        BY <3>1, <4>2 DEF Unloads
      <4> QED  BY <4>1, <4>3, Zenon
    <3> QED  BY <3>2, <3>3
  <2> QED  BY <2>1, <2>3, <2>4, Zenon DEF Resets
<1> QED  BY <1>9, <1>12, <1>14, <1>16, <1>17, <1>18, <1>23, <1>24, StepKeeps

-----------------------------------------------------------------------------
(***************************************************************************)
(* The calls that are over at once.                                        *)
(***************************************************************************)
LEMMA CalledNothing ==
    ASSUME Types, NEW t \in Threads, Called(t, <<>>)
    PROVE  /\ todo' = todo /\ todo[t] = <<>> /\ calls' \in Nat /\ Shape(t)'
           /\ \A y, j: Left(t, y, j) = 0
           /\ \A u: \A y, j: Left(u, y, j)' = Left(u, y, j)
<1>1. todo[t] = <<>> /\ todo' = [todo EXCEPT ![t] = <<>>] /\ calls' \in Nat
  BY DEF Called, Idle, Types
<1>2. todo' = todo
  <2>1. PICK e: e = <<>>
    OBVIOUS
  <2>2. todo[t] = e /\ todo' = [todo EXCEPT ![t] = e]
    BY <1>1, <2>1, Zenon
  <2>3. \A w \in Threads: todo'[w] = todo[w]
    BY <2>2 DEF Types
  <2> QED  BY <2>2, <2>3 DEF Types
<1>3. Undoes(t)'
  BY <1>1, <1>2 DEF Undoes, First
<1>4. \A y, j: Left(t, y, j) = 0
  BY <1>1, LeftLiteral
<1>5. \A u: \A y, j: Left(u, y, j)' = Left(u, y, j)
  BY <1>2 DEF Left
<1> QED  BY <1>1, <1>2, <1>3, <1>4, <1>5 DEF Shape

(* A bat changes while t does nothing else: no count changes.              *)
Still(t, i, b) ==
    /\ Called(t, <<>>) /\ UNCHANGED <<fix, lref, lost>>
    /\ b \in Bats /\ bbp' = [bbp EXCEPT ![i] = b]
    /\ b.refs = bbp[i].refs /\ b.lrefs = bbp[i].lrefs /\ b.share = bbp[i].share
    /\ ("LOADING" \in b.status <=> "LOADING" \in bbp[i].status)
    /\ ("UNLOADING" \in b.status <=> "UNLOADING" \in bbp[i].status)
    /\ (Persistent(b) <=> Persistent(bbp[i]))

(* A change of the contents or of the status that no count depends on.    *)
LEMMA StillKeeps ==
    ASSUME IInv, NEW t \in Threads, NEW i \in Slots, NEW b, Still(t, i, b), Becomes(t, i, b), Undisturbed(i, b)
    PROVE  IInv'
<1>1. /\ Types /\ Called(t, <<>>) /\ fix' = fix /\ lref' = lref /\ lost' = lost
      /\ b \in Bats /\ bbp' = [bbp EXCEPT ![i] = b]
      /\ b.refs = bbp[i].refs /\ b.lrefs = bbp[i].lrefs /\ b.share = bbp[i].share
      /\ ("LOADING" \in b.status <=> "LOADING" \in bbp[i].status)
      /\ ("UNLOADING" \in b.status <=> "UNLOADING" \in bbp[i].status)
      /\ (Persistent(b) <=> Persistent(bbp[i]))
  BY DEF Still, IInv
<1>2. /\ todo' = todo /\ todo[t] = <<>> /\ calls' \in Nat /\ Shape(t)'
      /\ \A y, j: Left(t, y, j) = 0
      /\ \A u: \A y, j: Left(u, y, j)' = Left(u, y, j)
  BY <1>1, CalledNothing
<1>3. bbp'[i] = b /\ \A j \in Slots \ {i}: bbp'[j] = bbp[j]
  BY <1>1 DEF Types
<1>4. Types'
  BY <1>1, <1>2, <1>3 DEF Types
<1>5. \A u \in Threads \ {t}: Waits(u)
  BY <1>1, <1>2 DEF Waits
<1>6. \A j \in Slots: ~bbp[j].used => Forgotten(t, j)'
  BY <1>1, <1>2 DEF IInv, Slot, Unknown, Forgotten
<1>7. Readable(t)'
  BY <1>1, ReadableKept
<1>8. ASSUME NEW j \in Slots
      PROVE  PlainAccounts(t, j) /\ Resets(t, j)
  <2>1. Own(j)' = Own(j)
    <3>1. Persistent(bbp'[j]) <=> Persistent(bbp[j])
      BY <1>1, <1>3
    <3> QED  BY <1>2, <3>1, OwnLocal
  <2>2. /\ bbp'[j].refs = bbp[j].refs /\ bbp'[j].lrefs = bbp[j].lrefs /\ bbp'[j].share = bbp[j].share
    BY <1>1, <1>3
  <2>3. /\ Refers(t, j)' = Refers(t, j) /\ Lrefs(t, j)' = Lrefs(t, j)
        /\ Left(t, "unshare", j)' = Left(t, "unshare", j)
    BY <1>1, <1>2 DEF Refers, Lrefs
  <2>4. PlainAccounts(t, j)
    BY <1>1, <2>1, <2>2, <2>3, Zenon DEF PlainAccounts
  <2>5. /\ Flagged(j, "LOADING")' = Flagged(j, "LOADING")
        /\ Flagged(j, "UNLOADING")' = Flagged(j, "UNLOADING")
    BY <1>1, <1>3 DEF Flagged
  <2>6. Loads(t, j)' = Loads(t, j) /\ Unloads(t, j)' = Unloads(t, j) /\ Sets(t, j)' = Sets(t, j)
    BY <1>2 DEF Loads, Unloads, Sets
  <2>7. Resets(t, j)
    BY <2>5, <2>6, Zenon DEF Resets
  <2> QED  BY <2>4, <2>7
<1> QED  BY <1>1, <1>2, <1>4, <1>5, <1>6, <1>7, <1>8, PlainStep

(* A bat is written to.                                                   *)
LEMMA UpdateKeeps ==
    ASSUME IInv, NEW t \in Threads, NEW i \in Slots, Update(t, i)
    PROVE  IInv'
<1>1. /\ Types /\ fix[t][i] > 0 /\ bbp[i].parent = 0 /\ bbp[i].share = 0 /\ Called(t, <<>>)
      /\ UNCHANGED <<fix, lref, lost>>
  BY DEF IInv, Update, OnlyUser, IsView
<1>2. PICK a \in Addresses: bbp' = [bbp EXCEPT ![i].heap = a, ![i].dirty = TRUE]
  BY DEF Update
<1>3. PICK c: c = bbp[i]
  OBVIOUS
<1>4. c \in Bats
  BY <1>1, <1>3 DEF Types
<1>5. PICK b: b = [c EXCEPT !.heap = a, !.dirty = TRUE]
  OBVIOUS
<1>6. /\ b \in Bats /\ b.used = c.used /\ b.refs = c.refs /\ b.lrefs = c.lrefs /\ b.share = c.share
      /\ b.status = c.status /\ b.parent = c.parent /\ b.heap = a /\ b.base = c.base /\ b.dirty = TRUE
      /\ b.copied = c.copied
  BY <1>4, <1>5 DEF Bats
<1>7. bbp' = [bbp EXCEPT ![i] = b]
  BY <1>1, <1>2, <1>3, <1>4, <1>5 DEF Types, Bats
<1>8. bbp[i].refs > 0 /\ Loaded(bbp[i]) /\ bbp[i].used /\ BatOK(bbp[i])
  <2>1. bbp[i].refs > 0 /\ Loaded(bbp[i])
    BY <1>1, FixedPositive DEF IInv, Readable
  <2>2. fix[t][i] + lref[t][i] > 0
    BY <1>1, SlotTypes
  <2> QED  BY <2>1, <2>2, KnownUsed DEF IInv, Slot
<1>9. Holding(i) = {}
  <2>1. Left(t, "unshare", i) + Cardinality(Views(i)) <= 0
    BY <1>1, SharesBound
  <2>2. Left(t, "unshare", i) \in Nat /\ Cardinality(Views(i)) \in Nat /\ IsFiniteSet(Views(i))
    BY <1>1, LeftType, ViewsFinite
  <2>3. Cardinality(Views(i)) = 0
    BY <2>1, <2>2
  <2> QED  BY <2>2, <2>3, FS_EmptySet DEF Holding
<1>10. Becomes(t, i, b)
  <2>1. a # 0
    BY BBPRefsAssumption
  <2>2. "UNLOADING" \notin bbp[i].status
    BY <1>4, <1>3, <1>8 DEF BatOK
  <2>3. BatOK(b)
    BY <1>1, <1>3, <1>6, <1>8, <2>1, <2>2 DEF BatOK, Loaded, Persistent
  <2> QED  BY <1>1, <1>3, <1>6, <1>8, <1>9, <2>2, <2>3 DEF Becomes, Loaded, Persistent
<1>11. Undisturbed(i, b)
  BY <1>1, <1>3, <1>6 DEF Undisturbed
<1>12. Still(t, i, b)
  BY <1>1, <1>3, <1>6, <1>7 DEF Still, Persistent
<1> QED  BY <1>10, <1>11, <1>12, StillKeeps

(* A committed bat; one that is destroyed is treated below.                *)
LEMMA CommitKeeps ==
    ASSUME IInv, NEW t \in Threads, NEW i \in Slots, TMsubcommit(t, i),
           Persistent(bbp[i]) \/ ~(bbp[i].refs = 0 /\ bbp[i].lrefs = 0)
    PROVE  IInv'
<1>1. /\ Types /\ Called(t, <<>>) /\ UNCHANGED <<fix, lref, lost>>
      /\ Persistent(bbp[i]) \/ "DELETED" \in bbp[i].status
      /\ bbp' = [bbp EXCEPT ![i] = Committed(@)]
  BY DEF IInv, TMsubcommit
<1>2. PICK c: c = bbp[i]
  OBVIOUS
<1>3. c \in Bats
  BY <1>1, <1>2 DEF Types
<1>4. bbp' = [bbp EXCEPT ![i] = Committed(c)]
  BY <1>1, <1>2 DEF Types
<1>5. bbp[i].used /\ BatOK(bbp[i]) /\ bbp[i].parent = 0
  <2>1. bbp[i].used
    BY <1>1 DEF IInv, Slot, Empty, Persistent
  <2>2. ASSUME bbp[i].parent # 0
        PROVE  FALSE
    BY <1>1, <2>2, ViewsHaveNone DEF ViewOK, Persistent
  <2> QED  BY <2>1, <2>2 DEF IInv, Slot
<1>6. CASE Persistent(c)
  <2>1. PICK b: b = [c EXCEPT !.status = (@ \ {"NEW"}) \cup {"EXISTING"}, !.dirty = FALSE, !.copied = TRUE]
    OBVIOUS
  <2>2. bbp' = [bbp EXCEPT ![i] = b]
    BY <1>4, <1>6, <2>1, Zenon DEF Committed
  <2>3. /\ b \in Bats /\ b.used = c.used /\ b.refs = c.refs /\ b.lrefs = c.lrefs /\ b.share = c.share
        /\ b.status = (c.status \ {"NEW"}) \cup {"EXISTING"} /\ b.parent = c.parent
        /\ b.heap = c.heap /\ b.base = c.base /\ b.dirty = FALSE /\ b.copied = TRUE
    <3>1. (c.status \ {"NEW"}) \cup {"EXISTING"} \in SUBSET Flags
      BY <1>3 DEF Bats, Flags
    <3> QED  BY <1>3, <2>1, <3>1 DEF Bats
  <2>4. /\ \A f: f \notin {"NEW", "EXISTING"} => (f \in b.status <=> f \in c.status)
        /\ "NEW" \notin b.status /\ "EXISTING" \in b.status /\ "DELETED" \notin b.status
        /\ Persistent(b) /\ ~BATdirty(b) /\ "TMP" \notin b.status
    <3>1. "DELETED" \notin c.status /\ "TMP" \notin c.status
      BY <1>2, <1>5, <1>6 DEF BatOK
    <3> QED  BY <2>3, <3>1 DEF Persistent, BATdirty
  <2>5. BatOK(b)
    BY <1>2, <1>5, <2>3, <2>4 DEF BatOK, Loaded
  <2>6. Becomes(t, i, b)
    BY <1>2, <1>5, <1>6, <2>3, <2>4, <2>5 DEF Becomes, Loaded
  <2>7. Undisturbed(i, b)
    BY <1>2, <1>5, <2>3 DEF Undisturbed
  <2>8. Still(t, i, b)
    BY <1>1, <1>2, <1>6, <2>2, <2>3, <2>4 DEF Still
  <2> QED  BY <2>6, <2>7, <2>8, StillKeeps
<1>7. CASE ~Persistent(c)
  <2>1. PICK b: b = [c EXCEPT !.status = @ \ {"DELETED"}]
    OBVIOUS
  <2>2. bbp' = [bbp EXCEPT ![i] = b]
    BY <1>2, <1>4, <1>7, <2>1, Zenon DEF Committed
  <2>3. /\ b \in Bats /\ b.used = c.used /\ b.refs = c.refs /\ b.lrefs = c.lrefs /\ b.share = c.share
        /\ b.status = c.status \ {"DELETED"} /\ b.parent = c.parent
        /\ b.heap = c.heap /\ b.base = c.base /\ b.dirty = c.dirty /\ b.copied = c.copied
    <3>1. c.status \ {"DELETED"} \in SUBSET Flags
      BY <1>3 DEF Bats
    <3> QED  BY <1>3, <2>1, <3>1 DEF Bats
  <2>4. /\ \A f: f # "DELETED" => (f \in b.status <=> f \in c.status)
        /\ "DELETED" \notin b.status /\ ~Persistent(b) /\ (BATdirty(b) <=> BATdirty(c))
    BY <1>7, <2>3 DEF Persistent, BATdirty
  <2>5. BatOK(b)
    BY <1>2, <1>5, <1>7, <2>3, <2>4 DEF BatOK, Loaded
  <2>6. Becomes(t, i, b)
    BY <1>2, <1>5, <1>7, <2>3, <2>4, <2>5 DEF Becomes, Loaded
  <2>7. Undisturbed(i, b)
    BY <1>2, <1>5, <2>3 DEF Undisturbed
  <2>8. Still(t, i, b)
    BY <1>1, <1>2, <1>7, <2>2, <2>3, <2>4 DEF Still
  <2> QED  BY <2>6, <2>7, <2>8, StillKeeps
<1> QED  BY <1>6, <1>7

(* UNLOADING is only set while a thread unloads the bat.                  *)
LEMMA SomeoneUnloads ==
    IInv => \A i \in Slots: "UNLOADING" \in bbp[i].status => \E t \in Threads: Unloads(t, i) > 0
<1> SUFFICES ASSUME IInv, NEW i \in Slots, "UNLOADING" \in bbp[i].status,
                    \A t \in Threads: ~(Unloads(t, i) > 0)
             PROVE  FALSE
  OBVIOUS
<1>1. PICK f \in [Threads -> Nat]: f = [u \in Threads |-> Unloads(u, i)]
  BY InvShapes, CountsType
<1>2. Sum(f) = 1
  BY <1>1 DEF IInv, Owned, Flagged
<1>3. \A u \in Threads: f[u] = 0
  BY <1>1
<1> QED  BY <1>2, <1>3, SumZero

(* The commit destroys a deleted bat that nobody uses any more.            *)
LEMMA ForgetFacts ==
    ASSUME IInv, NEW t \in Threads, NEW i \in Slots, TMsubcommit(t, i),
           ~Persistent(bbp[i]), bbp[i].refs = 0 /\ bbp[i].lrefs = 0
    PROVE  /\ Called(t, <<>>) /\ UNCHANGED <<fix, lref, lost>> /\ bbp' = [bbp EXCEPT ![i] = Empty]
           /\ bbp[i].used /\ bbp[i].parent = 0 /\ bbp[i].share = 0
           /\ "LOADING" \notin bbp[i].status /\ "UNLOADING" \notin bbp[i].status
           /\ \A u \in Threads: ~Mentions(u, i) /\ Forgotten(u, i)
<1>1. /\ Types /\ Called(t, <<>>) /\ UNCHANGED <<fix, lref, lost>>
      /\ "DELETED" \in bbp[i].status
      /\ bbp' = [bbp EXCEPT ![i] = Committed(@)]
      /\ \A u \in Threads: \A k \in DOMAIN todo[u]: todo[u][k][2] # i
  BY DEF IInv, TMsubcommit
<1>2. bbp' = [bbp EXCEPT ![i] = Empty]
  <2>1. PICK c: c = bbp[i]
    OBVIOUS
  <2>2. bbp' = [bbp EXCEPT ![i] = Committed(c)]
    BY <1>1, <2>1 DEF Types
  <2>3. Committed(c) = Empty
    BY <2>1 DEF Committed
  <2> QED  BY <2>2, <2>3, Zenon
<1>3. bbp[i].used /\ BatOK(bbp[i]) /\ bbp[i].parent = 0
  <2>1. bbp[i].used
    BY <1>1 DEF IInv, Slot, Empty
  <2>2. ASSUME bbp[i].parent # 0
        PROVE  FALSE
    BY <1>1, <2>2, ViewsHaveNone DEF ViewOK
  <2> QED  BY <2>1, <2>2 DEF IInv, Slot
<1>4. ASSUME NEW u \in Threads
      PROVE  /\ ~Mentions(u, i) /\ Forgotten(u, i) /\ \A x: Left(u, x, i) = 0
  <2>1. ~Mentions(u, i)
    BY <1>1 DEF Mentions
  <2>2. \A x: ~(Left(u, x, i) > 0)
    BY <1>1, <2>1, LeftMentions
  <2>3. \A x: Left(u, x, i) = 0
    BY <1>1, <2>2, LeftType
  <2>4. Unnamed(u, i) /\ lref[u][i] \in Nat
    BY NoReferences, SlotTypes
  <2>5. lref[u][i] = 0
    BY <2>3, <2>4 DEF Unnamed, Lrefs
  <2> QED  BY <1>1, <2>1, <2>3, <2>4, <2>5 DEF Forgotten, Unnamed
<1>5. "LOADING" \notin bbp[i].status
  BY <1>3 DEF BatOK
<1>6. "UNLOADING" \notin bbp[i].status
  <2>1. \A u \in Threads: ~(Unloads(u, i) > 0)
    BY <1>4 DEF Unloads
  <2> QED  BY <2>1, SomeoneUnloads
<1>7. bbp[i].share = 0
  <2>2. PICK f \in [Threads -> Nat]: f = [u \in Threads |-> Left(u, "unshare", i)]
    <3>1. \A u \in Threads: Left(u, "unshare", i) \in Nat
      BY <1>1, LeftType
    <3> QED  BY <3>1
  <2>3. \A u \in Threads: f[u] = 0
    BY <1>4, <2>2
  <2>4. Sum(f) = 0
    BY <2>3, SumZero
  <2>5. bbp[i].share = Sum(f) + Cardinality(Views(i))
    BY <2>2 DEF IInv, Counted
  <2>6. Cardinality(Views(i)) = 0
    BY NoReferences, FS_EmptySet
  <2> QED  BY <2>4, <2>5, <2>6
<1> QED  BY <1>1, <1>2, <1>3, <1>4, <1>5, <1>6, <1>7

(* epilogue takes a destroyed bat out of the checkpoint.                  *)
LEMMA ForgetKeeps ==
    ASSUME IInv, NEW t \in Threads, NEW i \in Slots, TMsubcommit(t, i),
           ~Persistent(bbp[i]), bbp[i].refs = 0 /\ bbp[i].lrefs = 0
    PROVE  IInv'
<1>1. /\ Called(t, <<>>) /\ fix' = fix /\ lref' = lref /\ lost' = lost
      /\ bbp' = [bbp EXCEPT ![i] = Empty]
      /\ bbp[i].used /\ bbp[i].parent = 0 /\ bbp[i].share = 0
      /\ "LOADING" \notin bbp[i].status /\ "UNLOADING" \notin bbp[i].status
      /\ \A u \in Threads: ~Mentions(u, i) /\ Forgotten(u, i)
  BY ForgetFacts
<1>2. Types /\ Views(i) = {} /\ Own(i) = 0
  BY NoReferences DEF IInv
<1>3. /\ todo' = todo /\ calls' \in Nat /\ Shape(t)'
      /\ \A u: \A y, j: Left(u, y, j)' = Left(u, y, j)
  BY <1>1, <1>2, CalledNothing
<1>4. bbp'[i] = Empty /\ \A j \in Slots \ {i}: bbp'[j] = bbp[j]
  BY <1>1, <1>2 DEF Types
<1>5. Types'
  <2>1. Empty \in Bats
    BY DEF Empty, Bats, Flags
  <2> QED  BY <1>1, <1>2, <1>3, <1>4, <2>1 DEF Types
<1>6. \A u \in Threads \ {t}: Unseen(u)
  <2>1. ASSUME NEW u \in Threads \ {t}, NEW j \in Slots, Mentions(u, j)
        PROVE  SeenBy(u, j)
    <3>1. j # i
      BY <1>1, <2>1
    <3> QED  BY <1>4, <3>1 DEF SeenBy
  <2> QED  BY <1>1, <1>3, <2>1 DEF Unseen, Waits
<1>7. \A j \in Slots: ~(bbp[j].parent = i)
  <2>1. ASSUME NEW j \in Slots, bbp[j].parent = i
        PROVE  j \in Views(i)
    BY <2>1 DEF Views, IInv, Slot, ViewOK
  <2> QED  BY <1>2, <2>1
<1>8. ASSUME NEW j \in Slots
      PROVE  Stands(j)
  <2>1. CASE j = i
    <3>1. Holding(i) = {}
      BY <1>2 DEF Holding
    <3> QED  BY <1>2, <2>1, <3>1 DEF Stands
  <2>2. CASE j # i
    <3>1. Views(j) # {} => bbp[j].used
      BY DEF Views, IInv, Slot, ViewOK
    <3> QED  BY <1>4, <2>2, <3>1 DEF Stands
  <2> QED  BY <2>1, <2>2
<1>9. Empty.parent = 0 /\ Empty.used = FALSE /\ Empty.refs = 0 /\ Empty.lrefs = 0 /\ Empty.share = 0
      /\ Empty.status = {}
  BY DEF Empty
<1>10. ASSUME NEW j \in Slots
       PROVE  Slot(j)'
  <2>0. 0 \notin Slots
    BY BBPRefsAssumption
  <2>1. CASE j = i
    <3>1. Unknown(i)'
      BY <1>1, <1>3, <1>4, <1>7, <1>9, <2>0 DEF Unknown, Forgotten
    <3> QED  BY <1>4, <1>9, <2>0, <2>1, <3>1 DEF Slot
  <2>2. CASE j # i
    <3>1. ASSUME ~bbp[j].used
          PROVE  Unknown(j)'
      <4>1. Unknown(j)
        BY <3>1 DEF IInv, Slot
      <4> QED  BY <1>1, <1>3, <1>4, <1>9, <2>0, <4>1 DEF Unknown, Forgotten
    <3> QED  BY <1>4, <1>8, <2>2, <3>1, SlotSame
  <2> QED  BY <2>1, <2>2
<1>11. Readable(t)'
  <2>1. SUFFICES ASSUME NEW j \in Slots, fix'[t][j] > 0 PROVE Loaded(bbp'[j])
    BY DEF Readable
  <2>2. j # i
    <3>1. fix[t][i] = 0
      BY <1>1 DEF Forgotten
    <3> QED  BY <1>1, <2>1, <3>1
  <2> QED  BY <1>1, <1>4, <2>1, <2>2 DEF IInv, Readable
<1>12. ASSUME NEW j \in Slots
       PROVE  Views(j)' = Views(j) /\ Holding(j)' = Holding(j)
  <2>1. i \notin Views(j)' /\ i \notin Holding(j)'
    BY <1>4, <1>9 DEF Views, Holding
  <2>2. \A v \in Slots \ {i}: (v \in Views(j)' <=> v \in Views(j)) /\ (v \in Holding(j)' <=> v \in Holding(j))
    BY <1>4 DEF Views, Holding, HoldsBase
  <2>3. i \notin Views(j) /\ i \notin Holding(j)
    BY <1>1, BBPRefsAssumption DEF Views, Holding
  <2>4. /\ Views(j) \subseteq Slots /\ Views(j)' \subseteq Slots
        /\ Holding(j) \subseteq Slots /\ Holding(j)' \subseteq Slots
    BY DEF Views, Holding
  <2> QED  BY <2>1, <2>2, <2>3, <2>4
<1>13. ASSUME NEW j \in Slots
       PROVE  Accounts(t, j)
  <2>1. /\ bbp'[j].lrefs = bbp[j].lrefs /\ bbp'[j].share = bbp[j].share
        /\ bbp'[j].refs = bbp[j].refs /\ lost'[j] = lost[j]
    BY <1>1, <1>4, <1>9
  <2>2. Based(t, j)' = Based(t, j)
    BY <1>3, <1>12, BasedLocal
  <2>3. /\ Fixes(t, j)' = Fixes(t, j) /\ Lrefs(t, j)' = Lrefs(t, j)
        /\ Left(t, "unshare", j)' = Left(t, "unshare", j)
    BY <1>1, <1>3, <2>2 DEF Fixes, Lrefs
  <2>4. Own(j)' = Own(j)
    <3>1. CASE j = i
      <4>1. ~Persistent(bbp'[i])
        BY <1>4, <1>9 DEF Persistent
      <4> QED  BY <1>2, <3>1, <4>1 DEF Own
    <3>2. CASE j # i
      BY <1>3, <1>4, <3>2, OwnLocal
    <3> QED  BY <3>1, <3>2
  <2> QED  BY <1>12, <2>1, <2>3, <2>4, Zenon DEF Accounts
<1>14. ASSUME NEW j \in Slots
       PROVE  Resets(t, j)
  <2>1. Loads(t, j)' = Loads(t, j) /\ Unloads(t, j)' = Unloads(t, j) /\ Sets(t, j)' = Sets(t, j)
    BY <1>3 DEF Loads, Unloads, Sets
  <2>2. /\ Flagged(j, "LOADING")' = Flagged(j, "LOADING")
        /\ Flagged(j, "UNLOADING")' = Flagged(j, "UNLOADING")
    BY <1>1, <1>4, <1>9 DEF Flagged
  <2> QED  BY <2>1, <2>2, Zenon DEF Resets
<1> QED  BY <1>3, <1>5, <1>6, <1>8, <1>10, <1>11, <1>13, <1>14, StepKeeps

(* The end of a subcommit.                                                *)
LEMMA TMsubcommitKeeps ==
    ASSUME IInv, NEW t \in Threads, NEW i \in Slots, TMsubcommit(t, i)
    PROVE  IInv'
BY CommitKeeps, ForgetKeeps

(* A new bat in a free slot.                                               *)
LEMMA FreeSlot ==
    ASSUME IInv, NEW v \in Unused
    PROVE  /\ v \in Slots /\ v # 0 /\ bbp[v] = Empty /\ Unknown(v) /\ Views(v) = {} /\ Holding(v) = {} /\ Own(v) = 0
           /\ \A u \in Threads: ~Mentions(u, v) /\ fix[u][v] = 0 /\ lref[u][v] = 0
<1>1. v \in Slots /\ v # 0 /\ bbp[v] = Empty /\ Unknown(v)
  BY BBPRefsAssumption DEF Unused, IInv, Slot
<1>2. Views(v) = {} /\ Holding(v) = {}
  BY <1>1 DEF Views, Holding, Unknown
<1>3. Own(v) = 0
  BY <1>1 DEF Own, Empty, Persistent
<1>4. \A u \in Threads: ~Mentions(u, v) /\ fix[u][v] = 0 /\ lref[u][v] = 0
  BY <1>1 DEF Unknown, Forgotten, Mentions
<1> QED  BY <1>1, <1>2, <1>3, <1>4

(* COLnew takes a free slot.                                              *)
LEMMA COLnewKeeps ==
    ASSUME IInv, NEW t \in Threads, NEW i \in Slots, COLnew(t, i)
    PROVE  IInv'
<1>1. /\ Types /\ Called(t, <<>>) /\ fix' = More(fix, t, i) /\ lref' = lref /\ lost' = lost /\ i \in Unused
  BY ZenonT(30) DEF IInv, COLnew
<1>2. PICK a \in Addresses: bbp' = [bbp EXCEPT ![i] = NewBat(a)]
  BY DEF COLnew
<1>3. /\ i # 0 /\ bbp[i] = Empty /\ Unknown(i) /\ Views(i) = {} /\ Holding(i) = {} /\ Own(i) = 0
      /\ \A u \in Threads: ~Mentions(u, i) /\ fix[u][i] = 0 /\ lref[u][i] = 0
  BY <1>1, FreeSlot
<1>4. /\ todo' = todo /\ calls' \in Nat /\ Shape(t)'
      /\ \A y, j: Left(t, y, j) = 0
      /\ \A u: \A y, j: Left(u, y, j)' = Left(u, y, j)
  BY <1>1, CalledNothing
<1>5. PICK b: b = NewBat(a)
  OBVIOUS
<1>6. /\ b \in Bats /\ b.used = TRUE /\ b.refs = 1 /\ b.lrefs = 0 /\ b.share = 0 /\ b.status = {"LOADED"}
      /\ b.parent = 0 /\ b.heap = a /\ b.base = 0 /\ b.dirty = TRUE /\ b.copied = FALSE /\ a # 0
  BY <1>5, BBPRefsAssumption DEF NewBat, Empty, Bats, Flags
<1>7. bbp'[i] = b /\ \A j \in Slots \ {i}: bbp'[j] = bbp[j]
  BY <1>1, <1>2, <1>5 DEF Types
<1>8. /\ fix' \in [Threads -> [Slots -> Nat]] /\ fix'[t][i] = 1
      /\ \A j \in Slots \ {i}: fix'[t][j] = fix[t][j]
      /\ \A u \in Threads \ {t}: fix'[u] = fix[u]
  BY <1>1, <1>3 DEF Types, More
<1>9. Types'
  <2>1. bbp' \in [Slots -> Bats]
    BY <1>1, <1>2, <1>5, <1>6 DEF Types
  <2> QED  BY <1>1, <1>4, <1>8, <2>1 DEF Types
<1>10. Empty.parent = 0 /\ Empty.used = FALSE /\ Empty.refs = 0 /\ Empty.lrefs = 0 /\ Empty.share = 0
       /\ Empty.status = {}
  BY DEF Empty
<1>11. \A u \in Threads \ {t}: Unseen(u)
  <2>1. ASSUME NEW u \in Threads \ {t}, NEW j \in Slots, Mentions(u, j)
        PROVE  SeenBy(u, j)
    <3>1. j # i
      BY <1>3, <2>1
    <3> QED  BY <1>7, <3>1 DEF SeenBy
  <2> QED  BY <1>1, <1>4, <1>8, <2>1 DEF Unseen, Waits
<1>12. ASSUME NEW j \in Slots
       PROVE  Stands(j)
  <2>1. CASE j = i
    BY <1>3, <1>10, <2>1 DEF Stands, Loaded
  <2>2. CASE j # i
    <3>1. Views(j) # {} => bbp[j].used
      BY DEF Views, IInv, Slot, ViewOK
    <3> QED  BY <1>7, <2>2, <3>1 DEF Stands
  <2> QED  BY <2>1, <2>2
<1>13. ASSUME NEW j \in Slots
       PROVE  Slot(j)'
  <2>0. 0 \notin Slots
    BY BBPRefsAssumption
  <2>1. CASE j = i
    <3>1. BatOK(b)
      BY <1>6 DEF BatOK, Loaded, Persistent
    <3> QED  BY <1>6, <1>7, <2>0, <2>1, <3>1 DEF Slot
  <2>2. CASE j # i
    <3>1. ASSUME ~bbp[j].used
          PROVE  Unknown(j)'
      <4>1. Unknown(j)
        BY <3>1 DEF IInv, Slot
      <4>2. \A u \in Threads: Forgotten(u, j)'
        BY <1>1, <1>4, <1>8, <2>2, <4>1 DEF Unknown, Forgotten
      <4>3. \A v \in Slots: bbp'[v].parent # j
        BY <1>6, <1>7, <2>0, <4>1 DEF Unknown
      <4> QED  BY <4>2, <4>3 DEF Unknown
    <3> QED  BY <1>7, <1>12, <2>2, <3>1, SlotSame
  <2> QED  BY <2>1, <2>2
<1>14. Readable(t)'
  <2>1. SUFFICES ASSUME NEW j \in Slots, fix'[t][j] > 0 PROVE Loaded(bbp'[j])
    BY DEF Readable
  <2>2. CASE j = i
    BY <1>6, <1>7, <2>2 DEF Loaded
  <2>3. CASE j # i
    BY <1>7, <1>8, <2>1, <2>3 DEF IInv, Readable
  <2> QED  BY <2>2, <2>3
<1>15. ASSUME NEW j \in Slots
       PROVE  Views(j)' = Views(j) /\ Holding(j)' = Holding(j)
  <2>1. i \notin Views(j)' /\ i \notin Holding(j)' /\ i \notin Views(j) /\ i \notin Holding(j)
    BY <1>3, <1>6, <1>7, <1>10, BBPRefsAssumption DEF Views, Holding
  <2>2. \A v \in Slots \ {i}: (v \in Views(j)' <=> v \in Views(j)) /\ (v \in Holding(j)' <=> v \in Holding(j))
    BY <1>7 DEF Views, Holding, HoldsBase
  <2>3. /\ Views(j) \subseteq Slots /\ Views(j)' \subseteq Slots
        /\ Holding(j) \subseteq Slots /\ Holding(j)' \subseteq Slots
    BY DEF Views, Holding
  <2> QED  BY <2>1, <2>2, <2>3
<1>16. ASSUME NEW j \in Slots
       PROVE  Accounts(t, j)
  <2>1. /\ bbp'[j].lrefs = bbp[j].lrefs /\ bbp'[j].share = bbp[j].share /\ lost'[j] = lost[j]
    BY <1>1, <1>3, <1>6, <1>7, <1>10
  <2>2. Based(t, j)' = Based(t, j) /\ Based(t, j) \in {0, 1}
    BY <1>4, <1>15, BasedLocal, BasedType
  <2>3. Lrefs(t, j)' = Lrefs(t, j) /\ Left(t, "unshare", j)' = Left(t, "unshare", j)
    BY <1>1, <1>4 DEF Lrefs
  <2>4. Own(j)' = Own(j)
    <3>1. Persistent(bbp'[j]) <=> Persistent(bbp[j])
      BY <1>3, <1>6, <1>7, <1>10 DEF Persistent
    <3> QED  BY <1>4, <3>1, OwnLocal
  <2>5. bbp'[j].refs + Fixes(t, j) = bbp[j].refs + Fixes(t, j)'
    <3>1. /\ Fixes(t, j) = fix[t][j] + Based(t, j) /\ Fixes(t, j)' = fix'[t][j] + Based(t, j)
          /\ fix[t][j] \in Nat /\ fix'[t][j] \in Nat
      <4>1. fix[t][j] \in Nat /\ fix'[t][j] \in Nat
        BY <1>8, SlotTypes
      <4>2. /\ Left(t, "unfix", j) = 0 /\ Left(t, "got", j) = 0 /\ Left(t, "fix", j) = 0
            /\ Left(t, "unfix", j)' = 0 /\ Left(t, "got", j)' = 0 /\ Left(t, "fix", j)' = 0
        BY <1>4
      <4> QED  BY <2>2, <4>1, <4>2 DEF Fixes
    <3>2. CASE j = i
      <4>1. bbp'[j].refs = 1 /\ bbp[j].refs = 0 /\ fix'[t][j] = 1 /\ fix[t][j] = 0
        BY <1>3, <1>6, <1>7, <1>8, <1>10, <3>2
      <4> QED  BY <2>2, <3>1, <4>1
    <3>3. CASE j # i
      BY <1>7, <1>8, <3>1, <3>3
    <3> QED  BY <3>2, <3>3
  <2>6. bbp'[j].refs + Fixes(t, j) + lost[j] + Cardinality(Holding(j))
          = bbp[j].refs + Fixes(t, j)' + lost[j] + Cardinality(Holding(j))
    BY <2>5, Zenon
  <2> QED  BY <1>15, <2>1, <2>3, <2>4, <2>6, Zenon DEF Accounts
<1>17. ASSUME NEW j \in Slots
       PROVE  Resets(t, j)
  <2>1. Loads(t, j)' = Loads(t, j) /\ Unloads(t, j)' = Unloads(t, j) /\ Sets(t, j)' = Sets(t, j)
    BY <1>4 DEF Loads, Unloads, Sets
  <2>2. /\ Flagged(j, "LOADING")' = Flagged(j, "LOADING")
        /\ Flagged(j, "UNLOADING")' = Flagged(j, "UNLOADING")
    BY <1>3, <1>6, <1>7, <1>10 DEF Flagged
  <2> QED  BY <2>1, <2>2, Zenon DEF Resets
<1> QED  BY <1>4, <1>9, <1>11, <1>12, <1>13, <1>14, <1>16, <1>17, StepKeeps

-----------------------------------------------------------------------------
(***************************************************************************)
(* The views.  The bat whose heap a thread reads is in memory.             *)
(***************************************************************************)
LEMMA RootFacts ==
    ASSUME IInv, NEW t \in Threads, NEW i \in Slots, fix[t][i] > 0
    PROVE  /\ bbp[i].used /\ bbp[i].refs > 0 /\ Loaded(bbp[i]) /\ "UNLOADING" \notin bbp[i].status
           /\ bbp[i].parent # 0 => ViewOK(i, bbp[i].parent) /\ HoldsBase(i) /\ bbp[i].status = {"LOADED"}
           /\ Root(i) \in Slots /\ bbp[Root(i)].used /\ bbp[Root(i)].parent = 0 /\ bbp[Root(i)].refs > 0
           /\ Loaded(bbp[Root(i)]) /\ "UNLOADING" \notin bbp[Root(i)].status
           /\ Base(i) = bbp[Root(i)].heap /\ Base(i) \in Addresses /\ Base(i) # 0
<1>1. bbp[i].refs > 0 /\ Loaded(bbp[i]) /\ bbp[i].used
  <2>1. bbp[i].refs > 0 /\ Loaded(bbp[i])
    BY FixedPositive DEF IInv, Readable
  <2>2. fix[t][i] + lref[t][i] > 0
    BY SlotTypes
  <2> QED  BY <2>1, <2>2, KnownUsed
<1>2. \A r \in Slots: bbp[r].refs > 0 /\ bbp[r].used /\ Loaded(bbp[r]) /\ bbp[r].parent = 0 =>
         "UNLOADING" \notin bbp[r].status /\ bbp[r].heap \in Addresses /\ bbp[r].heap # 0
  <2>1. ASSUME NEW r \in Slots, bbp[r].refs > 0, bbp[r].used, Loaded(bbp[r]), bbp[r].parent = 0
        PROVE  "UNLOADING" \notin bbp[r].status /\ bbp[r].heap \in Addresses /\ bbp[r].heap # 0
    <3>1. BatOK(bbp[r]) /\ bbp[r].heap \in Addresses \cup {0} /\ bbp[r].refs \in Nat
      BY <2>1 DEF IInv, Slot, Types, Bats
    <3>2. "UNLOADING" \notin bbp[r].status
      BY <2>1, <3>1 DEF BatOK
    <3> QED  BY <2>1, <3>1, <3>2 DEF BatOK
  <2> QED  BY <2>1
<1>3. CASE bbp[i].parent = 0
  BY <1>1, <1>2, <1>3 DEF Root, Base, IsView
<1>4. CASE bbp[i].parent # 0
  <2>1. PICK p: p = bbp[i].parent
    OBVIOUS
  <2>2. p \in Slots /\ ViewOK(i, p) /\ Root(i) = p /\ Base(i) = bbp[i].base
    BY <1>4, <2>1, ViewsHaveNone DEF Root, Base, IsView
  <2>3. "LOADING" \notin bbp[i].status
    <3>1. ~(fix[t][i] = 0)
      OBVIOUS
    <3> QED  BY <2>1, <2>2, <3>1, ViewLoading
  <2>4. HoldsBase(i)
    BY <1>1, <2>3 DEF HoldsBase
  <2>5. i \in Holding(p)
    BY <2>1, <2>2, <2>4 DEF Holding, Views, ViewOK
  <2>6. bbp[p].refs > 0 /\ bbp[p].used /\ Loaded(bbp[p]) /\ bbp[p].parent = 0 /\ bbp[i].base = bbp[p].heap
    BY <2>2, <2>4, <2>5, HoldingPositive DEF ViewOK
  <2>7. "UNLOADING" \notin bbp[i].status
    BY <1>1 DEF IInv, Slot, BatOK
  <2>8. bbp[i].status = {"LOADED"}
    BY <2>2, <2>3, <2>7 DEF ViewOK
  <2> QED  BY <1>1, <1>2, <2>1, <2>2, <2>4, <2>6, <2>7, <2>8
<1> QED  BY <1>3, <1>4

(* One more view of bat r, in the free slot v.                             *)
Shares(b, r, v, a) ==
    /\ b \in [Slots -> Bats]
    /\ \A j \in Slots \ {r, v}: b[j] = bbp[j]
    /\ b[r].used = bbp[r].used /\ b[r].refs = bbp[r].refs + 1 /\ b[r].lrefs = bbp[r].lrefs + 1
    /\ b[r].share = bbp[r].share + 1 /\ b[r].status = bbp[r].status /\ b[r].parent = bbp[r].parent
    /\ b[r].heap = bbp[r].heap /\ b[r].base = bbp[r].base /\ b[r].dirty = bbp[r].dirty
    /\ b[r].copied = bbp[r].copied
    /\ b[v].used = TRUE /\ b[v].refs = 1 /\ b[v].lrefs = 0 /\ b[v].share = 0 /\ b[v].status = {"LOADED"}
    /\ b[v].parent = r /\ b[v].heap = 0 /\ b[v].base = a /\ b[v].dirty = TRUE /\ b[v].copied = FALSE

(* What BBPshare does to a root.                                          *)
LEMMA SharedFacts ==
    ASSUME IInv, NEW t \in Threads, NEW i \in Slots, fix[t][i] > 0, NEW v \in Unused
    PROVE  v # Root(i) /\ v # i /\ v \in Slots /\ Shares(Shared(i, v), Root(i), v, Base(i))
<1>1. PICK r: r = Root(i)
  OBVIOUS
<1>2. PICK a: a = Base(i)
  OBVIOUS
<1>3. r \in Slots /\ bbp[r].used /\ a \in Addresses /\ bbp[i].used
  BY <1>1, <1>2, RootFacts
<1>4. v \in Slots /\ v # r /\ v # i
  BY <1>3 DEF Unused
<1>5. PICK c: c = bbp[r]
  OBVIOUS
<1>6. PICK w: w = [NewBat(0) EXCEPT !.parent = r, !.base = a]
  OBVIOUS
<1>7. bbp \in [Slots -> Bats] /\ c \in Bats
  BY <1>3, <1>5 DEF IInv, Types
<1>8. /\ w \in Bats /\ w.used = TRUE /\ w.refs = 1 /\ w.lrefs = 0 /\ w.share = 0 /\ w.status = {"LOADED"}
      /\ w.parent = r /\ w.heap = 0 /\ w.base = a /\ w.dirty = TRUE /\ w.copied = FALSE
  BY <1>3, <1>6 DEF NewBat, Empty, Bats, Flags
<1>9. PICK s: s = [c EXCEPT !.refs = @ + 1, !.lrefs = @ + 1, !.share = @ + 1]
  OBVIOUS
<1>10. /\ s \in Bats /\ s.used = c.used /\ s.refs = c.refs + 1 /\ s.lrefs = c.lrefs + 1 /\ s.share = c.share + 1
       /\ s.status = c.status /\ s.parent = c.parent /\ s.heap = c.heap /\ s.base = c.base
       /\ s.dirty = c.dirty /\ s.copied = c.copied
  <2>1. c.refs + 1 \in Nat /\ c.lrefs + 1 \in Nat /\ c.share + 1 \in Nat
    BY <1>7 DEF Bats
  <2>2. PICK x, y, z: x = c.refs + 1 /\ y = c.lrefs + 1 /\ z = c.share + 1
    OBVIOUS
  <2>3. s = [c EXCEPT !.refs = x, !.lrefs = y, !.share = z]
    BY <1>9, <2>2
  <2>4. x \in Nat /\ y \in Nat /\ z \in Nat
    BY <2>1, <2>2
  <2> QED  BY <1>7, <2>2, <2>3, <2>4 DEF Bats
<1>11. Shared(i, v) = [bbp EXCEPT ![r] = s, ![v] = w]
  <2>1. Shared(i, v) = [bbp EXCEPT ![r].refs = @ + 1, ![r].lrefs = @ + 1, ![r].share = @ + 1, ![v] = w]
    BY <1>1, <1>2, <1>6, Zenon DEF Shared
  <2> QED  BY <1>3, <1>4, <1>5, <1>7, <1>9, <2>1 DEF Bats
<1>12. PICK b: b = Shared(i, v)
  OBVIOUS
<1>13. /\ b \in [Slots -> Bats] /\ b[r] = s /\ b[v] = w /\ \A j \in Slots \ {r, v}: b[j] = bbp[j]
  BY <1>3, <1>4, <1>7, <1>8, <1>10, <1>11, <1>12
<1>14. Shares(b, r, v, a)
  BY <1>5, <1>8, <1>10, <1>13, Zenon DEF Shares
<1> QED  BY <1>1, <1>2, <1>4, <1>12, <1>14, Zenon

(* What VIEWcreate does to the slots.                                     *)
LEMMA CreateForm ==
    ASSUME IInv, NEW t \in Threads, NEW i \in Slots, NEW v \in Slots, VIEWcreate(t, i, v)
    PROVE  \E r \in Slots: \E a \in Addresses:
              /\ v \in Unused /\ v # r /\ Called(t, <<>>) /\ Shares(bbp', r, v, a)
              /\ bbp[r].used /\ bbp[r].parent = 0 /\ bbp[r].refs > 0 /\ Loaded(bbp[r])
              /\ "UNLOADING" \notin bbp[r].status /\ a = bbp[r].heap
              /\ fix' = More(fix, t, v) /\ lref' = lref /\ lost' = lost
<1>1. /\ fix[t][i] > 0 /\ v \in Unused /\ Called(t, <<>>) /\ bbp' = Shared(i, v)
      /\ fix' = More(fix, t, v) /\ lref' = lref /\ lost' = lost
  BY DEF VIEWcreate
<1>2. v # Root(i) /\ Shares(Shared(i, v), Root(i), v, Base(i))
  BY <1>1, SharedFacts
<1>3. Shares(bbp', Root(i), v, Base(i))
  BY <1>1, <1>2, Zenon
<1>4. /\ Root(i) \in Slots /\ bbp[Root(i)].used /\ bbp[Root(i)].parent = 0 /\ bbp[Root(i)].refs > 0
      /\ Loaded(bbp[Root(i)]) /\ "UNLOADING" \notin bbp[Root(i)].status
      /\ Base(i) = bbp[Root(i)].heap /\ Base(i) \in Addresses
  BY <1>1, RootFacts
<1> QED  BY <1>1, <1>2, <1>3, <1>4, Zenon

(* VIEWcreate.                                                            *)
LEMMA VIEWcreateKeeps ==
    ASSUME IInv, NEW t \in Threads, NEW i \in Slots, NEW v \in Slots, VIEWcreate(t, i, v)
    PROVE  IInv'
<1>1. PICK r \in Slots: \E x \in Addresses:
              /\ v \in Unused /\ v # r /\ Called(t, <<>>) /\ Shares(bbp', r, v, x)
              /\ bbp[r].used /\ bbp[r].parent = 0 /\ bbp[r].refs > 0 /\ Loaded(bbp[r])
              /\ "UNLOADING" \notin bbp[r].status /\ x = bbp[r].heap
              /\ fix' = More(fix, t, v) /\ lref' = lref /\ lost' = lost
  BY CreateForm, ZenonT(30)
<1>2. PICK a \in Addresses:
              /\ v \in Unused /\ v # r /\ Called(t, <<>>) /\ Shares(bbp', r, v, a)
              /\ bbp[r].used /\ bbp[r].parent = 0 /\ bbp[r].refs > 0 /\ Loaded(bbp[r])
              /\ "UNLOADING" \notin bbp[r].status /\ a = bbp[r].heap
              /\ fix' = More(fix, t, v) /\ lref' = lref /\ lost' = lost
  BY <1>1
<1>3. /\ v # 0 /\ bbp[v] = Empty /\ Unknown(v) /\ Views(v) = {} /\ Holding(v) = {} /\ Own(v) = 0
      /\ \A u \in Threads: ~Mentions(u, v) /\ fix[u][v] = 0 /\ lref[u][v] = 0
  BY <1>2, FreeSlot
<1>4. Types /\ /\ todo' = todo /\ calls' \in Nat /\ Shape(t)'
               /\ \A y, j: Left(t, y, j) = 0
               /\ \A u: \A y, j: Left(u, y, j)' = Left(u, y, j)
  BY <1>2, CalledNothing DEF IInv
<1>5. /\ bbp' \in [Slots -> Bats]
      /\ \A j \in Slots \ {r, v}: bbp'[j] = bbp[j]
      /\ bbp'[r].used /\ bbp'[r].refs = bbp[r].refs + 1 /\ bbp'[r].lrefs = bbp[r].lrefs + 1
      /\ bbp'[r].share = bbp[r].share + 1 /\ bbp'[r].status = bbp[r].status /\ bbp'[r].parent = 0
      /\ bbp'[r].heap = bbp[r].heap /\ bbp'[r].base = bbp[r].base /\ bbp'[r].dirty = bbp[r].dirty
      /\ bbp'[r].copied = bbp[r].copied
      /\ bbp'[v].used = TRUE /\ bbp'[v].refs = 1 /\ bbp'[v].lrefs = 0 /\ bbp'[v].share = 0
      /\ bbp'[v].status = {"LOADED"}
      /\ bbp'[v].parent = r /\ bbp'[v].heap = 0 /\ bbp'[v].base = a /\ bbp'[v].dirty = TRUE
      /\ bbp'[v].copied = FALSE
  BY <1>2, Zenon DEF Shares
<1>6. bbp[r].refs \in Nat /\ bbp[r].lrefs \in Nat /\ bbp[r].share \in Nat /\ BatOK(bbp[r])
  BY <1>2, SlotTypes DEF IInv, Slot
<1>7. Loaded(bbp'[r]) /\ Loaded(bbp'[v]) /\ ~Persistent(bbp'[v]) /\ (Persistent(bbp'[r]) <=> Persistent(bbp[r]))
  BY <1>2, <1>5 DEF Loaded, Persistent
<1>8. /\ fix' \in [Threads -> [Slots -> Nat]] /\ fix'[t][v] = 1
      /\ \A j \in Slots \ {v}: fix'[t][j] = fix[t][j]
      /\ \A u \in Threads \ {t}: fix'[u] = fix[u]
  BY <1>2, <1>3, <1>4 DEF Types, More
<1>9. Types'
  BY <1>2, <1>4, <1>5, <1>8 DEF Types
<1>10. Empty.parent = 0 /\ Empty.used = FALSE /\ Empty.refs = 0 /\ Empty.lrefs = 0 /\ Empty.share = 0
       /\ Empty.status = {}
  BY DEF Empty
<1>11. \A u \in Threads \ {t}: Unseen(u)
  <2>1. ASSUME NEW u \in Threads \ {t}, NEW j \in Slots, Mentions(u, j)
        PROVE  SeenBy(u, j)
    <3>1. j # v
      BY <1>3, <2>1
    <3>2. CASE j = r
      BY <1>2, <1>5, <1>7, <3>2 DEF SeenBy
    <3> QED  BY <1>5, <3>1, <3>2 DEF SeenBy
  <2> QED  BY <1>2, <1>4, <1>8, <2>1 DEF Unseen, Waits
<1>12. ASSUME NEW j \in Slots
       PROVE  Stands(j)
  <2>1. CASE j = v
    BY <1>3, <1>10, <2>1 DEF Stands, Loaded
  <2>2. CASE j = r
    BY <1>2, <1>5, <1>7, <2>2 DEF Stands
  <2>3. CASE j # v /\ j # r
    <3>1. Views(j) # {} => bbp[j].used
      BY DEF Views, IInv, Slot, ViewOK
    <3> QED  BY <1>5, <2>3, <3>1 DEF Stands
  <2> QED  BY <2>1, <2>2, <2>3
<1>13. ASSUME NEW j \in Slots
       PROVE  Slot(j)'
  <2>0. 0 \notin Slots
    BY BBPRefsAssumption
  <2>1. CASE j = v
    <3>1. BatOK(bbp'[v])
      BY <1>5, <2>0 DEF BatOK, Loaded, Persistent
    <3>2. ViewOK(v, r)'
      BY <1>2, <1>5, <1>7 DEF ViewOK, HoldsBase
    <3> QED  BY <1>5, <2>1, <3>1, <3>2 DEF Slot
  <2>2. CASE j = r
    <3>1. BatOK(bbp'[r])
      BY <1>2, <1>5, <1>6, <1>7, ZenonT(30) DEF BatOK, Loaded, Persistent, BATdirty
    <3> QED  BY <1>5, <2>0, <2>2, <3>1 DEF Slot
  <2>3. CASE j # v /\ j # r
    <3>1. ASSUME ~bbp[j].used
          PROVE  Unknown(j)'
      <4>1. Unknown(j)
        BY <3>1 DEF IInv, Slot
      <4>2. \A u \in Threads: Forgotten(u, j)'
        BY <1>2, <1>4, <1>8, <2>3, <4>1 DEF Unknown, Forgotten
      <4>3. \A w \in Slots: bbp'[w].parent # j
        BY <1>5, <2>0, <2>3, <4>1 DEF Unknown
      <4> QED  BY <4>2, <4>3 DEF Unknown
    <3> QED  BY <1>5, <1>12, <2>3, <3>1, SlotSame
  <2> QED  BY <2>1, <2>2, <2>3
<1>14. Readable(t)'
  <2>1. SUFFICES ASSUME NEW j \in Slots, fix'[t][j] > 0 PROVE Loaded(bbp'[j])
    BY DEF Readable
  <2>2. CASE j = v \/ j = r
    BY <1>7, <2>2
  <2>3. CASE j # v /\ j # r
    BY <1>5, <1>8, <2>1, <2>3 DEF IInv, Readable
  <2> QED  BY <2>2, <2>3
<1>15. ASSUME NEW j \in Slots
       PROVE  /\ j # r => Views(j)' = Views(j) /\ Holding(j)' = Holding(j)
              /\ Views(r)' = Views(r) \cup {v} /\ Holding(r)' = Holding(r) \cup {v}
              /\ v \notin Views(r) /\ v \notin Holding(r)
  <2>1. \A k \in Slots: v \notin Views(k) /\ v \notin Holding(k)
    BY <1>3, <1>10, BBPRefsAssumption DEF Views, Holding
  <2>2. v \in Views(r)' /\ v \in Holding(r)' /\ \A k \in Slots \ {r}: v \notin Views(k)' /\ v \notin Holding(k)'
    BY <1>5 DEF Views, Holding, HoldsBase
  <2>4. \A w \in Slots \ {v}: w # r => bbp'[w] = bbp[w]
    BY <1>5
  <2>5. r \notin Views(j) /\ r \notin Views(j)' /\ r \notin Views(r) /\ r \notin Views(r)'
    BY <1>2, <1>5, BBPRefsAssumption DEF Views
  <2>6. ASSUME NEW k \in {j, r}, NEW w \in Slots \ {v}
        PROVE  (w \in Views(k)' <=> w \in Views(k)) /\ (w \in Holding(k)' <=> w \in Holding(k))
    <3>1. CASE w = r
      BY <2>5, <3>1 DEF Holding
    <3>2. CASE w # r
      BY <2>4, <3>2 DEF Views, Holding, HoldsBase
    <3> QED  BY <3>1, <3>2
  <2>7. \A k: /\ Views(k) \subseteq Slots /\ Views(k)' \subseteq Slots
              /\ Holding(k) \subseteq Slots /\ Holding(k)' \subseteq Slots
    BY DEF Views, Holding
  <2>8. Views(r)' = Views(r) \cup {v} /\ Holding(r)' = Holding(r) \cup {v}
    BY <2>2, <2>6, <2>7
  <2>9. j # r => Views(j)' = Views(j) /\ Holding(j)' = Holding(j)
    <3>1. ASSUME j # r, NEW w \in Slots
          PROVE  (w \in Views(j)' <=> w \in Views(j)) /\ (w \in Holding(j)' <=> w \in Holding(j))
      <4>1. CASE w = v
        BY <2>1, <2>2, <3>1, <4>1
      <4>2. CASE w # v
        BY <2>6, <4>2
      <4> QED  BY <4>1, <4>2
    <3> QED  BY <2>7, <3>1
  <2> QED  BY <2>1, <2>8, <2>9
<1>16. ASSUME NEW j \in Slots
       PROVE  Accounts(t, j)
  <2>1. lost'[j] = lost[j]
    BY <1>2
  <2>2. Based(t, j)' = 0 /\ Based(t, j) = 0
    <3>1. \A w: ~(Left(t, "base", w) > 0) /\ ~(Left(t, "base", w)' > 0)
      <4>1. \A w: Left(t, "base", w) = 0 /\ Left(t, "base", w)' = 0
        BY <1>4
      <4> QED  BY <4>1
    <3> QED  BY <3>1 DEF Based
  <2>3. Lrefs(t, j)' = Lrefs(t, j) /\ Left(t, "unshare", j)' = Left(t, "unshare", j)
    BY <1>2, <1>4 DEF Lrefs
  <2>4. Own(j)' = Own(j)
    <3>1. Persistent(bbp'[j]) <=> Persistent(bbp[j])
      BY <1>3, <1>5, <1>7, <1>10 DEF Persistent
    <3> QED  BY <1>4, <3>1, OwnLocal
  <2>5. Fixes(t, j) = fix[t][j] /\ Fixes(t, j)' = fix'[t][j] /\ fix[t][j] \in Nat /\ fix'[t][j] \in Nat
    <3>1. fix[t][j] \in Nat /\ fix'[t][j] \in Nat
      BY <1>8, SlotTypes
    <3>2. /\ Left(t, "unfix", j) = 0 /\ Left(t, "got", j) = 0 /\ Left(t, "fix", j) = 0
          /\ Left(t, "unfix", j)' = 0 /\ Left(t, "got", j)' = 0 /\ Left(t, "fix", j)' = 0
      BY <1>4
    <3> QED  BY <2>2, <3>1, <3>2 DEF Fixes
  <2>6. CASE j = r
    <3>1. /\ Cardinality(Views(r)') = Cardinality(Views(r)) + 1
          /\ Cardinality(Holding(r)') = Cardinality(Holding(r)) + 1
          /\ Cardinality(Views(r)) \in Nat /\ Cardinality(Holding(r)) \in Nat
      <4>1. /\ Views(r)' = Views(r) \cup {v} /\ Holding(r)' = Holding(r) \cup {v}
            /\ v \notin Views(r) /\ v \notin Holding(r)
        BY <1>15
      <4>2. /\ IsFiniteSet(Views(r)) /\ Cardinality(Views(r)) \in Nat
            /\ IsFiniteSet(Holding(r)) /\ Cardinality(Holding(r)) \in Nat
        BY ViewsFinite
      <4>3. /\ Cardinality(Views(r) \cup {v}) = Cardinality(Views(r)) + 1
            /\ Cardinality(Holding(r) \cup {v}) = Cardinality(Holding(r)) + 1
        BY <4>1, <4>2, FS_AddElement
      <4> QED  BY <4>1, <4>2, <4>3
    <3>2. fix'[t][r] = fix[t][r] /\ lost[r] \in Nat /\ Lrefs(t, r) \in Nat /\ Own(r) \in {0, 1}
          /\ Left(t, "unshare", r) = 0
      BY <1>2, <1>4, <1>8, SlotTypes
    <3>3. bbp'[r].refs + Fixes(t, r) + lost[r] + Cardinality(Holding(r))
            = bbp[r].refs + Fixes(t, r)' + lost'[r] + Cardinality(Holding(r)')
      BY <1>5, <1>6, <2>1, <2>5, <2>6, <3>1, <3>2
    <3>4. bbp'[r].lrefs + Lrefs(t, r) + Own(r) + Cardinality(Views(r))
            = bbp[r].lrefs + Lrefs(t, r)' + Own(r)' + Cardinality(Views(r)')
      BY <1>5, <1>6, <2>3, <2>4, <2>6, <3>1, <3>2
    <3>5. bbp'[r].share + Left(t, "unshare", r) + Cardinality(Views(r))
            = bbp[r].share + Left(t, "unshare", r)' + Cardinality(Views(r)')
      BY <1>5, <1>6, <2>3, <2>6, <3>1, <3>2
    <3> QED  BY <2>6, <3>3, <3>4, <3>5, Zenon DEF Accounts
  <2>7. CASE j # r
    <3>1. bbp'[j].lrefs = bbp[j].lrefs /\ bbp'[j].share = bbp[j].share
      BY <1>3, <1>5, <1>10, <2>7
    <3>2. Views(j)' = Views(j) /\ Holding(j)' = Holding(j)
      BY <1>15, <2>7
    <3>3. bbp'[j].refs + Fixes(t, j) = bbp[j].refs + Fixes(t, j)'
      <4>1. CASE j = v
        <5>1. bbp'[j].refs = 1 /\ bbp[j].refs = 0 /\ fix'[t][j] = 1 /\ fix[t][j] = 0
          BY <1>3, <1>5, <1>8, <1>10, <4>1
        <5> QED  BY <2>5, <5>1
      <4>2. CASE j # v
        BY <1>5, <1>8, <2>5, <2>7, <4>2
      <4> QED  BY <4>1, <4>2
    <3>4. bbp'[j].refs + Fixes(t, j) + lost[j] + Cardinality(Holding(j))
            = bbp[j].refs + Fixes(t, j)' + lost[j] + Cardinality(Holding(j))
      BY <3>3, Zenon
    <3> QED  BY <2>1, <2>3, <2>4, <3>1, <3>2, <3>4, Zenon DEF Accounts
  <2> QED  BY <2>6, <2>7
<1>17. ASSUME NEW j \in Slots
       PROVE  Resets(t, j)
  <2>1. Loads(t, j)' = Loads(t, j) /\ Unloads(t, j)' = Unloads(t, j) /\ Sets(t, j)' = Sets(t, j)
    BY <1>4 DEF Loads, Unloads, Sets
  <2>2. /\ Flagged(j, "LOADING")' = Flagged(j, "LOADING")
        /\ Flagged(j, "UNLOADING")' = Flagged(j, "UNLOADING")
    <3>1. /\ "LOADING" \in bbp'[j].status <=> "LOADING" \in bbp[j].status
          /\ "UNLOADING" \in bbp'[j].status <=> "UNLOADING" \in bbp[j].status
      BY <1>3, <1>5, <1>10
    <3> QED  BY <3>1 DEF Flagged
  <2> QED  BY <2>1, <2>2, Zenon DEF Resets
<1> QED  BY <1>4, <1>9, <1>11, <1>12, <1>13, <1>14, <1>16, <1>17, StepKeeps

(* A view gets a heap of its own: what the call still has to do.           *)
Resetting(t, p, v) ==
    /\ todo[t] = <<>> /\ calls' \in Nat
    /\ todo' \in [Threads -> Seq(Steps)] /\ \A u \in Threads \ {t}: todo'[u] = todo[u]
    /\ \A k \in DOMAIN todo'[t]: todo'[t][k][2] \in {p, v}
    /\ \A y, j: /\ Left(t, y, j) = 0
                /\ Left(t, y, j)' = IF \/ j = p /\ y \in {"unshare", "release", "unfix"}
                                       \/ j = v /\ y = "unfix"
                                    THEN 1 ELSE 0
    /\ Types' => Shape(t)'

(* The thread that resets a view has nothing else to do.                  *)
LEMMA ResetCall ==
    ASSUME Types, NEW t \in Threads, NEW p \in Slots, NEW v \in Slots, p # v,
           Called(t, GDKunshare(p) \o << <<"unfix", p>>, <<"unfix", v>> >>)
    PROVE  Resetting(t, p, v)
<1>1. PICK a: a = <<"unshare", p>>
  OBVIOUS
<1>2. PICK b: b = <<"release", p>>
  OBVIOUS
<1>3. PICK c: c = <<"unfix", p>>
  OBVIOUS
<1>4. PICK d: d = <<"unfix", v>>
  OBVIOUS
<1>5. a \in Steps /\ b \in Steps /\ c \in Steps /\ d \in Steps /\ c \in GivesBack /\ d \in GivesBack
  BY <1>1, <1>2, <1>3, <1>4 DEF Steps, GivesBack
<1>6. /\ <<a, b>> \in Seq(Steps) /\ <<c, d>> \in Seq(Steps)
      /\ <<a, b>>[1] = a /\ <<a, b>>[2] = b /\ <<c, d>>[1] = c /\ <<c, d>>[2] = d
      /\ DOMAIN <<a, b>> = {1, 2} /\ DOMAIN <<c, d>> = {1, 2}
  BY <1>5
<1>7. PICK m: m = <<a, b>> /\ m \in Seq(Steps) /\ m[1] = a /\ m[2] = b /\ DOMAIN m = {1, 2}
  BY <1>6, Zenon
<1>8. PICK r: r = <<c, d>> /\ r \in Seq(Steps) /\ r[1] = c /\ r[2] = d /\ DOMAIN r = {1, 2}
  BY <1>6, Zenon
<1>9. PICK q: q = m \o r
  OBVIOUS
<1>10. q \in Seq(Steps)
  BY <1>7, <1>8, <1>9
<1>11. GDKunshare(p) \o << <<"unfix", p>>, <<"unfix", v>> >> = q
  BY <1>1, <1>2, <1>3, <1>4, <1>7, <1>8, <1>9, Zenon DEF GDKunshare
<1>12. Called(t, q)
  BY <1>11, Zenon
<1>13. /\ todo' \in [Threads -> Seq(Steps)] /\ calls' \in Nat
       /\ \A u \in Threads \ {t}: todo'[u] = todo[u]
       /\ todo[t] = <<>> /\ todo'[t] = q
       /\ \A y, j: Left(t, y, j) = 0 /\ Left(t, y, j)' = Occ(q, <<y, j>>)
  BY <1>10, <1>12, Begins
<1>14. Gives(r)
  BY <1>5, <1>8 DEF Gives
<1>15. Types' => Shape(t)'
  <2>1. todo'[t] = <<a, b>> \o r
    BY <1>7, <1>9, <1>13, Zenon
  <2> QED  BY <1>1, <1>2, <1>14, <2>1, UnshareThenGives
<1>16. ASSUME NEW k \in DOMAIN todo'[t]
       PROVE  todo'[t][k][2] \in {p, v}
  <2>1. /\ \A n \in DOMAIN q: n = 1 \/ n = 2 \/ (n \in Nat /\ n > 2 /\ n - 2 \in DOMAIN r /\ q[n] = r[n - 2])
        /\ q[1] = a /\ q[2] = b
    BY <1>5, <1>7, <1>8, <1>9, TwoBefore
  <2>2. a[2] = p /\ b[2] = p /\ c[2] = p /\ d[2] = v
    BY <1>1, <1>2, <1>3, <1>4
  <2>3. q[k] \in {a, b, c, d}
    <3>1. k \in DOMAIN q
      BY <1>13, <1>16, Zenon
    <3>2. CASE k - 2 \in DOMAIN r /\ q[k] = r[k - 2]
      BY <1>8, <3>2, Zenon
    <3> QED  BY <2>1, <3>1, <3>2, Zenon
  <2>4. q[k][2] \in {p, v}
    BY <2>2, <2>3, Zenon
  <2> QED  BY <1>13, <2>4, Zenon
<1>17. ASSUME NEW y, NEW j
       PROVE  /\ Left(t, y, j) = 0
              /\ Left(t, y, j)' = IF \/ j = p /\ y \in {"unshare", "release", "unfix"}
                                     \/ j = v /\ y = "unfix"
                                  THEN 1 ELSE 0
  <2>1. Left(t, y, j) = 0 /\ Left(t, y, j)' = Occ(q, <<y, j>>)
    BY <1>13
  <2>2. Occ(q, <<y, j>>) = Occ(m, <<y, j>>) + Occ(r, <<y, j>>)
    BY <1>7, <1>8, <1>9, OccConcat, ZenonT(60)
  <2>3. /\ Occ(m, <<y, j>>) = One(a, <<y, j>>) + One(b, <<y, j>>)
        /\ Occ(r, <<y, j>>) = One(c, <<y, j>>) + One(d, <<y, j>>)
    BY <1>7, <1>8, OccTwo
  <2>4. /\ One(a, <<y, j>>) = IF "unshare" = y /\ p = j THEN 1 ELSE 0
        /\ One(b, <<y, j>>) = IF "release" = y /\ p = j THEN 1 ELSE 0
        /\ One(c, <<y, j>>) = IF "unfix" = y /\ p = j THEN 1 ELSE 0
        /\ One(d, <<y, j>>) = IF "unfix" = y /\ v = j THEN 1 ELSE 0
    <3>1. /\ One(<<"unshare", p>>, <<y, j>>) = IF "unshare" = y /\ p = j THEN 1 ELSE 0
          /\ One(<<"release", p>>, <<y, j>>) = IF "release" = y /\ p = j THEN 1 ELSE 0
          /\ One(<<"unfix", p>>, <<y, j>>) = IF "unfix" = y /\ p = j THEN 1 ELSE 0
          /\ One(<<"unfix", v>>, <<y, j>>) = IF "unfix" = y /\ v = j THEN 1 ELSE 0
      BY OnePair
    <3> QED  BY <1>1, <1>2, <1>3, <1>4, <3>1, Zenon
  <2>5. Left(t, y, j)' = One(a, <<y, j>>) + One(b, <<y, j>>) + (One(c, <<y, j>>) + One(d, <<y, j>>))
    BY <2>1, <2>2, <2>3, Zenon
  <2>6. One(a, <<y, j>>) + One(b, <<y, j>>) + (One(c, <<y, j>>) + One(d, <<y, j>>))
           = IF \/ j = p /\ y \in {"unshare", "release", "unfix"}
                \/ j = v /\ y = "unfix"
             THEN 1 ELSE 0
    BY <2>4
  <2> QED  BY <2>1, <2>5, <2>6, Zenon
<1> QED  BY <1>13, <1>15, <1>16, <1>17, Zenon DEF Resetting

(* View i of bat p in its new heap, and the second view v.                 *)
Copies(t, i, v, p, a) ==
    /\ v \in Unused /\ v # p /\ v # i /\ p # i /\ fix[t][i] > 0
    /\ \A u \in Threads \ {t}: ~Mentions(u, i)
    /\ Resetting(t, p, v) /\ fix' = fix /\ lref' = lref /\ lost' = lost
    /\ bbp[p].used /\ bbp[p].parent = 0 /\ bbp[p].refs > 0 /\ Loaded(bbp[p])
    /\ "UNLOADING" \notin bbp[p].status
    /\ bbp[i].used /\ bbp[i].parent = p /\ bbp[i].status = {"LOADED"} /\ i \in Holding(p)
    /\ bbp' \in [Slots -> Bats]
    /\ \A j \in Slots \ {p, i, v}: bbp'[j] = bbp[j]
    /\ bbp'[p].used /\ bbp'[p].refs = bbp[p].refs + 1 /\ bbp'[p].lrefs = bbp[p].lrefs + 1
    /\ bbp'[p].share = bbp[p].share + 1 /\ bbp'[p].status = bbp[p].status /\ bbp'[p].parent = 0
    /\ bbp'[p].heap = bbp[p].heap /\ bbp'[p].base = bbp[p].base /\ bbp'[p].dirty = bbp[p].dirty
    /\ bbp'[p].copied = bbp[p].copied
    /\ bbp'[v].used = TRUE /\ bbp'[v].refs = 1 /\ bbp'[v].lrefs = 0 /\ bbp'[v].share = 0
    /\ bbp'[v].status = {"LOADED"} /\ bbp'[v].parent = p /\ bbp'[v].heap = 0
    /\ bbp'[v].base = bbp[p].heap
    /\ bbp'[i].used /\ bbp'[i].refs = bbp[i].refs /\ bbp'[i].lrefs = bbp[i].lrefs
    /\ bbp'[i].share = bbp[i].share /\ bbp'[i].status = {"LOADED"} /\ bbp'[i].parent = 0
    /\ bbp'[i].heap = a /\ bbp'[i].base = 0

(* What VIEWreset does to the slots.                                      *)
LEMMA ResetForm ==
    ASSUME IInv, NEW t \in Threads, NEW i \in Slots, NEW v \in Slots, VIEWreset(t, i, v)
    PROVE  \E p \in Slots: \E a \in Addresses: Copies(t, i, v, p, a)
<1>1. PICK p: p = bbp[i].parent
  OBVIOUS
<1>2. /\ OnlyUser(t, i) /\ p # 0 /\ v \in Unused /\ fix' = fix /\ lref' = lref /\ lost' = lost
      /\ Called(t, GDKunshare(p) \o << <<"unfix", p>>, <<"unfix", v>> >>)
      /\ \E a \in Addresses: bbp' = [Shared(i, v) EXCEPT ![i].parent = 0, ![i].base = 0, ![i].heap = a]
  BY <1>1, Zenon DEF VIEWreset, IsView
<1>3. fix[t][i] > 0 /\ \A u \in Threads \ {t}: ~Mentions(u, i)
  BY <1>2 DEF OnlyUser, Mentions
<1>4. p \in Slots /\ ViewOK(i, p) /\ p = Root(i)
  BY <1>1, <1>2, ViewsHaveNone DEF Root, IsView
<1>5. /\ bbp[i].used /\ bbp[i].status = {"LOADED"} /\ HoldsBase(i)
      /\ bbp[p].used /\ bbp[p].parent = 0 /\ bbp[p].refs > 0
      /\ Loaded(bbp[p]) /\ "UNLOADING" \notin bbp[p].status /\ Base(i) = bbp[p].heap
  BY <1>1, <1>2, <1>3, <1>4, RootFacts, ZenonT(60)
<1>6. i \in Holding(p) /\ p # i
  BY <1>1, <1>4, <1>5 DEF Holding, Views, ViewOK
<1>7. v # p /\ v # i /\ Shares(Shared(i, v), p, v, bbp[p].heap)
  BY <1>2, <1>3, <1>4, <1>5, SharedFacts
<1>8. PICK b: b = Shared(i, v)
  OBVIOUS
<1>9. Shares(b, p, v, bbp[p].heap)
  BY <1>7, <1>8, Zenon
<1>10. PICK a \in Addresses: bbp' = [b EXCEPT ![i].parent = 0, ![i].base = 0, ![i].heap = a]
  BY <1>2, <1>8, Zenon
<1>11. b \in [Slots -> Bats] /\ b[i] = bbp[i]
  BY <1>6, <1>7, <1>9 DEF Shares
<1>12. PICK c: c = b[i]
  OBVIOUS
<1>13. PICK w: w = [c EXCEPT !.parent = 0, !.base = 0, !.heap = a]
  OBVIOUS
<1>14. /\ w \in Bats /\ w.used = c.used /\ w.refs = c.refs /\ w.lrefs = c.lrefs /\ w.share = c.share
       /\ w.status = c.status /\ w.parent = 0 /\ w.heap = a /\ w.base = 0
  <2>1. c \in Bats /\ 0 \in Slots \cup {0} /\ 0 \in Addresses \cup {0} /\ a \in Addresses \cup {0}
    BY <1>11, <1>12
  <2> QED  BY <1>13, <2>1 DEF Bats
<1>15. bbp' = [b EXCEPT ![i] = w]
  BY <1>10, <1>11, <1>12, <1>13 DEF Bats
<1>16. bbp' \in [Slots -> Bats] /\ bbp'[i] = w /\ \A j \in Slots \ {i}: bbp'[j] = b[j]
  BY <1>11, <1>14, <1>15
<1>17. bbp'[p] = b[p] /\ bbp'[v] = b[v] /\ c = bbp[i] /\ \A j \in Slots \ {p, i, v}: bbp'[j] = b[j]
  BY <1>4, <1>6, <1>7, <1>11, <1>12, <1>16
<1>18. \A j \in Slots \ {p, i, v}: bbp'[j] = bbp[j]
  BY <1>9, <1>17 DEF Shares
<1>19. Resetting(t, p, v)
  BY <1>2, <1>4, <1>7, ResetCall DEF IInv
<1>20. Copies(t, i, v, p, a)
  <2>1. /\ bbp'[p].used /\ bbp'[p].refs = bbp[p].refs + 1 /\ bbp'[p].lrefs = bbp[p].lrefs + 1
        /\ bbp'[p].share = bbp[p].share + 1 /\ bbp'[p].status = bbp[p].status /\ bbp'[p].parent = 0
        /\ bbp'[p].heap = bbp[p].heap /\ bbp'[p].base = bbp[p].base /\ bbp'[p].dirty = bbp[p].dirty
        /\ bbp'[p].copied = bbp[p].copied
    BY <1>5, <1>9, <1>17, ZenonT(60) DEF Shares
  <2>2. /\ bbp'[v].used = TRUE /\ bbp'[v].refs = 1 /\ bbp'[v].lrefs = 0 /\ bbp'[v].share = 0
        /\ bbp'[v].status = {"LOADED"} /\ bbp'[v].parent = p /\ bbp'[v].heap = 0
        /\ bbp'[v].base = bbp[p].heap
    BY <1>9, <1>17, Zenon DEF Shares
  <2>3. /\ bbp'[i].used /\ bbp'[i].refs = bbp[i].refs /\ bbp'[i].lrefs = bbp[i].lrefs
        /\ bbp'[i].share = bbp[i].share /\ bbp'[i].status = {"LOADED"} /\ bbp'[i].parent = 0
        /\ bbp'[i].heap = a /\ bbp'[i].base = 0
    BY <1>5, <1>14, <1>16, <1>17, Zenon
  <2>4. bbp[i].parent = p
    BY <1>1
  <2> QED  BY <1>2, <1>3, <1>5, <1>6, <1>7, <1>16, <1>18, <1>19, <2>1, <2>2, <2>3, <2>4, Zenon DEF Copies
<1> QED  BY <1>4, <1>20

(* Which views a bat has, and which of these hold it.                      *)
LEMMA CopiesViews ==
    ASSUME IInv, NEW t \in Threads, NEW i \in Slots, NEW v \in Slots, NEW p \in Slots, NEW a \in Addresses,
           Copies(t, i, v, p, a)
    PROVE  /\ \A j \in Slots \ {p}: Views(j)' = Views(j) /\ Holding(j)' = Holding(j)
           /\ Cardinality(Views(p)') = Cardinality(Views(p))
           /\ Cardinality(Holding(p)') = Cardinality(Holding(p))
           /\ Views(i) = {}
<1>1. /\ v \in Unused /\ v # p /\ v # i /\ p # i /\ i \in Holding(p) /\ bbp[i].parent = p /\ bbp[p].parent = 0
      /\ \A j \in Slots \ {p, i, v}: bbp'[j] = bbp[j]
  BY Zenon DEF Copies
<1>2. /\ bbp'[p].parent = 0 /\ bbp'[i].parent = 0 /\ bbp'[v].used = TRUE /\ bbp'[v].refs = 1
      /\ bbp'[v].status = {"LOADED"} /\ bbp'[v].parent = p
  BY Zenon DEF Copies
<1>3. v # 0 /\ bbp[v] = Empty /\ Empty.used = FALSE
  BY <1>1, FreeSlot DEF Empty
<1>4. /\ \A j: v \notin Views(j) /\ v \notin Holding(j)
      /\ \A j \in Slots \ {p}: v \notin Views(j)' /\ v \notin Holding(j)'
      /\ v \in Views(p)' /\ v \in Holding(p)'
  BY <1>2, <1>3 DEF Views, Holding, HoldsBase
<1>5. 0 \notin Slots
  BY BBPRefsAssumption
<1>6. /\ \A j \in Slots: i \notin Views(j)' /\ i \notin Holding(j)' /\ p \notin Views(j)' /\ p \notin Holding(j)'
      /\ \A j \in Slots: p \notin Views(j) /\ p \notin Holding(j)
      /\ \A j \in Slots \ {p}: i \notin Views(j) /\ i \notin Holding(j)
      /\ i \in Views(p)
  BY <1>1, <1>2, <1>5 DEF Views, Holding
<1>7. \A j: /\ Views(j) \subseteq Slots /\ Views(j)' \subseteq Slots
            /\ Holding(j) \subseteq Slots /\ Holding(j)' \subseteq Slots
  BY DEF Views, Holding
<1>8. \A j: \A w \in Slots \ {p, i, v}:
         (w \in Views(j)' <=> w \in Views(j)) /\ (w \in Holding(j)' <=> w \in Holding(j))
  BY <1>1 DEF Views, Holding, HoldsBase
<1>9. ASSUME NEW j \in Slots \ {p}
      PROVE  Views(j)' = Views(j) /\ Holding(j)' = Holding(j)
  <2>1. \A w \in Slots: (w \in Views(j)' <=> w \in Views(j)) /\ (w \in Holding(j)' <=> w \in Holding(j))
    BY <1>4, <1>6, <1>8
  <2> QED  BY <1>7, <2>1
<1>10. /\ Views(p) \ {i} = Views(p)' \ {v} /\ Holding(p) \ {i} = Holding(p)' \ {v}
  <2>1. \A w \in Slots: /\ w \in Views(p) \ {i} <=> w \in Views(p)' \ {v}
                        /\ w \in Holding(p) \ {i} <=> w \in Holding(p)' \ {v}
    BY <1>4, <1>6, <1>8
  <2> QED  BY <1>7, <2>1
<1>11. /\ IsFiniteSet(Views(p)) /\ Cardinality(Views(p)) \in Nat
       /\ IsFiniteSet(Holding(p)) /\ Cardinality(Holding(p)) \in Nat
  BY ViewsFinite
<1>12. /\ Cardinality(Views(p) \ {i}) = Cardinality(Views(p)) - 1 /\ IsFiniteSet(Views(p) \ {i})
       /\ Cardinality(Holding(p) \ {i}) = Cardinality(Holding(p)) - 1 /\ IsFiniteSet(Holding(p) \ {i})
  BY <1>1, <1>6, <1>11, FS_RemoveElement
<1>13. /\ Views(p)' = (Views(p) \ {i}) \cup {v} /\ v \notin Views(p) \ {i}
       /\ Holding(p)' = (Holding(p) \ {i}) \cup {v} /\ v \notin Holding(p) \ {i}
  BY <1>4, <1>10
<1>14. /\ Cardinality((Views(p) \ {i}) \cup {v}) = Cardinality(Views(p) \ {i}) + 1
       /\ Cardinality((Holding(p) \ {i}) \cup {v}) = Cardinality(Holding(p) \ {i}) + 1
  BY <1>12, <1>13, FS_AddElement
<1>15. /\ Cardinality(Views(p)') = Cardinality(Views(p)) - 1 + 1
       /\ Cardinality(Holding(p)') = Cardinality(Holding(p)) - 1 + 1
  BY <1>12, <1>13, <1>14, Zenon
<1>16. Views(i) = {}
  BY <1>1, <1>5, ViewsHaveNone
<1> QED  BY <1>9, <1>11, <1>15, <1>16

(* VIEWreset.                                                             *)
LEMMA VIEWresetKeeps ==
    ASSUME IInv, NEW t \in Threads, NEW i \in Slots, NEW v \in Slots, VIEWreset(t, i, v)
    PROVE  IInv'
<1>1. PICK p \in Slots: \E x \in Addresses: Copies(t, i, v, p, x)
  BY ResetForm
<1>2. PICK a \in Addresses: Copies(t, i, v, p, a)
  BY <1>1
<1>3. /\ v \in Unused /\ v # p /\ v # i /\ p # i /\ fix[t][i] > 0 /\ Resetting(t, p, v)
      /\ \A u \in Threads \ {t}: ~Mentions(u, i)
      /\ fix' = fix /\ lref' = lref /\ lost' = lost
      /\ bbp' \in [Slots -> Bats] /\ \A j \in Slots \ {p, i, v}: bbp'[j] = bbp[j]
  BY <1>2, Zenon DEF Copies
<1>4. /\ bbp[p].used /\ bbp[p].parent = 0 /\ bbp[p].refs > 0 /\ Loaded(bbp[p])
      /\ "UNLOADING" \notin bbp[p].status
      /\ bbp'[p].used /\ bbp'[p].refs = bbp[p].refs + 1 /\ bbp'[p].lrefs = bbp[p].lrefs + 1
      /\ bbp'[p].share = bbp[p].share + 1 /\ bbp'[p].status = bbp[p].status /\ bbp'[p].parent = 0
      /\ bbp'[p].heap = bbp[p].heap /\ bbp'[p].base = bbp[p].base /\ bbp'[p].dirty = bbp[p].dirty
      /\ bbp'[p].copied = bbp[p].copied
  BY <1>2, Zenon DEF Copies
<1>5. /\ bbp'[v].used = TRUE /\ bbp'[v].refs = 1 /\ bbp'[v].lrefs = 0 /\ bbp'[v].share = 0
      /\ bbp'[v].status = {"LOADED"} /\ bbp'[v].parent = p /\ bbp'[v].heap = 0
      /\ bbp'[v].base = bbp[p].heap
  BY <1>2, Zenon DEF Copies
<1>6. /\ bbp[i].used /\ bbp[i].parent = p /\ bbp[i].status = {"LOADED"}
      /\ bbp'[i].used /\ bbp'[i].refs = bbp[i].refs /\ bbp'[i].lrefs = bbp[i].lrefs
      /\ bbp'[i].share = bbp[i].share /\ bbp'[i].status = {"LOADED"} /\ bbp'[i].parent = 0
      /\ bbp'[i].heap = a /\ bbp'[i].base = 0
  BY <1>2, Zenon DEF Copies
<1>7. /\ v # 0 /\ bbp[v] = Empty /\ Unknown(v) /\ Views(v) = {} /\ Holding(v) = {} /\ Own(v) = 0
      /\ \A u \in Threads: ~Mentions(u, v) /\ fix[u][v] = 0 /\ lref[u][v] = 0
  BY <1>3, FreeSlot
<1>8. /\ todo[t] = <<>> /\ calls' \in Nat
      /\ todo' \in [Threads -> Seq(Steps)] /\ \A u \in Threads \ {t}: todo'[u] = todo[u]
      /\ \A k \in DOMAIN todo'[t]: todo'[t][k][2] \in {p, v}
      /\ \A y, j: /\ Left(t, y, j) = 0
                  /\ Left(t, y, j)' = IF \/ j = p /\ y \in {"unshare", "release", "unfix"}
                                         \/ j = v /\ y = "unfix"
                                      THEN 1 ELSE 0
      /\ Types' => Shape(t)'
  BY <1>3, Zenon DEF Resetting
<1>9. Types /\ Types'
  BY <1>3, <1>8 DEF IInv, Types
<1>10. Loaded(bbp'[p]) /\ Loaded(bbp'[v]) /\ Loaded(bbp'[i]) /\ ~Persistent(bbp'[v]) /\ ~Persistent(bbp'[i])
       /\ ~Persistent(bbp[i]) /\ Loaded(bbp[i]) /\ (Persistent(bbp'[p]) <=> Persistent(bbp[p]))
  BY <1>4, <1>5, <1>6 DEF Loaded, Persistent
<1>11. Empty.parent = 0 /\ Empty.used = FALSE /\ Empty.refs = 0 /\ Empty.lrefs = 0 /\ Empty.share = 0
       /\ Empty.status = {}
  BY DEF Empty
<1>12. \A u \in Threads \ {t}: Unseen(u)
  <2>1. ASSUME NEW u \in Threads \ {t}, NEW j \in Slots, Mentions(u, j)
        PROVE  SeenBy(u, j)
    <3>1. j # v /\ j # i
      BY <1>3, <1>7, <2>1
    <3>2. CASE j = p
      BY <1>4, <1>10, <3>2 DEF SeenBy
    <3>3. CASE j # p
      BY <1>3, <3>1, <3>3 DEF SeenBy
    <3> QED  BY <3>2, <3>3
  <2> QED  BY <1>3, <1>8, <2>1 DEF Unseen, Waits
<1>13. /\ \A j \in Slots \ {p}: Views(j)' = Views(j) /\ Holding(j)' = Holding(j)
       /\ Cardinality(Views(p)') = Cardinality(Views(p))
       /\ Cardinality(Holding(p)') = Cardinality(Holding(p))
       /\ Views(i) = {}
  BY <1>2, CopiesViews
<1>14. ASSUME NEW j \in Slots
       PROVE  Stands(j)
  <2>1. CASE j = v
    BY <1>7, <1>11, <2>1 DEF Stands, Loaded
  <2>2. CASE j = p
    BY <1>4, <1>10, <2>2 DEF Stands
  <2>3. CASE j = i
    <3>1. Holding(i) = {}
      BY <1>13 DEF Holding
    <3> QED  BY <1>10, <1>13, <2>3, <3>1 DEF Stands
  <2>4. CASE j \notin {p, i, v}
    <3>1. Views(j) # {} => bbp[j].used
      BY DEF Views, IInv, Slot, ViewOK
    <3> QED  BY <1>3, <2>4, <3>1 DEF Stands
  <2> QED  BY <2>1, <2>2, <2>3, <2>4
<1>15. ASSUME NEW j \in Slots
       PROVE  Slot(j)'
  <2>0. 0 \notin Slots /\ a # 0
    BY BBPRefsAssumption
  <2>1. CASE j = v
    <3>1. BatOK(bbp'[v])
      BY <1>5, <2>0 DEF BatOK, Loaded, Persistent
    <3>2. ViewOK(v, p)'
      BY <1>3, <1>4, <1>5, <1>10 DEF ViewOK, HoldsBase
    <3> QED  BY <1>5, <2>1, <3>1, <3>2 DEF Slot
  <2>2. CASE j = p
    <3>1. BatOK(bbp[p]) /\ bbp[p].refs \in Nat
      BY <1>4, SlotTypes DEF IInv, Slot
    <3>2. BatOK(bbp'[p])
      BY <1>4, <1>10, <3>1, ZenonT(30) DEF BatOK, Loaded, Persistent, BATdirty
    <3> QED  BY <1>4, <2>0, <2>2, <3>2 DEF Slot
  <2>3. CASE j = i
    <3>1. BatOK(bbp'[i])
      BY <1>6, <2>0 DEF BatOK, Loaded, Persistent
    <3> QED  BY <1>6, <2>0, <2>3, <3>1 DEF Slot
  <2>4. CASE j \notin {p, i, v}
    <3>1. ASSUME ~bbp[j].used
          PROVE  Unknown(j)'
      <4>1. Unknown(j)
        BY <3>1 DEF IInv, Slot
      <4>2. \A u \in Threads: Forgotten(u, j)'
        BY <1>3, <1>8, <2>4, <4>1 DEF Unknown, Forgotten
      <4>3. \A w \in Slots: bbp'[w].parent # j
        <5>1. ASSUME NEW w \in Slots
              PROVE  bbp'[w].parent \in {bbp[w].parent, 0, p}
          BY <1>3, <1>4, <1>5, <1>6, ZenonT(30)
        <5> QED  BY <2>0, <2>4, <4>1, <5>1 DEF Unknown
      <4> QED  BY <4>2, <4>3 DEF Unknown
    <3> QED  BY <1>3, <1>14, <2>4, <3>1, SlotSame
  <2> QED  BY <2>1, <2>2, <2>3, <2>4
<1>16. Readable(t)'
  <2>1. SUFFICES ASSUME NEW j \in Slots, fix'[t][j] > 0 PROVE Loaded(bbp'[j])
    BY DEF Readable
  <2>2. CASE j \in {p, i, v}
    BY <1>10, <2>2
  <2>3. CASE j \notin {p, i, v}
    BY <1>3, <2>1, <2>3 DEF IInv, Readable
  <2> QED  BY <2>2, <2>3
<1>17. ASSUME NEW j \in Slots
       PROVE  Accounts(t, j)
  <2>1. lost'[j] = lost[j] /\ fix'[t][j] = fix[t][j] /\ lref'[t][j] = lref[t][j]
    BY <1>3
  <2>2. Based(t, j)' = 0 /\ Based(t, j) = 0
    <3>1. \A w: ~(Left(t, "base", w) > 0) /\ ~(Left(t, "base", w)' > 0)
      <4>1. \A w: Left(t, "base", w) = 0 /\ Left(t, "base", w)' = 0
        BY <1>8
      <4> QED  BY <4>1
    <3> QED  BY <3>1 DEF Based
  <2>3. Own(j)' = Own(j)
    <3>1. Persistent(bbp'[j]) <=> Persistent(bbp[j])
      <4>1. CASE j = v
        BY <1>7, <1>10, <1>11, <4>1 DEF Persistent
      <4>2. CASE j # v
        BY <1>3, <1>10, <4>2
      <4> QED  BY <4>1, <4>2
    <3>2. Left(t, "unpersist", j)' = Left(t, "unpersist", j)
      BY <1>8
    <3> QED  BY <1>8, <3>1, <3>2, OwnLocal
  <2>4. /\ fix[t][j] \in Nat /\ lref[t][j] \in Nat /\ lost[j] \in Nat /\ Own(j) \in {0, 1}
        /\ bbp[j].refs \in Nat /\ bbp[j].lrefs \in Nat /\ bbp[j].share \in Nat
        /\ Cardinality(Views(j)) \in Nat /\ Cardinality(Holding(j)) \in Nat
    BY SlotTypes, ViewsFinite
  <2>5. /\ Fixes(t, j) = fix[t][j] /\ Fixes(t, j)' = fix[t][j] + (IF j \in {p, v} THEN 1 ELSE 0)
    <3>1. /\ Left(t, "unfix", j) = 0 /\ Left(t, "got", j) = 0 /\ Left(t, "fix", j) = 0
          /\ Left(t, "unfix", j)' = (IF j \in {p, v} THEN 1 ELSE 0)
          /\ Left(t, "got", j)' = 0 /\ Left(t, "fix", j)' = 0
      BY <1>8
    <3> QED  BY <2>1, <2>2, <2>4, <3>1 DEF Fixes
  <2>6. /\ Lrefs(t, j) = lref[t][j] /\ Lrefs(t, j)' = lref[t][j] + (IF j = p THEN 1 ELSE 0)
        /\ Left(t, "unshare", j) = 0 /\ Left(t, "unshare", j)' = (IF j = p THEN 1 ELSE 0)
    <3>1. /\ Left(t, "release", j) = 0 /\ Left(t, "persist", j) = 0 /\ Left(t, "retain", j) = 0
          /\ Left(t, "release", j)' = (IF j = p THEN 1 ELSE 0)
          /\ Left(t, "persist", j)' = 0 /\ Left(t, "retain", j)' = 0
          /\ Left(t, "unshare", j) = 0 /\ Left(t, "unshare", j)' = (IF j = p THEN 1 ELSE 0)
      BY <1>8, SMTT(30)
    <3> QED  BY <2>1, <2>4, <3>1 DEF Lrefs
  <2>7. /\ bbp'[j].refs = bbp[j].refs + (IF j \in {p, v} THEN 1 ELSE 0)
        /\ bbp'[j].lrefs = bbp[j].lrefs + (IF j = p THEN 1 ELSE 0)
        /\ bbp'[j].share = bbp[j].share + (IF j = p THEN 1 ELSE 0)
    <3>1. CASE j = p
      BY <1>4, <3>1
    <3>2. CASE j = v
      BY <1>3, <1>5, <1>7, <1>11, <3>2
    <3>3. CASE j = i
      BY <1>3, <1>6, <2>4, <3>3
    <3>4. CASE j \notin {p, i, v}
      BY <1>3, <2>4, <3>4
    <3> QED  BY <3>1, <3>2, <3>3, <3>4
  <2>8. Cardinality(Views(j)') = Cardinality(Views(j)) /\ Cardinality(Holding(j)') = Cardinality(Holding(j))
    <3>1. CASE j = p
      BY <1>13, <3>1, Zenon
    <3>2. CASE j # p
      BY <1>13, <3>2
    <3> QED  BY <3>1, <3>2
  <2>9. bbp'[j].refs + Fixes(t, j) + lost[j] + Cardinality(Holding(j))
          = bbp[j].refs + Fixes(t, j)' + lost'[j] + Cardinality(Holding(j)')
    BY <2>1, <2>4, <2>5, <2>7, <2>8
  <2>10. bbp'[j].lrefs + Lrefs(t, j) + Own(j) + Cardinality(Views(j))
          = bbp[j].lrefs + Lrefs(t, j)' + Own(j)' + Cardinality(Views(j)')
    BY <2>3, <2>4, <2>6, <2>7, <2>8
  <2>11. bbp'[j].share + Left(t, "unshare", j) + Cardinality(Views(j))
          = bbp[j].share + Left(t, "unshare", j)' + Cardinality(Views(j)')
    BY <2>4, <2>6, <2>7, <2>8
  <2> QED  BY <2>9, <2>10, <2>11, Zenon DEF Accounts
<1>18. ASSUME NEW j \in Slots
       PROVE  Resets(t, j)
  <2>1. Loads(t, j)' = Loads(t, j) /\ Unloads(t, j)' = Unloads(t, j) /\ Sets(t, j)' = Sets(t, j)
    <3>1. \A y: y \notin {"unshare", "release", "unfix"} => Left(t, y, j)' = Left(t, y, j)
      BY <1>8
    <3> QED  BY <3>1 DEF Loads, Unloads, Sets
  <2>2. /\ Flagged(j, "LOADING")' = Flagged(j, "LOADING")
        /\ Flagged(j, "UNLOADING")' = Flagged(j, "UNLOADING")
    <3>1. /\ "LOADING" \in bbp'[j].status <=> "LOADING" \in bbp[j].status
          /\ "UNLOADING" \in bbp'[j].status <=> "UNLOADING" \in bbp[j].status
      <4>1. CASE j = v
        BY <1>5, <1>7, <1>11, <4>1
      <4>2. CASE j # v
        BY <1>3, <1>4, <1>6, <4>2
      <4> QED  BY <4>1, <4>2
    <3> QED  BY <3>1 DEF Flagged
  <2> QED  BY <2>1, <2>2, Zenon DEF Resets
<1>19. Shape(t)'
  BY <1>8, <1>9
<1> QED  BY <1>9, <1>12, <1>14, <1>15, <1>16, <1>17, <1>18, <1>19, StepKeeps

-----------------------------------------------------------------------------
(***************************************************************************)
(* A reference that goes from one thread to another.                       *)
(***************************************************************************)
LEMMA PassKeeps ==
    ASSUME IInv, NEW t \in Threads, NEW i \in Slots, NEW u \in Threads, Pass(t, u, i)
    PROVE  IInv'
<1>1. /\ Types /\ t # u /\ lref[t][i] > 0 /\ Called(t, <<>>) /\ lref' = More(Less(lref, t, i), u, i)
      /\ bbp' = bbp /\ fix' = fix /\ lost' = lost
  BY DEF IInv, Pass
<1>2. /\ todo' = todo /\ todo[t] = <<>> /\ calls' \in Nat /\ Shape(t)'
      /\ \A y, j: Left(t, y, j) = 0
      /\ \A w: \A y, j: Left(w, y, j)' = Left(w, y, j)
  BY <1>1, CalledNothing
<1>3. /\ lref' \in [Threads -> [Slots -> Nat]]
      /\ lref'[t][i] = lref[t][i] - 1 /\ lref'[u][i] = lref[u][i] + 1
      /\ \A w \in Threads: \A j \in Slots: w \notin {t, u} \/ j # i => lref'[w][j] = lref[w][j]
  <2>1. lref \in [Threads -> [Slots -> Nat]] /\ lref[t][i] - 1 \in Nat
    BY <1>1 DEF Types
  <2>2. PICK m: m = Less(lref, t, i)
    OBVIOUS
  <2>3. /\ m \in [Threads -> [Slots -> Nat]] /\ m[t][i] = lref[t][i] - 1 /\ m[u][i] = lref[u][i]
        /\ \A w \in Threads: \A j \in Slots: w # t \/ j # i => m[w][j] = lref[w][j]
    BY <1>1, <2>1, <2>2 DEF Less
  <2>4. /\ lref' \in [Threads -> [Slots -> Nat]] /\ lref'[t][i] = m[t][i] /\ lref'[u][i] = m[u][i] + 1
        /\ \A w \in Threads: \A j \in Slots: w # u \/ j # i => lref'[w][j] = m[w][j]
    BY <1>1, <2>2, <2>3 DEF More
  <2> QED  BY <2>3, <2>4
<1>4. Types'
  BY <1>1, <1>2, <1>3 DEF Types
<1>5. bbp[i].used
  <2>1. fix[t][i] + lref[t][i] > 0
    BY <1>1, SlotTypes, SMTT(60)
  <2> QED  BY <2>1, KnownUsed
<1>6. ASSUME NEW j \in Slots
      PROVE  Slot(j)'
  <2>1. Slot(j)
    BY DEF IInv
  <2>2. ASSUME ~bbp[j].used
        PROVE  Unknown(j)'
    BY <1>1, <1>2, <1>3, <1>5, <2>1, <2>2, ZenonT(60) DEF Slot, Unknown, Forgotten
  <2>3. \A p: ViewOK(j, p)' <=> ViewOK(j, p)
    BY <1>1 DEF ViewOK, HoldsBase
  <2> QED  BY <1>1, <2>1, <2>2, <2>3 DEF Slot
<1>7. ASSUME NEW w \in Threads
      PROVE  Shape(w)' /\ Readable(w)'
  <2>1. Readable(w)'
    BY <1>1 DEF IInv, Readable
  <2>2. CASE w = t
    BY <1>2, <2>1, <2>2
  <2>3. CASE w # t
    <3>1. \A j \in Slots: lref'[w][j] >= lref[w][j] /\ lref'[w][j] \in Nat /\ lref[w][j] \in Nat /\ fix[w][j] \in Nat
      <4>1. \A j \in Slots: lref'[w][j] \in Nat /\ lref[w][j] \in Nat /\ fix[w][j] \in Nat
        BY <1>1, <1>4 DEF Types
      <4> QED  BY <1>3, <2>3, <4>1
    <3>2. ASSUME NEW j \in Slots
          PROVE  /\ Fetches(w, j) => Fetches(w, j)'
                 /\ Retains(w, j) => Retains(w, j)'
                 /\ Modes(w, j) => Modes(w, j)'
      <4>1. Fetches(w, j) => Fetches(w, j)'
        BY <1>1, <1>2, <3>1, SMTT(60) DEF Fetches
      <4>2. Retains(w, j) => Retains(w, j)'
        BY <1>1, <1>2, <3>1 DEF Retains
      <4>3. Modes(w, j) => Modes(w, j)'
        BY <1>1, <1>2 DEF Modes
      <4> QED  BY <4>1, <4>2, <4>3
    <3>3. \A j, p \in Slots: FetchesView(w, j, p) => FetchesView(w, j, p)'
      BY <1>1, <1>2 DEF FetchesView
    <3>4. Undoes(w) => Undoes(w)'
      BY <1>1, <1>2 DEF Undoes, First
    <3>5. Shape(w)
      BY DEF IInv
    <3> QED  BY <2>1, <3>2, <3>3, <3>4, <3>5 DEF Shape
  <2> QED  BY <2>2, <2>3
<1>8. ASSUME NEW j \in Slots
      PROVE  Owned(j)'
  <2>1. \A w \in Threads: /\ Loads(w, j)' = Loads(w, j) /\ Unloads(w, j)' = Unloads(w, j)
                          /\ Sets(w, j)' = Sets(w, j)
    BY <1>2 DEF Loads, Unloads, Sets
  <2>2. /\ Flagged(j, "LOADING")' = Flagged(j, "LOADING")
        /\ Flagged(j, "UNLOADING")' = Flagged(j, "UNLOADING")
    BY <1>1 DEF Flagged
  <2>3. /\ [w \in Threads |-> Loads(w, j)'] = [w \in Threads |-> Loads(w, j)]
        /\ [w \in Threads |-> Unloads(w, j)'] = [w \in Threads |-> Unloads(w, j)]
    BY <2>1
  <2>4. Owned(j)
    BY DEF IInv
  <2>5. /\ Sum([w \in Threads |-> Loads(w, j)']) = Flagged(j, "LOADING")'
        /\ Sum([w \in Threads |-> Unloads(w, j)']) = Flagged(j, "UNLOADING")'
    BY <2>2, <2>3, <2>4, Zenon DEF Owned
  <2>6. \A w, x \in Threads: Sets(w, j)' > 0 /\ Sets(x, j)' > 0 => w = x
    BY <2>1, <2>4 DEF Owned
  <2> QED  BY <2>5, <2>6 DEF Owned, Sum
<1>9. ASSUME NEW j \in Slots
      PROVE  Counted(j)'
  <2>1. \A k: Views(k)' = Views(k) /\ Holding(k)' = Holding(k)
    BY <1>1 DEF Views, Holding, HoldsBase
  <2>2. \A w \in Threads: Fixes(w, j)' = Fixes(w, j) /\ Left(w, "unshare", j)' = Left(w, "unshare", j)
    BY <1>1, <1>2, <2>1 DEF Fixes, Based
  <2>3. Own(j)' = Own(j)
    BY <1>1, <1>2 DEF Own
  <2>4. Counted(j)
    BY DEF IInv
  <2>5. PICK f \in [Threads -> Nat]: f = [w \in Threads |-> Lrefs(w, j)]
    BY InvShapes, CountsType
  <2>6. PICK g: g = [w \in Threads |-> Lrefs(w, j)']
    OBVIOUS
  <2>7. Sum(g) = Sum(f)
    <3>1. CASE j # i
      <4>1. \A w \in Threads: Lrefs(w, j)' = Lrefs(w, j)
        BY <1>2, <1>3, <3>1 DEF Lrefs
      <4> QED  BY <2>5, <2>6, <4>1
    <3>2. CASE j = i
      <4>1. f[t] = lref[t][i] /\ lref[t][i] \in Nat
        <5>1. Left(t, "release", i) = 0 /\ Left(t, "persist", i) = 0 /\ Left(t, "retain", i) = 0
          BY <1>2
        <5>2. lref[t][i] \in Nat
          BY <1>1 DEF Types
        <5> QED  BY <2>5, <3>2, <5>1, <5>2 DEF Lrefs
      <4>2. /\ Lrefs(t, i)' = Lrefs(t, i) - 1 /\ Lrefs(u, i)' = Lrefs(u, i) + 1
            /\ \A w \in Threads \ {t, u}: Lrefs(w, i)' = Lrefs(w, i)
        <5>1. ASSUME NEW w \in Threads
              PROVE  /\ Left(w, "release", i)' = Left(w, "release", i) /\ Left(w, "release", i) \in Nat
                     /\ Left(w, "persist", i)' = Left(w, "persist", i) /\ Left(w, "persist", i) \in Nat
                     /\ Left(w, "retain", i)' = Left(w, "retain", i) /\ Left(w, "retain", i) \in Nat
                     /\ lref[w][i] \in Nat
          BY <1>1, <1>2, LeftType DEF Types
        <5>2. \A w \in Threads \ {t, u}: lref'[w][i] = lref[w][i]
          BY <1>3
        <5>3. /\ Lrefs(t, i)' = Lrefs(t, i) - 1
          BY <1>3, <5>1 DEF Lrefs
        <5>4. /\ Lrefs(u, i)' = Lrefs(u, i) + 1
          BY <1>3, <5>1 DEF Lrefs
        <5>5. \A w \in Threads \ {t, u}: Lrefs(w, i)' = Lrefs(w, i)
          BY <5>1, <5>2 DEF Lrefs
        <5> QED  BY <5>3, <5>4, <5>5
      <4>3. g[t] = f[t] - 1 /\ g[u] = f[u] + 1 /\ \A w \in Threads \ {t, u}: g[w] = f[w]
        BY <2>5, <2>6, <3>2, <4>2
      <4>4. f[t] - 1 \in Nat /\ f[u] + 1 \in Nat
        BY <1>1, <4>1
      <4>5. PICK h: h = [f EXCEPT ![t] = f[t] - 1]
        OBVIOUS
      <4>6. h \in [Threads -> Nat] /\ h[t] = f[t] - 1 /\ \A w \in Threads \ {t}: h[w] = f[w]
        BY <4>4, <4>5
      <4>7. g \in [Threads -> Nat]
        BY <2>6, <4>3, <4>4
      <4>8. Sum(h) + f[t] = Sum(f) + h[t]
        BY <4>6, SumStep
      <4>9. \A w \in Threads \ {u}: g[w] = h[w]
        BY <4>3, <4>6
      <4>10. Sum(g) + h[u] = Sum(h) + g[u]
        BY <4>6, <4>7, <4>9, SumStep
      <4>11. h[u] = f[u] /\ f[u] \in Nat /\ Sum(f) \in Nat /\ Sum(h) \in Nat /\ Sum(g) \in Nat
        BY <1>1, <4>6, <4>7, SumType
      <4> QED  BY <4>1, <4>3, <4>6, <4>8, <4>10, <4>11
    <3> QED  BY <3>1, <3>2
  <2>8. bbp[j].lrefs = Sum([w \in Threads |-> Lrefs(w, j)]) + Own(j) + Cardinality(Views(j))
    BY <2>4 DEF Counted
  <2>9. Sum([w \in Threads |-> Lrefs(w, j)']) = Sum([w \in Threads |-> Lrefs(w, j)])
    BY <2>5, <2>6, <2>7, Zenon
  <2>10. bbp'[j].lrefs = Sum([w \in Threads |-> Lrefs(w, j)']) + Own(j)' + Cardinality(Views(j)')
    BY <1>1, <2>1, <2>3, <2>8, <2>9, Zenon
  <2>11. [w \in Threads |-> Fixes(w, j)'] = [w \in Threads |-> Fixes(w, j)]
    BY <2>2
  <2>12. [w \in Threads |-> Left(w, "unshare", j)'] = [w \in Threads |-> Left(w, "unshare", j)]
    BY <2>2
  <2>13. bbp'[j].refs = Sum([w \in Threads |-> Fixes(w, j)']) + lost'[j] + Cardinality(Holding(j)')
    BY <1>1, <2>1, <2>4, <2>11, Zenon DEF Counted
  <2>14. bbp'[j].share = Sum([w \in Threads |-> Left(w, "unshare", j)']) + Cardinality(Views(j)')
    BY <1>1, <2>1, <2>4, <2>12, Zenon DEF Counted
  <2> QED  BY <2>10, <2>13, <2>14 DEF Counted, Sum
<1> QED  BY <1>4, <1>6, <1>7, <1>8, <1>9 DEF IInv

-----------------------------------------------------------------------------
(***************************************************************************)
(* The invariant holds initially.  There are k views of bat 1.             *)
(***************************************************************************)
Starts(k) ==
    /\ bbp \in [Slots -> Bats]
    /\ \A i \in Slots \ {1, 2}: bbp[i] = Empty
    /\ bbp[1].used = TRUE /\ bbp[1].refs = 0 /\ bbp[1].lrefs = Cardinality(Threads) + 1 + k
    /\ bbp[1].share = k /\ bbp[1].status = {"EXISTING"} /\ bbp[1].parent = 0 /\ bbp[1].heap = 0
    /\ bbp[1].base = 0 /\ bbp[1].dirty = FALSE /\ bbp[1].copied = TRUE
    /\ k = 0 => bbp[2] = Empty
    /\ k = 1 => /\ bbp[2].used = TRUE /\ bbp[2].refs = 0 /\ bbp[2].lrefs = Cardinality(Threads)
                /\ bbp[2].share = 0 /\ bbp[2].status = {"LOADED"} /\ bbp[2].parent = 1 /\ bbp[2].heap = 0
                /\ bbp[2].base = 0
    /\ todo = [t \in Threads |-> <<>>]
    /\ fix = [t \in Threads |-> [i \in Slots |-> 0]]
    /\ lref = [t \in Threads |-> [i \in Slots |-> IF bbp[i].used THEN 1 ELSE 0]]
    /\ lost = [i \in Slots |-> 0] /\ calls = 0

(* The slots the database starts with.                                    *)
LEMMA InitForm ==
    Init => \E k \in {0, 1}: Starts(k)
<1> SUFFICES ASSUME Init
             PROVE  \E k \in {0, 1}: Starts(k)
  OBVIOUS
<1>1. 1 \in Slots /\ 2 \in Slots
  BY BBPRefsAssumption
<1>2. PICK n \in Nat: n = Cardinality(Threads)
  BY FS_CardinalityType, BBPRefsAssumption
<1>3. PICK w: w = Known
  OBVIOUS
<1>4. PICK b: b = Base1
  OBVIOUS
<1>5. PICK v: v = View2
  OBVIOUS
<1>6. PICK s: s = [Base1 EXCEPT !.lrefs = @ + 1, !.share = 1]
  OBVIOUS
<1>7. /\ w \in Bats /\ w.used = TRUE /\ w.refs = 0 /\ w.lrefs = n /\ w.share = 0 /\ w.status = {}
      /\ w.parent = 0 /\ w.heap = 0 /\ w.base = 0 /\ w.dirty = FALSE /\ w.copied = FALSE
  BY <1>2, <1>3 DEF Known, Empty, Bats, Flags
<1>8. /\ b \in Bats /\ b.used = TRUE /\ b.refs = 0 /\ b.lrefs = n + 1 /\ b.share = 0 /\ b.status = {"EXISTING"}
      /\ b.parent = 0 /\ b.heap = 0 /\ b.base = 0 /\ b.dirty = FALSE /\ b.copied = TRUE
  <2>1. b = [w EXCEPT !.lrefs = @ + 1, !.status = {"EXISTING"}, !.copied = TRUE]
    BY <1>3, <1>4 DEF Base1
  <2>2. PICK x \in Nat: x = n + 1
    BY <1>2
  <2>3. b = [w EXCEPT !.lrefs = x, !.status = {"EXISTING"}, !.copied = TRUE]
    BY <1>7, <2>1, <2>2
  <2>4. {"EXISTING"} \in SUBSET Flags
    BY DEF Flags
  <2> QED  BY <1>7, <2>2, <2>3, <2>4 DEF Bats
<1>9. /\ v \in Bats /\ v.used = TRUE /\ v.refs = 0 /\ v.lrefs = n /\ v.share = 0 /\ v.status = {"LOADED"}
      /\ v.parent = 1 /\ v.heap = 0 /\ v.base = 0 /\ v.dirty = TRUE /\ v.copied = FALSE
  <2>1. v = [w EXCEPT !.status = {"LOADED"}, !.parent = 1, !.dirty = TRUE]
    BY <1>3, <1>5 DEF View2
  <2> QED  BY <1>1, <1>7, <2>1 DEF Bats, Flags
<1>10. /\ s \in Bats /\ s.used = TRUE /\ s.refs = 0 /\ s.lrefs = n + 1 + 1 /\ s.share = 1 /\ s.status = {"EXISTING"}
       /\ s.parent = 0 /\ s.heap = 0 /\ s.base = 0 /\ s.dirty = FALSE /\ s.copied = TRUE
  <2>1. s = [b EXCEPT !.lrefs = @ + 1, !.share = 1]
    BY <1>4, <1>6
  <2>2. PICK x \in Nat: x = n + 1 + 1
    BY <1>2
  <2>3. s = [b EXCEPT !.lrefs = x, !.share = 1]
    BY <1>8, <2>1, <2>2
  <2> QED  BY <1>8, <2>2, <2>3 DEF Bats
<1>11. Empty \in Bats
  BY DEF Empty, Bats, Flags
<1>12. /\ lref = [t \in Threads |-> [i \in Slots |-> IF bbp[i].used THEN 1 ELSE 0]]
       /\ todo = [t \in Threads |-> <<>>]
       /\ fix = [t \in Threads |-> [i \in Slots |-> 0]]
       /\ lost = [i \in Slots |-> 0] /\ calls = 0
  BY DEF Init
<1>13. CASE bbp = [i \in Slots |-> IF i = 1 THEN Base1 ELSE Empty]
  <2>1. /\ bbp \in [Slots -> Bats] /\ bbp[1] = b /\ bbp[2] = Empty
        /\ \A i \in Slots \ {1, 2}: bbp[i] = Empty
    BY <1>1, <1>4, <1>8, <1>11, <1>13
  <2>2. n + 1 = n + 1 + 0 /\ 0 # 1
    BY <1>2
  <2>3. Starts(0)
    BY <1>2, <1>8, <1>12, <2>1, <2>2, Zenon DEF Starts
  <2> QED  BY <2>3
<1>14. CASE bbp = [i \in Slots |-> CASE i = 1 -> [Base1 EXCEPT !.lrefs = @ + 1, !.share = 1]
                                     [] i = 2 -> View2
                                     [] OTHER -> Empty]
  <2>1. /\ bbp \in [Slots -> Bats] /\ bbp[1] = s /\ bbp[2] = v
        /\ \A i \in Slots \ {1, 2}: bbp[i] = Empty
    <3>1. bbp = [i \in Slots |-> CASE i = 1 -> s [] i = 2 -> v [] OTHER -> Empty]
      BY <1>5, <1>6, <1>14
    <3>2. bbp[1] = s /\ bbp[2] = v /\ \A i \in Slots \ {1, 2}: bbp[i] = Empty
      BY <1>1, <3>1
    <3>3. \A i \in Slots: bbp[i] \in Bats
      BY <1>9, <1>10, <1>11, <3>2
    <3> QED  BY <3>1, <3>2, <3>3
  <2>2. Starts(1)
    BY <1>2, <1>9, <1>10, <1>12, <2>1 DEF Starts
  <2> QED  BY <2>2
<1> QED  BY <1>13, <1>14 DEF Init

(* The initial states satisfy IInv.                                       *)
LEMMA InitIInv ==
    Init => IInv
<1> SUFFICES ASSUME Init
             PROVE  IInv
  OBVIOUS
<1>1. PICK k \in {0, 1}: Starts(k)
  BY InitForm
<1>2. PICK n \in Nat: n = Cardinality(Threads)
  BY FS_CardinalityType, BBPRefsAssumption
<1>3. /\ bbp \in [Slots -> Bats] /\ \A i \in Slots \ {1, 2}: bbp[i] = Empty
      /\ bbp[1].used = TRUE /\ bbp[1].refs = 0 /\ bbp[1].lrefs = n + 1 + k
      /\ bbp[1].share = k /\ bbp[1].status = {"EXISTING"} /\ bbp[1].parent = 0 /\ bbp[1].heap = 0
      /\ bbp[1].base = 0 /\ bbp[1].dirty = FALSE /\ bbp[1].copied = TRUE
      /\ k = 0 => bbp[2] = Empty
      /\ k = 1 => /\ bbp[2].used = TRUE /\ bbp[2].refs = 0 /\ bbp[2].lrefs = n
                  /\ bbp[2].share = 0 /\ bbp[2].status = {"LOADED"} /\ bbp[2].parent = 1 /\ bbp[2].heap = 0
                  /\ bbp[2].base = 0
  BY <1>1, <1>2, Zenon DEF Starts
<1>4. /\ todo = [t \in Threads |-> <<>>]
      /\ fix = [t \in Threads |-> [i \in Slots |-> 0]]
      /\ lref = [t \in Threads |-> [i \in Slots |-> IF bbp[i].used THEN 1 ELSE 0]]
      /\ lost = [i \in Slots |-> 0] /\ calls = 0
  BY <1>1, Zenon DEF Starts
<1>5. Empty.parent = 0 /\ Empty.used = FALSE /\ Empty.refs = 0 /\ Empty.lrefs = 0 /\ Empty.share = 0
      /\ Empty.status = {}
  BY DEF Empty
<1>6. 1 \in Slots /\ 2 \in Slots /\ 0 \notin Slots
  BY BBPRefsAssumption
<1>7. Types
  <2>1. todo \in [Threads -> Seq(Steps)]
    <3>1. <<>> \in Seq(Steps)
      OBVIOUS
    <3> QED  BY <1>4, <3>1
  <2>2. lref \in [Threads -> [Slots -> Nat]] /\ fix \in [Threads -> [Slots -> Nat]] /\ lost \in [Slots -> Nat]
    BY <1>4
  <2> QED  BY <1>3, <1>4, <2>1, <2>2 DEF Types
<1>8. ASSUME NEW t \in Threads
      PROVE  /\ todo[t] = <<>> /\ \A j \in Slots: fix[t][j] = 0 /\ lref[t][j] = IF bbp[j].used THEN 1 ELSE 0
             /\ \A x, j: Left(t, x, j) = 0
  <2>1. todo[t] = <<>>
    BY <1>4
  <2>2. \A x, j: Left(t, x, j) = 0
    BY <2>1, LeftLiteral
  <2> QED  BY <1>4, <2>1, <2>2
<1>9. ASSUME NEW i \in Slots
      PROVE  bbp[i].refs = 0 /\ (i # 1 => ~Persistent(bbp[i])) /\ "LOADING" \notin bbp[i].status
             /\ "UNLOADING" \notin bbp[i].status
             /\ bbp[i].parent = IF i = 2 /\ k = 1 THEN 1 ELSE 0
  BY <1>3, <1>5 DEF Persistent
<1>10. ASSUME NEW i \in Slots
       PROVE  Slot(i)
  <2>1. CASE i = 1
    <3>1. BatOK(bbp[1])
      BY <1>3 DEF BatOK, Loaded, Persistent, BATdirty
    <3> QED  BY <1>3, <1>6, <2>1, <3>1 DEF Slot
  <2>2. CASE i = 2 /\ k = 1
    <3>1. BatOK(bbp[2])
      BY <1>3, <2>2 DEF BatOK, Loaded, Persistent
    <3>2. ViewOK(2, 1)
      BY <1>3, <2>2 DEF ViewOK, HoldsBase
    <3> QED  BY <1>3, <2>2, <3>1, <3>2 DEF Slot
  <2>3. CASE bbp[i] = Empty
    <3>1. i # 1
      BY <1>3, <1>5, <2>3
    <3>2. \A v \in Slots: bbp[v].parent # i
      BY <1>6, <1>9, <3>1
    <3>3. \A t \in Threads: Forgotten(t, i)
      BY <1>5, <1>8, <2>3 DEF Forgotten
    <3> QED  BY <1>5, <1>6, <2>3, <3>2, <3>3 DEF Slot, Unknown
  <2> QED  BY <1>3, <2>1, <2>2, <2>3
<1>11. ASSUME NEW i \in Slots
       PROVE  Counted(i)
  <2>1. Holding(i) = {}
    BY <1>9 DEF Holding, Views, HoldsBase
  <2>2. Cardinality(Holding(i)) = 0
    BY <2>1, FS_EmptySet
  <2>3. Cardinality(Views(i)) = IF i = 1 THEN k ELSE 0
    <3>1. CASE i = 1 /\ k = 1
      <4>1. Views(i) = {2}
        BY <1>3, <1>6, <1>9, <3>1, ZenonT(60) DEF Views
      <4> QED  BY <3>1, <4>1, FS_Singleton
    <3>2. CASE ~(i = 1 /\ k = 1)
      <4>1. Views(i) = {}
        BY <1>6, <1>9, <3>2 DEF Views
      <4> QED  BY <3>2, <4>1, FS_EmptySet
    <3> QED  BY <3>1, <3>2
  <2>4. Own(i) = IF i = 1 THEN 1 ELSE 0
    <3>1. Persistent(bbp[1])
      BY <1>3 DEF Persistent
    <3> QED  BY <1>8, <1>9, <3>1 DEF Own
  <2>5. \A t \in Threads: Fixes(t, i) = 0 /\ Left(t, "unshare", i) = 0
                          /\ Lrefs(t, i) = IF bbp[i].used THEN 1 ELSE 0
    <3>1. ASSUME NEW t \in Threads
          PROVE  Fixes(t, i) = 0 /\ Left(t, "unshare", i) = 0 /\ Lrefs(t, i) = IF bbp[i].used THEN 1 ELSE 0
      <4>1. Based(t, i) = 0
        <5>1. \A v: ~(Left(t, "base", v) > 0)
          <6>1. \A v: Left(t, "base", v) = 0
            BY <1>8
          <6> QED  BY <6>1
        <5> QED  BY <5>1 DEF Based
      <4>2. /\ Left(t, "unfix", i) = 0 /\ Left(t, "got", i) = 0 /\ Left(t, "fix", i) = 0 /\ fix[t][i] = 0
            /\ Left(t, "release", i) = 0 /\ Left(t, "persist", i) = 0 /\ Left(t, "retain", i) = 0
            /\ Left(t, "unshare", i) = 0 /\ lref[t][i] = IF bbp[i].used THEN 1 ELSE 0
        BY <1>8
      <4> QED  BY <4>1, <4>2 DEF Fixes, Lrefs
    <3> QED  BY <3>1
  <2>6. PICK f: f = [t \in Threads |-> Fixes(t, i)]
    OBVIOUS
  <2>7. PICK g: g = [t \in Threads |-> Lrefs(t, i)]
    OBVIOUS
  <2>8. PICK h: h = [t \in Threads |-> Left(t, "unshare", i)]
    OBVIOUS
  <2>9. Sum(f) = 0 /\ Sum(h) = 0
    <3>1. f \in [Threads -> Nat] /\ h \in [Threads -> Nat] /\ \A t \in Threads: f[t] = 0 /\ h[t] = 0
      BY <2>5, <2>6, <2>8
    <3> QED  BY <3>1, SumZero
  <2>10. Sum(g) = IF bbp[i].used THEN n ELSE 0
    <3>1. g \in [Threads -> Nat] /\ \A t \in Threads: g[t] = IF bbp[i].used THEN 1 ELSE 0
      BY <2>5, <2>7
    <3>2. CASE bbp[i].used
      BY <1>2, <3>1, <3>2, SumOnes
    <3>3. CASE ~bbp[i].used
      BY <3>1, <3>3, SumZero
    <3> QED  BY <3>2, <3>3
  <2>11. bbp[i].refs = Sum(f) + lost[i] + Cardinality(Holding(i))
    BY <1>4, <1>9, <2>2, <2>9
  <2>12. bbp[i].lrefs = Sum(g) + Own(i) + Cardinality(Views(i))
    BY <1>3, <1>5, <2>3, <2>4, <2>10
  <2>13. bbp[i].share = Sum(h) + Cardinality(Views(i))
    BY <1>3, <1>5, <2>3, <2>9
  <2> QED  BY <2>6, <2>7, <2>8, <2>11, <2>12, <2>13, Zenon DEF Counted
<1>12. ASSUME NEW i \in Slots
       PROVE  Owned(i)
  <2>1. \A t \in Threads: Loads(t, i) = 0 /\ Unloads(t, i) = 0 /\ Sets(t, i) = 0
    BY <1>8 DEF Loads, Unloads, Sets
  <2>2. PICK f: f = [t \in Threads |-> Loads(t, i)]
    OBVIOUS
  <2>3. PICK h: h = [t \in Threads |-> Unloads(t, i)]
    OBVIOUS
  <2>4. Sum(f) = 0 /\ Sum(h) = 0
    <3>1. f \in [Threads -> Nat] /\ h \in [Threads -> Nat] /\ \A t \in Threads: f[t] = 0 /\ h[t] = 0
      BY <2>1, <2>2, <2>3
    <3> QED  BY <3>1, SumZero
  <2>5. Flagged(i, "LOADING") = 0 /\ Flagged(i, "UNLOADING") = 0
    BY <1>9 DEF Flagged
  <2>6. \A t, u \in Threads: Sets(t, i) > 0 /\ Sets(u, i) > 0 => t = u
    BY <2>1
  <2> QED  BY <2>2, <2>3, <2>4, <2>5, <2>6, Zenon DEF Owned
<1>13. ASSUME NEW t \in Threads
       PROVE  Shape(t) /\ Readable(t)
  <2>1. Undoes(t)
    BY <1>8 DEF Undoes, First
  <2>2. Readable(t)
    BY <1>8 DEF Readable
  <2> QED  BY <2>1, <2>2 DEF Shape
<1> QED  BY <1>7, <1>10, <1>11, <1>12, <1>13 DEF IInv

-----------------------------------------------------------------------------
(***************************************************************************)
(* Every step keeps the invariant.                                         *)
(***************************************************************************)
LEMMA StepsKeep ==
    ASSUME IInv, NEW t \in Threads, Step(t)
    PROVE  IInv'
<1>1. PICK i: i = todo[t][1][2]
  OBVIOUS
<1>2. /\ todo[t] # <<>>
      /\ \/ IncFix(t, i) \/ IncLref(t, i) \/ Rebase(t, i)
         \/ Load(t, i) \/ Read(t, i) \/ Got(t, i)
         \/ DecFix(t, i) \/ DecLref(t, i) \/ DecShare(t, i)
         \/ Unload(t, i) \/ Freed(t, i) \/ Clear(t, i)
         \/ Persist(t, i) \/ Unpersist(t, i)
  BY <1>1, Zenon DEF Step
<1>3. i \in Slots
  <2>1. todo[t] \in Seq(Steps) /\ todo[t] # <<>>
    BY <1>2 DEF IInv, Types
  <2>2. todo[t][1] \in Steps
    BY <2>1
  <2> QED  BY <1>1, <2>2 DEF Steps
<1>4. CASE IncFix(t, i) \/ IncLref(t, i) \/ Rebase(t, i)
  BY <1>3, <1>4, IncFixKeeps, IncLrefKeeps, RebaseKeeps
<1>5. CASE Load(t, i) \/ Read(t, i) \/ Got(t, i)
  BY <1>3, <1>5, LoadKeeps, ReadKeeps, GotKeeps
<1>6. CASE DecFix(t, i) \/ DecLref(t, i) \/ DecShare(t, i)
  BY <1>3, <1>6, DecFixKeeps, DecLrefKeeps, DecShareKeeps
<1>7. CASE Unload(t, i) \/ Freed(t, i) \/ Clear(t, i)
  BY <1>3, <1>7, UnloadKeeps, FreedKeeps, ClearKeeps
<1>8. CASE Persist(t, i) \/ Unpersist(t, i)
  BY <1>3, <1>8, PersistKeeps, UnpersistKeeps
<1> QED  BY <1>2, <1>4, <1>5, <1>6, <1>7, <1>8, Zenon

(* Every call that begins keeps IInv.                                     *)
LEMMA CallsKeep ==
    ASSUME IInv, NEW t \in Threads, Call(t)
    PROVE  IInv'
<1>1. PICK i \in Slots:
        \/ BATdescriptor(t, i) \/ BBPunfix(t, i) \/ BBPretain(t, i) \/ BBPrelease(t, i)
        \/ BBPkeepref(t, i) \/ COLnew(t, i) \/ Update(t, i)
        \/ MakePersistent(t, i) \/ MakeTransient(t, i) \/ TMsubcommit(t, i)
        \/ \E v \in Slots: VIEWcreate(t, i, v) \/ VIEWreset(t, i, v)
        \/ \E u \in Threads: Pass(t, u, i)
  BY Zenon DEF Call
<1>2. CASE BATdescriptor(t, i) \/ BBPunfix(t, i) \/ BBPretain(t, i) \/ BBPrelease(t, i)
  BY <1>2, BATdescriptorKeeps, BBPunfixKeeps, BBPretainKeeps, BBPreleaseKeeps
<1>3. CASE BBPkeepref(t, i) \/ COLnew(t, i) \/ Update(t, i)
  BY <1>3, BBPkeeprefKeeps, COLnewKeeps, UpdateKeeps
<1>4. CASE MakePersistent(t, i) \/ MakeTransient(t, i) \/ TMsubcommit(t, i)
  BY <1>4, MakePersistentKeeps, MakeTransientKeeps, TMsubcommitKeeps
<1>5. CASE \E v \in Slots: VIEWcreate(t, i, v) \/ VIEWreset(t, i, v)
  BY <1>5, VIEWcreateKeeps, VIEWresetKeeps
<1>6. CASE \E u \in Threads: Pass(t, u, i)
  BY <1>6, PassKeeps
<1> QED  BY <1>1, <1>2, <1>3, <1>4, <1>5, <1>6, Zenon

(* A stuttering step keeps IInv.                                          *)
LEMMA StutterKeeps ==
    IInv /\ UNCHANGED vars => IInv'
<1> SUFFICES ASSUME IInv, UNCHANGED vars
             PROVE  IInv'
  OBVIOUS
<1>1. /\ bbp' = bbp /\ todo' = todo /\ fix' = fix /\ lref' = lref /\ lost' = lost /\ calls' = calls
  BY DEF vars
<1>2. \A t, x, i: Left(t, x, i)' = Left(t, x, i)
  BY <1>1 DEF Left
<1>3. \A i: Views(i)' = Views(i) /\ Holding(i)' = Holding(i) /\ Own(i)' = Own(i)
  BY <1>1 DEF Views, Holding, HoldsBase, Own, Left
<1>4. Types'
  BY <1>1 DEF IInv, Types
<1>5. ASSUME NEW i \in Slots
      PROVE  Slot(i)' /\ Counted(i)' /\ Owned(i)'
  <2>1. Slot(i) /\ Counted(i) /\ Owned(i)
    BY DEF IInv
  <2>2. Slot(i)'
    BY <1>1, <2>1 DEF Slot, Unknown, Forgotten, ViewOK, HoldsBase
  <2>3. \A t: /\ Fixes(t, i)' = Fixes(t, i) /\ Lrefs(t, i)' = Lrefs(t, i)
              /\ Loads(t, i)' = Loads(t, i) /\ Unloads(t, i)' = Unloads(t, i) /\ Sets(t, i)' = Sets(t, i)
    BY <1>1, <1>2, <1>3 DEF Fixes, Lrefs, Based, Loads, Unloads, Sets
  <2>4. /\ [t \in Threads |-> Fixes(t, i)'] = [t \in Threads |-> Fixes(t, i)]
        /\ [t \in Threads |-> Lrefs(t, i)'] = [t \in Threads |-> Lrefs(t, i)]
        /\ [t \in Threads |-> Left(t, "unshare", i)'] = [t \in Threads |-> Left(t, "unshare", i)]
        /\ [t \in Threads |-> Loads(t, i)'] = [t \in Threads |-> Loads(t, i)]
        /\ [t \in Threads |-> Unloads(t, i)'] = [t \in Threads |-> Unloads(t, i)]
    BY <1>2, <2>3
  <2>5. /\ bbp'[i].refs = Sum([t \in Threads |-> Fixes(t, i)']) + lost'[i] + Cardinality(Holding(i)')
        /\ bbp'[i].lrefs = Sum([t \in Threads |-> Lrefs(t, i)']) + Own(i)' + Cardinality(Views(i)')
        /\ bbp'[i].share = Sum([t \in Threads |-> Left(t, "unshare", i)']) + Cardinality(Views(i)')
    BY <1>1, <1>3, <2>1, <2>4, Zenon DEF Counted
  <2>6. Counted(i)'
    BY <2>5 DEF Counted, Sum
  <2>7. /\ Flagged(i, "LOADING")' = Flagged(i, "LOADING")
        /\ Flagged(i, "UNLOADING")' = Flagged(i, "UNLOADING")
    BY <1>1 DEF Flagged
  <2>8. /\ Sum([t \in Threads |-> Loads(t, i)']) = Flagged(i, "LOADING")'
        /\ Sum([t \in Threads |-> Unloads(t, i)']) = Flagged(i, "UNLOADING")'
    BY <2>1, <2>4, <2>7, Zenon DEF Owned
  <2>9. \A t, u \in Threads: Sets(t, i)' > 0 /\ Sets(u, i)' > 0 => t = u
    BY <2>1, <2>3 DEF Owned
  <2>10. Owned(i)'
    BY <2>8, <2>9 DEF Owned, Sum
  <2> QED  BY <2>2, <2>6, <2>10
<1>6. ASSUME NEW t \in Threads
      PROVE  Shape(t)' /\ Readable(t)'
  <2>1. Shape(t) /\ Readable(t)
    BY DEF IInv
  <2>2. Undoes(t)' = Undoes(t)
    BY <1>1 DEF Undoes, First
  <2>3. \A i, p: FetchesView(t, i, p)' = FetchesView(t, i, p)
    BY <1>1 DEF FetchesView
  <2>4. \A i: Fetches(t, i)' = Fetches(t, i) /\ Retains(t, i)' = Retains(t, i) /\ Modes(t, i)' = Modes(t, i)
    BY <1>1 DEF Fetches, Retains, Modes
  <2>5. Readable(t)'
    BY <1>1, <2>1 DEF Readable
  <2> QED  BY <2>1, <2>2, <2>3, <2>4, <2>5 DEF Shape
<1> QED  BY <1>4, <1>5, <1>6 DEF IInv

(* IInv is inductive.                                                     *)
LEMMA Inductive ==
    IInv /\ [Next]_vars => IInv'
<1> SUFFICES ASSUME IInv, [Next]_vars
             PROVE  IInv'
  OBVIOUS
<1>1. ASSUME NEW t \in Threads, Step(t) \/ Call(t)
      PROVE  IInv'
  BY <1>1, StepsKeep, CallsKeep
<1> QED  BY <1>1, StutterKeeps DEF Next

-----------------------------------------------------------------------------
(***************************************************************************)
(* What holds in every reachable state, for any threads and slots.         *)
(***************************************************************************)
LEMMA InvTypeOK ==
    IInv => TypeOK
<1> SUFFICES ASSUME IInv
             PROVE  TypeOK
  OBVIOUS
<1>1. ASSUME NEW i \in Slots, NEW b, b = bbp[i]
      PROVE  /\ b.refs \in Nat /\ b.lrefs \in Nat /\ b.share \in Nat
             /\ b.status \subseteq Flags
             /\ Cardinality(b.status \cap {"DELETED", "EXISTING", "NEW"}) <= 1
             /\ "UNLOADING" \in b.status => b.refs = 0
             /\ "LOADING" \in b.status => b.refs > 0
             /\ b.heap \in Addresses \cup {0} /\ (IsView(b) => b.heap = 0)
             /\ b.base \in Addresses \cup {0}
  <2>1. b \in Bats
    BY <1>1 DEF IInv, Types
  <2>2. /\ b.refs \in Nat /\ b.lrefs \in Nat /\ b.share \in Nat /\ b.status \subseteq Flags
        /\ b.heap \in Addresses \cup {0} /\ b.base \in Addresses \cup {0}
    BY <2>1 DEF Bats
  <2>3. b.used \/ b.status = {}
    BY <1>1 DEF IInv, Slot, Empty
  <2>4. b.used => BatOK(b)
    BY <1>1 DEF IInv, Slot
  <2>5. /\ "UNLOADING" \in b.status => b.refs = 0
        /\ "LOADING" \in b.status => b.refs > 0
    BY <2>3, <2>4 DEF BatOK
  <2>6. IsView(b) => b.heap = 0
    BY <1>1, ViewsHaveNone DEF IsView, ViewOK
  <2>7. Cardinality(b.status \cap {"DELETED", "EXISTING", "NEW"}) <= 1
    <3>1. \E x: b.status \cap {"DELETED", "EXISTING", "NEW"} \subseteq {x}
      <4>1. /\ ~("DELETED" \in b.status /\ ("EXISTING" \in b.status \/ "NEW" \in b.status))
            /\ ~("EXISTING" \in b.status /\ "NEW" \in b.status)
        BY <2>3, <2>4 DEF BatOK, Persistent
      <4>2. CASE "DELETED" \in b.status
        <5>1. b.status \cap {"DELETED", "EXISTING", "NEW"} \subseteq {"DELETED"}
          BY <4>1, <4>2
        <5> QED  BY <5>1
      <4>3. CASE "EXISTING" \in b.status
        <5>1. b.status \cap {"DELETED", "EXISTING", "NEW"} \subseteq {"EXISTING"}
          BY <4>1, <4>3
        <5> QED  BY <5>1
      <4>4. CASE "DELETED" \notin b.status /\ "EXISTING" \notin b.status
        <5>1. b.status \cap {"DELETED", "EXISTING", "NEW"} \subseteq {"NEW"}
          BY <4>4
        <5> QED  BY <5>1
      <4> QED  BY <4>2, <4>3, <4>4
    <3>2. PICK x: b.status \cap {"DELETED", "EXISTING", "NEW"} \subseteq {x}
      BY <3>1
    <3>3. IsFiniteSet({x}) /\ Cardinality({x}) = 1
      BY FS_Singleton
    <3>4. Cardinality(b.status \cap {"DELETED", "EXISTING", "NEW"}) <= Cardinality({x})
      BY <3>2, <3>3, FS_Subset
    <3> QED  BY <3>3, <3>4
  <2> QED  BY <2>2, <2>5, <2>6, <2>7
<1>2. \A t \in Threads, i \in Slots: fix[t][i] \in Nat /\ lref[t][i] \in Nat
  BY SlotTypes
<1> QED  BY <1>1, <1>2 DEF TypeOK

(* The counts are exact.                                                  *)
LEMMA InvCounted ==
    IInv => RefsCounted
BY DEF IInv, Counted, RefsCounted

(* Pointers are good.                                                     *)
LEMMA InvHeld ==
    IInv => HeapsHeld
BY RootFacts DEF HeapsHeld

(* A slot is cleared only when nobody refers to it.                       *)
LEMMA InvOwned ==
    IInv => SlotsOwned
<1> SUFFICES ASSUME IInv, NEW i \in Slots
             PROVE  /\ Sum([t \in Threads |-> Unloads(t, i)]) = IF "UNLOADING" \in bbp[i].status THEN 1 ELSE 0
                    /\ ~bbp[i].used => /\ \A t \in Threads: /\ fix[t][i] + lref[t][i] = 0
                                                           /\ \A k \in DOMAIN todo[t]: todo[t][k][2] # i
                                       /\ \A v \in Slots: bbp[v].parent # i
  BY DEF SlotsOwned
<1>1. Slot(i) /\ Owned(i)
  BY DEF IInv
<1>2. Sum([t \in Threads |-> Unloads(t, i)]) = IF "UNLOADING" \in bbp[i].status THEN 1 ELSE 0
  BY <1>1 DEF Owned, Flagged
<1>3. ASSUME ~bbp[i].used
      PROVE  /\ \A t \in Threads: /\ fix[t][i] + lref[t][i] = 0
                                  /\ \A k \in DOMAIN todo[t]: todo[t][k][2] # i
             /\ \A v \in Slots: bbp[v].parent # i
  BY <1>1, <1>3 DEF Slot, Unknown, Forgotten
<1> QED  BY <1>2, <1>3

(* What is not in memory can be read back.                                *)
LEMMA InvSaved ==
    IInv => Saved
<1> SUFFICES ASSUME IInv, NEW i \in Slots, bbp[i].used, bbp[i].lrefs > 0, ~Loaded(bbp[i])
             PROVE  ~BATdirty(bbp[i])
  BY DEF Saved
<1>1. BatOK(bbp[i])
  BY DEF IInv, Slot
<1>2. ~(bbp[i].lrefs = 0)
  BY SlotTypes
<1> QED  BY <1>1, <1>2 DEF BatOK

(* In every state, with any number of threads and bats: what is left of    *)
(* every call has the form that gdk_bbp.c gives it, the counts of every    *)
(* bat are exact, and the flags of its status fit the counts.              *)
THEOREM Invariant == Spec => []IInv
BY InitIInv, Inductive, PTL DEF Spec

(* The values have their types, at most one of BBPDELETED, BBPEXISTING and *)
(* BBPNEW is set (gdk_bbp.h), a bat being unloaded has no fixes and one    *)
(* being loaded has some.                                                  *)
THEOREM TypeCorrect == Spec => []TypeOK
BY Invariant, InvTypeOK, PTL

(* incref and decref, however the calls of the threads interleave, keep    *)
(* the counts of every bat equal to the pointers and references that       *)
(* exist, those of its views and of calls in progress included.            *)
THEOREM RefsCountedKept == Spec => []RefsCounted
BY Invariant, InvCounted, PTL

(* Who has a pointer to a bat, or to a view, can read its heap: nothing is *)
(* unloaded (BBPfree) or moved (BATload_intern) under it, and the base of  *)
(* a view is where the heap of its parent is.                              *)
THEOREM HeapsHeldKept == Spec => []HeapsHeld
BY Invariant, InvHeld, PTL

(* One thread at a time unloads or destroys a bat, and BBPclear frees a    *)
(* slot only when no thread, no call in progress and no view refers to it. *)
THEOREM SlotsOwnedKept == Spec => []SlotsOwned
BY Invariant, InvOwned, PTL

(* decref unloads a bat that somebody still knows only when its image on   *)
(* disk is up to date.                                                     *)
THEOREM SavedKept == Spec => []Saved
BY Invariant, InvSaved, PTL
=============================================================================
