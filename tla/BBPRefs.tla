------------------------------ MODULE BBPRefs ------------------------------
(***************************************************************************)
(* The references to bats and the memory these hold (gdk_bbp.c).  A slot   *)
(* of the BBP counts fixes (refs: somebody has a pointer to the bat) and   *)
(* logical references (lrefs: somebody has its number).  A bat without     *)
(* either is destroyed and its slot used again; a clean persistent bat     *)
(* without fixes is unloaded and loaded when it is needed, at another      *)
(* address.  A view has no heap: its base points into the heap of its      *)
(* parent, of which it keeps a logical reference for its life, and a fix   *)
(* while it is fixed itself.                                               *)
(*                                                                         *)
(* A call is the sequence of what is left of it: each element is what the  *)
(* code does while it holds GDKswapLock of one bat, or between two such    *)
(* sections while a flag in the status keeps others away.                  *)
(*                                                                         *)
(* The clients keep to the rules of the interface: they unfix and release  *)
(* what they have fixed and retained, fix only bats of which they hold a   *)
(* reference, and write to a bat, change its mode or commit it only while  *)
(* nobody else does ("on the bats in this list we assume exclusive access  *)
(* during the operation", gdk_tm.c).                                       *)
(***************************************************************************)
EXTENDS Integers, Sequences, FiniteSets

CONSTANTS
    Threads,
    Slots,      \* the numbers of bats; 0 is none
    Addresses,  \* where a heap may be; 0 is nowhere
    Faults,     \* "load": reading a bat from its files may fail
    MaxCalls    \* bound: number of calls

ASSUME BBPRefsAssumption ==
    /\ Slots \subseteq Nat \ {0} /\ {1, 2} \subseteq Slots /\ IsFiniteSet(Slots)
    /\ Addresses \subseteq Nat \ {0} /\ Addresses # {}
    /\ Faults \subseteq {"load"}
    /\ IsFiniteSet(Threads) /\ MaxCalls \in Nat

VARIABLES
    bbp,    \* the slots: counts, status, and the bat itself
    todo,   \* todo[t]: the rest of the call of thread t, a sequence of <<step, bat>>
    fix,    \* fix[t][i]: pointers to bat i that t has
    lref,   \* lref[t][i]: logical references of t
    lost,   \* lost[i]: fixes nobody can undo any more
    calls

vars == <<bbp, todo, fix, lref, lost, calls>>
clients == <<fix, lref, lost, calls>>

Empty == [used |-> FALSE, refs |-> 0, lrefs |-> 0, share |-> 0, status |-> {},
          parent |-> 0, heap |-> 0, base |-> 0, dirty |-> FALSE, copied |-> FALSE]

Flags == {"LOADED", "TMP", "DELETED", "EXISTING", "NEW", "UNLOADING", "LOADING"}

(* A session is under way: slot 1 is an unloaded bat of the checkpoint,    *)
(* which all threads know; so they do a view of it in slot 2, if there is  *)
(* one, which nobody has fixed.                                            *)
Known == [Empty EXCEPT !.used = TRUE, !.lrefs = Cardinality(Threads)]
Base1 == [Known EXCEPT !.lrefs = @ + 1, !.status = {"EXISTING"}, !.copied = TRUE]
View2 == [Known EXCEPT !.status = {"LOADED"}, !.parent = 1, !.dirty = TRUE]

Init ==
    /\ \/ bbp = [i \in Slots |-> IF i = 1 THEN Base1 ELSE Empty]
       \/ bbp = [i \in Slots |-> CASE i = 1 -> [Base1 EXCEPT !.lrefs = @ + 1, !.share = 1]
                                   [] i = 2 -> View2
                                   [] OTHER -> Empty]
    /\ lref = [t \in Threads |-> [i \in Slots |-> IF bbp[i].used THEN 1 ELSE 0]]
    /\ todo = [t \in Threads |-> <<>>]
    /\ fix = [t \in Threads |-> [i \in Slots |-> 0]]
    /\ lost = [i \in Slots |-> 0]
    /\ calls = 0

Loaded(b)     == "LOADED" \in b.status
IsView(b)     == b.parent # 0
Persistent(b) == b.status \cap {"EXISTING", "NEW"} # {}
BATdirty(b)   == b.dirty \/ ~b.copied

(* BBPUNSTABLE | BBPLOADING, and BBPWAITING: BBPDELETING is set in slots   *)
(* nobody knows yet, BBPSAVING never (BBPfree has nothing to save).        *)
Unstable(b) == b.status \cap {"UNLOADING", "LOADING"} # {}

At(t, step, i) == todo[t] # <<>> /\ todo[t][1] = <<step, i>>
Then(t, steps) == todo' = [todo EXCEPT ![t] = steps \o Tail(@)]

-----------------------------------------------------------------------------
(***************************************************************************)
(* incref                                                                  *)
(***************************************************************************)
Unguarded == {}                         \* mutant: others do not wait for the parent
WhileRebased == {"LOADING"}

(* A fix.  Whoever fixes a view first loads its parent, and others wait    *)
(* until the view has its base.                                            *)
IncFix(t, i) ==
    LET b == bbp[i]
        first == b.refs = 0 /\ IsView(b)
    IN  /\ At(t, "fix", i) /\ ~Unstable(b)
        /\ bbp' = [bbp EXCEPT ![i].refs = @ + 1,
                              ![i].status = IF first THEN @ \cup WhileRebased ELSE @]
        /\ Then(t, IF first THEN << <<"fix", b.parent>>, <<"load", b.parent>>, <<"base", i>> >>
                            ELSE <<>>)
        /\ UNCHANGED clients

IncLref(t, i) ==
    /\ At(t, "retain", i) /\ ~Unstable(bbp[i])
    /\ bbp' = [bbp EXCEPT ![i].lrefs = @ + 1]
    /\ Then(t, <<>>)
    /\ UNCHANGED clients

Rebase(t, i) ==
    /\ At(t, "base", i)
    /\ bbp' = [bbp EXCEPT ![i].base = bbp[bbp[i].parent].heap + @,
                          ![i].status = @ \ {"LOADING"}]
    /\ Then(t, <<>>)
    /\ UNCHANGED clients

-----------------------------------------------------------------------------
(***************************************************************************)
(* getBBPdescriptor                                                        *)
(***************************************************************************)
Load(t, i) ==
    /\ At(t, "load", i)
    /\ \/ Loaded(bbp[i]) /\ Then(t, <<>>) /\ UNCHANGED bbp
       \/ /\ ~Loaded(bbp[i]) /\ ~Unstable(bbp[i])
          /\ bbp' = [bbp EXCEPT ![i].status = @ \cup {"LOADING"}]
          /\ Then(t, << <<"read", i>> >>)
    /\ UNCHANGED clients

(* BATload_intern, which may fail.  (A parent that cannot be read is not   *)
(* modelled: incref uses the NULL pointer it gets.)                        *)
Read(t, i) ==
    /\ At(t, "read", i)
    /\ \/ \E a \in Addresses:
            bbp' = [bbp EXCEPT ![i].status = (@ \ {"LOADING"}) \cup {"LOADED"},
                               ![i].heap = a, ![i].dirty = FALSE]
       \/ /\ "load" \in Faults /\ todo[t][2] = <<"got", i>>
          /\ bbp' = [bbp EXCEPT ![i].status = @ \ {"LOADING"}]
    /\ Then(t, <<>>)
    /\ UNCHANGED clients

(* BATdescriptor returns.  If it returns NULL the fix stays.               *)
Got(t, i) ==
    /\ At(t, "got", i)
    /\ IF Loaded(bbp[i]) THEN fix' = [fix EXCEPT ![t][i] = @ + 1] /\ UNCHANGED lost
                         ELSE lost' = [lost EXCEPT ![i] = @ + 1] /\ UNCHANGED fix
    /\ Then(t, <<>>)
    /\ UNCHANGED <<bbp, lref, calls>>

-----------------------------------------------------------------------------
(***************************************************************************)
(* decref                                                                  *)
(***************************************************************************)
KeepsLogical(b) == \/ b.refs > 0        \* mutant: a dirty bat is unloaded
                   \/ b.lrefs > 0 /\ (~Loaded(b) \/ ~Persistent(b))
Keeps(b) == \/ b.refs > 0
            \/ b.lrefs > 0 /\ (~Loaded(b) \/ BATdirty(b) \/ ~Persistent(b))

(* Bat i with one reference less, b, is unloaded if it can be.             *)
Dropped(t, i, b, after) ==
    LET swap == ~Keeps(b) /\ (Loaded(b) \/ "TMP" \in b.status)
    IN  /\ bbp' = [bbp EXCEPT ![i] =
                      IF swap THEN [b EXCEPT !.status = @ \cup {"UNLOADING"}] ELSE b]
        /\ Then(t, (IF swap /\ Loaded(b) THEN << <<"unload", i>> >> ELSE <<>>) \o after)
        /\ UNCHANGED clients

AnyTime(b) == TRUE                      \* mutant: nobody waits for the end of an unloading
MayDrop(b) == "UNLOADING" \notin b.status

Offset(i) == bbp[i].base - bbp[bbp[i].parent].heap

(* The last fix of a view goes: its base becomes an offset, and the fix of *)
(* its parent goes after everything else.                                  *)
DecFix(t, i) ==
    LET last == bbp[i].refs = 1 /\ Loaded(bbp[i]) /\ IsView(bbp[i])
        b == [bbp[i] EXCEPT !.refs = @ - 1, !.base = IF last THEN Offset(i) ELSE @]
    IN  /\ At(t, "unfix", i) /\ MayDrop(b)
        /\ Dropped(t, i, b, IF last THEN << <<"unfix", b.parent>> >> ELSE <<>>)

DecLref(t, i) ==
    /\ At(t, "release", i) /\ MayDrop(bbp[i])
    /\ Dropped(t, i, [bbp[i] EXCEPT !.lrefs = @ - 1], <<>>)

(* GDKunshare, its first half.                                             *)
DecShare(t, i) ==
    /\ At(t, "unshare", i)
    /\ bbp' = [bbp EXCEPT ![i].share = @ - 1]
    /\ Then(t, <<>>)
    /\ UNCHANGED clients

(* BBPdestroy, or BBPfree of a bat that is needed again or of which the    *)
(* checkpoint has an image.  BBPfree never saves: the bat is clean or has  *)
(* no logical reference.                                                   *)
Unload(t, i) ==
    LET destroy == bbp[i].lrefs = 0 /\ "DELETED" \notin bbp[i].status
    IN  /\ At(t, "unload", i)
        /\ bbp' = [bbp EXCEPT ![i].heap = 0, ![i].base = 0,
                              ![i].status = IF destroy THEN @ ELSE @ \ {"LOADED"}]
        /\ Then(t, IF destroy THEN << <<"clear", i>> >> ELSE << <<"freed", i>> >>)
        /\ UNCHANGED clients

StillUnloading(b) == b.status           \* mutant: the flag is not reset
Stable(b) == b.status \ {"UNLOADING"}

(* The end of BBPfree (a view is never persistent and does not get here).  *)
Freed(t, i) ==
    /\ At(t, "freed", i)
    /\ bbp' = [bbp EXCEPT ![i].status = Stable(bbp[i])]
    /\ Then(t, <<>>)
    /\ UNCHANGED clients

NoRelease(p) == << <<"unshare", p>> >>  \* mutant: only the count of views
GDKunshare(p) == << <<"unshare", p>>, <<"release", p>> >>

(* BBPclear: the slot is free, and the parent loses its view.              *)
Clear(t, i) ==
    /\ At(t, "clear", i)
    /\ bbp' = [bbp EXCEPT ![i] = Empty]
    /\ Then(t, IF IsView(bbp[i]) THEN GDKunshare(bbp[i].parent) ELSE <<>>)
    /\ UNCHANGED clients

-----------------------------------------------------------------------------
(***************************************************************************)
(* The calls.                                                              *)
(***************************************************************************)
Idle(t) == todo[t] = <<>>
Called(t, steps) ==
    /\ Idle(t) /\ calls < MaxCalls
    /\ calls' = calls + 1
    /\ todo' = [todo EXCEPT ![t] = steps]

More(counts, t, i) == [counts EXCEPT ![t][i] = @ + 1]
Less(counts, t, i) == [counts EXCEPT ![t][i] = @ - 1]
Unused == {i \in Slots : ~bbp[i].used}

BATdescriptor(t, i) ==
    /\ fix[t][i] + lref[t][i] > 0
    /\ Called(t, << <<"fix", i>>, <<"load", i>>, <<"got", i>> >>)
    /\ UNCHANGED <<bbp, fix, lref, lost>>

BBPunfix(t, i) ==
    /\ fix[t][i] > 0
    /\ Called(t, << <<"unfix", i>> >>)
    /\ fix' = Less(fix, t, i)
    /\ UNCHANGED <<bbp, lref, lost>>

BBPretain(t, i) ==
    /\ fix[t][i] + lref[t][i] > 0
    /\ Called(t, << <<"retain", i>> >>)
    /\ lref' = More(lref, t, i)
    /\ UNCHANGED <<bbp, fix, lost>>

BBPrelease(t, i) ==
    /\ lref[t][i] > 0
    /\ Called(t, << <<"release", i>> >>)
    /\ lref' = Less(lref, t, i)
    /\ UNCHANGED <<bbp, fix, lost>>

(* A fix becomes a logical reference.                                      *)
BBPkeepref(t, i) ==
    /\ fix[t][i] > 0
    /\ Called(t, << <<"retain", i>>, <<"unfix", i>> >>)
    /\ fix' = Less(fix, t, i) /\ lref' = More(lref, t, i)
    /\ UNCHANGED <<bbp, lost>>

(* Another thread gets to know a bat: a variable of a MAL program, which   *)
(* any worker may use, holds the reference.                                *)
Pass(t, u, i) ==
    /\ t # u /\ lref[t][i] > 0
    /\ Called(t, <<>>)
    /\ lref' = More(Less(lref, t, i), u, i)
    /\ UNCHANGED <<bbp, fix, lost>>

NewBat(a) == [Empty EXCEPT !.used = TRUE, !.refs = 1, !.status = {"LOADED"},
                           !.heap = a, !.dirty = TRUE]

COLnew(t, i) ==
    /\ i \in Unused /\ Called(t, <<>>)
    /\ \E a \in Addresses: bbp' = [bbp EXCEPT ![i] = NewBat(a)]
    /\ fix' = More(fix, t, i)
    /\ UNCHANGED <<lref, lost>>

(* BBPshare of the bat that has the heap, and a slot for the view.         *)
Root(i) == IF IsView(bbp[i]) THEN bbp[i].parent ELSE i
Base(i) == IF IsView(bbp[i]) THEN bbp[i].base ELSE bbp[i].heap

Shared(i, v) ==
    [bbp EXCEPT ![Root(i)].refs = @ + 1, ![Root(i)].lrefs = @ + 1, ![Root(i)].share = @ + 1,
                ![v] = [NewBat(0) EXCEPT !.parent = Root(i), !.base = Base(i)]]

VIEWcreate(t, i, v) ==
    /\ fix[t][i] > 0 /\ v \in Unused
    /\ Called(t, <<>>)
    /\ bbp' = Shared(i, v)
    /\ fix' = More(fix, t, v)
    /\ UNCHANGED <<lref, lost>>

OnlyUser(t, i) ==
    /\ fix[t][i] > 0
    /\ \A u \in Threads \ {t}: /\ fix[u][i] = 0
                                /\ \A k \in DOMAIN todo[u]: todo[u][k][2] # i

(* A view gets a heap of its own (BATsetaccess), copied from a second view *)
(* v of its parent.                                                        *)
VIEWreset(t, i, v) ==
    LET p == bbp[i].parent IN
    /\ OnlyUser(t, i) /\ IsView(bbp[i]) /\ v \in Unused
    /\ Called(t, GDKunshare(p) \o << <<"unfix", p>>, <<"unfix", v>> >>)
    /\ \E a \in Addresses:
        bbp' = [Shared(i, v) EXCEPT ![i].parent = 0, ![i].base = 0, ![i].heap = a]
    /\ UNCHANGED <<fix, lref, lost>>

(* Appending or replacing, which bats with views refuse (ALIGNapp,         *)
(* BUNinplace); the heap may move.                                         *)
Update(t, i) ==
    /\ OnlyUser(t, i) /\ ~IsView(bbp[i]) /\ bbp[i].share = 0
    /\ Called(t, <<>>)
    /\ \E a \in Addresses: bbp' = [bbp EXCEPT ![i].heap = a, ![i].dirty = TRUE]
    /\ UNCHANGED <<fix, lref, lost>>

(* BATmode.                                                                *)
SetsMode(t, i) == /\ fix[t][i] > 0 /\ ~IsView(bbp[i])
                  /\ \A u \in Threads: \A k \in DOMAIN todo[u]:
                        todo[u][k] \notin {<<"persist", i>>, <<"unpersist", i>>}

MakePersistent(t, i) ==
    /\ SetsMode(t, i) /\ ~Persistent(bbp[i])
    /\ Called(t, << <<"retain", i>>, <<"persist", i>> >>)
    /\ UNCHANGED <<bbp, fix, lref, lost>>

MakeTransient(t, i) ==
    /\ SetsMode(t, i) /\ Persistent(bbp[i])
    /\ Called(t, << <<"release", i>>, <<"unpersist", i>> >>)
    /\ UNCHANGED <<bbp, fix, lref, lost>>

OnlyNew(b) == b.status \cup {"NEW"}     \* mutant: a deleted bat becomes new
PersistentStatus(b) ==
    (b.status \ ({"DELETED"} \cup IF b.copied THEN {"TMP"} ELSE {}))
        \cup (IF "DELETED" \in b.status THEN {"EXISTING"} ELSE {"NEW"})
TransientStatus(b) ==
    (b.status \ {"EXISTING", "NEW"})
        \cup (IF "NEW" \in b.status THEN {} ELSE {"DELETED"})
        \cup (IF b.copied THEN {"TMP"} ELSE {})

Persist(t, i) ==
    /\ At(t, "persist", i)
    /\ bbp' = [bbp EXCEPT ![i].status = PersistentStatus(bbp[i])]
    /\ Then(t, <<>>)
    /\ UNCHANGED clients

Unpersist(t, i) ==
    /\ At(t, "unpersist", i)
    /\ bbp' = [bbp EXCEPT ![i].status = TransientStatus(bbp[i])]
    /\ Then(t, <<>>)
    /\ UNCHANGED clients

(* TMsubcommit of one bat: it is saved, and epilogue brings its status up  *)
(* to date, or destroys it if it was deleted and nobody uses it any more.  *)
Committed(b) ==
    IF Persistent(b)
    THEN [b EXCEPT !.status = (@ \ {"NEW"}) \cup {"EXISTING"}, !.dirty = FALSE, !.copied = TRUE]
    ELSE IF b.refs = 0 /\ b.lrefs = 0 THEN Empty
    ELSE [b EXCEPT !.status = @ \ {"DELETED"}]

TMsubcommit(t, i) ==
    /\ Persistent(bbp[i]) \/ "DELETED" \in bbp[i].status
    /\ \A u \in Threads: \A k \in DOMAIN todo[u]: todo[u][k][2] # i
    /\ Called(t, <<>>)
    /\ bbp' = [bbp EXCEPT ![i] = Committed(@)]
    /\ UNCHANGED <<fix, lref, lost>>

-----------------------------------------------------------------------------
Step(t) ==
    /\ todo[t] # <<>>
    /\ LET i == todo[t][1][2] IN
        \/ IncFix(t, i) \/ IncLref(t, i) \/ Rebase(t, i)
        \/ Load(t, i) \/ Read(t, i) \/ Got(t, i)
        \/ DecFix(t, i) \/ DecLref(t, i) \/ DecShare(t, i)
        \/ Unload(t, i) \/ Freed(t, i) \/ Clear(t, i)
        \/ Persist(t, i) \/ Unpersist(t, i)

Call(t) ==
    \E i \in Slots:
        \/ BATdescriptor(t, i) \/ BBPunfix(t, i) \/ BBPretain(t, i) \/ BBPrelease(t, i)
        \/ BBPkeepref(t, i) \/ COLnew(t, i) \/ Update(t, i)
        \/ MakePersistent(t, i) \/ MakeTransient(t, i) \/ TMsubcommit(t, i)
        \/ \E v \in Slots: VIEWcreate(t, i, v) \/ VIEWreset(t, i, v)
        \/ \E u \in Threads: Pass(t, u, i)

Next == \E t \in Threads: Step(t) \/ Call(t)

Spec == Init /\ [][Next]_vars

(* A thread in a call goes on; it polls for what it waits for.             *)
FairSpec == Spec /\ \A t \in Threads: WF_vars(Step(t))

-----------------------------------------------------------------------------
(***************************************************************************)
(* Properties                                                              *)
(***************************************************************************)

(* Types, and what gdk_bbp.h says of the flags: "only at most one of       *)
(* BBPDELETED, BBPEXISTING, and BBPNEW may be set at any one time"; a bat  *)
(* being unloaded has no fixes (BBPswappable), one being loaded has some.  *)
TypeOK ==
    /\ \A i \in Slots: LET b == bbp[i] IN
        /\ b.refs \in Nat /\ b.lrefs \in Nat /\ b.share \in Nat
        /\ b.status \subseteq Flags
        /\ Cardinality(b.status \cap {"DELETED", "EXISTING", "NEW"}) <= 1
        /\ "UNLOADING" \in b.status => b.refs = 0
        /\ "LOADING" \in b.status => b.refs > 0
        /\ b.heap \in Addresses \cup {0} /\ (IsView(b) => b.heap = 0)
        /\ b.base \in Addresses \cup {0}
    /\ \A t \in Threads, i \in Slots: fix[t][i] \in Nat /\ lref[t][i] \in Nat

(* The sum of one number for each thread, and how often a step is left in  *)
(* the call of t.                                                          *)
Sum(f) == Cardinality(UNION {{t} \X (1 .. f[t]) : t \in Threads})
Left(t, step, i) == Cardinality({k \in DOMAIN todo[t] : todo[t][k] = <<step, i>>})

Views(i) == {v \in Slots : bbp[v].used /\ bbp[v].parent = i}
HoldsBase(v) == bbp[v].refs > 0 /\ "LOADING" \notin bbp[v].status
Holding(i) == {v \in Views(i) : HoldsBase(v)}

(* The fixes of bat i that t has: to use it, to undo, on the way to the    *)
(* end of BATdescriptor, and for the base of a view.                       *)
Based(t, i) == IF \E v \in Views(i): Left(t, "base", v) > 0 THEN 1 ELSE 0
Fixes(t, i) == fix[t][i] + Left(t, "unfix", i) + Left(t, "got", i) - Left(t, "fix", i) + Based(t, i)

(* Its logical references: to use it, to give up, or for the checkpoint.   *)
Lrefs(t, i) == lref[t][i] + Left(t, "release", i) + Left(t, "persist", i) - Left(t, "retain", i)
Own(i) == IF Persistent(bbp[i]) /\ \A t \in Threads: Left(t, "unpersist", i) = 0 THEN 1 ELSE 0

(* The counts of a bat are exactly the pointers and the references that    *)
(* exist, those of its views and those that calls in progress have made    *)
(* and will undo: nothing is destroyed too early, and nothing is kept for  *)
(* ever (except for the fix of a BATdescriptor that failed).               *)
RefsCounted ==
    \A i \in Slots:
        /\ bbp[i].refs = Sum([t \in Threads |-> Fixes(t, i)]) + lost[i] + Cardinality(Holding(i))
        /\ bbp[i].lrefs = Sum([t \in Threads |-> Lrefs(t, i)]) + Own(i) + Cardinality(Views(i))
        /\ bbp[i].share = Sum([t \in Threads |-> Left(t, "unshare", i)]) + Cardinality(Views(i))

(* Who has a pointer to a bat can read it: its heap is in memory, and the  *)
(* base of a view is where the heap of its parent is now.                  *)
HeapsHeld ==
    \A t \in Threads, i \in Slots: fix[t][i] > 0 =>
        /\ Loaded(bbp[i])
        /\ Base(i) # 0 /\ Base(i) = bbp[Root(i)].heap

(* A bat is unloaded by one thread at a time, which is the reason for      *)
(* UNLOADING, and a slot is given away only when no call that is still     *)
(* going on, no thread and no view refers to it.                           *)
Unloads(t, i) == Left(t, "unload", i) + Left(t, "freed", i) + Left(t, "clear", i)
SlotsOwned ==
    \A i \in Slots:
        /\ Sum([t \in Threads |-> Unloads(t, i)]) = IF "UNLOADING" \in bbp[i].status THEN 1 ELSE 0
        /\ ~bbp[i].used => /\ \A t \in Threads: /\ fix[t][i] + lref[t][i] = 0
                                               /\ \A k \in DOMAIN todo[t]: todo[t][k][2] # i
                           /\ \A v \in Slots: bbp[v].parent # i

(* What is unloaded although somebody knows it can be read back: its image *)
(* is on disk, and nothing was written to it since.                        *)
Saved == \A i \in Slots: LET b == bbp[i] IN
    b.used /\ b.lrefs > 0 /\ ~Loaded(b) => ~BATdirty(b)

(* Every call returns: the waiting for flags of other bats' unloading and  *)
(* loading has no cycle, and every flag is reset.                          *)
CallsReturn == \A t \in Threads: (todo[t] # <<>>) ~> (todo[t] = <<>>)
=============================================================================
