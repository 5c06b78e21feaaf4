---------------------------- MODULE SQLSequence ----------------------------
(***************************************************************************)
(* The numbers of a sequence (store_sequence.c).  The definition of a      *)
(* sequence belongs to the catalog: each transaction has its own copy.     *)
(* Its counter does not: one entry in memory serves all transactions, and  *)
(* a number once handed out is gone, whatever becomes of the transaction.  *)
(* So that a restart does not hand it out again, the log holds a number    *)
(* above it, which is written for cacheinc numbers at once.                *)
(***************************************************************************)
EXTENDS Integers

CONSTANTS
    Sessions,
    Definitions,  \* what ALTER SEQUENCE may make of the sequence
    Starts,       \* where RESTART WITH may begin
    Nothing,      \* no entry in memory, no number in the log, no transaction
    MaxNumber     \* bound: above it no number is asked for

ASSUME SQLSequenceAssumption ==
    /\ Definitions # {}
    /\ Definitions \subseteq [min : Nat, max : Nat, increment : Nat \ {0},
                              cacheinc : Nat \ {0}, cycle : BOOLEAN]
    /\ Starts \subseteq Nat /\ Starts # {}
    /\ Nothing \notin Int
    /\ Nothing \notin [called : BOOLEAN, cur : Int, cached : Int]
    /\ Nothing \notin Sessions
    /\ Nothing \notin [seq : Definitions, start : Starts, altered : BOOLEAN, current : BOOLEAN]
    /\ MaxNumber \in Nat

VARIABLES
    def,     \* the committed sequence
    own,     \* own[t]: the sequence as the transaction of session t has it
    s,       \* the entry of the sequence in sql_seqs
    logged,  \* the number of the sequence in the log, on disk
    bulk,    \* who hands out numbers for a column, under store_lock
    save,    \* whether it has to log
    given,   \* numbers handed out since the last RESTART or cycle
    pending  \* those of them that are in a column not yet returned

vars == <<def, own, s, logged, bulk, save, given, pending>>

Transaction == [seq : Definitions, start : Starts, altered : BOOLEAN, current : BOOLEAN]

Init ==
    /\ def \in [seq : Definitions, start : Starts, altered : {FALSE}, current : {TRUE}]
    /\ own = [t \in Sessions |-> Nothing]
    /\ s = Nothing /\ logged = Nothing
    /\ bulk = Nothing /\ save = FALSE
    /\ given = {} /\ pending = {}

-----------------------------------------------------------------------------
(***************************************************************************)
(* What a call does to the entry.                                          *)
(***************************************************************************)
At(n) == [called |-> FALSE, cur |-> n, cached |-> n]

(* An entry that was not in the list yet begins where the log says.        *)
sql_create_sequence(seq) == At(IF logged = Nothing THEN seq.start ELSE logged)
Entry(seq) == IF s = Nothing THEN sql_create_sequence(seq) ELSE s

InBounds(d, n) == (d.max = 0 \/ n <= d.max) /\ (d.min = 0 \/ n >= d.min)

(* The number after those handed out, before the bounds are looked at.     *)
Following(d, e) == IF e.called THEN e.cur + d.increment ELSE e.cur

Fails(d, e)  == ~InBounds(d, Following(d, e)) /\ ~d.cycle
Cycles(d, e) == ~InBounds(d, Following(d, e)) /\ d.cycle
Number(d, e) == IF Cycles(d, e) THEN d.min ELSE Following(d, e)

NoMargin(d, n) == n                     \* mutant: the log holds the number itself
Margin(d, n) == n + d.cacheinc * d.increment

(* seq_next_value has a new cached number whenever it cycles, and          *)
(* seqbulk_next_value only when it comes to the one it has.                *)
Advanced(d, e, always) ==
    LET n == Number(d, e) IN
    [called |-> TRUE, cur |-> n, cached |-> IF always \/ n = e.cached THEN Margin(d, n) ELSE e.cached]

(* A call that fails has moved cur all the same.                           *)
Failed(d, e) == [e EXCEPT !.cur = Following(d, e)]

-----------------------------------------------------------------------------
(***************************************************************************)
(* Transactions.                                                           *)
(***************************************************************************)
Active(t) == own[t] # Nothing
Unlocked == bulk = Nothing
entry == <<s, logged, given>>
column == <<bulk, save, pending>>

Begin(t) ==
    /\ ~Active(t) /\ Unlocked
    /\ own' = [own EXCEPT ![t] = def]
    /\ UNCHANGED <<def, entry, column>>

(* One who changed the catalog commits only if nobody else did since it    *)
(* began.                                                                  *)
Outdated(u) == IF Active(u) THEN [own[u] EXCEPT !.current = FALSE] ELSE Nothing

Commit(t) ==
    /\ Active(t) /\ Unlocked
    /\ IF own[t].altered
       THEN /\ own[t].current
            /\ def' = [own[t] EXCEPT !.altered = FALSE]
            /\ own' = [u \in Sessions |-> IF u = t THEN Nothing ELSE Outdated(u)]
       ELSE own' = [own EXCEPT ![t] = Nothing] /\ UNCHANGED def
    /\ UNCHANGED <<entry, column>>

Rollback(t) ==
    /\ Active(t) /\ Unlocked
    /\ own' = [own EXCEPT ![t] = Nothing]
    /\ UNCHANGED <<def, entry, column>>

Altered(o, d, n) ==
    [o EXCEPT !.seq = d, !.start = n, !.altered = o.altered \/ d # o.seq \/ n # o.start]

(* ALTER SEQUENCE (list_alter_seq needs a RESTART in every one), and the   *)
(* restart of a truncated table.  The counter restarts for everybody, at   *)
(* once.                                                                   *)
Restart(t, d, n) ==
    /\ Active(t) /\ Unlocked
    /\ own' = [own EXCEPT ![t] = Altered(@, d, n)]
    /\ s' = At(n)
    /\ logged' = IF InBounds(d, n) THEN n ELSE logged
    /\ given' = {}
    /\ UNCHANGED <<def, column>>

-----------------------------------------------------------------------------
(***************************************************************************)
(* Numbers.                                                                *)
(***************************************************************************)
Asked(t) == Active(t) /\ Following(own[t].seq, Entry(own[t])) <= MaxNumber

Saves(d, e) == Cycles(d, e) \/ Number(d, e) = e.cached

seq_next_value(t) ==
    LET d == own[t].seq
        e == Entry(own[t])
    IN  /\ Asked(t) /\ Unlocked
        /\ IF Fails(d, e)
           THEN s' = Failed(d, e) /\ UNCHANGED <<logged, given>>
           ELSE /\ s' = Advanced(d, e, Cycles(d, e))
                /\ logged' = IF Saves(d, e) THEN s'.cached ELSE logged
                /\ given' = (IF Cycles(d, e) THEN {} ELSE given) \cup {Number(d, e)}
        /\ UNCHANGED <<def, own, column>>

(* Telling the next number makes the entry, if there is none.              *)
seq_get_value(t) ==
    /\ Active(t) /\ Unlocked
    /\ s' = Entry(own[t])
    /\ UNCHANGED <<def, own, logged, given, column>>

(* mvc_bat_next_value: store_lock is held from the first to the last.      *)
seqbulk_create(t) ==
    /\ Active(t) /\ Unlocked
    /\ bulk' = t /\ save' = FALSE /\ pending' = {}
    /\ s' = Entry(own[t])
    /\ UNCHANGED <<def, own, logged, given>>

seqbulk_next_value(t) ==
    LET d == own[t].seq IN
    /\ bulk = t /\ Asked(t) /\ ~Fails(d, s)
    /\ s' = Advanced(d, s, FALSE)
    /\ save' = (save \/ Saves(d, s))
    /\ pending' = (IF Cycles(d, s) THEN {} ELSE pending) \cup {Number(d, s)}
    /\ given' = IF Cycles(d, s) THEN {} ELSE given
    /\ UNCHANGED <<def, own, logged, bulk>>

KeepsSave == bulk' = Nothing /\ save' = save /\ pending' = {}  \* mutant: save is not reset
Unlock == bulk' = Nothing /\ save' = FALSE /\ pending' = {}

(* All numbers, or one that fails and ends the statement.                  *)
seqbulk_destroy(t) ==
    /\ bulk = t
    /\ \/ s' = s /\ given' = given \cup pending
       \/ /\ Asked(t) /\ Fails(own[t].seq, s)
          /\ s' = Failed(own[t].seq, s) /\ given' = given
    /\ logged' = IF save THEN s.cached ELSE logged
    /\ Unlock
    /\ UNCHANGED <<def, own>>

(* The process dies.                                                       *)
Crash ==
    /\ own' = [t \in Sessions |-> Nothing]
    /\ s' = Nothing
    /\ Unlock
    /\ UNCHANGED <<def, logged, given>>

Next ==
    \/ \E t \in Sessions:
        \/ Begin(t) \/ Commit(t) \/ Rollback(t)
        \/ \E d \in Definitions, n \in Starts: Restart(t, d, n)
        \/ seq_next_value(t) \/ seq_get_value(t)
        \/ seqbulk_create(t) \/ seqbulk_next_value(t) \/ seqbulk_destroy(t)
    \/ Crash

Spec == Init /\ [][Next]_vars

-----------------------------------------------------------------------------
(***************************************************************************)
(* Properties                                                              *)
(***************************************************************************)

(* Types; store_lock is held by a transaction, and only then are there     *)
(* numbers in a column not yet returned.                                   *)
TypeOK ==
    /\ def \in Transaction /\ own \in [Sessions -> Transaction \cup {Nothing}]
    /\ s \in [called : BOOLEAN, cur : Int, cached : Int] \cup {Nothing}
    /\ logged \in Int \cup {Nothing}
    /\ given \subseteq Int /\ pending \subseteq Int
    /\ bulk \in Sessions \cup {Nothing} /\ save \in BOOLEAN
    /\ IF Unlocked THEN pending = {} /\ ~save ELSE s # Nothing /\ Active(bulk)

Fresh(d, e, numbers) == Fails(d, e) \/ Cycles(d, e) \/ Number(d, e) \notin numbers

(* No number is handed out twice but by a RESTART or a cycle: what a call  *)
(* returns next, of whatever transaction, has not been handed out, nor has *)
(* what it would return after a crash.  (What a crashed statement had in   *)
(* its column is not lost to anybody.)                                     *)
NoRepeat ==
    \A seq \in ({def} \cup {own[t] : t \in Sessions}) \ {Nothing}:
        /\ Fresh(seq.seq, Entry(seq), given \cup pending)
        /\ Fresh(seq.seq, sql_create_sequence(seq), given)

(* The transactions agree on the steps and the bounds of the sequence: an  *)
(* ALTER changes no more than cacheinc, cycle and the start.               *)
Agreed ==
    \A d, e \in Definitions: d.increment = e.increment /\ d.min = e.min /\ d.max = e.max
=============================================================================
