---------------------------- MODULE SerialStore ----------------------------
(***************************************************************************)
(* What transactions promise: every session works on the contents that     *)
(* were committed when it began, and the transactions that change          *)
(* something take effect one at a time, each on the contents it has read.  *)
(*                                                                         *)
(* The contents of a column are the set of the marks left in it, one mark  *)
(* per transaction that added rows to it.                                  *)
(***************************************************************************)
EXTENDS Naturals

CONSTANTS Sessions, Columns, Marks

VARIABLES
    db,     \* the committed contents of every column, and the schema's version
    work    \* what each session has done since it began

vars == <<db, work>>

Contents == [rows : [Columns -> SUBSET Marks], schema : Nat]

Idle == [active |-> FALSE]

Begun(mark, contents) ==
    [active |-> TRUE, mark |-> mark, snap |-> contents, read |-> {},
     added |-> {}, cleared |-> {}, altered |-> FALSE]

\* The column as the transaction leaves it, if it starts from these rows.
Applied(w, c, rows) == (IF c \in w.cleared THEN {} ELSE rows)
                          \union (IF c \in w.added THEN {w.mark} ELSE {})

Changes(w) == w.added \union w.cleared # {} \/ w.altered

Init == /\ db \in Contents
        /\ work = [s \in Sessions |-> Idle]

Begin(s) == /\ ~work[s].active
            /\ \E mark \in Marks : work' = [work EXCEPT ![s] = Begun(mark, db)]
            /\ UNCHANGED db

Operate(s) ==
    /\ work[s].active
    /\ \E C \in SUBSET Columns :
        \/ work' = [work EXCEPT ![s].read = @ \union C]
        \/ work' = [work EXCEPT ![s].added = @ \union C]
        \/ work' = [work EXCEPT ![s].added = @ \union C, ![s].read = @ \union C]
        \/ work' = [work EXCEPT ![s].added = @ \ C, ![s].cleared = @ \union C]
        \/ work' = [work EXCEPT ![s].altered = TRUE]
    /\ UNCHANGED db

\* What the transaction has read is still there, so it could as well have run
\* in this instant; if it only reads, it could have run when it began.
Commit(s) ==
    LET w == work[s] IN
    /\ w.active
    /\ Changes(w) => /\ \A c \in w.read : w.snap.rows[c] = db.rows[c]
                     /\ w.snap.schema = db.schema
    /\ work' = [work EXCEPT ![s] = Idle]
    /\ db' = [rows   |-> [c \in Columns |-> Applied(w, c, db.rows[c])],
              schema |-> db.schema + (IF w.altered THEN 1 ELSE 0)]

Abort(s) == /\ work[s].active
            /\ work' = [work EXCEPT ![s] = Idle]
            /\ UNCHANGED db

Next == \E s \in Sessions : Begin(s) \/ Operate(s) \/ Commit(s) \/ Abort(s)

Spec == Init /\ [][Next]_vars
=============================================================================
