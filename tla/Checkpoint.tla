----------------------------- MODULE Checkpoint -----------------------------
(***************************************************************************)
(* What the buffer pool promises of its checkpoints (the comments above    *)
(* TMcommit and TMsubcommit_list in gdk_tm.c and above BBPsync in          *)
(* gdk_bbp.c): a checkpoint is "equal to the previous, with the exception  *)
(* that for the passed list" the current state is reflected; it is taken   *)
(* in one atomic step, the caller is told whether it was, and a restart    *)
(* finds exactly the last one.                                             *)
(***************************************************************************)
CONSTANTS Bats, None

VARIABLES
    image,  \* the last checkpoint: what a restart finds, bat by bat
    live,   \* the state the running program wants to keep
    up,     \* is the program running?
    req,    \* the bats whose commit was requested and has not returned
    done    \* has the requested checkpoint been taken?

vars == <<image, live, up, req, done>>

Nothing == [b \in Bats |-> None]

Init == image = Nothing /\ live = Nothing /\ up = FALSE /\ req = {} /\ done = FALSE

(* The program changes bats, except those that are being committed.        *)
Work ==
    /\ up
    /\ \A b \in req : live'[b] = live[b]
    /\ UNCHANGED <<image, up, req, done>>

Request ==
    /\ up /\ req = {}
    /\ req' \in SUBSET Bats
    /\ UNCHANGED <<image, live, up, done>>

Commit ==
    /\ up /\ ~done
    /\ image' = [b \in Bats |-> IF b \in req THEN live[b] ELSE image[b]]
    /\ done' = TRUE
    /\ UNCHANGED <<live, up, req>>

(* The call returns: success if the checkpoint was taken, failure if not.  *)
Return(success) ==
    /\ up /\ done = success
    /\ req' = {} /\ done' = FALSE
    /\ UNCHANGED <<image, live, up>>

Crash ==
    /\ up' = FALSE /\ live' = Nothing /\ req' = {} /\ done' = FALSE
    /\ UNCHANGED image

Restart ==
    /\ ~up
    /\ up' = TRUE /\ live' = image
    /\ UNCHANGED <<image, req, done>>

Next == Work \/ Request \/ Commit \/ Return(TRUE) \/ Return(FALSE) \/ Crash \/ Restart

Spec == Init /\ [][Next]_vars
=============================================================================
