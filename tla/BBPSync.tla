------------------------------ MODULE BBPSync ------------------------------
(***************************************************************************)
(* The checkpoint protocol of the BAT buffer pool: BBPsync and everything  *)
(* it calls (gdk_bbp.c), the commit functions of gdk_tm.c around it, the   *)
(* saving of bats outside a commit (BBPsave), and the recovery that        *)
(* BBPinit performs after a crash.                                         *)
(*                                                                         *)
(* Files live in three directories.  "BAT" is BATDIR, where the current    *)
(* heap files and BBP.dir are written; "BAK" is BATDIR/BACKUP and "SUB" is *)
(* BATDIR/BACKUP/SUBCOMMIT, where the images of the last checkpoint are    *)
(* kept while newer ones are written.  A checkpoint is taken by renaming   *)
(* the directory that holds the backups to DELDIR.                         *)
(*                                                                         *)
(* A slot of the BBP owns one heap file; its contents are the number of    *)
(* the update that produced them.  A heap is STORE_MEM, so it is saved by  *)
(* writing its file.  rename(2) is atomic and everything done before a     *)
(* crash survives it, as the comment above BBPsync assumes.                *)
(***************************************************************************)
EXTENDS Integers, FiniteSets

CONSTANTS
    N,            \* the BBP has slots 1 .. N
    Absent,       \* no such file, no such entry
    Torn,         \* a file whose writer was interrupted
    Faults,       \* the system calls that may fail
    CallerInserts, \* does every caller insert a bat right before it commits?
    RetryAny,     \* may a failed commit be followed by one of other bats?
    SaveDropped,  \* may a dropped bat be saved before its drop is committed?
    MaxClock,     \* bound: number of updates
    MaxBackups    \* bound: backup_files at which no new commit or save starts

Bats == 1 .. N
Dirs == {"BAT", "BAK", "SUB"}

Contents == Nat \cup {Absent, Torn}     \* of a heap file
Entries  == [Bats -> Contents]          \* of a BBP.dir

FaultKinds == {"write", "move", "rename", "rename_once", "removedir"}

ASSUME ConstantsAssumption ==
    /\ N \in Nat \ {0} /\ MaxClock \in Nat
    /\ MaxBackups \in Nat
    /\ Absent \notin Nat /\ Torn \notin Nat /\ Absent # Torn
    /\ Absent \notin Entries /\ Torn \notin Entries
    /\ Faults \subseteq FaultKinds
    /\ CallerInserts \in BOOLEAN /\ RetryAny \in BOOLEAN /\ SaveDropped \in BOOLEAN

VARIABLES
    \* the disk
    heap,           \* heap[d][b]: the heap file of b in directory d
    bbp,            \* bbp[d]: the BBP.dir in directory d, slot -> contents
    subdir, deldir, \* do SUBDIR and DELDIR exist?
    \* the buffer pool in memory
    status,         \* BBP_status
    mem,            \* the contents of the bat in memory
    dirty,          \* BATdirty
    BBP_dirty, backup_files, backup_dir, backup_subdir,
    \* the thread inside TMcommit, TMsubcommit_list or BBPinit
    pc, list, sub, bbpdirty,
    todo, cur,      \* the bats of the list still to visit, the one being written
    failed,         \* the bats of the commits that failed since the last good one
    \* a thread inside BBPsave
    sv,
    clock           \* number of updates so far

diskVars  == <<heap, bbp, subdir, deldir>>
bkVars    == <<backup_files, backup_dir, backup_subdir>>
batVars   == <<status, mem, dirty>>
syncVars  == <<pc, list, sub, bbpdirty, todo, cur, failed>>
vars == <<diskVars, bkVars, batVars, BBP_dirty, syncVars, sv, clock>>

NoHeaps   == [b \in Bats |-> Absent]
NoEntries == [b \in Bats |-> Absent]

(* BBPNEW, BBPEXISTING and BBPDELETED exclude each other (gdk_bbp.h); a     *)
(* bat with none of them is transient, an unused slot is free.              *)
Statuses   == {"free", "transient", "new", "existing", "deleted"}
Persistent == {"new", "existing"}

SyncPcs == {"prepare", "backup", "save", "saving", "dir", "dirwrite", "switch",
            "after", "again", "epilogue"}
BootPcs == {"down", "recsub", "recdir", "read", "recheap", "scan", "fatal"}
SavePcs == {"idle", "prepare", "move", "write", "writing"}

TypeOK ==
    /\ heap \in [Dirs -> [Bats -> Contents]]
    /\ bbp \in [Dirs -> Entries \cup {Absent, Torn}]
    /\ subdir \in BOOLEAN /\ deldir \in BOOLEAN
    /\ status \in [Bats -> Statuses]
    /\ mem \in [Bats -> Contents]
    /\ dirty \in [Bats -> BOOLEAN]
    /\ BBP_dirty \in BOOLEAN /\ bbpdirty \in BOOLEAN
    /\ backup_files \in Nat /\ backup_dir \in 0 .. 2 /\ backup_subdir \in Nat
    /\ pc \in SyncPcs \cup BootPcs \cup {"idle"}
    /\ list \subseteq Bats /\ failed \subseteq Bats /\ sub \in BOOLEAN
    /\ todo \subseteq Bats /\ cur \in 0 .. N
    /\ sv \in [pc : SavePcs, bat : 0 .. N]
    /\ clock \in Nat

-----------------------------------------------------------------------------
(***************************************************************************)
(* What a restart would find.  BBPinit prefers SUBDIR over BAKDIR over     *)
(* BATDIR, file by file; an entry whose heap file has other contents than  *)
(* the entry describes is a damaged bat.                                   *)
(***************************************************************************)
RecDir == IF bbp["SUB"] # Absent THEN bbp["SUB"]
          ELSE IF bbp["BAK"] # Absent THEN bbp["BAK"]
          ELSE IF bbp["BAT"] # Absent THEN bbp["BAT"] ELSE NoEntries

RecHeap(b) == IF heap["SUB"][b] # Absent THEN heap["SUB"][b]
              ELSE IF heap["BAK"][b] # Absent THEN heap["BAK"][b]
              ELSE heap["BAT"][b]

Image == [b \in Bats |-> IF RecDir = Torn THEN Torn
                         ELSE IF RecDir[b] = Absent THEN Absent
                         ELSE IF RecHeap(b) = RecDir[b] THEN RecDir[b]
                         ELSE Torn]

(* What the program has in memory for the next checkpoint to keep.         *)
Live == [b \in Bats |-> IF status[b] \in Persistent THEN mem[b] ELSE Absent]

-----------------------------------------------------------------------------
(***************************************************************************)
(* File moves                                                              *)
(***************************************************************************)
MoveHeap(h, b, src, dst) == [h EXCEPT ![dst][b] = h[src][b], ![src][b] = Absent]
MoveDir(d, src, dst)     == IF src = dst THEN d
                            ELSE [d EXCEPT ![dst] = d[src], ![src] = Absent]

(* BBPrecover_subdir run to completion: every file of SUBDIR moves to      *)
(* BAKDIR, replacing the one that is there.                                *)
RecoverSubHeaps(h) ==
    [h EXCEPT !["BAK"] = [b \in Bats |-> IF h["SUB"][b] # Absent THEN h["SUB"][b]
                                         ELSE h["BAK"][b]],
              !["SUB"] = NoHeaps]
RecoverSubDir(d) == IF d["SUB"] # Absent THEN MoveDir(d, "SUB", "BAK") ELSE d

(* BBPrecover run to completion: the files of valid bats move back to      *)
(* BATDIR, the others to LEFTDIR, and BBP.dir moves last.                  *)
RecoverHeaps(h) ==
    [h EXCEPT !["BAT"] = [b \in Bats |-> IF h["BAK"][b] # Absent /\ status[b] # "free"
                                         THEN h["BAK"][b] ELSE h["BAT"][b]],
              !["BAK"] = NoHeaps]
RecoverDir(d) == IF d["BAK"] # Absent THEN MoveDir(d, "BAK", "BAT") ELSE d

(* BBPprepare: the directories, BBP.dir and the counters after a call that *)
(* succeeds (backup_files is left to the caller, which counts it).         *)
(* CanPrepare: the move of BBP.dir finds its source and its target.        *)
StartsSub(subc)   == subc /\ backup_subdir = 0
PrepHeap(subc) ==
    LET h == IF StartsSub(subc) THEN RecoverSubHeaps(heap) ELSE heap
    IN  IF backup_files = 0 THEN RecoverHeaps(h) ELSE h
PrepBbp(subc) ==
    LET d == IF StartsSub(subc) THEN RecoverSubDir(bbp) ELSE bbp
    IN  IF backup_files = 0 THEN RecoverDir(d) ELSE d
PrepDir(subc) ==
    IF backup_files = 0 THEN 0
    ELSE IF StartsSub(subc) /\ bbp["SUB"] # Absent THEN 1
    ELSE IF StartsSub(subc) /\ subdir /\ backup_dir = 2 THEN 0
    ELSE backup_dir
PrepTarget(subc) == IF subc THEN 2 ELSE 1
PrepSource(subc) == IF PrepDir(subc) # 0 THEN "BAK" ELSE "BAT"

CanPrepare(subc) ==
    PrepDir(subc) # PrepTarget(subc) =>
        /\ PrepBbp(subc)[PrepSource(subc)] # Absent
        /\ subc => subdir \/ StartsSub(subc)

BBPprepare(subc) ==
    /\ CanPrepare(subc)
    /\ heap' = PrepHeap(subc)
    /\ bbp' = IF PrepDir(subc) = PrepTarget(subc) THEN PrepBbp(subc)
              ELSE MoveDir(PrepBbp(subc), PrepSource(subc), IF subc THEN "SUB" ELSE "BAK")
    /\ subdir' = (subdir \/ StartsSub(subc))
    /\ backup_dir' = PrepTarget(subc)
    /\ backup_subdir' = backup_subdir + (IF subc THEN 1 ELSE 0)
    /\ UNCHANGED deldir

(* BBPprepare that returns GDK_FAIL at the move of BBP.dir: what it did to *)
(* the directories before stays.                                           *)
BBPprepareFails(subc) ==
    /\ ~CanPrepare(subc) \/ "move" \in Faults
    /\ PrepDir(subc) # PrepTarget(subc)
    /\ heap' = PrepHeap(subc)
    /\ bbp' = PrepBbp(subc)
    /\ subdir' = (subdir \/ StartsSub(subc))
    /\ backup_dir' = PrepDir(subc)
    /\ UNCHANGED <<deldir, backup_subdir>>

-----------------------------------------------------------------------------
(***************************************************************************)
(* The owners of the bats                                                  *)
(***************************************************************************)
(* A bat that the running commit works on is not touched by anyone else.   *)
Exclusive(b) == (pc \in SyncPcs => b \notin list) /\ sv.bat # b
Running      == pc \in SyncPcs \cup {"idle"}

UnchangedByOwner == UNCHANGED <<diskVars, bkVars, syncVars, sv>>

(* BBPinsert: a new bat takes a free slot.                                 *)
BBPinsert(b) ==
    /\ Running /\ Exclusive(b) /\ status[b] = "free" /\ clock < MaxClock
    /\ status' = [status EXCEPT ![b] = "transient"]
    /\ mem' = [mem EXCEPT ![b] = clock + 1]
    /\ dirty' = [dirty EXCEPT ![b] = TRUE]
    /\ clock' = clock + 1
    /\ BBP_dirty' = TRUE
    /\ UnchangedByOwner

(* The same for a slot that never becomes persistent.                      *)
BBPinsertOther ==
    /\ Running /\ BBP_dirty' = TRUE
    /\ UNCHANGED <<batVars, clock>>
    /\ UnchangedByOwner

(* An update of the data of a bat.  It does not touch BBP_dirty.           *)
Update(b) ==
    /\ Running /\ Exclusive(b) /\ status[b] # "free" /\ clock < MaxClock
    /\ mem' = [mem EXCEPT ![b] = clock + 1]
    /\ dirty' = [dirty EXCEPT ![b] = TRUE]
    /\ clock' = clock + 1
    /\ UNCHANGED <<status, BBP_dirty>>
    /\ UnchangedByOwner

(* BATmode(b, PERSISTENT) and BATmode(b, TRANSIENT).                       *)
BATmodePersistent(b) ==
    /\ Running /\ Exclusive(b) /\ status[b] \in {"transient", "deleted"}
    /\ status' = [status EXCEPT ![b] = IF status[b] = "deleted" THEN "existing" ELSE "new"]
    /\ BBP_dirty' = TRUE
    /\ UNCHANGED <<mem, dirty, clock>>
    /\ UnchangedByOwner

BATmodeTransient(b) ==
    /\ Running /\ Exclusive(b) /\ status[b] \in Persistent
    /\ status' = [status EXCEPT ![b] = IF status[b] = "new" THEN "transient" ELSE "deleted"]
    /\ BBP_dirty' = TRUE
    /\ UNCHANGED <<mem, dirty, clock>>
    /\ UnchangedByOwner

(* BBPdestroy: the last reference to a transient bat goes, and its image   *)
(* on disk (BATdelete) and its slot (BBPclear) with it.                    *)
BBPdestroy(b) ==
    /\ Running /\ Exclusive(b) /\ status[b] = "transient"
    /\ status' = [status EXCEPT ![b] = "free"]
    /\ mem' = [mem EXCEPT ![b] = Absent]
    /\ dirty' = [dirty EXCEPT ![b] = FALSE]
    /\ heap' = [heap EXCEPT !["BAT"][b] = Absent]
    /\ UNCHANGED <<bbp, subdir, deldir, bkVars, syncVars, sv, clock, BBP_dirty>>

-----------------------------------------------------------------------------
(***************************************************************************)
(* BBPsave: a dirty bat is written outside a commit, because it is         *)
(* unloaded (BBPfree) or its access mode changes (BATsetaccess).  If the   *)
(* bat is part of the last checkpoint its image is first moved to BAKDIR.  *)
(***************************************************************************)
NoSave == [pc |-> "idle", bat |-> 0]

UnchangedBySaver == UNCHANGED <<status, mem, syncVars, clock>>

(* BBPsave calls BBPbackup for a bat that is BBPEXISTING.                  *)
NeverBacksUp(b) == FALSE            \* mutant: no image is safeguarded
NeedsBackup(b)  == status[b] = "existing"

SaveStart(b) ==
    /\ sv.pc = "idle" /\ Running /\ Exclusive(b)
    /\ pc \in SyncPcs => sub           \* TMcommit holds every GDKswapLock
    /\ backup_files < MaxBackups
    /\ dirty[b] /\ status[b] # "free"
    /\ status[b] = "deleted" => SaveDropped
    /\ sv' = [pc |-> IF NeedsBackup(b) THEN "prepare" ELSE "write", bat |-> b]
    /\ BBP_dirty' \in {BBP_dirty, TRUE}           \* set if DELTAdirty(b)
    /\ UNCHANGED <<diskVars, bkVars, dirty>>
    /\ UnchangedBySaver

SavePrepare ==
    /\ sv.pc = "prepare"
    /\ \/ /\ BBPprepare(FALSE)
          /\ backup_files' = backup_files + 1
          /\ sv' = [sv EXCEPT !.pc = "move"]
       \/ /\ BBPprepareFails(FALSE)
          /\ sv' = NoSave
          /\ UNCHANGED backup_files
    /\ UNCHANGED <<dirty, BBP_dirty>>
    /\ UnchangedBySaver

(* do_backup and heap_move: an image that is already in BAKDIR stays.      *)
SaveMove ==
    /\ sv.pc = "move"
    /\ heap' = IF heap["BAK"][sv.bat] = Absent THEN MoveHeap(heap, sv.bat, "BAT", "BAK")
               ELSE heap
    /\ sv' = [sv EXCEPT !.pc = "write"]
    /\ UNCHANGED <<bbp, subdir, deldir, bkVars, dirty, BBP_dirty>>
    /\ UnchangedBySaver

SaveWrite ==
    /\ sv.pc = "write"
    /\ heap' = [heap EXCEPT !["BAT"][sv.bat] = Torn]
    /\ sv' = [sv EXCEPT !.pc = "writing"]
    /\ UNCHANGED <<bbp, subdir, deldir, bkVars, dirty, BBP_dirty>>
    /\ UnchangedBySaver

(* BBPSAVING is cleared whether the write succeeded or not.                *)
SavingAfterFailure(ok) == IF ok THEN NoSave ELSE [sv EXCEPT !.pc = "idle"]  \* mutant
Saving(ok)             == NoSave

SaveDone ==
    /\ sv.pc = "writing"
    /\ \/ /\ heap' = [heap EXCEPT !["BAT"][sv.bat] = mem[sv.bat]]
          /\ dirty' = [dirty EXCEPT ![sv.bat] = FALSE]
          /\ sv' = Saving(TRUE)
       \/ /\ "write" \in Faults
          /\ sv' = Saving(FALSE)
          /\ UNCHANGED <<heap, dirty>>
    /\ UNCHANGED <<bbp, subdir, deldir, bkVars, BBP_dirty>>
    /\ UnchangedBySaver

-----------------------------------------------------------------------------
(***************************************************************************)
(* TMcommit (sub = FALSE, all slots) and TMsubcommit_list (sub = TRUE, a   *)
(* list of bats): prelude, BBPsync, epilogue.  The locks they take admit   *)
(* one commit at a time.                                                   *)
(***************************************************************************)
UnchangedBySync == UNCHANGED <<sv, clock>>

SyncStart(L, subc) ==
    /\ pc = "idle" /\ backup_files < MaxBackups
    /\ L # {}
    /\ subc => \A b \in L : status[b] # "free" \/ b \in failed
    /\ ~subc => L = Bats /\ sv.pc = "idle"   \* BBPlock waits for pending unloads
    /\ CallerInserts => BBP_dirty           \* bm_commit and log_tend do
    /\ RetryAny \/ failed \subseteq L
    /\ pc' = "prepare" /\ list' = L /\ sub' = subc /\ todo' = L
    /\ UNCHANGED <<diskVars, bkVars, batVars, BBP_dirty, bbpdirty, cur, failed>>
    /\ UnchangedBySync

(* BBPsync returns GDK_FAIL; the caller skips the epilogue.                *)
Return     == pc' = "idle" /\ list' = {} /\ sub' = FALSE /\ bbpdirty' = FALSE
              /\ todo' = {} /\ cur' = 0
ReturnFail == Return /\ failed' = failed \cup list

SyncPrepare ==
    /\ pc = "prepare"
    /\ \/ /\ BBPprepare(sub)
          /\ backup_files' = backup_files + 1
          /\ pc' = "backup"
          /\ bbpdirty' = BBP_dirty
          /\ UNCHANGED <<list, sub, todo, cur, failed>>
       \/ /\ BBPprepareFails(sub)
          /\ UNCHANGED backup_files
          /\ ReturnFail
    /\ UNCHANGED <<batVars, BBP_dirty>>
    /\ UnchangedBySync

(* Phase 1, one bat: BBPbackup (do_backup, heap_move) for a bat of the     *)
(* last checkpoint; a backup that BBPsave left in BAKDIR is taken over by  *)
(* a subcommit, also for a bat that is being dropped.                      *)
Backup(b) ==
    LET h == IF sub /\ heap["BAK"][b] # Absent THEN MoveHeap(heap, b, "BAK", "SUB") ELSE heap
        d == IF sub THEN "SUB" ELSE "BAK"
    IN  IF status[b] = "existing" /\ dirty[b] /\ h[d][b] = Absent
        THEN MoveHeap(h, b, "BAT", d)
        ELSE IF status[b] \in {"existing", "deleted"} THEN h ELSE heap

(* Every BBPbackup calls BBPprepare, which counts it.                      *)
MiscountedFiles(b) == 0             \* mutant: only backup_subdir is increased
BackedUpFiles(b)   == IF status[b] = "existing" /\ (sub \/ dirty[b]) THEN 1 ELSE 0

SyncBackup(b) ==
    /\ pc = "backup" /\ b \in todo
    /\ sv.bat # b                           \* dirty_bat waits for BBPSAVING
    /\ sub /\ Backup(b) # heap => subdir
    /\ heap' = Backup(b)
    /\ backup_files' = backup_files + BackedUpFiles(b)
    /\ backup_subdir' = backup_subdir + (IF sub /\ status[b] = "existing" THEN 1 ELSE 0)
    /\ todo' = todo \ {b}
    /\ UNCHANGED <<bbp, subdir, deldir, backup_dir, batVars, BBP_dirty>>
    /\ UNCHANGED <<pc, list, sub, bbpdirty, cur, failed>>
    /\ UnchangedBySync

(* Phase 2, one bat: BATsave writes the heap of a dirty persistent bat.    *)
SyncSave(b) ==
    /\ pc = "save" /\ b \in todo
    /\ sv.bat # b
    /\ IF status[b] \in Persistent /\ dirty[b]
       THEN /\ heap' = [heap EXCEPT !["BAT"][b] = Torn]
            /\ pc' = "saving" /\ cur' = b
       ELSE UNCHANGED <<heap, pc, cur>>
    /\ todo' = todo \ {b}
    /\ UNCHANGED <<bbp, subdir, deldir, bkVars, batVars, BBP_dirty>>
    /\ UNCHANGED <<list, sub, bbpdirty, failed>>
    /\ UnchangedBySync

SyncSaved ==
    /\ pc = "saving"
    /\ heap' = [heap EXCEPT !["BAT"][cur] = mem[cur]]
    /\ dirty' = [dirty EXCEPT ![cur] = FALSE]
    /\ pc' = "save" /\ cur' = 0
    /\ UNCHANGED <<bbp, subdir, deldir, bkVars, status, mem, BBP_dirty>>
    /\ UNCHANGED <<list, sub, bbpdirty, todo, failed>>
    /\ UnchangedBySync

(* The end of a loop over the list.                                        *)
SyncPhase ==
    /\ todo = {}
    /\ \/ pc = "backup" /\ pc' = "save" /\ todo' = list
       \/ pc = "save" /\ pc' = "dir" /\ UNCHANGED todo
    /\ UNCHANGED <<diskVars, bkVars, batVars, BBP_dirty>>
    /\ UNCHANGED <<list, sub, bbpdirty, cur, failed>>
    /\ UnchangedBySync

(* The BBP.dir that BBPdir_subcommit copies the other entries from.        *)
OldDir == IF bbp["SUB"] # Absent THEN bbp["SUB"] ELSE bbp["BAK"]

(* BBPdir opens BATDIR/BBP.dir for writing, which truncates it; a          *)
(* subcommit that then finds no old BBP.dir is fatal.                      *)
SyncDir ==
    /\ pc = "dir" /\ bbpdirty
    /\ bbp' = [bbp EXCEPT !["BAT"] = Torn]
    /\ pc' = IF sub /\ OldDir = Absent THEN "fatal" ELSE "dirwrite"
    /\ UNCHANGED <<heap, subdir, deldir, bkVars, batVars, BBP_dirty>>
    /\ UNCHANGED <<list, sub, bbpdirty, todo, cur, failed>>
    /\ UnchangedBySync

(* BBPdir writes the persistent bats; BBPdir_subcommit replaces only the   *)
(* entries of the list.                                                    *)
EntryOfAll(b) == Live[b]            \* mutant: a subcommit writes all entries
EntryOf(b)    == IF ~sub \/ b \in list THEN Live[b] ELSE OldDir[b]

SyncDirDone ==
    /\ pc = "dirwrite"
    /\ bbp' = [bbp EXCEPT !["BAT"] = [b \in Bats |-> EntryOf(b)]]
    /\ pc' = "switch"
    /\ UNCHANGED <<heap, subdir, deldir, bkVars, batVars, BBP_dirty>>
    /\ UNCHANGED <<list, sub, bbpdirty, todo, cur, failed>>
    /\ UnchangedBySync

(* BBP_dirty was not set: the old BBP.dir is moved back instead.           *)
SyncDirCheap ==
    /\ pc = "dir" /\ ~bbpdirty
    /\ bbp' = IF backup_dir = 0 THEN bbp
              ELSE MoveDir(bbp, IF backup_dir = 1 THEN "BAK" ELSE "SUB", "BAT")
    /\ backup_dir' = 0
    /\ pc' = "switch"
    /\ UNCHANGED <<heap, subdir, deldir, backup_files, backup_subdir, batVars, BBP_dirty>>
    /\ UNCHANGED <<list, sub, bbpdirty, todo, cur, failed>>
    /\ UnchangedBySync

(* A file cannot be moved to a backup directory (SUBDIR may be missing) or *)
(* a write fails half way: BBPsync gives up.                               *)
SyncFails ==
    /\ LET missing == IF sub /\ ~subdir THEN {"move"} ELSE {}
           call == IF pc = "backup" THEN {"move"}
                   ELSE IF pc \in {"saving", "dirwrite"} THEN {"write"} ELSE {}
       IN  call \cap (Faults \cup missing) # {}
    /\ ReturnFail
    /\ UNCHANGED <<diskVars, bkVars, batVars, BBP_dirty>>
    /\ UnchangedBySync

(* The atomic switchover: rename the backup directory to DELDIR, and after *)
(* a failure remove DELDIR and rename again.  The result of the second     *)
(* rename does not change what is returned.                                *)
SyncSwitch ==
    /\ pc = "switch"
    /\ \E first, removed, second \in BOOLEAN :
          /\ first => ~deldir
          /\ ~first => deldir \/ Faults \cap {"rename", "rename_once"} # {}
          /\ ~removed => deldir /\ "removedir" \in Faults
          /\ second => first \/ deldir \/ "rename_once" \in Faults
          /\ ~second => ~first /\ (~removed \/ "rename" \in Faults)
          /\ IF first \/ (removed /\ second)
             THEN /\ heap' = [d \in Dirs |-> IF d = "SUB" \/ (d = "BAK" /\ ~sub)
                                             THEN NoHeaps ELSE heap[d]]
                  /\ bbp' = [d \in Dirs |-> IF d = "SUB" \/ (d = "BAK" /\ ~sub)
                                            THEN Absent ELSE bbp[d]]
                  /\ subdir' = FALSE /\ deldir' = TRUE
             ELSE /\ deldir' = (deldir /\ ~removed)
                  /\ UNCHANGED <<heap, bbp, subdir>>
          /\ IF first
             THEN pc' = "after" /\ UNCHANGED <<list, sub, bbpdirty, todo, cur, failed>>
             ELSE ReturnFail
    /\ UNCHANGED <<bkVars, batVars, BBP_dirty>>
    /\ UnchangedBySync

(* The files that stay in BAKDIR after a subcommit are still counted.      *)
FilesForgotten == 0                 \* mutant: the full commit's reset
FilesKept      == IF sub THEN backup_files - backup_subdir ELSE 0

(* No BBP.dir is backed up after the switchover.                           *)
DirNotReset == backup_dir           \* mutant: backup_dir is left as it was
DirReset    == 0

(* The aftermath: reset the counters, remove DELDIR, ...                   *)
SyncAfter ==
    /\ pc = "after"
    /\ BBP_dirty' = FALSE
    /\ backup_files' = FilesKept
    /\ backup_dir' = DirReset /\ backup_subdir' = 0
    /\ deldir' \in {FALSE} \cup (IF "removedir" \in Faults THEN {TRUE} ELSE {})
    /\ pc' = "again"
    /\ UNCHANGED <<heap, bbp, subdir, batVars, list, sub, bbpdirty, todo, cur, failed>>
    /\ UnchangedBySync

(* ... and BBPprepare for the next checkpoint, whose failure is ignored.   *)
SyncAgain ==
    /\ pc = "again"
    /\ \/ BBPprepare(FALSE) /\ backup_files' = 1
       \/ BBPprepareFails(FALSE) /\ backup_files' = IF backup_files > 1 THEN 1 ELSE backup_files
    /\ pc' = "epilogue" /\ todo' = list
    /\ UNCHANGED <<batVars, BBP_dirty, list, sub, bbpdirty, cur, failed>>
    /\ UnchangedBySync

CommittedStaysNew(s) == s           \* mutant: BBPEXISTING is not set
Committed(s)         == IF s \in Persistent THEN "existing"
                        ELSE IF s = "deleted" THEN "transient" ELSE s

(* epilogue, one bat: it is now part of the checkpoint, or its drop is     *)
(* committed and its file goes, unless someone still refers to it.         *)
SyncEpilogue(b, referred) ==
    /\ pc = "epilogue" /\ b \in todo
    /\ referred => status[b] = "deleted"
    /\ LET gone == status[b] = "deleted" /\ ~referred IN
          /\ status' = [status EXCEPT ![b] = IF gone THEN "free" ELSE Committed(@)]
          /\ mem' = [mem EXCEPT ![b] = IF gone THEN Absent ELSE @]
          /\ dirty' = [dirty EXCEPT ![b] = @ /\ ~gone]
          /\ heap' = IF gone THEN [heap EXCEPT !["BAT"][b] = Absent] ELSE heap
    /\ todo' = todo \ {b}
    /\ UNCHANGED <<bbp, subdir, deldir, bkVars, BBP_dirty>>
    /\ UNCHANGED <<pc, list, sub, bbpdirty, cur, failed>>
    /\ UnchangedBySync

SyncDone ==
    /\ pc = "epilogue" /\ todo = {}
    /\ Return /\ failed' = {}
    /\ UNCHANGED <<diskVars, bkVars, batVars, BBP_dirty>>
    /\ UnchangedBySync

-----------------------------------------------------------------------------
(***************************************************************************)
(* A crash, or BBPexit, which keeps nothing either.                        *)
(***************************************************************************)
Crash ==
    /\ pc # "down"
    /\ pc' = "down" /\ list' = {} /\ sub' = FALSE /\ bbpdirty' = FALSE
    /\ todo' = {} /\ cur' = 0 /\ failed' = {}
    /\ status' = [b \in Bats |-> "free"]
    /\ mem' = NoHeaps
    /\ dirty' = [b \in Bats |-> FALSE]
    /\ BBP_dirty' = TRUE            \* GDKinit
    /\ backup_files' = 0 /\ backup_dir' = 0 /\ backup_subdir' = 0
    /\ sv' = NoSave
    /\ UNCHANGED <<diskVars, clock>>

(***************************************************************************)
(* BBPinit, one file operation per step                                    *)
(***************************************************************************)
UnchangedByBoot == UNCHANGED <<mem, dirty, BBP_dirty, list, sub, bbpdirty, todo, cur,
                               failed, sv, clock>>

BootRemoveDel ==
    /\ pc = "down"
    /\ deldir' = FALSE /\ pc' = "recsub"
    /\ UNCHANGED <<heap, bbp, subdir, bkVars, status>>
    /\ UnchangedByBoot

CopiedToBak(b) == [heap EXCEPT !["BAK"][b] = heap["SUB"][b]]   \* mutant: not moved
MovedToBak(b)  == MoveHeap(heap, b, "SUB", "BAK")

(* BBPrecover_subdir, in the order in which readdir returns the files.     *)
BootSubHeap(b) ==
    /\ pc = "recsub" /\ heap["SUB"][b] # Absent
    /\ heap' = MovedToBak(b)
    /\ UNCHANGED <<bbp, subdir, deldir, bkVars, status, pc>>
    /\ UnchangedByBoot

BootSubDir ==
    /\ pc = "recsub" /\ bbp["SUB"] # Absent
    /\ bbp' = MoveDir(bbp, "SUB", "BAK")
    /\ backup_dir' = 1
    /\ UNCHANGED <<heap, subdir, deldir, backup_files, backup_subdir, status, pc>>
    /\ UnchangedByBoot

BootSubDone ==
    /\ pc = "recsub" /\ heap["SUB"] = NoHeaps /\ bbp["SUB"] = Absent
    /\ subdir' = FALSE /\ pc' = "recdir"
    /\ UNCHANGED <<heap, bbp, deldir, bkVars, status>>
    /\ UnchangedByBoot

(* "backup exists; *must* use it"; a farm without any BBP.dir is new.      *)
BootDir ==
    /\ pc = "recdir"
    /\ bbp' = IF bbp["BAK"] # Absent THEN MoveDir(bbp, "BAK", "BAT")
              ELSE IF bbp["BAT"] = Absent THEN [bbp EXCEPT !["BAT"] = NoEntries]
              ELSE bbp
    /\ pc' = "read"
    /\ UNCHANGED <<heap, subdir, deldir, bkVars, status>>
    /\ UnchangedByBoot

(* BBPheader and BBPreadEntries; a truncated BBP.dir is fatal.             *)
BootRead ==
    /\ pc = "read"
    /\ pc' = IF bbp["BAT"] = Torn THEN "fatal" ELSE "recheap"
    /\ status' = [b \in Bats |-> IF bbp["BAT"] # Torn /\ bbp["BAT"][b] # Absent
                                 THEN "existing" ELSE "free"]
    /\ UNCHANGED <<diskVars, bkVars>>
    /\ UnchangedByBoot

(* BBPprepare(FALSE) with backup_files = 0: BBPrecover moves the heaps     *)
(* back one by one, those without a valid bat to LEFTDIR, ...              *)
BootHeap(b) ==
    /\ pc = "recheap" /\ heap["BAK"][b] # Absent
    /\ heap' = IF status[b] # "free" THEN MoveHeap(heap, b, "BAK", "BAT")
               ELSE [heap EXCEPT !["BAK"][b] = Absent]
    /\ UNCHANGED <<bbp, subdir, deldir, bkVars, status, pc>>
    /\ UnchangedByBoot

(* ... and when none is left BBP.dir becomes the backup of the next one.   *)
BootPrepare ==
    /\ pc = "recheap" /\ heap["BAK"] = NoHeaps
    /\ BBPprepare(FALSE) /\ backup_files' = backup_files + 1
    /\ pc' = "scan"
    /\ UNCHANGED status
    /\ UnchangedByBoot

(* BBPdiskscan deletes the heaps that no entry mentions; the others will   *)
(* be loaded from their files.                                             *)
BootScan ==
    /\ pc = "scan"
    /\ heap' = [heap EXCEPT !["BAT"] = [b \in Bats |-> IF status[b] = "free" THEN Absent
                                                       ELSE heap["BAT"][b]]]
    /\ mem' = [b \in Bats |-> IF status[b] = "free" THEN Absent ELSE heap["BAT"][b]]
    /\ pc' = "idle"
    /\ UNCHANGED <<bbp, subdir, deldir, bkVars, status, dirty, BBP_dirty>>
    /\ UNCHANGED <<list, sub, bbpdirty, todo, cur, failed, sv, clock>>

-----------------------------------------------------------------------------
Init ==
    /\ heap = [d \in Dirs |-> NoHeaps] /\ bbp = [d \in Dirs |-> Absent]
    /\ subdir = FALSE /\ deldir = FALSE
    /\ status = [b \in Bats |-> "free"] /\ mem = NoHeaps
    /\ dirty = [b \in Bats |-> FALSE]
    /\ BBP_dirty = TRUE /\ bbpdirty = FALSE
    /\ backup_files = 0 /\ backup_dir = 0 /\ backup_subdir = 0
    /\ pc = "down" /\ list = {} /\ sub = FALSE /\ todo = {} /\ cur = 0 /\ failed = {}
    /\ sv = NoSave
    /\ clock = 0

Owner == BBPinsertOther
         \/ \E b \in Bats : \/ BBPinsert(b) \/ Update(b) \/ BBPdestroy(b)
                            \/ BATmodePersistent(b) \/ BATmodeTransient(b)

Saver == (\E b \in Bats : SaveStart(b)) \/ SavePrepare \/ SaveMove \/ SaveWrite \/ SaveDone

Sync ==
    \/ \E L \in SUBSET Bats, subc \in BOOLEAN : SyncStart(L, subc)
    \/ SyncPrepare \/ SyncPhase \/ SyncSaved \/ SyncDir \/ SyncDirDone \/ SyncDirCheap
    \/ SyncSwitch \/ SyncAfter \/ SyncAgain \/ SyncDone \/ SyncFails
    \/ \E b \in Bats : SyncBackup(b) \/ SyncSave(b)
    \/ \E b \in Bats, referred \in BOOLEAN : SyncEpilogue(b, referred)

Boot ==
    \/ BootRemoveDel \/ BootSubDir \/ BootSubDone \/ BootDir \/ BootRead
    \/ BootPrepare \/ BootScan
    \/ \E b \in Bats : BootSubHeap(b) \/ BootHeap(b)

Next == Owner \/ Saver \/ Sync \/ Boot \/ Crash

Spec == Init /\ [][Next]_vars

(* The steps of a process that has not died are eventually taken; whether  *)
(* bats are used, committed or saved is up to their owners.                *)
Fairness == /\ WF_vars(Boot)
            /\ WF_vars(Saver /\ sv.pc # "idle")
            /\ WF_vars(Sync /\ pc # "idle")

FairSpec == Spec /\ Fairness

-----------------------------------------------------------------------------
(***************************************************************************)
(* Properties                                                              *)
(***************************************************************************)
(* At every moment, also in the middle of a commit, of a save or of a      *)
(* recovery, a restart would find every bat of the last checkpoint with    *)
(* the heap its BBP.dir entry describes (BBPsync, BBPrecover, BBPinit).    *)
CheckpointIntact == \A b \in Bats : Image[b] # Torn

(* The meaning gdk_bbp.h gives to the status flags: between commits a bat  *)
(* is BBPEXISTING or BBPDELETED exactly if it is part of the checkpoint.   *)
(* BBPsave and BBPsync decide by these flags what has to be backed up.     *)
FlagsMatchCheckpoint ==
    Running /\ pc # "epilogue" /\ pc # "after" /\ pc # "again" =>
        \A b \in Bats : (status[b] \in {"existing", "deleted"}) <=> (Image[b] # Absent)

(* BBPprepare runs BBPrecover when backup_files = 0.  In a running server  *)
(* that never happens while BAKDIR or SUBDIR hold an image: newer saved    *)
(* heaps would be overwritten with it.                                     *)
LiveBackupsKept ==
    Running /\ (backup_files = 0 \/ (pc = "after" /\ sub /\ backup_files <= backup_subdir)) =>
        heap["BAK"] = NoHeaps /\ heap["SUB"] = NoHeaps

(* "backup_dir == 0 => no backup BBP.dir", 1: it is in BACKUP, 2: it is in *)
(* SUBCOMMIT.  BBPprepare moves BBP.dir from where backup_dir says it is,  *)
(* so if this fails no commit can succeed any more.  (Between the          *)
(* switchover and the aftermath backup_dir is out of date.)                *)
BackupDirTells ==
    Running /\ pc # "after" =>
        /\ (backup_dir = 1) <=> (bbp["BAK"] # Absent)
        /\ (backup_dir = 2) <=> (bbp["SUB"] # Absent)

(* A checkpoint is taken atomically, of the listed bats only, with their   *)
(* current state, and is reported (see module Checkpoint).                 *)
Abstract == INSTANCE Checkpoint WITH
                None <- Absent, image <- Image,
                live <- IF Running THEN Live ELSE NoHeaps,
                up <- Running, req <- list,
                done <- pc \in {"after", "again", "epilogue"}

AtomicCheckpoint == Abstract!Spec

(* Unless the machine keeps crashing, BBPinit brings the pool up.          *)
RecoveryCompletes == (pc = "down" ~> pc = "idle") \/ []<><<Crash>>_vars

(* A commit that started returns, or the process dies.                     *)
CommitReturns == pc = "prepare" ~> pc \in {"idle", "down"}
=============================================================================
