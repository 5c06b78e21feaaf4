--------------------------- MODULE BBPSyncProofs ---------------------------
(***************************************************************************)
(* Proofs about BBPSync, for any number of bats, any number of updates and *)
(* any number of backed-up files.                                          *)
(***************************************************************************)
EXTENDS BBPSync, TLAPS

(* How the storage layer uses the commits (see CallerInserts, RetryAny and *)
(* SaveDropped in BBPSync); DELDIR can be removed and a rename that fails  *)
(* once fails twice.  BBPSync's runs show what happens without this.       *)
Disciplined == /\ CallerInserts /\ ~RetryAny /\ ~SaveDropped
               /\ "rename_once" \notin Faults /\ "removedir" \notin Faults

GoodEntries == [Bats -> Nat \cup {Absent}]
MidPcs  == {"backup", "save", "saving", "dir", "dirwrite", "switch"}
PostPcs == {"after", "again", "epilogue"}

Empty(d) == \A b \in Bats : heap[d][b] = Absent

(* The bats of the list that phase 1 of BBPsync has visited.               *)
BackedUp(b) == /\ b \in list
               /\ \/ pc \in SyncPcs \ {"prepare", "backup"}
                  \/ pc = "backup" /\ b \notin todo

(* The bats of the list whose flags are not adapted to the new checkpoint. *)
Unprocessed(b) == b \in list /\ pc \in PostPcs /\ (pc = "epilogue" => b \in todo)

-----------------------------------------------------------------------------
(***************************************************************************)
(* The inductive invariant                                                 *)
(***************************************************************************)
Control ==
    /\ pc # "fatal"
    /\ sv.pc = "idle" <=> sv.bat = 0
    /\ sv.pc # "idle" => Running
    /\ pc \in SyncPcs => list # {} /\ failed \subseteq list /\ todo \subseteq list
    /\ pc \in SyncPcs /\ ~sub => list = Bats /\ sv.pc = "idle"
    /\ pc \notin SyncPcs => list = {} /\ todo = {}
    /\ pc = "saving" => cur \in list /\ status[cur] \in Persistent /\ dirty[cur]
    /\ pc = "prepare" => BBP_dirty /\ todo = list
    /\ pc \in MidPcs => bbpdirty
    /\ pc \in BootPcs => failed = {} /\ dirty = [b \in Bats |-> FALSE]
    /\ pc \in {"recsub", "recdir", "read", "recheap", "scan"} => ~deldir
    /\ Running /\ pc # "after" => ~deldir

(* Where BBP.dir is.                                                       *)
DirPlaces ==
    /\ RecDir \in GoodEntries
    /\ Running /\ pc # "after" =>
          /\ backup_dir = 0 => bbp["SUB"] = Absent /\ bbp["BAK"] = Absent /\ bbp["BAT"] # Absent
          /\ backup_dir = 1 => bbp["SUB"] = Absent /\ bbp["BAK"] # Absent
          /\ backup_dir = 2 => bbp["SUB"] # Absent /\ bbp["BAK"] = Absent
    /\ pc = "after" => bbp["SUB"] = Absent /\ bbp["BAK"] = Absent /\ bbp["BAT"] # Absent
    /\ pc \in MidPcs \cup {"after"} => backup_dir = IF sub THEN 2 ELSE 1
    /\ pc = "again" => backup_dir # 2
    /\ pc = "epilogue" => backup_dir # 2
    /\ pc \in {"recdir", "read", "recheap", "scan"} => bbp["SUB"] = Absent
    /\ pc \in {"read", "recheap"} => bbp["BAK"] = Absent /\ bbp["BAT"] # Absent
    /\ pc = "scan" => bbp["BAK"] # Absent /\ backup_dir = 1
    /\ pc = "switch" => bbp["BAT"] = [b \in Bats |-> IF b \in list THEN Live[b] ELSE RecDir[b]]

(* The counters tell whether there is something in BAKDIR and SUBDIR.      *)
Counters ==
    /\ Running =>
          /\ backup_files >= backup_subdir
          /\ backup_files = backup_subdir => Empty("BAK") /\ sv.pc # "move"
          /\ backup_subdir = 0 => Empty("SUB") /\ backup_dir # 2
          /\ backup_files = 0 => backup_dir = 0
    /\ pc \in {"again", "epilogue"} => backup_subdir = 0
    /\ pc = "after" => Empty("SUB") /\ (~sub => Empty("BAK"))
    /\ pc \in BootPcs \ {"scan"} => backup_files = 0 /\ backup_subdir = 0
    /\ pc = "scan" => backup_files = 1 /\ backup_subdir = 0
    /\ pc \in {"recdir", "read", "recheap", "scan"} => Empty("SUB")
    /\ pc = "scan" => Empty("BAK")

(* Every image of the checkpoint is somewhere.                             *)
Images == \A b \in Bats : RecDir[b] # Absent => RecHeap(b) = RecDir[b]

(* A backup exists only of a bat of the checkpoint, and only one.          *)
Backups == Running => \A b \in Bats :
    /\ heap["SUB"][b] # Absent => b \in list \cup failed /\ backup_dir = 2 /\ pc \notin PostPcs
    /\ heap["SUB"][b] # Absent => heap["BAK"][b] = Absent
    /\ heap["BAK"][b] # Absent \/ heap["SUB"][b] # Absent => RecDir[b] # Absent
    /\ BackedUp(b) =>
          /\ sv.bat # b
          /\ sub => heap["BAK"][b] = Absent
          /\ pc \in MidPcs /\ RecDir[b] # Absent /\ status[b] \in Persistent /\ dirty[b] =>
                heap[IF sub THEN "SUB" ELSE "BAK"][b] # Absent

(* What the thread in BBPsave has done.                                    *)
SaverInv ==
    sv.pc # "idle" =>
        /\ dirty[sv.bat] /\ status[sv.bat] # "free"
        /\ sv.pc \in {"prepare", "move"} => RecDir[sv.bat] # Absent
        /\ sv.pc = "move" => heap["SUB"][sv.bat] = Absent
        /\ sv.pc \in {"write", "writing"} /\ RecDir[sv.bat] # Absent =>
              heap["BAK"][sv.bat] # Absent \/ heap["SUB"][sv.bat] # Absent

(* The bats in memory: clean means that the file has the contents.         *)
Memory == Running => \A b \in Bats :
    /\ status[b] # "free" => mem[b] \in Nat /\ (~dirty[b] => heap["BAT"][b] = mem[b])
    /\ pc \in {"dir", "dirwrite",
            "switch"} /\ b \in list /\ status[b] \in Persistent => ~dirty[b]
    /\ pc = "save" /\ b \in list \ todo /\ status[b] \in Persistent => ~dirty[b]
    /\ pc = "saving" /\ b \in list \ (todo \cup {cur}) /\ status[b] \in Persistent => ~dirty[b]

(* The flags say which bats are in the checkpoint.                         *)
Flags ==
    /\ Running => \A b \in Bats :
          /\ ~Unprocessed(b) => ((status[b] \in {"existing",
                  "deleted"}) <=> RecDir[b] # Absent)
          /\ Unprocessed(b) => RecDir[b] = Live[b]
    /\ pc \in {"recheap", "scan"} => 
          status = [b \in Bats |-> IF RecDir[b] # Absent THEN "existing" ELSE "free"]

IInv == TypeOK /\ Control /\ DirPlaces /\ Counters /\ Images /\ Backups /\ SaverInv
        /\ Memory /\ Flags

-----------------------------------------------------------------------------
(* What writing and moving a file does to the files.                       *)
HeapFiles == [Dirs -> [Bats -> Contents]]


-----------------------------------------------------------------------------
LEMMA PrepareIdentity ==
    ASSUME IInv, Running, NEW s \in BOOLEAN
    PROVE  PrepHeap(s) = heap /\ PrepBbp(s) = bbp /\ PrepDir(s) = backup_dir
<1>1. backup_files = 0 => Empty("BAK") /\ bbp["BAK"] = Absent /\ backup_dir = 0
  BY DEF IInv, TypeOK, Counters, DirPlaces, Running, SyncPcs, MidPcs
<1>2. backup_subdir = 0 => Empty("SUB") /\ bbp["SUB"] = Absent /\ backup_dir # 2
  BY DEF IInv, TypeOK, Counters, DirPlaces, Running, SyncPcs
<1>3. Empty("BAK") => RecoverHeaps(heap) = heap
  BY DEF IInv, TypeOK, RecoverHeaps, NoHeaps, Dirs, Empty
<1>4. Empty("SUB") => RecoverSubHeaps(heap) = heap
  BY DEF IInv, TypeOK, RecoverSubHeaps, NoHeaps, Dirs, Empty
<1> QED BY <1>1, <1>2, <1>3, <1>4, ZenonT(30) DEF PrepHeap, PrepBbp, PrepDir, StartsSub, RecoverSubDir, RecoverDir


LEMMA PrepareMoves ==
    ASSUME IInv, Running, pc # "after", NEW s \in BOOLEAN, BBPprepare(s)
    PROVE  /\ heap' = heap /\ deldir' = deldir /\ subdir' \in BOOLEAN
           /\ bbp' \in [Dirs -> Entries \cup {Absent, Torn}]
           /\ RecDir' = RecDir
           /\ bbp'["SUB"] # Absent <=> s
           /\ bbp'["BAK"] # Absent <=> ~s
           /\ backup_dir' = (IF s THEN 2 ELSE 1)
           /\ backup_dir # 2 \/ s
           /\ backup_subdir' = (IF s THEN backup_subdir + 1 ELSE backup_subdir)
<1>1. PrepHeap(s) = heap /\ PrepBbp(s) = bbp /\ PrepDir(s) = backup_dir
  BY PrepareIdentity
<1>2. /\ heap' = heap /\ deldir' = deldir
      /\ backup_dir' = (IF s THEN 2 ELSE 1)
      /\ backup_subdir' = (IF s THEN backup_subdir + 1 ELSE backup_subdir)
  BY <1>1 DEF BBPprepare, PrepTarget, IInv, TypeOK
<1>3. subdir' \in BOOLEAN
  BY DEF BBPprepare, IInv, TypeOK, StartsSub
<1>4. CASE backup_dir = PrepTarget(s)
  <2>1. bbp' = bbp
    BY <1>1, <1>4 DEF BBPprepare
  <2> QED BY <1>2, <1>3, <1>4, <2>1 DEF IInv, TypeOK, DirPlaces, RecDir, PrepTarget
<1>5. CASE backup_dir # PrepTarget(s)
  <2> DEFINE from == IF backup_dir # 0 THEN "BAK" ELSE "BAT"
             to   == IF s THEN "SUB" ELSE "BAK"
  <2>1. bbp[from] # Absent /\ bbp' = MoveDir(bbp, from, to)
    BY <1>1, <1>5 DEF BBPprepare, CanPrepare, PrepSource
  <2>2. backup_dir \in 0 .. 2 /\ bbp \in [Dirs -> Entries \cup {Absent, Torn}]
    BY DEF IInv, TypeOK
  <2>3. backup_dir = 2 => s
    BY <2>1, <2>2 DEF IInv, DirPlaces
  <2>4. from # to
    BY <1>5, <2>2, <2>3 DEF PrepTarget
  <2>5. bbp' = [bbp EXCEPT ![to] = bbp[from], ![from] = Absent]
    BY <2>1, <2>4 DEF MoveDir
  <2>6. to \in Dirs /\ from \in Dirs
    BY DEF Dirs
  <2> HIDE DEF from, to
  <2>7. bbp'[to] = bbp[from] /\ bbp'[from] = Absent
    BY <2>2, <2>4, <2>5, <2>6
  <2>8. \A d \in Dirs : d # from /\ d # to => bbp'[d] = bbp[d]
    BY <2>2, <2>4, <2>5, <2>6
  <2>9. bbp' \in [Dirs -> Entries \cup {Absent, Torn}]
    BY <2>2, <2>5, <2>6
  <2>10. RecDir' = RecDir /\ (bbp'["SUB"] # Absent <=> s) /\ (bbp'["BAK"] # Absent <=> ~s)
    BY <1>5, <2>1, <2>2, <2>3, <2>7, <2>8
       DEF IInv, DirPlaces, RecDir, PrepTarget, from, to, Dirs
  <2> QED BY <1>2, <1>3, <2>3, <2>9, <2>10
<1> QED BY <1>4, <1>5

LEMMA PrepareMovesFull ==
    ASSUME IInv, Running, pc # "after", BBPprepare(FALSE)
    PROVE  /\ heap' = heap /\ deldir' = deldir /\ subdir' \in BOOLEAN
           /\ bbp' \in [Dirs -> Entries \cup {Absent, Torn}]
           /\ RecDir' = RecDir /\ bbp'["SUB"] = Absent /\ bbp'["BAK"] # Absent
           /\ backup_dir' = 1 /\ backup_dir # 2 /\ backup_subdir' = backup_subdir
<1>1. PICK s \in BOOLEAN : s = FALSE
  OBVIOUS
<1>2. BBPprepare(s)
  BY <1>1, Zenon
<1> QED BY <1>1, <1>2, PrepareMoves

LEMMA PrepareFails ==
    ASSUME IInv, Running, NEW s \in BOOLEAN, BBPprepareFails(s)
    PROVE  /\ heap' = heap /\ bbp' = bbp /\ deldir' = deldir /\ subdir' \in BOOLEAN
           /\ backup_dir' = backup_dir /\ backup_subdir' = backup_subdir
  BY PrepareIdentity DEF BBPprepareFails, IInv, TypeOK, StartsSub

LEMMA NoPrepareAfterSwitch ==
    ASSUME IInv, pc = "after", sv.pc # "idle"
    PROVE  ~BBPprepare(FALSE)
<1>1. PrepBbp(FALSE) = bbp /\ PrepDir(FALSE) = 2 /\ bbp["BAK"] = Absent
  BY PrepareIdentity DEF IInv, Control, DirPlaces, Running, SyncPcs
<1>2. PrepTarget(FALSE) = 1
  BY Zenon DEF PrepTarget
<1>3. PrepDir(FALSE) # 0 /\ PrepDir(FALSE) # PrepTarget(FALSE)
  <2>1. 2 # 0 /\ 2 # 1
    OBVIOUS
  <2> QED BY <1>1, <1>2, <2>1, Zenon
<1>4. PrepSource(FALSE) = "BAK"
  BY <1>3, Zenon DEF PrepSource
<1>5. PrepBbp(FALSE)[PrepSource(FALSE)] = Absent
  BY <1>1, <1>4, Zenon
<1>6. ~CanPrepare(FALSE)
  BY <1>3, <1>5, Zenon DEF CanPrepare
<1> QED BY <1>6 DEF BBPprepare

LEMMA BBPinsertKeeps ==
    ASSUME IInv, Disciplined, NEW b \in Bats, BBPinsert(b)
    PROVE  IInv' /\ RecDir' = RecDir
<1> USE ConstantsAssumption
    DEF Running, SyncPcs, BootPcs, MidPcs, PostPcs, SavePcs, bkVars, batVars, diskVars,
       syncVars
<1>1. /\ Running /\ status[b] = "free"
      /\ ~(pc \in SyncPcs /\ b \in list) /\ sv.bat # b
      /\ status' = [status EXCEPT ![b] = "transient"] /\ mem' = [mem EXCEPT ![b] = clock + 1]
      /\ dirty' = [dirty EXCEPT ![b] = TRUE] /\ clock' = clock + 1 /\ BBP_dirty' = TRUE
      /\ UNCHANGED <<diskVars, bkVars, syncVars, sv>>
  BY DEF BBPinsert, Exclusive, UnchangedByOwner
<1>2. dirty' \in [Bats -> BOOLEAN] /\ BBP_dirty' \in BOOLEAN
  BY <1>1, Zenon DEF IInv, TypeOK
<1>3. RecDir' = RecDir
  BY <1>1 DEF RecDir
<1>4. TypeOK'
  BY <1>1, <1>2, <1>3 DEF IInv, TypeOK, Statuses, Contents
<1>5. Control'
  <2>1. pc = "saving" => cur # b
    BY <1>1 DEF IInv, Control
  <2> QED BY <1>1, <1>2, <1>3, <2>1 DEF IInv, TypeOK, Control
<1>6. DirPlaces'
  <2>1. \A x \in list : pc = "switch" => Live'[x] = Live[x]
    BY <1>1, <1>2, <1>3 DEF IInv, TypeOK, Live
  <2> QED BY <1>1, <1>2, <1>3, <2>1 DEF IInv, DirPlaces
<1>7. Counters'
  BY <1>1, <1>2, <1>3 DEF IInv, Counters, Empty
<1>8. Images'
  BY <1>1, <1>2, <1>3 DEF IInv, Images, RecHeap
<1>9. Backups'
  BY <1>1, <1>2, <1>3 DEF IInv, TypeOK, Backups, BackedUp, Persistent
<1>10. SaverInv'
  BY <1>1, <1>2, <1>3 DEF IInv, TypeOK, Control, Bats, SaverInv
<1>11. Memory'
  BY <1>1, <1>2, <1>3 DEF IInv, TypeOK, Memory, Persistent
<1>12. Flags'
  BY <1>1, <1>2, <1>3 DEF IInv, TypeOK, Control, Flags, Unprocessed, Live, Persistent
<1> QED BY <1>3, <1>4, <1>5, <1>6, <1>7, <1>8, <1>9, <1>10, <1>11, <1>12 DEF IInv

LEMMA BBPinsertOtherKeeps ==
    ASSUME IInv, Disciplined, BBPinsertOther
    PROVE  IInv' /\ RecDir' = RecDir
<1> USE ConstantsAssumption
    DEF Running, SyncPcs, BootPcs, MidPcs, PostPcs, SavePcs, bkVars, batVars, diskVars,
       syncVars
<1>1. /\ Running /\ BBP_dirty' = TRUE /\ UNCHANGED <<batVars, clock>>
      /\ UNCHANGED <<diskVars, bkVars, syncVars, sv>>
  BY DEF BBPinsertOther, UnchangedByOwner
<1>2. BBP_dirty' \in BOOLEAN
  BY <1>1, Zenon
<1>3. RecDir' = RecDir
  BY <1>1 DEF RecDir
<1>4. TypeOK'
  BY <1>1, <1>2, <1>3 DEF IInv, TypeOK
<1>5. Control'
  BY <1>1, <1>2, <1>3 DEF IInv, TypeOK, Control
<1>6. DirPlaces'
  BY <1>1, <1>2, <1>3 DEF IInv, DirPlaces, Live
<1>7. Counters'
  BY <1>1, <1>2, <1>3 DEF IInv, Counters, Empty
<1>8. Images'
  BY <1>1, <1>2, <1>3 DEF IInv, Images, RecHeap
<1>9. Backups'
  BY <1>1, <1>2, <1>3 DEF IInv, Backups, BackedUp
<1>10. SaverInv'
  BY <1>1, <1>2, <1>3 DEF IInv, SaverInv
<1>11. Memory'
  BY <1>1, <1>2, <1>3 DEF IInv, Memory
<1>12. Flags'
  BY <1>1, <1>2, <1>3 DEF IInv, Flags, Unprocessed, Live
<1> QED BY <1>3, <1>4, <1>5, <1>6, <1>7, <1>8, <1>9, <1>10, <1>11, <1>12 DEF IInv

LEMMA UpdateKeeps ==
    ASSUME IInv, Disciplined, NEW b \in Bats, Update(b)
    PROVE  IInv' /\ RecDir' = RecDir
<1> USE ConstantsAssumption
    DEF Running, SyncPcs, BootPcs, MidPcs, PostPcs, SavePcs, bkVars, batVars, diskVars,
       syncVars
<1>1. /\ Running /\ status[b] # "free"
      /\ ~(pc \in SyncPcs /\ b \in list) /\ sv.bat # b
      /\ mem' = [mem EXCEPT ![b] = clock + 1]
      /\ dirty' = [dirty EXCEPT ![b] = TRUE] /\ clock' = clock + 1 /\ UNCHANGED <<status,
              BBP_dirty>>
      /\ UNCHANGED <<diskVars, bkVars, syncVars, sv>>
  BY DEF Update, Exclusive, UnchangedByOwner
<1>2. dirty' \in [Bats -> BOOLEAN]
  BY <1>1, Zenon DEF IInv, TypeOK
<1>3. RecDir' = RecDir
  BY <1>1 DEF RecDir
<1>4. TypeOK'
  BY <1>1, <1>2, <1>3 DEF IInv, TypeOK, Contents
<1>5. Control'
  <2>1. pc = "saving" => cur # b
    BY <1>1 DEF IInv, Control
  <2> QED BY <1>1, <1>2, <1>3, <2>1 DEF IInv, TypeOK, Control
<1>6. DirPlaces'
  <2>1. \A x \in list : pc = "switch" => Live'[x] = Live[x]
    BY <1>1, <1>2, <1>3 DEF IInv, TypeOK, Live
  <2> QED BY <1>1, <1>2, <1>3, <2>1 DEF IInv, DirPlaces
<1>7. Counters'
  BY <1>1, <1>2, <1>3 DEF IInv, Counters, Empty
<1>8. Images'
  BY <1>1, <1>2, <1>3 DEF IInv, Images, RecHeap
<1>9. Backups'
  BY <1>1, <1>2, <1>3 DEF IInv, TypeOK, Backups, BackedUp, Persistent
<1>10. SaverInv'
  BY <1>1, <1>2, <1>3 DEF IInv, TypeOK, Control, Bats, SaverInv
<1>11. Memory'
  BY <1>1, <1>2, <1>3 DEF IInv, TypeOK, Memory, Persistent
<1>12. Flags'
  BY <1>1, <1>2, <1>3 DEF IInv, TypeOK, Control, Flags, Unprocessed, Live, Persistent
<1> QED BY <1>3, <1>4, <1>5, <1>6, <1>7, <1>8, <1>9, <1>10, <1>11, <1>12 DEF IInv

LEMMA BATmodePersistentKeeps ==
    ASSUME IInv, Disciplined, NEW b \in Bats, BATmodePersistent(b)
    PROVE  IInv' /\ RecDir' = RecDir
<1> USE ConstantsAssumption
    DEF Running, SyncPcs, BootPcs, MidPcs, PostPcs, SavePcs, bkVars, batVars, diskVars,
       syncVars
<1>1. /\ Running /\ status[b] \in {"transient", "deleted"}
      /\ ~(pc \in SyncPcs /\ b \in list) /\ sv.bat # b
      /\ status' = [status EXCEPT ![b] = IF status[b] = "deleted" THEN "existing" ELSE "new"]
      /\ BBP_dirty' = TRUE /\ UNCHANGED <<mem, dirty, clock>>
      /\ UNCHANGED <<diskVars, bkVars, syncVars, sv>>
  BY DEF BATmodePersistent, Exclusive, UnchangedByOwner
<1>2. BBP_dirty' \in BOOLEAN
  BY <1>1, Zenon
<1>3. RecDir' = RecDir
  BY <1>1 DEF RecDir
<1>4. TypeOK'
  BY <1>1, <1>2, <1>3 DEF IInv, TypeOK, Statuses
<1>5. Control'
  <2>1. pc = "saving" => cur # b
    BY <1>1 DEF IInv, Control
  <2> QED BY <1>1, <1>2, <1>3, <2>1 DEF IInv, TypeOK, Control
<1>6. DirPlaces'
  <2>1. \A x \in list : pc = "switch" => Live'[x] = Live[x]
    BY <1>1, <1>2, <1>3 DEF IInv, TypeOK, Live
  <2> QED BY <1>1, <1>2, <1>3, <2>1 DEF IInv, DirPlaces
<1>7. Counters'
  BY <1>1, <1>2, <1>3 DEF IInv, Counters, Empty
<1>8. Images'
  BY <1>1, <1>2, <1>3 DEF IInv, Images, RecHeap
<1>9. Backups'
  BY <1>1, <1>2, <1>3 DEF IInv, TypeOK, Backups, BackedUp, Persistent
<1>10. SaverInv'
  BY <1>1, <1>2, <1>3 DEF IInv, TypeOK, Control, Bats, SaverInv
<1>11. Memory'
  BY <1>1, <1>2, <1>3 DEF IInv, TypeOK, Control, Memory, Persistent
<1>12. Flags'
  BY <1>1, <1>2, <1>3 DEF IInv, TypeOK, Control, Flags, Unprocessed, Live, Persistent
<1> QED BY <1>3, <1>4, <1>5, <1>6, <1>7, <1>8, <1>9, <1>10, <1>11, <1>12 DEF IInv

LEMMA BATmodeTransientKeeps ==
    ASSUME IInv, Disciplined, NEW b \in Bats, BATmodeTransient(b)
    PROVE  IInv' /\ RecDir' = RecDir
<1> USE ConstantsAssumption
    DEF Running, SyncPcs, BootPcs, MidPcs, PostPcs, SavePcs, bkVars, batVars, diskVars,
       syncVars
<1>1. /\ Running /\ status[b] \in Persistent
      /\ ~(pc \in SyncPcs /\ b \in list) /\ sv.bat # b
      /\ status' = [status EXCEPT ![b] = IF status[b] = "new" THEN "transient" ELSE "deleted"]
      /\ BBP_dirty' = TRUE /\ UNCHANGED <<mem, dirty, clock>>
      /\ UNCHANGED <<diskVars, bkVars, syncVars, sv>>
  BY DEF BATmodeTransient, Exclusive, UnchangedByOwner
<1>2. BBP_dirty' \in BOOLEAN
  BY <1>1, Zenon
<1>3. RecDir' = RecDir
  BY <1>1 DEF RecDir
<1>4. TypeOK'
  BY <1>1, <1>2, <1>3 DEF IInv, TypeOK, Statuses
<1>5. Control'
  <2>1. pc = "saving" => cur # b
    BY <1>1 DEF IInv, Control
  <2> QED BY <1>1, <1>2, <1>3, <2>1 DEF IInv, TypeOK, Control
<1>6. DirPlaces'
  <2>1. \A x \in list : pc = "switch" => Live'[x] = Live[x]
    BY <1>1, <1>2, <1>3 DEF IInv, TypeOK, Live
  <2> QED BY <1>1, <1>2, <1>3, <2>1 DEF IInv, DirPlaces
<1>7. Counters'
  BY <1>1, <1>2, <1>3 DEF IInv, Counters, Empty
<1>8. Images'
  BY <1>1, <1>2, <1>3 DEF IInv, Images, RecHeap
<1>9. Backups'
  BY <1>1, <1>2, <1>3 DEF IInv, TypeOK, Backups, BackedUp, Persistent
<1>10. SaverInv'
  BY <1>1, <1>2, <1>3 DEF IInv, TypeOK, Control, Bats, SaverInv
<1>11. Memory'
  BY <1>1, <1>2, <1>3 DEF IInv, TypeOK, Control, Memory, Persistent
<1>12. Flags'
  BY <1>1, <1>2, <1>3 DEF IInv, TypeOK, Control, Flags, Unprocessed, Live, Persistent
<1> QED BY <1>3, <1>4, <1>5, <1>6, <1>7, <1>8, <1>9, <1>10, <1>11, <1>12 DEF IInv

LEMMA BBPdestroyKeeps ==
    ASSUME IInv, Disciplined, NEW b \in Bats, BBPdestroy(b)
    PROVE  IInv' /\ RecDir' = RecDir
<1> USE ConstantsAssumption
    DEF Running, SyncPcs, BootPcs, MidPcs, PostPcs, SavePcs, bkVars, batVars, diskVars,
       syncVars
<1>1. /\ Running /\ Exclusive(b) /\ status[b] = "transient"
      /\ UNCHANGED <<bbp, subdir, deldir, bkVars, syncVars, sv, clock, BBP_dirty>>
  BY DEF BBPdestroy
<1>2. heap \in HeapFiles /\ RecDir[b] = Absent /\ ~(pc \in SyncPcs /\ b \in list)
  BY <1>1 DEF IInv, TypeOK, HeapFiles, Exclusive, Flags, Unprocessed
<1>3. /\ heap' \in HeapFiles
      /\ \A e \in Dirs, x \in Bats :
            heap'[e][x] = IF x = b /\ e = "BAT" THEN Absent ELSE heap[e][x]
  <2>1. heap' = [heap EXCEPT !["BAT"][b] = Absent]
    BY DEF BBPdestroy
  <2> QED BY <1>2, <2>1 DEF HeapFiles, Dirs, Contents
<1>4. /\ status' = [status EXCEPT ![b] = "free"] /\ mem' = [mem EXCEPT ![b] = Absent]
      /\ dirty' = [dirty EXCEPT ![b] = FALSE]
  BY DEF BBPdestroy
<1>5. dirty' \in [Bats -> BOOLEAN] /\ ~dirty'[b]
  BY <1>4, Zenon DEF IInv, TypeOK
<1>6. RecDir' = RecDir
  BY <1>1 DEF RecDir
<1>7. TypeOK'
  BY <1>1, <1>2, <1>3, <1>4, <1>5, <1>6 DEF IInv, TypeOK, HeapFiles, Statuses, Contents
<1>8. Control'
  BY <1>1, <1>2, <1>3, <1>4, <1>5, <1>6 DEF IInv, TypeOK, Control
<1>9. DirPlaces'
  <2>1. \A x \in list : pc = "switch" => Live'[x] = Live[x]
    BY <1>1, <1>2, <1>3, <1>4, <1>5, <1>6 DEF IInv, Control, TypeOK, Live
  <2> QED BY <1>1, <1>2, <1>3, <1>4, <1>5, <1>6, <2>1 DEF IInv, DirPlaces
<1>10. Counters'
  BY <1>1, <1>2, <1>3, <1>4, <1>5, <1>6 DEF IInv, TypeOK, Control, Counters, Empty, Dirs
<1>11. Images'
  BY <1>1, <1>2, <1>3, <1>4, <1>5, <1>6 DEF IInv, SaverInv, Images, RecHeap, Dirs
<1>12. Backups'
  BY <1>1, <1>2, <1>3, <1>4, <1>5, <1>6 DEF IInv, TypeOK, Backups, BackedUp, Dirs,
     Persistent
<1>13. SaverInv'
  BY <1>1, <1>2, <1>3, <1>4, <1>5, <1>6 DEF IInv, TypeOK, Control, Bats, SaverInv, Dirs,
     Exclusive
<1>14. Memory'
  BY <1>1, <1>2, <1>3, <1>4, <1>5, <1>6 DEF IInv, TypeOK, Memory, Dirs, Persistent
<1>15. Flags'
  BY <1>1, <1>2, <1>3, <1>4, <1>5, <1>6 DEF IInv, TypeOK, Control, Flags, Unprocessed,
     Live, Persistent
<1> QED BY <1>6, <1>7, <1>8, <1>9, <1>10, <1>11, <1>12, <1>13, <1>14, <1>15 DEF IInv

LEMMA SaveStartKeeps ==
    ASSUME IInv, Disciplined, NEW b \in Bats, SaveStart(b)
    PROVE  IInv' /\ RecDir' = RecDir
<1> USE ConstantsAssumption
    DEF Running, SyncPcs, BootPcs, MidPcs, PostPcs, SavePcs, bkVars, batVars, diskVars,
       syncVars
<1>1. /\ sv.pc = "idle" /\ Running /\ dirty[b] /\ status[b] # "free" /\ status[b] # "deleted"
      /\ pc \in SyncPcs => sub /\ b \notin list
      /\ UNCHANGED <<diskVars, bkVars, batVars, syncVars, clock>>
  BY DEF SaveStart, Exclusive, UnchangedBySaver, Disciplined
<1>2. /\ sv'.bat = b /\ sv'.pc = (IF status[b] = "existing" THEN "prepare" ELSE "write")
      /\ sv' \in [pc : SavePcs, bat : 0 .. N] /\ b # 0
  BY DEF SaveStart, NeedsBackup, Bats
<1>3. BBP_dirty' \in BOOLEAN /\ (BBP_dirty => BBP_dirty')
  <2>1. BBP_dirty \in BOOLEAN
    BY DEF IInv, TypeOK
  <2>2. BBP_dirty' = BBP_dirty \/ BBP_dirty' = TRUE
    BY DEF SaveStart
  <2>3. CASE BBP_dirty' = BBP_dirty
    BY <2>1, <2>3, Zenon
  <2>4. CASE BBP_dirty' = TRUE
    BY <2>4, Zenon
  <2> QED BY <2>2, <2>3, <2>4
<1>4. RecDir' = RecDir
  BY <1>1 DEF RecDir
<1>5. TypeOK'
  BY <1>1, <1>2, <1>3, <1>4 DEF IInv, TypeOK
<1>6. Control'
  BY <1>1, <1>2, <1>3, <1>4 DEF IInv, TypeOK, Control
<1>7. DirPlaces'
  BY <1>1, <1>2, <1>3, <1>4 DEF IInv, DirPlaces, Live
<1>8. Counters'
  BY <1>1, <1>2, <1>3, <1>4 DEF IInv, Control, Counters, Empty
<1>9. Images'
  BY <1>1, <1>2, <1>3, <1>4 DEF IInv, Images, RecHeap
<1>10. Backups'
  BY <1>1, <1>2, <1>3, <1>4 DEF IInv, TypeOK, Control, Bats, Backups, BackedUp
<1>11. SaverInv'
  <2>1. status[b] = "existing" <=> RecDir[b] # Absent
    BY <1>1 DEF IInv, TypeOK, Statuses, Flags, Unprocessed
  <2> QED BY <1>1, <1>2, <1>3, <1>4, <2>1 DEF SaverInv
<1>12. Memory'
  BY <1>1, <1>2, <1>3, <1>4 DEF IInv, Memory
<1>13. Flags'
  BY <1>1, <1>2, <1>3, <1>4 DEF IInv, Flags, Unprocessed, Live
<1> QED BY <1>4, <1>5, <1>6, <1>7, <1>8, <1>9, <1>10, <1>11, <1>12, <1>13 DEF IInv

LEMMA SavePrepareKeeps ==
    ASSUME IInv, Disciplined, SavePrepare
    PROVE  IInv' /\ RecDir' = RecDir
<1> USE ConstantsAssumption
    DEF Running, SyncPcs, BootPcs, MidPcs, PostPcs, SavePcs, bkVars, batVars, diskVars,
       syncVars
<1>1. /\ sv.pc = "prepare" /\ Running /\ sv.bat \in Bats
      /\ UNCHANGED <<dirty, BBP_dirty, status, mem, syncVars, clock>>
  BY DEF SavePrepare, UnchangedBySaver, IInv, TypeOK, Control, Bats
<1>2. /\ heap' = heap /\ deldir' = deldir /\ subdir' \in BOOLEAN
      /\ bbp' \in [Dirs -> Entries \cup {Absent, Torn}]
      /\ RecDir' = RecDir /\ backup_subdir' = backup_subdir
      /\ \/ /\ sv'.pc = "move" /\ sv'.bat = sv.bat /\ sv' \in [pc : SavePcs, bat : 0 .. N]
            /\ backup_files' = backup_files + 1
            /\ backup_dir' = 1 /\ backup_dir # 2 /\ pc # "after"
            /\ bbp'["SUB"] = Absent /\ bbp'["BAK"] # Absent
         \/ /\ sv'.pc = "idle" /\ sv'.bat = 0 /\ sv' \in [pc : SavePcs, bat : 0 .. N]
            /\ UNCHANGED <<bbp, backup_files, backup_dir>>
  <2>1. CASE BBPprepare(FALSE) /\ backup_files' = backup_files + 1 /\ sv' = [sv EXCEPT !.pc = "move"]
    <3>1. pc # "after"
      BY <1>1, <2>1, NoPrepareAfterSwitch
    <3>2. /\ heap' = heap /\ deldir' = deldir /\ subdir' \in BOOLEAN
          /\ bbp' \in [Dirs -> Entries \cup {Absent, Torn}]
          /\ RecDir' = RecDir /\ bbp'["SUB"] = Absent /\ bbp'["BAK"] # Absent
          /\ backup_dir' = 1 /\ backup_dir # 2 /\ backup_subdir' = backup_subdir
      BY <1>1, <2>1, <3>1, PrepareMovesFull
    <3> QED BY <1>1, <2>1, <3>1, <3>2 DEF IInv, TypeOK
  <2>2. CASE BBPprepareFails(FALSE) /\ sv' = NoSave /\ UNCHANGED backup_files
    <3>1. /\ heap' = heap /\ bbp' = bbp /\ deldir' = deldir /\ subdir' \in BOOLEAN
          /\ backup_dir' = backup_dir /\ backup_subdir' = backup_subdir
      BY <1>1, <2>2, PrepareFails
    <3> QED BY <2>2, <3>1 DEF IInv, TypeOK, NoSave, RecDir
  <2> QED BY <2>1, <2>2 DEF SavePrepare
<1>3. TypeOK'
  BY <1>1, <1>2 DEF IInv, TypeOK
<1>4. Control'
  BY <1>1, <1>2 DEF IInv, TypeOK, Control
<1>5. DirPlaces'
  <2>1. pc \in MidPcs \cup {"after"} => backup_dir' = backup_dir /\ bbp' = bbp
    BY <1>1, <1>2 DEF IInv, Control, TypeOK, DirPlaces
  <2> QED BY <1>1, <1>2, <2>1 DEF IInv, TypeOK, DirPlaces, Live
<1>6. Counters'
  BY <1>1, <1>2 DEF IInv, TypeOK, Control, Counters, Empty
<1>7. Images'
  BY <1>1, <1>2 DEF IInv, SaverInv, Images, RecHeap, Dirs
<1>8. Backups'
  <2>1. \A b \in Bats : b # 0
    BY DEF Bats
  <2>2. \A b \in Bats : heap["SUB"][b] # Absent => backup_dir' = 2
    BY <1>1, <1>2 DEF IInv, Backups
  <2> QED BY <1>1, <1>2, <2>1, <2>2 DEF IInv, Backups, BackedUp
<1>9. SaverInv'
  BY <1>1, <1>2 DEF IInv, SaverInv, Backups
<1>10. Memory'
  BY <1>1, <1>2 DEF IInv, Memory
<1>11. Flags'
  BY <1>1, <1>2 DEF IInv, Flags, Unprocessed, Live
<1> QED BY <1>2, <1>3, <1>4, <1>5, <1>6, <1>7, <1>8, <1>9, <1>10, <1>11 DEF IInv

LEMMA SaveMoveKeeps ==
    ASSUME IInv, Disciplined, SaveMove
    PROVE  IInv' /\ RecDir' = RecDir
<1> USE ConstantsAssumption
    DEF Running, SyncPcs, BootPcs, MidPcs, PostPcs, SavePcs, bkVars, batVars, diskVars,
       syncVars
<1>1. /\ sv.pc = "move" /\ sv' = [sv EXCEPT !.pc = "write"]
      /\ UNCHANGED <<bbp, subdir, deldir, bkVars, status, mem, dirty, BBP_dirty, syncVars,
              clock>>
  BY DEF SaveMove, UnchangedBySaver
<1>2. heap \in HeapFiles /\ sv.bat \in Bats /\ sv'.bat = sv.bat /\ sv'.pc = "write"
  BY <1>1 DEF IInv, TypeOK, Control, HeapFiles, Bats
<1>3. /\ heap' \in HeapFiles
      /\ \A e \in Dirs, x \in Bats : heap'[e][x] =
            IF x = sv.bat /\ heap["BAK"][x] = Absent /\ e = "BAK" THEN heap["BAT"][x]
            ELSE IF x = sv.bat /\ heap["BAK"][x] = Absent /\ e = "BAT" THEN Absent
            ELSE heap[e][x]
  <2> DEFINE h == MoveHeap(heap, sv.bat, "BAT", "BAK")
  <2>1. /\ h \in HeapFiles
        /\ \A e \in Dirs, x \in Bats : h[e][x] =
              IF x = sv.bat /\ e = "BAK" THEN heap["BAT"][sv.bat]
              ELSE IF x = sv.bat /\ e = "BAT" THEN Absent ELSE heap[e][x]
    BY <1>2 DEF HeapFiles, MoveHeap, Contents, Dirs
  <2>2. heap' = IF heap["BAK"][sv.bat] = Absent THEN h ELSE heap
    BY DEF SaveMove
  <2> HIDE DEF h
  <2> QED BY <1>2, <2>1, <2>2
<1>4. RecDir' = RecDir
  BY <1>1 DEF RecDir
<1>5. TypeOK'
  BY <1>1, <1>2, <1>3, <1>4, ZenonT(60) DEF IInv, TypeOK, HeapFiles
<1>6. Control'
  BY <1>1, <1>2, <1>3, <1>4 DEF IInv, TypeOK, Control
<1>7. DirPlaces'
  BY <1>1, <1>2, <1>3, <1>4 DEF IInv, DirPlaces, Live
<1>8. Counters'
  BY <1>1, <1>2, <1>3, <1>4 DEF IInv, TypeOK, Control, Counters, Empty, Dirs
<1>9. Images'
  BY <1>1, <1>2, <1>3, <1>4 DEF IInv, SaverInv, Images, RecHeap, Dirs
<1>10. Backups'
  BY <1>1, <1>2, <1>3, <1>4 DEF IInv, SaverInv, Backups, BackedUp, Dirs
<1>11. SaverInv'
  <2>1. heap["BAK"][sv.bat] = Absent => heap["BAT"][sv.bat] # Absent
    BY <1>1, <1>2 DEF IInv, SaverInv, Images, RecHeap
  <2> QED BY <1>1, <1>2, <1>3, <1>4, <2>1 DEF IInv, SaverInv, Dirs
<1>12. Memory'
  BY <1>1, <1>2, <1>3, <1>4 DEF IInv, SaverInv, Memory, Dirs
<1>13. Flags'
  BY <1>1, <1>2, <1>3, <1>4 DEF IInv, Flags, Unprocessed, Live
<1> QED BY <1>4, <1>5, <1>6, <1>7, <1>8, <1>9, <1>10, <1>11, <1>12, <1>13 DEF IInv

LEMMA SaveWriteKeeps ==
    ASSUME IInv, Disciplined, SaveWrite
    PROVE  IInv' /\ RecDir' = RecDir
<1> USE ConstantsAssumption
    DEF Running, SyncPcs, BootPcs, MidPcs, PostPcs, SavePcs, bkVars, batVars, diskVars,
       syncVars
<1>1. /\ sv.pc = "write" /\ sv' = [sv EXCEPT !.pc = "writing"]
      /\ UNCHANGED <<bbp, subdir, deldir, bkVars, status, mem, dirty, BBP_dirty, syncVars,
              clock>>
  BY DEF SaveWrite, UnchangedBySaver
<1>2. heap \in HeapFiles /\ sv.bat \in Bats /\ sv'.bat = sv.bat /\ sv'.pc = "writing"
  BY <1>1 DEF IInv, TypeOK, Control, HeapFiles, Bats
<1>3. /\ heap' \in HeapFiles
      /\ \A e \in Dirs, x \in Bats :
            heap'[e][x] = IF x = sv.bat /\ e = "BAT" THEN Torn ELSE heap[e][x]
  <2>1. heap' = [heap EXCEPT !["BAT"][sv.bat] = Torn]
    BY DEF SaveWrite
  <2> QED BY <1>2, <2>1 DEF HeapFiles, Dirs, Contents
<1>4. RecDir' = RecDir
  BY <1>1 DEF RecDir
<1>5. TypeOK'
  BY <1>1, <1>2, <1>3, <1>4, SMTT(60) DEF IInv, TypeOK, HeapFiles
<1>6. Control'
  BY <1>1, <1>2, <1>3, <1>4 DEF IInv, TypeOK, Control
<1>7. DirPlaces'
  BY <1>1, <1>2, <1>3, <1>4 DEF IInv, DirPlaces, Live
<1>8. Counters'
  BY <1>1, <1>2, <1>3, <1>4 DEF IInv, TypeOK, Control, Counters, Empty, Dirs
<1>9. Images'
  BY <1>1, <1>2, <1>3, <1>4 DEF IInv, SaverInv, Images, RecHeap, Dirs
<1>10. Backups'
  BY <1>1, <1>2, <1>3, <1>4 DEF IInv, SaverInv, Backups, BackedUp, Dirs
<1>11. SaverInv'
  BY <1>1, <1>2, <1>3, <1>4 DEF IInv, TypeOK, Control, Bats, SaverInv, Dirs
<1>12. Memory'
  BY <1>1, <1>2, <1>3, <1>4 DEF IInv, SaverInv, Memory, Dirs
<1>13. Flags'
  BY <1>1, <1>2, <1>3, <1>4 DEF IInv, Flags, Unprocessed, Live
<1> QED BY <1>4, <1>5, <1>6, <1>7, <1>8, <1>9, <1>10, <1>11, <1>12, <1>13 DEF IInv

LEMMA SaveDoneKeeps ==
    ASSUME IInv, Disciplined, SaveDone
    PROVE  IInv' /\ RecDir' = RecDir
<1> USE ConstantsAssumption
    DEF Running, SyncPcs, BootPcs, MidPcs, PostPcs, SavePcs, bkVars, batVars, diskVars,
       syncVars
<1>1. /\ sv.pc = "writing" /\ sv'.pc = "idle" /\ sv'.bat = 0 /\ sv' = NoSave
      /\ UNCHANGED <<bbp, subdir, deldir, bkVars, status, mem, BBP_dirty, syncVars, clock>>
  BY DEF SaveDone, Saving, NoSave, UnchangedBySaver
<1>2. heap \in HeapFiles /\ sv.bat \in Bats /\ dirty \in [Bats -> BOOLEAN] /\ mem[sv.bat] \in Nat
  BY <1>1 DEF IInv, TypeOK, Control, HeapFiles, Bats, SaverInv, Memory
<1>3. /\ heap' \in HeapFiles
      /\ \A e \in Dirs, x \in Bats : e # "BAT" \/ x # sv.bat => heap'[e][x] = heap[e][x]
      /\ dirty' \in [Bats -> BOOLEAN]
      /\ \A x \in Bats \ {sv.bat} : dirty'[x] = dirty[x]
      /\ dirty'[sv.bat] => dirty[sv.bat]
      /\ ~dirty'[sv.bat] => heap'["BAT"][sv.bat] = mem[sv.bat]
  <2>1. CASE UNCHANGED <<heap, dirty>>
    BY <1>1, <1>2, <2>1 DEF IInv, SaverInv
  <2>2. CASE /\ heap' = [heap EXCEPT !["BAT"][sv.bat] = mem[sv.bat]]
             /\ dirty' = [dirty EXCEPT ![sv.bat] = FALSE]
    <3>1. /\ heap' \in HeapFiles
          /\ \A e \in Dirs, x \in Bats : e # "BAT" \/ x # sv.bat => heap'[e][x] = heap[e][x]
          /\ heap'["BAT"][sv.bat] = mem[sv.bat]
      BY <1>2, <2>2 DEF HeapFiles, Dirs, Contents
    <3>2. dirty' \in [Bats -> BOOLEAN] /\ ~dirty'[sv.bat]
      BY <1>2, <2>2, Zenon
    <3>3. \A x \in Bats \ {sv.bat} : dirty'[x] = dirty[x]
      BY <1>2, <2>2
    <3> QED BY <3>1, <3>2, <3>3
  <2> QED BY <2>1, <2>2 DEF SaveDone
<1>4. RecDir' = RecDir
  BY <1>1 DEF RecDir
<1>5. TypeOK'
  BY <1>1, <1>2, <1>3, <1>4 DEF IInv, TypeOK, HeapFiles, NoSave
<1>6. Control'
  <2>1. pc = "saving" => cur \in Bats /\ sv.bat # cur
    BY DEF IInv, TypeOK, Control, Backups, BackedUp
  <2> QED BY <1>1, <1>2, <1>3, <1>4, <2>1 DEF IInv, TypeOK, Control
<1>7. DirPlaces'
  BY <1>1, <1>2, <1>3, <1>4 DEF IInv, DirPlaces, Live
<1>8. Counters'
  BY <1>1, <1>2, <1>3, <1>4 DEF IInv, TypeOK, Control, Counters, Empty, Dirs
<1>9. Images'
  BY <1>1, <1>2, <1>3, <1>4 DEF IInv, SaverInv, Images, RecHeap, Dirs
<1>10. Backups'
  <2>1. \A b \in Bats : sv'.bat # b /\ (dirty'[b] => dirty[b])
    BY <1>1, <1>3 DEF Bats
  <2> QED BY <1>1, <1>2, <1>3, <1>4, <2>1 DEF IInv, Backups, BackedUp, Dirs
<1>11. SaverInv'
  BY <1>1, <1>2, <1>3, <1>4 DEF IInv, TypeOK, Control, Bats, SaverInv, Dirs
<1>12. Memory'
  BY <1>1, <1>2, <1>3, <1>4 DEF IInv, SaverInv, Memory, Dirs, Persistent
<1>13. Flags'
  BY <1>1, <1>2, <1>3, <1>4 DEF IInv, Flags, Unprocessed, Live
<1> QED BY <1>4, <1>5, <1>6, <1>7, <1>8, <1>9, <1>10, <1>11, <1>12, <1>13 DEF IInv

LEMMA SyncStartKeeps ==
    ASSUME IInv, Disciplined, NEW L \in SUBSET Bats, NEW subc \in BOOLEAN, SyncStart(L,
       subc)
    PROVE  IInv' /\ RecDir' = RecDir
<1> USE ConstantsAssumption
    DEF Running, SyncPcs, BootPcs, MidPcs, PostPcs, SavePcs, bkVars, batVars, diskVars,
       syncVars
<1>1. /\ pc = "idle" /\ pc' = "prepare" /\ L # {} /\ list' = L /\ sub' = subc /\ todo' = L
      /\ failed \subseteq L
      /\ UNCHANGED <<diskVars, bkVars, batVars, BBP_dirty, bbpdirty, cur, failed, sv,
              clock>>
  BY DEF SyncStart, UnchangedBySync, Disciplined
<1>2. /\ BBP_dirty'
      /\ ~sub' => list' = Bats /\ sv.pc = "idle"
  BY Zenon DEF SyncStart, Disciplined, UnchangedBySync
<1>3. RecDir' = RecDir
  BY <1>1 DEF RecDir
<1>4. TypeOK'
  BY <1>1, <1>2, <1>3 DEF IInv, TypeOK
<1>5. Control'
  BY <1>1, <1>2, <1>3 DEF IInv, TypeOK, Control
<1>6. DirPlaces'
  BY <1>1, <1>2, <1>3 DEF IInv, DirPlaces, Live
<1>7. Counters'
  BY <1>1, <1>2, <1>3 DEF IInv, Counters, Empty
<1>8. Images'
  BY <1>1, <1>2, <1>3 DEF IInv, Images, RecHeap
<1>9. Backups'
  BY <1>1, <1>2, <1>3 DEF IInv, Control, Backups, BackedUp
<1>10. SaverInv'
  BY <1>1, <1>2, <1>3 DEF IInv, SaverInv
<1>11. Memory'
  BY <1>1, <1>2, <1>3 DEF IInv, Memory
<1>12. Flags'
  BY <1>1, <1>2, <1>3 DEF IInv, Flags, Unprocessed, Live
<1> QED BY <1>3, <1>4, <1>5, <1>6, <1>7, <1>8, <1>9, <1>10, <1>11, <1>12 DEF IInv

LEMMA SyncPrepareKeeps ==
    ASSUME IInv, Disciplined, SyncPrepare
    PROVE  IInv' /\ RecDir' = RecDir
<1> USE ConstantsAssumption
    DEF Running, SyncPcs, BootPcs, MidPcs, PostPcs, SavePcs, bkVars, batVars, diskVars,
       syncVars
<1>1. pc = "prepare" /\ UNCHANGED <<batVars, BBP_dirty, sv, clock>>
      /\ sub \in BOOLEAN /\ list \subseteq Bats
  BY DEF SyncPrepare, UnchangedBySync, IInv, TypeOK
<1>2. /\ heap' = heap /\ deldir' = deldir /\ subdir' \in BOOLEAN
      /\ bbp' \in [Dirs -> Entries \cup {Absent, Torn}] /\ RecDir' = RecDir
      /\ \/ /\ pc' = "backup" /\ bbpdirty' = BBP_dirty /\ UNCHANGED <<list, sub, todo,
              cur, failed>>
            /\ backup_files' = backup_files + 1
            /\ backup_subdir' = (IF sub THEN backup_subdir + 1 ELSE backup_subdir)
            /\ backup_dir' = (IF sub THEN 2 ELSE 1) /\ (backup_dir # 2 \/ sub)
            /\ bbp'["SUB"] # Absent <=> sub
            /\ bbp'["BAK"] # Absent <=> ~sub
         \/ /\ ReturnFail
            /\ UNCHANGED <<bbp, backup_files, backup_dir, backup_subdir>>
  <2>1. CASE BBPprepare(sub) /\ backup_files' = backup_files + 1 /\ pc' = "backup"
             /\ bbpdirty' = BBP_dirty /\ UNCHANGED <<list, sub, todo, cur, failed>>
    <3>1. /\ heap' = heap /\ deldir' = deldir /\ subdir' \in BOOLEAN
          /\ bbp' \in [Dirs -> Entries \cup {Absent, Torn}]
          /\ RecDir' = RecDir
          /\ bbp'["SUB"] # Absent <=> sub
          /\ bbp'["BAK"] # Absent <=> ~sub
          /\ backup_dir' = (IF sub THEN 2 ELSE 1)
          /\ backup_dir # 2 \/ sub
          /\ backup_subdir' = (IF sub THEN backup_subdir + 1 ELSE backup_subdir)
      BY <1>1, <2>1, PrepareMoves
    <3> QED BY <2>1, <3>1
  <2>2. CASE BBPprepareFails(sub) /\ UNCHANGED backup_files /\ ReturnFail
    <3>1. /\ heap' = heap /\ bbp' = bbp /\ deldir' = deldir /\ subdir' \in BOOLEAN
          /\ backup_dir' = backup_dir /\ backup_subdir' = backup_subdir
      BY <1>1, <2>2, PrepareFails
    <3> QED BY <2>2, <3>1 DEF IInv, TypeOK, RecDir
  <2> QED BY <2>1, <2>2 DEF SyncPrepare
<1>3. TypeOK'
  <2>1. bbpdirty' \in BOOLEAN /\ sub' \in BOOLEAN
    BY <1>1, <1>2, Zenon DEF IInv, TypeOK, ReturnFail, Return
  <2> QED BY <1>1, <1>2, <2>1 DEF IInv, TypeOK, ReturnFail, Return
<1>4. Control'
  <2>1. CASE pc' = "backup" /\ bbpdirty' = BBP_dirty /\ UNCHANGED <<list, sub, todo, cur,
          failed>>
    <3>1. bbpdirty'
      BY <1>1, <2>1, Zenon DEF IInv, Control
    <3> QED BY <1>1, <1>2, <2>1, <3>1 DEF IInv, TypeOK, Control
  <2>2. CASE ReturnFail
    BY <1>1, <1>2, <2>2 DEF IInv, TypeOK, Control, ReturnFail, Return
  <2> QED BY <1>2, <2>1, <2>2
<1>5. DirPlaces'
  BY <1>1, <1>2 DEF IInv, TypeOK, DirPlaces, ReturnFail, Return
<1>6. Counters'
  BY <1>1, <1>2 DEF IInv, TypeOK, Counters, Empty, ReturnFail, Return
<1>7. Images'
  BY <1>1, <1>2 DEF IInv, Images, RecHeap
<1>8. Backups'
  <2>1. \A b \in Bats : heap["SUB"][b] # Absent => backup_dir' = 2 /\ b \in list' \cup failed'
    BY <1>1, <1>2 DEF IInv, Backups, ReturnFail, Return
  <2>2. \A b \in Bats : ~BackedUp(b)'
    BY <1>1, <1>2 DEF IInv, Control, BackedUp, ReturnFail, Return
  <2> QED BY <1>1, <1>2, <2>1, <2>2 DEF IInv, Backups, ReturnFail, Return
<1>9. SaverInv'
  BY <1>1, <1>2 DEF IInv, SaverInv
<1>10. Memory'
  BY <1>1, <1>2 DEF IInv, Memory, ReturnFail, Return
<1>11. Flags'
  BY <1>1, <1>2 DEF IInv, Flags, Unprocessed, ReturnFail, Return
<1> QED BY <1>2, <1>3, <1>4, <1>5, <1>6, <1>7, <1>8, <1>9, <1>10, <1>11 DEF IInv

LEMMA SyncBackupKeeps ==
    ASSUME IInv, Disciplined, NEW b \in Bats, SyncBackup(b)
    PROVE  IInv' /\ RecDir' = RecDir
<1> USE ConstantsAssumption
    DEF Running, SyncPcs, BootPcs, MidPcs, PostPcs, SavePcs, bkVars, batVars, diskVars,
       syncVars
<1>1. /\ pc = "backup" /\ b \in todo /\ todo' = todo \ {b} /\ sv.bat # b
      /\ backup_files' = backup_files + BackedUpFiles(b)
      /\ backup_subdir' = backup_subdir + (IF sub /\ status[b] = "existing" THEN 1 ELSE 0)
      /\ UNCHANGED <<bbp, subdir, deldir, backup_dir, batVars, BBP_dirty, pc, list, sub,
                     bbpdirty, cur, failed, sv, clock>>
  BY DEF SyncBackup, UnchangedBySync
<1>2. /\ heap \in HeapFiles /\ b \in list /\ backup_dir = (IF sub THEN 2 ELSE 1)
      /\ status[b] \in {"existing", "deleted"} <=> RecDir[b] # Absent
      /\ heap["SUB"][b] # Absent => heap["BAK"][b] = Absent /\ sub
  BY <1>1 DEF IInv, TypeOK, HeapFiles, Control, DirPlaces, Flags, Unprocessed, Backups
<1>3. /\ heap' \in HeapFiles
      /\ \A e \in Dirs, x \in Bats : x # b => heap'[e][x] = heap[e][x]
      /\ \/ /\ sub /\ heap["BAK"][b] # Absent /\ RecDir[b] # Absent
            /\ heap'["SUB"][b] = heap["BAK"][b] /\ heap'["BAK"][b] = Absent
            /\ heap'["BAT"][b] = heap["BAT"][b]
         \/ /\ sub /\ heap["BAK"][b] = Absent /\ heap["SUB"][b] = Absent
            /\ status[b] = "existing" /\ dirty[b]
            /\ heap'["SUB"][b] = heap["BAT"][b] /\ heap'["BAT"][b] = Absent
            /\ heap'["BAK"][b] = heap["BAK"][b]
         \/ /\ ~sub /\ heap["BAK"][b] = Absent /\ status[b] = "existing" /\ dirty[b]
            /\ heap'["BAK"][b] = heap["BAT"][b] /\ heap'["BAT"][b] = Absent
            /\ heap'["SUB"][b] = heap["SUB"][b]
         \/ /\ heap' = heap
            /\ sub => heap["BAK"][b] = Absent
            /\ status[b] = "existing" /\ dirty[b] =>
                  heap[IF sub THEN "SUB" ELSE "BAK"][b] # Absent
  <2>1. heap' = Backup(b)
    BY DEF SyncBackup
  <2>2. RecDir[b] = Absent => heap["BAK"][b] = Absent
    BY <1>1 DEF IInv, Backups
  <2>3. CASE sub /\ heap["BAK"][b] # Absent
    <3>1. status[b] \in {"existing", "deleted"} /\ RecDir[b] # Absent
      BY <1>2, <2>2, <2>3
    <3> DEFINE h == MoveHeap(heap, b, "BAK", "SUB")
    <3>2. /\ h \in HeapFiles
          /\ \A e \in Dirs, x \in Bats : x # b => h[e][x] = heap[e][x]
          /\ h["SUB"][b] = heap["BAK"][b] /\ h["BAK"][b] = Absent /\ h["BAT"][b] = heap["BAT"][b]
      BY <1>2 DEF HeapFiles, MoveHeap, Contents, Dirs
    <3>3. h["SUB"][b] # Absent
      BY <2>3, <3>2
    <3> HIDE DEF h
    <3>4. heap' = h
      BY <2>1, <2>3, <3>1, <3>3 DEF Backup, h
    <3> QED BY <2>3, <3>1, <3>2, <3>4
  <2>4. CASE sub /\ heap["BAK"][b] = Absent
    <3>1. CASE status[b] = "existing" /\ dirty[b] /\ heap["SUB"][b] = Absent
      <4>1. heap' = MoveHeap(heap, b, "BAT", "SUB")
        BY <2>1, <2>4, <3>1 DEF Backup
      <4> QED BY <1>2, <2>4, <3>1, <4>1 DEF HeapFiles, MoveHeap, Contents, Dirs
    <3>2. CASE ~(status[b] = "existing" /\ dirty[b] /\ heap["SUB"][b] = Absent)
      <4>1. heap' = heap
        BY <2>1, <2>4, <3>2 DEF Backup
      <4> QED BY <1>2, <2>4, <3>2, <4>1
    <3> QED BY <3>1, <3>2
  <2>5. CASE ~sub
    <3>1. CASE status[b] = "existing" /\ dirty[b] /\ heap["BAK"][b] = Absent
      <4>1. heap' = MoveHeap(heap, b, "BAT", "BAK")
        BY <2>1, <2>5, <3>1 DEF Backup
      <4> QED BY <1>2, <2>5, <3>1, <4>1 DEF HeapFiles, MoveHeap, Contents, Dirs
    <3>2. CASE ~(status[b] = "existing" /\ dirty[b] /\ heap["BAK"][b] = Absent)
      <4>1. heap' = heap
        BY <2>1, <2>5, <3>2 DEF Backup
      <4> QED BY <1>2, <2>5, <3>2, <4>1
    <3> QED BY <3>1, <3>2
  <2> QED BY <2>3, <2>4, <2>5
<1>4. RecDir' = RecDir
  BY <1>1 DEF RecDir
<1>5. TypeOK'
  BY <1>1, <1>2, <1>3, <1>4 DEF IInv, TypeOK, HeapFiles, BackedUpFiles
<1>6. Control'
  BY <1>1, <1>2, <1>3, <1>4 DEF IInv, TypeOK, Control
<1>7. DirPlaces'
  BY <1>1, <1>2, <1>3, <1>4 DEF IInv, DirPlaces, Live
<1>8. Counters'
  <2>1. sub => backup_subdir # 0
    BY <1>1, <1>2 DEF IInv, TypeOK, Counters
  <2> QED BY <1>1, <1>2, <1>3, <1>4, <2>1 DEF IInv, TypeOK, Control, Counters, Empty,
          Dirs, BackedUpFiles
<1>9. Images'
  BY <1>1, <1>2, <1>3, <1>4 DEF IInv, Images, RecHeap, Dirs
<1>10. Backups'
  <2>1. status[b] = "existing" /\ heap["BAK"][b] = Absent /\ heap["SUB"][b] = Absent =>
          heap["BAT"][b] # Absent
    BY <1>2 DEF IInv, Images, RecHeap
  <2> QED BY <1>1, <1>2, <1>3, <1>4, <2>1 DEF IInv, TypeOK, Backups, BackedUp, Dirs,
          Persistent
<1>11. SaverInv'
  BY <1>1, <1>2, <1>3, <1>4, SMTT(60) DEF IInv, TypeOK, Control, Bats, SaverInv, Dirs
<1>12. Memory'
  BY <1>1, <1>2, <1>3, <1>4 DEF IInv, TypeOK, Memory, Dirs, Persistent
<1>13. Flags'
  BY <1>1, <1>2, <1>3, <1>4 DEF IInv, Flags, Unprocessed, Live
<1> QED BY <1>4, <1>5, <1>6, <1>7, <1>8, <1>9, <1>10, <1>11, <1>12, <1>13 DEF IInv

LEMMA SyncSaveKeeps ==
    ASSUME IInv, Disciplined, NEW b \in Bats, SyncSave(b)
    PROVE  IInv' /\ RecDir' = RecDir
<1> USE ConstantsAssumption
    DEF Running, SyncPcs, BootPcs, MidPcs, PostPcs, SavePcs, bkVars, batVars, diskVars,
       syncVars
<1>1. /\ pc = "save" /\ b \in todo /\ todo' = todo \ {b} /\ sv.bat # b
      /\ pc' = (IF status[b] \in Persistent /\ dirty[b] THEN "saving" ELSE "save")
      /\ cur' = (IF status[b] \in Persistent /\ dirty[b] THEN b ELSE cur)
      /\ UNCHANGED <<bbp, subdir, deldir, bkVars, batVars, BBP_dirty, list, sub, bbpdirty,
              failed, sv, clock>>
  BY DEF SyncSave, UnchangedBySync
<1>2. heap \in HeapFiles /\ list \subseteq Bats /\ b \in list /\ cur' \in 0 .. N
  BY <1>1 DEF IInv, TypeOK, HeapFiles, Control, Bats
<1>3. /\ heap' \in HeapFiles
      /\ \A e \in Dirs, x \in Bats : heap'[e][x] =
            IF x = b /\ e = "BAT" /\ status[b] \in Persistent /\ dirty[b] THEN Torn ELSE heap[e][x]
  <2>1. CASE status[b] \in Persistent /\ dirty[b]
    <3>1. heap' = [heap EXCEPT !["BAT"][b] = Torn]
      BY <2>1 DEF SyncSave
    <3> QED BY <1>2, <2>1, <3>1 DEF HeapFiles, Dirs, Contents
  <2>2. CASE ~(status[b] \in Persistent /\ dirty[b])
    <3>1. heap' = heap
      BY <2>2 DEF SyncSave
    <3> QED BY <1>2, <2>2, <3>1
  <2> QED BY <2>1, <2>2
<1>4. RecDir' = RecDir
  BY <1>1 DEF RecDir
<1>5. TypeOK'
  BY <1>1, <1>2, <1>3, <1>4 DEF IInv, TypeOK, HeapFiles
<1>6. Control'
  BY <1>1, <1>2, <1>3, <1>4 DEF IInv, TypeOK, Control
<1>7. DirPlaces'
  BY <1>1, <1>2, <1>3, <1>4 DEF IInv, DirPlaces, Live
<1>8. Counters'
  BY <1>1, <1>2, <1>3, <1>4 DEF IInv, TypeOK, Control, Counters, Empty, Dirs
<1>9. Images'
  <2>1. status[b] \in Persistent /\ dirty[b] /\ RecDir[b] # Absent =>
            heap["SUB"][b] # Absent \/ heap["BAK"][b] # Absent
    BY <1>1, <1>2 DEF IInv, Backups, BackedUp
  <2> QED BY <1>1, <1>2, <1>3, <1>4, <2>1 DEF IInv, Images, RecHeap, Dirs
<1>10. Backups'
  BY <1>1, <1>2, <1>3, <1>4 DEF IInv, SaverInv, Backups, BackedUp, Dirs
<1>11. SaverInv'
  BY <1>1, <1>2, <1>3, <1>4 DEF IInv, TypeOK, Control, Bats, SaverInv, Dirs
<1>12. Memory'
  BY <1>1, <1>2, <1>3, <1>4 DEF IInv, SaverInv, Memory, Dirs
<1>13. Flags'
  BY <1>1, <1>2, <1>3, <1>4 DEF IInv, Flags, Unprocessed, Live
<1> QED BY <1>4, <1>5, <1>6, <1>7, <1>8, <1>9, <1>10, <1>11, <1>12, <1>13 DEF IInv

LEMMA SyncSavedKeeps ==
    ASSUME IInv, Disciplined, SyncSaved
    PROVE  IInv' /\ RecDir' = RecDir
<1> USE ConstantsAssumption
    DEF Running, SyncPcs, BootPcs, MidPcs, PostPcs, SavePcs, bkVars, batVars, diskVars,
       syncVars
<1>1. /\ pc = "saving" /\ pc' = "save" /\ cur' = 0 /\ cur \in list
      /\ UNCHANGED <<bbp, subdir, deldir, bkVars, status, mem, BBP_dirty, list, sub,
              bbpdirty, todo, failed, sv, clock>>
  BY DEF SyncSaved, UnchangedBySync, IInv, Control
<1>2. heap \in HeapFiles /\ cur \in Bats /\ mem[cur] \in Contents
  BY <1>1 DEF IInv, TypeOK, HeapFiles, Control
<1>3. /\ heap' \in HeapFiles
      /\ \A e \in Dirs, x \in Bats :
            heap'[e][x] = IF x = cur /\ e = "BAT" THEN mem[cur] ELSE heap[e][x]
  <2>1. heap' = [heap EXCEPT !["BAT"][cur] = mem[cur]]
    BY DEF SyncSaved
  <2> QED BY <1>2, <2>1 DEF HeapFiles, Dirs, Contents
<1>4. dirty' = [dirty EXCEPT ![cur] = FALSE] /\ dirty \in [Bats -> BOOLEAN]
  BY DEF SyncSaved, IInv, TypeOK
<1>5. dirty' \in [Bats -> BOOLEAN] /\ ~dirty'[cur]
  BY <1>2, <1>4, Zenon
<1>6. RecDir' = RecDir
  BY <1>1 DEF RecDir
<1>7. TypeOK'
  BY <1>1, <1>2, <1>3, <1>4, <1>5, <1>6 DEF IInv, TypeOK, HeapFiles
<1>8. Control'
  BY <1>1, <1>2, <1>3, <1>4, <1>5, <1>6 DEF IInv, TypeOK, Control
<1>9. DirPlaces'
  BY <1>1, <1>2, <1>3, <1>4, <1>5, <1>6 DEF IInv, DirPlaces, Live
<1>10. Counters'
  BY <1>1, <1>2, <1>3, <1>4, <1>5, <1>6 DEF IInv, TypeOK, Control, Counters, Empty, Dirs
<1>11. Images'
  <2>1. RecDir[cur] # Absent => heap["SUB"][cur] # Absent \/ heap["BAK"][cur] # Absent
    BY <1>1, <1>2 DEF IInv, Control, Backups, BackedUp
  <2> QED BY <1>1, <1>2, <1>3, <1>4, <1>5, <1>6, <2>1 DEF IInv, Images, RecHeap, Dirs
<1>12. Backups'
  BY <1>1, <1>2, <1>3, <1>4, <1>5, <1>6 DEF IInv, SaverInv, Backups, BackedUp, Dirs
<1>13. SaverInv'
  <2>1. sv.bat # cur
    BY <1>1, <1>2 DEF IInv, Backups, BackedUp
  <2> QED BY <1>1, <1>2, <1>3, <1>4, <1>5, <1>6, <2>1 DEF IInv, TypeOK, Control, SaverInv,
          Dirs, Bats
<1>14. Memory'
  BY <1>1, <1>2, <1>3, <1>4, <1>5, <1>6 DEF IInv, SaverInv, Memory, Dirs
<1>15. Flags'
  BY <1>1, <1>2, <1>3, <1>4, <1>5, <1>6 DEF IInv, Flags, Unprocessed, Live
<1> QED BY <1>6, <1>7, <1>8, <1>9, <1>10, <1>11, <1>12, <1>13, <1>14, <1>15 DEF IInv

LEMMA SyncPhaseKeeps ==
    ASSUME IInv, Disciplined, SyncPhase
    PROVE  IInv' /\ RecDir' = RecDir
<1> USE ConstantsAssumption
    DEF Running, SyncPcs, BootPcs, MidPcs, PostPcs, SavePcs, bkVars, batVars, diskVars,
       syncVars
<1>1. /\ todo = {} /\ UNCHANGED <<diskVars, bkVars, batVars, BBP_dirty, list, sub,
        bbpdirty, cur, failed, sv, clock>>
      /\ \/ pc = "backup" /\ pc' = "save" /\ todo' = list
         \/ pc = "save" /\ pc' = "dir" /\ todo' = todo
  BY DEF SyncPhase, UnchangedBySync
<1>2. RecDir' = RecDir
  BY <1>1 DEF RecDir
<1>3. TypeOK'
  BY <1>1, <1>2 DEF IInv, TypeOK
<1>4. Control'
  BY <1>1, <1>2 DEF IInv, TypeOK, Control
<1>5. DirPlaces'
  BY <1>1, <1>2 DEF IInv, DirPlaces
<1>6. Counters'
  BY <1>1, <1>2 DEF IInv, Counters, Empty
<1>7. Images'
  BY <1>1, <1>2 DEF IInv, Images, RecHeap
<1>8. Backups'
  BY <1>1, <1>2 DEF IInv, Backups, BackedUp
<1>9. SaverInv'
  BY <1>1, <1>2 DEF IInv, SaverInv
<1>10. Memory'
  BY <1>1, <1>2 DEF IInv, Memory
<1>11. Flags'
  BY <1>1, <1>2 DEF IInv, Flags, Unprocessed
<1> QED BY <1>2, <1>3, <1>4, <1>5, <1>6, <1>7, <1>8, <1>9, <1>10, <1>11 DEF IInv

LEMMA SyncDirKeeps ==
    ASSUME IInv, Disciplined, SyncDir
    PROVE  IInv' /\ RecDir' = RecDir
<1> USE ConstantsAssumption
    DEF Running, SyncPcs, BootPcs, MidPcs, PostPcs, SavePcs, bkVars, batVars, diskVars,
       syncVars
<1>1. /\ pc = "dir" /\ bbp' = [bbp EXCEPT !["BAT"] = Torn]
      /\ UNCHANGED <<heap, subdir, deldir, bkVars, batVars, BBP_dirty, list, sub,
              bbpdirty, todo, cur, failed, sv, clock>>
  BY DEF SyncDir, UnchangedBySync
<1>2. /\ bbp \in [Dirs -> Entries \cup {Absent, Torn}]
      /\ (sub /\ bbp["SUB"] # Absent) \/ (~sub /\ bbp["SUB"] = Absent /\ bbp["BAK"] # Absent)
  BY <1>1 DEF IInv, TypeOK, DirPlaces
<1>3. /\ bbp' \in [Dirs -> Entries \cup {Absent, Torn}]
      /\ bbp'["SUB"] = bbp["SUB"] /\ bbp'["BAK"] = bbp["BAK"]
  BY <1>1, <1>2 DEF Dirs
<1>4. pc' = "dirwrite"
  BY <1>1, <1>2 DEF SyncDir, OldDir
<1>5. RecDir' = RecDir
  BY <1>1, <1>2, <1>3 DEF RecDir
<1>6. TypeOK'
  BY <1>1, <1>2, <1>3, <1>4, <1>5 DEF IInv, TypeOK
<1>7. Control'
  BY <1>1, <1>2, <1>3, <1>4, <1>5 DEF IInv, TypeOK, Control
<1>8. DirPlaces'
  BY <1>1, <1>2, <1>3, <1>4, <1>5 DEF IInv, TypeOK, DirPlaces
<1>9. Counters'
  BY <1>1, <1>2, <1>3, <1>4, <1>5 DEF IInv, Counters, Empty
<1>10. Images'
  BY <1>1, <1>2, <1>3, <1>4, <1>5 DEF IInv, Images, RecHeap
<1>11. Backups'
  BY <1>1, <1>2, <1>3, <1>4, <1>5 DEF IInv, Backups, BackedUp
<1>12. SaverInv'
  BY <1>1, <1>2, <1>3, <1>4, <1>5 DEF IInv, SaverInv
<1>13. Memory'
  BY <1>1, <1>2, <1>3, <1>4, <1>5 DEF IInv, Memory
<1>14. Flags'
  BY <1>1, <1>2, <1>3, <1>4, <1>5 DEF IInv, Flags, Unprocessed, Live
<1> QED BY <1>5, <1>6, <1>7, <1>8, <1>9, <1>10, <1>11, <1>12, <1>13, <1>14 DEF IInv

LEMMA SyncDirDoneKeeps ==
    ASSUME IInv, Disciplined, SyncDirDone
    PROVE  IInv' /\ RecDir' = RecDir
<1> USE ConstantsAssumption
    DEF Running, SyncPcs, BootPcs, MidPcs, PostPcs, SavePcs, bkVars, batVars, diskVars,
       syncVars
<1>1. /\ pc = "dirwrite" /\ pc' = "switch"
      /\ bbp' = [bbp EXCEPT !["BAT"] = [b \in Bats |-> EntryOf(b)]]
      /\ UNCHANGED <<heap, subdir, deldir, bkVars, batVars, BBP_dirty, list, sub,
              bbpdirty, todo, cur, failed, sv, clock>>
  BY DEF SyncDirDone, UnchangedBySync
<1>2. /\ bbp \in [Dirs -> Entries \cup {Absent, Torn}] /\ RecDir \in GoodEntries
      /\ \/ sub /\ bbp["SUB"] # Absent /\ RecDir = OldDir
         \/ ~sub /\ bbp["SUB"] = Absent /\ bbp["BAK"] # Absent /\ list = Bats
      /\ \A b \in Bats : Live[b] \in Contents
  BY <1>1 DEF IInv, TypeOK, Control, DirPlaces, RecDir, OldDir, Live, Contents
<1>3. \A b \in Bats : /\ EntryOf(b) = (IF b \in list THEN Live[b] ELSE RecDir[b])
                      /\ EntryOf(b) \in Contents
  BY <1>2 DEF EntryOf, GoodEntries, Contents
<1>4. /\ bbp' \in [Dirs -> Entries \cup {Absent, Torn}]
      /\ bbp'["BAT"] = [b \in Bats |-> IF b \in list THEN Live[b] ELSE RecDir[b]]
      /\ bbp'["SUB"] = bbp["SUB"] /\ bbp'["BAK"] = bbp["BAK"]
  <2>1. [b \in Bats |-> EntryOf(b)] \in Entries
    BY <1>3 DEF Entries
  <2>2. [b \in Bats |-> EntryOf(b)] = [b \in Bats |-> IF b \in list THEN Live[b] ELSE RecDir[b]]
    BY <1>3
  <2> QED BY <1>1, <1>2, <2>1, <2>2 DEF Dirs
<1>5. RecDir' = RecDir
  BY <1>1, <1>2, <1>4 DEF RecDir
<1>6. TypeOK'
  BY <1>1, <1>2, <1>3, <1>4, <1>5 DEF IInv, TypeOK
<1>7. Control'
  BY <1>1, <1>2, <1>3, <1>4, <1>5 DEF IInv, TypeOK, Control
<1>8. DirPlaces'
  <2>1. Live' = Live
    BY <1>1 DEF Live
  <2> QED BY <1>1, <1>2, <1>3, <1>4, <1>5, <2>1 DEF IInv, TypeOK, DirPlaces
<1>9. Counters'
  BY <1>1, <1>2, <1>3, <1>4, <1>5 DEF IInv, Counters, Empty
<1>10. Images'
  BY <1>1, <1>2, <1>3, <1>4, <1>5 DEF IInv, Images, RecHeap
<1>11. Backups'
  BY <1>1, <1>2, <1>3, <1>4, <1>5 DEF IInv, Backups, BackedUp
<1>12. SaverInv'
  BY <1>1, <1>2, <1>3, <1>4, <1>5 DEF IInv, SaverInv
<1>13. Memory'
  BY <1>1, <1>2, <1>3, <1>4, <1>5 DEF IInv, Memory
<1>14. Flags'
  BY <1>1, <1>2, <1>3, <1>4, <1>5 DEF IInv, Flags, Unprocessed, Live
<1> QED BY <1>5, <1>6, <1>7, <1>8, <1>9, <1>10, <1>11, <1>12, <1>13, <1>14 DEF IInv

LEMMA SyncFailsKeeps ==
    ASSUME IInv, Disciplined, SyncFails
    PROVE  IInv' /\ RecDir' = RecDir
<1> USE ConstantsAssumption
    DEF Running, SyncPcs, BootPcs, MidPcs, PostPcs, SavePcs, bkVars, batVars, diskVars,
       syncVars
<1>1. /\ pc \in {"backup", "saving", "dirwrite"} /\ Return /\ failed' = failed \cup list
      /\ UNCHANGED <<diskVars, bkVars, batVars, BBP_dirty, sv, clock>>
  BY DEF SyncFails, ReturnFail, UnchangedBySync
<1>2. RecDir' = RecDir
  BY <1>1 DEF RecDir
<1>3. TypeOK'
  <2>1. bbpdirty' \in BOOLEAN /\ sub' \in BOOLEAN
    BY <1>1, Zenon DEF Return
  <2> QED BY <1>1, <1>2, <2>1 DEF IInv, TypeOK, Return
<1>4. Control'
  BY <1>1, <1>2 DEF IInv, TypeOK, Control, Return
<1>5. DirPlaces'
  BY <1>1, <1>2 DEF IInv, DirPlaces, Return
<1>6. Counters'
  BY <1>1, <1>2 DEF IInv, Counters, Empty, Return
<1>7. Images'
  BY <1>1, <1>2 DEF IInv, Images, RecHeap
<1>8. Backups'
  BY <1>1, <1>2 DEF IInv, Backups, BackedUp, Return
<1>9. SaverInv'
  BY <1>1, <1>2 DEF IInv, SaverInv
<1>10. Memory'
  BY <1>1, <1>2 DEF IInv, Memory, Return
<1>11. Flags'
  BY <1>1, <1>2 DEF IInv, Flags, Unprocessed, Return
<1> QED BY <1>2, <1>3, <1>4, <1>5, <1>6, <1>7, <1>8, <1>9, <1>10, <1>11 DEF IInv

LEMMA SwitchOutcome ==
    ASSUME IInv, Disciplined, SyncSwitch
    PROVE  /\ pc = "switch" /\ UNCHANGED <<bkVars, batVars, BBP_dirty, sv, clock>>
           /\ \/ /\ pc' = "after" /\ UNCHANGED <<list, sub, bbpdirty, todo, cur, failed>>
                 /\ heap' = [d \in Dirs |-> IF d = "SUB" \/ (d = "BAK" /\ ~sub) THEN NoHeaps ELSE heap[d]]
                 /\ bbp' = [d \in Dirs |-> IF d = "SUB" \/ (d = "BAK" /\ ~sub) THEN Absent ELSE bbp[d]]
                 /\ subdir' = FALSE /\ deldir' = TRUE
              \/ ReturnFail /\ UNCHANGED <<heap, bbp, subdir>> /\ deldir' = FALSE
<1>1. pc = "switch" /\ UNCHANGED <<bkVars, batVars, BBP_dirty, sv, clock>>
  BY DEF SyncSwitch, UnchangedBySync
<1>2. "rename_once" \notin Faults /\ "removedir" \notin Faults
  BY DEF Disciplined
<1>3. ~deldir
  BY <1>1 DEF IInv, Control, Running, SyncPcs
<1> QED BY <1>1, <1>2, <1>3, ZenonT(60) DEF SyncSwitch

LEMMA SwitchFailsKeeps ==
    ASSUME IInv, Disciplined, pc = "switch", UNCHANGED <<bkVars, batVars, BBP_dirty, sv,
       clock>>,
           ReturnFail, UNCHANGED <<heap, bbp, subdir>>, deldir' = FALSE
    PROVE  IInv' /\ RecDir' = RecDir
<1> USE ConstantsAssumption
    DEF Running, SyncPcs, BootPcs, MidPcs, PostPcs, SavePcs, bkVars, batVars, diskVars,
       syncVars
<1>1. RecDir' = RecDir
  BY DEF RecDir
<1>2. TypeOK'
  <2>1. bbpdirty' \in BOOLEAN /\ sub' \in BOOLEAN /\ deldir' \in BOOLEAN
    BY Zenon DEF ReturnFail, Return
  <2> QED BY <2>1 DEF IInv, TypeOK, ReturnFail, Return
<1>3. Control'
  BY DEF IInv, TypeOK, Control, ReturnFail, Return
<1>4. DirPlaces'
  BY <1>1 DEF IInv, DirPlaces, ReturnFail, Return
<1>5. Counters'
  BY DEF IInv, Counters, Empty, ReturnFail, Return
<1>6. Images'
  BY <1>1 DEF IInv, Images, RecHeap
<1>7. Backups'
  BY <1>1 DEF IInv, Backups, BackedUp, ReturnFail, Return
<1>8. SaverInv'
  BY <1>1 DEF IInv, SaverInv
<1>9. Memory'
  BY <1>1 DEF IInv, Memory, ReturnFail, Return
<1>10. Flags'
  BY <1>1 DEF IInv, Flags, Unprocessed, ReturnFail, Return
<1> QED BY <1>1, <1>2, <1>3, <1>4, <1>5, <1>6, <1>7, <1>8, <1>9, <1>10 DEF IInv

LEMMA SwitchSucceedsKeeps ==
    ASSUME IInv, Disciplined, pc = "switch", UNCHANGED <<bkVars, batVars, BBP_dirty, sv,
       clock>>,
           pc' = "after", UNCHANGED <<list, sub, bbpdirty, todo, cur, failed>>,
           heap' = [d \in Dirs |-> IF d = "SUB" \/ (d = "BAK" /\ ~sub) THEN NoHeaps ELSE heap[d]],
           bbp' = [d \in Dirs |-> IF d = "SUB" \/ (d = "BAK" /\ ~sub) THEN Absent ELSE bbp[d]],
           subdir' = FALSE, deldir' = TRUE
    PROVE  IInv' /\ \A b \in Bats : RecDir'[b] = IF b \in list THEN Live[b] ELSE RecDir[b]
<1> USE ConstantsAssumption
    DEF Running, SyncPcs, BootPcs, MidPcs, PostPcs, SavePcs, bkVars, batVars, diskVars,
       syncVars
<1>1. /\ backup_dir = (IF sub THEN 2 ELSE 1) /\ list \subseteq Bats /\ sub \in BOOLEAN
      /\ RecDir \in GoodEntries /\ heap \in HeapFiles
      /\ bbp \in [Dirs -> Entries \cup {Absent, Torn}]
      /\ bbp["BAT"] = [b \in Bats |-> IF b \in list THEN Live[b] ELSE RecDir[b]]
      /\ sub => bbp["BAK"] = Absent
      /\ ~sub => list = Bats
  BY DEF IInv, TypeOK, Control, DirPlaces, HeapFiles
<1>2. \A b \in Bats :
          /\ Live[b] \in Nat \cup {Absent} /\ (Live[b] # Absent <=> status[b] \in Persistent)
          /\ heap["SUB"][b] # Absent => b \in list
          /\ b \in list => /\ sub => heap["BAK"][b] = Absent
                           /\ sv.bat # b
                           /\ status[b] \in Persistent => heap["BAT"][b] = Live[b]
  BY DEF IInv, TypeOK, Control, Memory, Live, Persistent, Backups, BackedUp
<1>3. /\ heap' \in HeapFiles
      /\ \A b \in Bats : /\ heap'["SUB"][b] = Absent
                         /\ heap'["BAK"][b] = IF sub THEN heap["BAK"][b] ELSE Absent
                         /\ heap'["BAT"][b] = heap["BAT"][b]
  BY <1>1 DEF HeapFiles, Dirs, NoHeaps, Contents
<1>4. /\ bbp' \in [Dirs -> Entries \cup {Absent, Torn}]
      /\ bbp'["SUB"] = Absent /\ bbp'["BAK"] = Absent 
      /\ bbp'["BAT"] = bbp["BAT"] /\ bbp["BAT"] # Absent
  <2>1. bbp["BAT"] # Absent
    BY <1>1, <1>2 DEF Entries, Contents, GoodEntries
  <2> QED BY <1>1, <2>1 DEF Dirs
<1>5. /\ RecDir' \in GoodEntries
      /\ \A b \in Bats : RecDir'[b] = IF b \in list THEN Live[b] ELSE RecDir[b]
  BY <1>1, <1>2, <1>4 DEF RecDir, GoodEntries
<1>6. TypeOK'
  <2>1. subdir' \in BOOLEAN /\ deldir' \in BOOLEAN
    BY Zenon
  <2> QED BY <1>1, <1>2, <1>3, <1>4, <1>5, <2>1 DEF IInv, TypeOK, HeapFiles
<1>7. Control'
  BY DEF IInv, TypeOK, Control
<1>8. DirPlaces'
  BY <1>1, <1>2, <1>3, <1>4, <1>5 DEF DirPlaces
<1>9. Counters'
  BY <1>1, <1>3 DEF IInv, Counters, Empty
<1>10. Images'
  BY <1>1, <1>2, <1>3, <1>4, <1>5 DEF IInv, Images, RecHeap
<1>11. Backups'
  BY <1>1, <1>2, <1>3, <1>4, <1>5 DEF IInv, Backups, BackedUp
<1>12. SaverInv'
  <2>1. sv.pc # "idle" => sub /\ sv.bat \in Bats /\ sv.bat \notin list
    BY <1>2 DEF IInv, TypeOK, Control, Bats
  <2> QED BY <1>1, <1>2, <1>3, <1>4, <1>5, <2>1 DEF IInv, SaverInv
<1>13. Memory'
  BY <1>1, <1>2, <1>3, <1>4, <1>5 DEF IInv, Memory
<1>14. Flags'
  BY <1>1, <1>2, <1>3, <1>4, <1>5 DEF IInv, Flags, Unprocessed, Live
<1> QED BY <1>5, <1>6, <1>7, <1>8, <1>9, <1>10, <1>11, <1>12, <1>13, <1>14 DEF IInv

LEMMA SyncSwitchKeeps ==
    ASSUME IInv, Disciplined, SyncSwitch
    PROVE  IInv'
  BY SwitchOutcome, SwitchFailsKeeps, SwitchSucceedsKeeps

LEMMA SyncAfterKeeps ==
    ASSUME IInv, Disciplined, SyncAfter
    PROVE  IInv' /\ RecDir' = RecDir
<1> USE ConstantsAssumption
    DEF Running, SyncPcs, BootPcs, MidPcs, PostPcs, SavePcs, bkVars, batVars, diskVars,
       syncVars
<1>1. /\ pc = "after" /\ pc' = "again" /\ backup_files' = FilesKept
      /\ backup_dir' = 0 /\ backup_subdir' = 0
      /\ UNCHANGED <<heap, bbp, subdir, batVars, list, sub, bbpdirty, todo, cur, failed,
              sv, clock>>
  BY DEF SyncAfter, DirReset, UnchangedBySync
<1>2. BBP_dirty' = FALSE /\ deldir' = FALSE
  <2>1. "removedir" \notin Faults
    BY DEF Disciplined
  <2> QED BY <2>1, Zenon DEF SyncAfter
<1>3. /\ backup_files' \in Nat
      /\ backup_files' = 0 => Empty("BAK") /\ sv.pc # "move"
  <2>1. /\ backup_files \in Nat /\ backup_subdir \in Nat /\ backup_files >= backup_subdir
        /\ backup_files = backup_subdir => Empty("BAK") /\ sv.pc # "move"
        /\ ~sub => Empty("BAK") /\ sv.pc = "idle"
    BY <1>1 DEF IInv, TypeOK, Control, Counters
  <2> HIDE DEF Running, SyncPcs, BootPcs
  <2> QED BY <1>1, <2>1 DEF FilesKept
<1>4. RecDir' = RecDir
  BY <1>1 DEF RecDir
<1>5. TypeOK'
  <2>1. BBP_dirty' \in BOOLEAN /\ deldir' \in BOOLEAN
    BY <1>2, Zenon
  <2> QED BY <1>1, <1>2, <1>3, <1>4, <2>1 DEF IInv, TypeOK
<1>6. Control'
  <2>1. ~deldir'
    BY <1>2
  <2> QED BY <1>1, <2>1 DEF IInv, TypeOK, Control
<1>7. DirPlaces'
  BY <1>1, <1>2, <1>3, <1>4 DEF IInv, DirPlaces
<1>8. Counters'
  BY <1>1, <1>2, <1>3, <1>4 DEF IInv, TypeOK, Counters, Empty
<1>9. Images'
  BY <1>1, <1>2, <1>3, <1>4 DEF IInv, Images, RecHeap
<1>10. Backups'
  BY <1>1, <1>2, <1>3, <1>4 DEF IInv, Backups, BackedUp
<1>11. SaverInv'
  BY <1>1, <1>2, <1>3, <1>4 DEF IInv, SaverInv
<1>12. Memory'
  BY <1>1, <1>2, <1>3, <1>4 DEF IInv, Memory
<1>13. Flags'
  BY <1>1, <1>2, <1>3, <1>4 DEF IInv, Flags, Unprocessed, Live
<1> QED BY <1>4, <1>5, <1>6, <1>7, <1>8, <1>9, <1>10, <1>11, <1>12, <1>13 DEF IInv

LEMMA SyncAgainKeeps ==
    ASSUME IInv, Disciplined, SyncAgain
    PROVE  IInv' /\ RecDir' = RecDir
<1> USE ConstantsAssumption
    DEF Running, SyncPcs, BootPcs, MidPcs, PostPcs, SavePcs, bkVars, batVars, diskVars,
       syncVars
<1>1. /\ pc = "again" /\ pc' = "epilogue" /\ todo' = list
      /\ UNCHANGED <<batVars, BBP_dirty, list, sub, bbpdirty, cur, failed, sv, clock>>
  BY DEF SyncAgain, UnchangedBySync
<1>2. /\ heap' = heap /\ deldir' = deldir /\ subdir' \in BOOLEAN
      /\ bbp' \in [Dirs -> Entries \cup {Absent, Torn}] /\ RecDir' = RecDir
      /\ backup_subdir' = backup_subdir
      /\ \/ /\ backup_files' = 1 /\ backup_dir' = 1
            /\ bbp'["SUB"] = Absent /\ bbp'["BAK"] # Absent
         \/ /\ backup_files' = (IF backup_files > 1 THEN 1 ELSE backup_files)
            /\ UNCHANGED <<bbp, backup_dir>>
  <2>1. CASE BBPprepare(FALSE) /\ backup_files' = 1
    <3>1. /\ heap' = heap /\ deldir' = deldir /\ subdir' \in BOOLEAN
          /\ bbp' \in [Dirs -> Entries \cup {Absent, Torn}]
          /\ RecDir' = RecDir /\ bbp'["SUB"] = Absent /\ bbp'["BAK"] # Absent
          /\ backup_dir' = 1 /\ backup_dir # 2 /\ backup_subdir' = backup_subdir
      BY <1>1, <2>1, PrepareMovesFull
    <3> QED BY <2>1, <3>1
  <2>2. CASE BBPprepareFails(FALSE) /\ backup_files' = IF backup_files > 1 THEN 1 ELSE backup_files
    <3>1. /\ heap' = heap /\ bbp' = bbp /\ deldir' = deldir /\ subdir' \in BOOLEAN
          /\ backup_dir' = backup_dir /\ backup_subdir' = backup_subdir
      BY <1>1, <2>2, PrepareFails
    <3> QED BY <2>2, <3>1 DEF IInv, TypeOK, RecDir
  <2> QED BY <2>1, <2>2 DEF SyncAgain
<1>3. TypeOK'
  BY <1>1, <1>2 DEF IInv, TypeOK
<1>4. Control'
  BY <1>1, <1>2 DEF IInv, TypeOK, Control
<1>5. DirPlaces'
  BY <1>1, <1>2 DEF IInv, DirPlaces
<1>6. Counters'
  BY <1>1, <1>2 DEF IInv, TypeOK, Counters, Empty
<1>7. Images'
  BY <1>1, <1>2 DEF IInv, Images, RecHeap
<1>8. Backups'
  BY <1>1, <1>2 DEF IInv, Backups, BackedUp
<1>9. SaverInv'
  BY <1>1, <1>2 DEF IInv, SaverInv
<1>10. Memory'
  BY <1>1, <1>2 DEF IInv, Memory
<1>11. Flags'
  BY <1>1, <1>2 DEF IInv, Flags, Unprocessed, Live
<1> QED BY <1>2, <1>3, <1>4, <1>5, <1>6, <1>7, <1>8, <1>9, <1>10, <1>11 DEF IInv

LEMMA SyncEpilogueKeeps ==
    ASSUME IInv, Disciplined, NEW b \in Bats, NEW referred \in BOOLEAN, SyncEpilogue(b,
       referred)
    PROVE  IInv' /\ RecDir' = RecDir
<1> USE ConstantsAssumption
    DEF Running, SyncPcs, BootPcs, MidPcs, PostPcs, SavePcs, bkVars, batVars, diskVars,
       syncVars
<1>1. /\ pc = "epilogue" /\ b \in todo /\ todo' = todo \ {b}
      /\ UNCHANGED <<bbp, subdir, deldir, bkVars, BBP_dirty, pc, list, sub, bbpdirty, cur,
              failed, sv, clock>>
  BY DEF SyncEpilogue, UnchangedBySync
<1>2. heap \in HeapFiles /\ b \in list /\ RecDir[b] = Live[b] /\ sv.bat # b
  BY <1>1 DEF IInv, TypeOK, HeapFiles, Control, Flags, Unprocessed, Backups, BackedUp
<1>3. /\ heap' \in HeapFiles
      /\ \A e \in Dirs, x \in Bats :
            e # "BAT" \/ x # b \/ status[b] # "deleted" => heap'[e][x] = heap[e][x]
  <2>1. heap' = heap \/ (heap' = [heap EXCEPT !["BAT"][b] = Absent] /\ status[b] = "deleted")
    BY DEF SyncEpilogue
  <2> QED BY <1>2, <2>1 DEF HeapFiles, Dirs, Contents
<1>4. /\ status' \in [Bats -> Statuses] /\ mem' \in [Bats -> Contents]
      /\ \A x \in Bats : x # b => status'[x] = status[x] /\ mem'[x] = mem[x]
      /\ status'[b] = Committed(status[b]) \/ (status[b] = "deleted" /\ status'[b] = "free")
      /\ status'[b] # "free" => mem'[b] = mem[b] /\ heap'["BAT"][b] = heap["BAT"][b]
  <2>1. CASE status[b] = "deleted" /\ ~referred
    BY <1>2, <2>1 DEF SyncEpilogue, IInv, TypeOK, Statuses, Contents
  <2>2. CASE ~(status[b] = "deleted" /\ ~referred)
    <3>1. /\ heap' = heap /\ mem' = [mem EXCEPT ![b] = mem[b]]
          /\ status' = [status EXCEPT ![b] = Committed(status[b])]
      BY <2>2 DEF SyncEpilogue
    <3> QED BY <2>2, <3>1 DEF IInv, TypeOK, Statuses, Contents, Committed, Persistent
  <2> QED BY <2>1, <2>2
<1>5. /\ dirty' \in [Bats -> BOOLEAN]
      /\ \A x \in Bats : x # b => dirty'[x] = dirty[x]
      /\ status'[b] # "free" => dirty'[b] = dirty[b]
  BY DEF SyncEpilogue, IInv, TypeOK
<1>6. RecDir' = RecDir
  BY <1>1 DEF RecDir
<1>7. TypeOK'
  BY <1>1, <1>2, <1>3, <1>4, <1>5, <1>6 DEF IInv, TypeOK, HeapFiles
<1>8. Control'
  BY <1>1, <1>2, <1>3, <1>4, <1>5, <1>6 DEF IInv, TypeOK, Control
<1>9. DirPlaces'
  BY <1>1, <1>2, <1>3, <1>4, <1>5, <1>6 DEF IInv, DirPlaces, Live
<1>10. Counters'
  BY <1>1, <1>2, <1>3, <1>4, <1>5, <1>6 DEF IInv, TypeOK, Control, Counters, Empty, Dirs
<1>11. Images'
  <2>1. status[b] = "deleted" => RecDir[b] = Absent
    BY <1>2 DEF Live, Persistent
  <2> QED BY <1>1, <1>2, <1>3, <1>4, <1>5, <1>6, <2>1 DEF IInv, Images, RecHeap, Dirs
<1>12. Backups'
  BY <1>1, <1>2, <1>3, <1>4, <1>5, <1>6 DEF IInv, TypeOK, Backups, BackedUp, Dirs
<1>13. SaverInv'
  BY <1>1, <1>2, <1>3, <1>4, <1>5, <1>6 DEF IInv, TypeOK, Control, Bats, SaverInv, Dirs
<1>14. Memory'
  BY <1>1, <1>2, <1>3, <1>4, <1>5, <1>6 DEF IInv, TypeOK, Memory, Dirs, Persistent,
     Committed
<1>15. Flags'
  <2>1. mem[b] # Absent \/ status[b] = "free"
    BY <1>1 DEF IInv, Memory
  <2>2. status'[b] \in {"existing", "deleted"} <=> RecDir[b] # Absent
    BY <1>2, <1>4, <2>1 DEF Live, Persistent, Committed, IInv, TypeOK, Statuses
  <2>3. \A x \in Bats : x # b => Live'[x] = Live[x]
    BY <1>4 DEF Live
  <2> QED BY <1>1, <1>2, <1>3, <1>4, <1>5, <1>6, <2>2, <2>3 DEF IInv, Flags, Unprocessed
<1> QED BY <1>6, <1>7, <1>8, <1>9, <1>10, <1>11, <1>12, <1>13, <1>14, <1>15 DEF IInv

LEMMA SyncDoneKeeps ==
    ASSUME IInv, Disciplined, SyncDone
    PROVE  IInv' /\ RecDir' = RecDir
<1> USE ConstantsAssumption
    DEF Running, SyncPcs, BootPcs, MidPcs, PostPcs, SavePcs, bkVars, batVars, diskVars,
       syncVars
<1>1. /\ pc = "epilogue" /\ todo = {} /\ Return /\ failed' = {}
      /\ UNCHANGED <<diskVars, bkVars, batVars, BBP_dirty, sv, clock>>
  BY DEF SyncDone, UnchangedBySync
<1>2. RecDir' = RecDir
  BY <1>1 DEF RecDir
<1>3. TypeOK'
  <2>1. bbpdirty' \in BOOLEAN /\ sub' \in BOOLEAN
    BY <1>1, Zenon DEF Return
  <2> QED BY <1>1, <1>2, <2>1 DEF IInv, TypeOK, Return
<1>4. Control'
  BY <1>1, <1>2 DEF IInv, TypeOK, Control, Return
<1>5. DirPlaces'
  BY <1>1, <1>2 DEF IInv, DirPlaces, Return
<1>6. Counters'
  BY <1>1, <1>2 DEF IInv, Counters, Empty, Return
<1>7. Images'
  BY <1>1, <1>2 DEF IInv, Images, RecHeap
<1>8. Backups'
  BY <1>1, <1>2 DEF IInv, Backups, BackedUp, Return
<1>9. SaverInv'
  BY <1>1, <1>2 DEF IInv, SaverInv
<1>10. Memory'
  BY <1>1, <1>2 DEF IInv, Memory, Return
<1>11. Flags'
  BY <1>1, <1>2 DEF IInv, Flags, Unprocessed, Return
<1> QED BY <1>2, <1>3, <1>4, <1>5, <1>6, <1>7, <1>8, <1>9, <1>10, <1>11 DEF IInv

LEMMA CrashKeeps ==
    ASSUME IInv, Disciplined, Crash
    PROVE  IInv' /\ RecDir' = RecDir
<1> USE ConstantsAssumption
    DEF Running, SyncPcs, BootPcs, MidPcs, PostPcs, SavePcs, bkVars, batVars, diskVars,
       syncVars
<1>1. /\ pc' = "down" /\ list' = {} /\ todo' = {} /\ cur' = 0 /\ failed' = {}
      /\ status' = [b \in Bats |-> "free"] /\ mem' = NoHeaps /\ dirty' = [b \in Bats |-> FALSE]
      /\ backup_files' = 0 /\ backup_dir' = 0 /\ backup_subdir' = 0
      /\ sv' = NoSave /\ sv'.pc = "idle" /\ sv'.bat = 0 /\ UNCHANGED <<diskVars, clock>>
  BY DEF Crash, NoSave
<1>2. sub' \in BOOLEAN /\ bbpdirty' \in BOOLEAN /\ BBP_dirty' \in BOOLEAN
  BY Zenon DEF Crash
<1>3. RecDir' = RecDir
  BY <1>1 DEF RecDir
<1>4. TypeOK'
  BY <1>1, <1>2, <1>3 DEF IInv, TypeOK, Statuses, Contents, NoHeaps, NoSave
<1>5. Control'
  BY <1>1, <1>2, <1>3 DEF IInv, TypeOK, Control
<1>6. DirPlaces'
  BY <1>1, <1>2, <1>3 DEF IInv, DirPlaces
<1>7. Counters'
  BY <1>1, <1>2, <1>3 DEF IInv, Counters, Empty
<1>8. Images'
  BY <1>1, <1>2, <1>3 DEF IInv, Images, RecHeap
<1>9. Backups'
  BY <1>1, <1>2, <1>3 DEF IInv, Backups, BackedUp
<1>10. SaverInv'
  BY <1>1, <1>2, <1>3 DEF IInv, SaverInv
<1>11. Memory'
  BY <1>1, <1>2, <1>3 DEF IInv, Memory
<1>12. Flags'
  BY <1>1, <1>2, <1>3 DEF IInv, Flags, Unprocessed
<1> QED BY <1>3, <1>4, <1>5, <1>6, <1>7, <1>8, <1>9, <1>10, <1>11, <1>12 DEF IInv

LEMMA BootRemoveDelKeeps ==
    ASSUME IInv, Disciplined, BootRemoveDel
    PROVE  IInv' /\ RecDir' = RecDir
<1> USE ConstantsAssumption
    DEF Running, SyncPcs, BootPcs, MidPcs, PostPcs, SavePcs, bkVars, batVars, diskVars,
       syncVars
<1>1. /\ pc = "down" /\ pc' = "recsub" /\ deldir' = FALSE
      /\ UNCHANGED <<heap, bbp, subdir, bkVars, batVars, BBP_dirty, list, sub, bbpdirty,
              todo, cur, failed, sv, clock>>
  BY DEF BootRemoveDel, UnchangedByBoot
<1>2. deldir' \in BOOLEAN /\ ~deldir'
  BY <1>1, Zenon
<1>3. RecDir' = RecDir
  BY <1>1 DEF RecDir
<1>4. TypeOK'
  BY <1>1, <1>2, <1>3 DEF IInv, TypeOK
<1>5. Control'
  BY <1>1, <1>2, <1>3 DEF IInv, TypeOK, Control
<1>6. DirPlaces'
  BY <1>1, <1>2, <1>3 DEF IInv, DirPlaces
<1>7. Counters'
  BY <1>1, <1>2, <1>3 DEF IInv, Counters, Empty
<1>8. Images'
  BY <1>1, <1>2, <1>3 DEF IInv, Images, RecHeap
<1>9. Backups'
  BY <1>1, <1>2, <1>3 DEF IInv, Backups, BackedUp
<1>10. SaverInv'
  BY <1>1, <1>2, <1>3 DEF IInv, SaverInv
<1>11. Memory'
  BY <1>1, <1>2, <1>3 DEF IInv, Memory
<1>12. Flags'
  BY <1>1, <1>2, <1>3 DEF IInv, Flags, Unprocessed
<1> QED BY <1>3, <1>4, <1>5, <1>6, <1>7, <1>8, <1>9, <1>10, <1>11, <1>12 DEF IInv

LEMMA BootSubHeapKeeps ==
    ASSUME IInv, Disciplined, NEW b \in Bats, BootSubHeap(b)
    PROVE  IInv' /\ RecDir' = RecDir
<1> USE ConstantsAssumption
    DEF Running, SyncPcs, BootPcs, MidPcs, PostPcs, SavePcs, bkVars, batVars, diskVars,
       syncVars
<1>1. /\ pc = "recsub" /\ heap["SUB"][b] # Absent
      /\ UNCHANGED <<bbp, subdir, deldir, bkVars, batVars, BBP_dirty, syncVars, sv, clock>>
  BY DEF BootSubHeap, UnchangedByBoot
<1>2. /\ heap' \in HeapFiles
      /\ \A e \in Dirs, x \in Bats : heap'[e][x] =
            IF x = b /\ e = "BAK" THEN heap["SUB"][b]
            ELSE IF x = b /\ e = "SUB" THEN Absent ELSE heap[e][x]
  <2>1. heap' = MoveHeap(heap, b, "SUB", "BAK") /\ heap \in HeapFiles
    BY DEF BootSubHeap, MovedToBak, IInv, TypeOK, HeapFiles
  <2> QED BY <2>1 DEF HeapFiles, MoveHeap, Contents, Dirs
<1>3. RecDir' = RecDir
  BY <1>1 DEF RecDir
<1>4. TypeOK'
  BY <1>1, <1>2, <1>3 DEF IInv, TypeOK, HeapFiles
<1>5. Control'
  BY <1>1, <1>2, <1>3 DEF IInv, TypeOK, Control
<1>6. DirPlaces'
  BY <1>1, <1>2, <1>3 DEF IInv, DirPlaces, Live
<1>7. Counters'
  BY <1>1, <1>2, <1>3 DEF IInv, TypeOK, Control, Counters, Empty, Dirs
<1>8. Images'
  BY <1>1, <1>2, <1>3 DEF IInv, SaverInv, Images, RecHeap, Dirs
<1>9. Backups'
  BY <1>1, <1>2, <1>3 DEF IInv, SaverInv, Backups, BackedUp, Dirs
<1>10. SaverInv'
  BY <1>1, <1>2, <1>3 DEF IInv, TypeOK, Control, Bats, SaverInv, Dirs
<1>11. Memory'
  BY <1>1, <1>2, <1>3 DEF IInv, SaverInv, Memory, Dirs
<1>12. Flags'
  BY <1>1, <1>2, <1>3 DEF IInv, Flags
<1> QED BY <1>3, <1>4, <1>5, <1>6, <1>7, <1>8, <1>9, <1>10, <1>11, <1>12 DEF IInv

LEMMA BootSubDirKeeps ==
    ASSUME IInv, Disciplined, BootSubDir
    PROVE  IInv' /\ RecDir' = RecDir
<1> USE ConstantsAssumption
    DEF Running, SyncPcs, BootPcs, MidPcs, PostPcs, SavePcs, bkVars, batVars, diskVars,
       syncVars
<1>1. /\ pc = "recsub" /\ pc' = pc /\ bbp["SUB"] # Absent /\ backup_dir' = 1
      /\ bbp' = [bbp EXCEPT !["BAK"] = bbp["SUB"], !["SUB"] = Absent]
      /\ UNCHANGED <<heap, subdir, deldir, backup_files, backup_subdir, batVars,
              BBP_dirty, list, sub, bbpdirty, todo, cur, failed, sv, clock>>
  BY DEF BootSubDir, UnchangedByBoot, MoveDir
<1>2. /\ bbp' \in [Dirs -> Entries \cup {Absent, Torn}]
      /\ bbp'["BAK"] = bbp["SUB"] /\ bbp'["SUB"] = Absent
  BY <1>1 DEF IInv, TypeOK, Dirs
<1>3. RecDir' = RecDir
  BY <1>1, <1>2 DEF RecDir
<1>4. TypeOK'
  BY <1>1, <1>2, <1>3 DEF IInv, TypeOK
<1>5. Control'
  BY <1>1, <1>2, <1>3 DEF IInv, TypeOK, Control
<1>6. DirPlaces'
  BY <1>1, <1>2, <1>3 DEF IInv, DirPlaces
<1>7. Counters'
  BY <1>1, <1>2, <1>3 DEF IInv, Counters, Empty
<1>8. Images'
  BY <1>1, <1>2, <1>3 DEF IInv, Images, RecHeap
<1>9. Backups'
  BY <1>1, <1>2, <1>3 DEF IInv, Backups, BackedUp
<1>10. SaverInv'
  BY <1>1, <1>2, <1>3 DEF IInv, SaverInv, Control
<1>11. Memory'
  BY <1>1, <1>2, <1>3 DEF IInv, Memory
<1>12. Flags'
  BY <1>1, <1>2, <1>3 DEF IInv, Flags
<1> QED BY <1>3, <1>4, <1>5, <1>6, <1>7, <1>8, <1>9, <1>10, <1>11, <1>12 DEF IInv

LEMMA BootSubDoneKeeps ==
    ASSUME IInv, Disciplined, BootSubDone
    PROVE  IInv' /\ RecDir' = RecDir
<1> USE ConstantsAssumption
    DEF Running, SyncPcs, BootPcs, MidPcs, PostPcs, SavePcs, bkVars, batVars, diskVars,
       syncVars
<1>1. /\ pc = "recsub" /\ pc' = "recdir" /\ bbp["SUB"] = Absent /\ Empty("SUB") /\ subdir' = FALSE
      /\ UNCHANGED <<heap, bbp, deldir, bkVars, batVars, BBP_dirty, list, sub, bbpdirty,
              todo, cur, failed, sv, clock>>
  BY DEF BootSubDone, UnchangedByBoot, NoHeaps, Empty
<1>2. RecDir' = RecDir
  BY <1>1 DEF RecDir
<1>3. TypeOK'
  <2>1. subdir' \in BOOLEAN
    BY <1>1, Zenon
  <2> QED BY <1>1, <2>1 DEF IInv, TypeOK
<1>4. Control'
  BY <1>1, <1>2 DEF IInv, TypeOK, Control
<1>5. DirPlaces'
  BY <1>1, <1>2 DEF IInv, DirPlaces
<1>6. Counters'
  BY <1>1, <1>2 DEF IInv, Counters, Empty
<1>7. Images'
  BY <1>1, <1>2 DEF IInv, Images, RecHeap
<1>8. Backups'
  BY <1>1, <1>2 DEF IInv, Backups, BackedUp
<1>9. SaverInv'
  BY <1>1, <1>2 DEF IInv, SaverInv, Control
<1>10. Memory'
  BY <1>1, <1>2 DEF IInv, Memory
<1>11. Flags'
  BY <1>1, <1>2 DEF IInv, Flags
<1> QED BY <1>2, <1>3, <1>4, <1>5, <1>6, <1>7, <1>8, <1>9, <1>10, <1>11 DEF IInv

LEMMA BootDirKeeps ==
    ASSUME IInv, Disciplined, BootDir
    PROVE  IInv' /\ RecDir' = RecDir
<1> USE ConstantsAssumption
    DEF Running, SyncPcs, BootPcs, MidPcs, PostPcs, SavePcs, bkVars, batVars, diskVars,
       syncVars
<1>1. /\ pc = "recdir" /\ pc' = "read" /\ backup_dir' = backup_dir
      /\ bbp' = (IF bbp["BAK"] # Absent THEN [bbp EXCEPT !["BAT"] = bbp["BAK"],
              !["BAK"] = Absent]
                 ELSE IF bbp["BAT"] = Absent THEN [bbp EXCEPT !["BAT"] = NoEntries] ELSE bbp)
      /\ UNCHANGED <<heap, subdir, deldir, backup_files, backup_subdir, batVars,
              BBP_dirty, list, sub, bbpdirty, todo, cur, failed, sv, clock>>
  BY DEF BootDir, UnchangedByBoot, MoveDir
<1>2. /\ bbp \in [Dirs -> Entries \cup {Absent, Torn}] /\ bbp["SUB"] = Absent
      /\ NoEntries \in Entries /\ NoEntries # Absent
  BY <1>1 DEF IInv, TypeOK, DirPlaces, NoEntries, Entries, Contents
<1>3. /\ bbp' \in [Dirs -> Entries \cup {Absent, Torn}]
      /\ bbp'["SUB"] = Absent /\ bbp'["BAK"] = Absent /\ bbp'["BAT"] # Absent
      /\ bbp'["BAT"] = (IF bbp["BAK"] # Absent THEN bbp["BAK"]
                        ELSE IF bbp["BAT"] = Absent THEN NoEntries ELSE bbp["BAT"])
  <2>1. CASE bbp["BAK"] # Absent
    BY <1>1, <1>2, <2>1 DEF Dirs
  <2>2. CASE bbp["BAK"] = Absent /\ bbp["BAT"] = Absent
    BY <1>1, <1>2, <2>2 DEF Dirs
  <2>3. CASE bbp["BAK"] = Absent /\ bbp["BAT"] # Absent
    BY <1>1, <1>2, <2>3 DEF Dirs
  <2> QED BY <2>1, <2>2, <2>3
<1>4. RecDir' = RecDir
  BY <1>2, <1>3 DEF RecDir
<1>5. TypeOK'
  BY <1>1, <1>2, <1>3, <1>4, SMTT(60) DEF IInv, TypeOK
<1>6. Control'
  BY <1>1, <1>2, <1>3, <1>4 DEF IInv, TypeOK, Control
<1>7. DirPlaces'
  BY <1>1, <1>2, <1>3, <1>4 DEF IInv, DirPlaces
<1>8. Counters'
  BY <1>1, <1>2, <1>3, <1>4 DEF IInv, Counters, Empty
<1>9. Images'
  BY <1>1, <1>2, <1>3, <1>4 DEF IInv, Images, RecHeap
<1>10. Backups'
  BY <1>1, <1>2, <1>3, <1>4 DEF IInv, Backups, BackedUp
<1>11. SaverInv'
  BY <1>1, <1>2, <1>3, <1>4 DEF IInv, SaverInv, Control
<1>12. Memory'
  BY <1>1, <1>2, <1>3, <1>4 DEF IInv, Memory
<1>13. Flags'
  BY <1>1, <1>2, <1>3, <1>4 DEF IInv, Flags
<1> QED BY <1>4, <1>5, <1>6, <1>7, <1>8, <1>9, <1>10, <1>11, <1>12, <1>13 DEF IInv

LEMMA BootReadKeeps ==
    ASSUME IInv, Disciplined, BootRead
    PROVE  IInv' /\ RecDir' = RecDir
<1> USE ConstantsAssumption
    DEF Running, SyncPcs, BootPcs, MidPcs, PostPcs, SavePcs, bkVars, batVars, diskVars,
       syncVars
<1>1. /\ pc = "read" /\ UNCHANGED <<diskVars, bkVars, mem, dirty, BBP_dirty, list, sub,
        bbpdirty, todo, cur, failed, sv, clock>>
  BY DEF BootRead, UnchangedByBoot
<1>2. bbp["BAT"] = RecDir /\ RecDir # Torn
  BY <1>1 DEF IInv, DirPlaces, RecDir, GoodEntries, Entries, Contents
<1>3. /\ pc' = "recheap"
      /\ status' = [b \in Bats |-> IF RecDir[b] # Absent THEN "existing" ELSE "free"]
  BY <1>2 DEF BootRead
<1>4. RecDir' = RecDir
  BY <1>1 DEF RecDir
<1>5. TypeOK'
  BY <1>1, <1>2, <1>3, <1>4 DEF IInv, TypeOK, Statuses
<1>6. Control'
  BY <1>1, <1>2, <1>3, <1>4 DEF IInv, TypeOK, Control
<1>7. DirPlaces'
  BY <1>1, <1>2, <1>3, <1>4 DEF IInv, DirPlaces
<1>8. Counters'
  BY <1>1, <1>2, <1>3, <1>4 DEF IInv, Counters, Empty
<1>9. Images'
  BY <1>1, <1>2, <1>3, <1>4 DEF IInv, Images, RecHeap
<1>10. Backups'
  BY <1>1, <1>2, <1>3, <1>4 DEF IInv, Backups, BackedUp
<1>11. SaverInv'
  BY <1>1, <1>2, <1>3, <1>4 DEF IInv, SaverInv, Control
<1>12. Memory'
  BY <1>1, <1>2, <1>3, <1>4 DEF IInv, Memory
<1>13. Flags'
  BY <1>1, <1>2, <1>3, <1>4 DEF IInv, Flags
<1> QED BY <1>4, <1>5, <1>6, <1>7, <1>8, <1>9, <1>10, <1>11, <1>12, <1>13 DEF IInv

LEMMA BootHeapKeeps ==
    ASSUME IInv, Disciplined, NEW b \in Bats, BootHeap(b)
    PROVE  IInv' /\ RecDir' = RecDir
<1> USE ConstantsAssumption
    DEF Running, SyncPcs, BootPcs, MidPcs, PostPcs, SavePcs, bkVars, batVars, diskVars,
       syncVars
<1>1. /\ pc = "recheap" /\ heap["BAK"][b] # Absent
      /\ UNCHANGED <<bbp, subdir, deldir, bkVars, batVars, BBP_dirty, syncVars, sv, clock>>
  BY DEF BootHeap, UnchangedByBoot
<1>2. heap \in HeapFiles /\ (status[b] # "free" <=> RecDir[b] # Absent)
  BY <1>1 DEF IInv, TypeOK, HeapFiles, Flags
<1>3. /\ heap' \in HeapFiles
      /\ \A e \in Dirs, x \in Bats : heap'[e][x] =
            IF x = b /\ e = "BAT" /\ status[b] # "free" THEN heap["BAK"][b]
            ELSE IF x = b /\ e = "BAK" THEN Absent ELSE heap[e][x]
  <2>1. CASE status[b] # "free"
    <3>1. heap' = MoveHeap(heap, b, "BAK", "BAT")
      BY <2>1 DEF BootHeap
    <3> QED BY <1>2, <2>1, <3>1 DEF HeapFiles, MoveHeap, Contents, Dirs
  <2>2. CASE status[b] = "free"
    <3>1. heap' = [heap EXCEPT !["BAK"][b] = Absent]
      BY <2>2 DEF BootHeap
    <3> QED BY <1>2, <2>2, <3>1 DEF HeapFiles, Contents, Dirs
  <2> QED BY <2>1, <2>2
<1>4. RecDir' = RecDir
  BY <1>1 DEF RecDir
<1>5. TypeOK'
  BY <1>1, <1>2, <1>3, <1>4 DEF IInv, TypeOK, HeapFiles
<1>6. Control'
  BY <1>1, <1>2, <1>3, <1>4 DEF IInv, TypeOK, Control
<1>7. DirPlaces'
  BY <1>1, <1>2, <1>3, <1>4 DEF IInv, DirPlaces, Live
<1>8. Counters'
  BY <1>1, <1>2, <1>3, <1>4 DEF IInv, TypeOK, Control, Counters, Empty, Dirs
<1>9. Images'
  BY <1>1, <1>2, <1>3, <1>4 DEF IInv, Counters, Empty, Images, RecHeap, Dirs
<1>10. Backups'
  BY <1>1, <1>2, <1>3, <1>4 DEF IInv, SaverInv, Backups, BackedUp, Dirs
<1>11. SaverInv'
  BY <1>1, <1>2, <1>3, <1>4 DEF IInv, TypeOK, Control, Bats, SaverInv, Dirs
<1>12. Memory'
  BY <1>1, <1>2, <1>3, <1>4 DEF IInv, SaverInv, Memory, Dirs
<1>13. Flags'
  BY <1>1, <1>2, <1>3, <1>4 DEF IInv, Flags
<1> QED BY <1>4, <1>5, <1>6, <1>7, <1>8, <1>9, <1>10, <1>11, <1>12, <1>13 DEF IInv

LEMMA BootPrepareKeeps ==
    ASSUME IInv, Disciplined, BootPrepare
    PROVE  IInv' /\ RecDir' = RecDir
<1> USE ConstantsAssumption
    DEF Running, SyncPcs, BootPcs, MidPcs, PostPcs, SavePcs, bkVars, batVars, diskVars,
       syncVars
<1>1. /\ pc = "recheap" /\ pc' = "scan" /\ heap["BAK"] = NoHeaps
      /\ backup_files = 0 /\ backup_files' = 1
      /\ UNCHANGED <<batVars, BBP_dirty, list, sub, bbpdirty, todo, cur, failed, sv, clock>>
  BY DEF BootPrepare, UnchangedByBoot, IInv, Counters
<1>2. /\ heap \in HeapFiles /\ bbp \in [Dirs -> Entries \cup {Absent, Torn}]
      /\ bbp["SUB"] = Absent /\ bbp["BAK"] = Absent /\ bbp["BAT"] # Absent
  BY <1>1 DEF IInv, TypeOK, HeapFiles, DirPlaces
<1>3. PrepHeap(FALSE) = heap /\ PrepBbp(FALSE) = bbp /\ PrepDir(FALSE) = 0
  <2>1. RecoverHeaps(heap) = heap
    BY <1>1, <1>2 DEF RecoverHeaps, HeapFiles, NoHeaps, Dirs
  <2> QED BY <1>1, <1>2, <2>1 DEF PrepHeap, PrepBbp, PrepDir, StartsSub, RecoverDir
<1>4. /\ heap' = heap /\ deldir' = deldir /\ subdir' \in BOOLEAN
      /\ bbp' = [bbp EXCEPT !["BAK"] = bbp["BAT"], !["BAT"] = Absent]
      /\ backup_dir' = 1 /\ backup_subdir' = backup_subdir
  <2>1. PrepTarget(FALSE) = 1
    BY Zenon DEF PrepTarget
  <2>2. 0 # 1 /\ "BAT" # "BAK"
    OBVIOUS
  <2>3. PrepSource(FALSE) = "BAT"
    BY <1>3, Zenon DEF PrepSource
  <2>4. bbp' = MoveDir(bbp, "BAT",
          "BAK") /\ backup_dir' = 1 /\ heap' = heap /\ deldir' = deldir
    BY <1>3, <2>1, <2>2, <2>3, Zenon DEF BootPrepare, BBPprepare
  <2>5. subdir' \in BOOLEAN
    BY Zenon DEF BootPrepare, BBPprepare
  <2>6. backup_subdir' = backup_subdir
    <3>1. backup_subdir' = backup_subdir + 0
      BY Zenon DEF BootPrepare, BBPprepare
    <3> QED BY <3>1 DEF IInv, TypeOK
  <2> QED BY <2>2, <2>4, <2>5, <2>6 DEF MoveDir
<1>5. /\ RecDir' = RecDir /\ bbp' \in [Dirs -> Entries \cup {Absent, Torn}]
      /\ bbp'["SUB"] = Absent /\ bbp'["BAK"] # Absent
  BY <1>2, <1>4 DEF RecDir, Dirs
<1>6. TypeOK'
  BY <1>1, <1>2, <1>3, <1>4, <1>5 DEF IInv, TypeOK
<1>7. Control'
  BY <1>1, <1>2, <1>3, <1>4, <1>5 DEF IInv, TypeOK, Control
<1>8. DirPlaces'
  BY <1>1, <1>2, <1>3, <1>4, <1>5 DEF IInv, DirPlaces
<1>9. Counters'
  BY <1>1, <1>2, <1>3, <1>4, <1>5 DEF IInv, TypeOK, Counters, Empty, NoHeaps
<1>10. Images'
  BY <1>1, <1>2, <1>3, <1>4, <1>5 DEF IInv, Images, RecHeap
<1>11. Backups'
  BY <1>1, <1>2, <1>3, <1>4, <1>5 DEF IInv, Backups, BackedUp
<1>12. SaverInv'
  BY <1>1, <1>2, <1>3, <1>4, <1>5 DEF IInv, SaverInv, Control
<1>13. Memory'
  BY <1>1, <1>2, <1>3, <1>4, <1>5 DEF IInv, Memory
<1>14. Flags'
  BY <1>1, <1>2, <1>3, <1>4, <1>5 DEF IInv, Flags, Unprocessed, Live
<1> QED BY <1>5, <1>6, <1>7, <1>8, <1>9, <1>10, <1>11, <1>12, <1>13, <1>14 DEF IInv

LEMMA BootScanKeeps ==
    ASSUME IInv, Disciplined, BootScan
    PROVE  IInv' /\ RecDir' = RecDir
<1> USE ConstantsAssumption
    DEF Running, SyncPcs, BootPcs, MidPcs, PostPcs, SavePcs, bkVars, batVars, diskVars,
       syncVars
<1>1. /\ pc = "scan" /\ pc' = "idle"
      /\ mem' = [b \in Bats |-> IF status[b] = "free" THEN Absent ELSE heap["BAT"][b]]
      /\ UNCHANGED <<bbp, subdir, deldir, bkVars, status, dirty, BBP_dirty, list, sub,
              bbpdirty, todo, cur, failed, sv, clock>>
  BY DEF BootScan
<1>2. heap \in HeapFiles /\ RecDir \in GoodEntries /\ sv.pc = "idle"
      /\ \A b \in Bats : /\ status[b] = IF RecDir[b] # Absent THEN "existing" ELSE "free"
                         /\ heap["SUB"][b] = Absent /\ heap["BAK"][b] = Absent
                         /\ RecDir[b] # Absent => heap["BAT"][b] = RecDir[b]
  BY <1>1 DEF IInv, TypeOK, Control, HeapFiles, DirPlaces, Flags, Counters, Empty, Images,
     RecHeap
<1>3. /\ heap' \in HeapFiles
      /\ \A e \in Dirs, x \in Bats :
            heap'[e][x] = IF e = "BAT" /\ status[x] = "free" THEN Absent ELSE heap[e][x]
  <2>1. heap' = [heap EXCEPT !["BAT"] = [b \in Bats |-> IF status[b] = "free" THEN Absent
                                                        ELSE heap["BAT"][b]]]
    BY DEF BootScan
  <2> QED BY <1>2, <2>1 DEF HeapFiles, Contents, Dirs
<1>4. RecDir' = RecDir
  BY <1>1 DEF RecDir
<1>5. TypeOK'
  BY <1>1, <1>2, <1>3, <1>4 DEF IInv, TypeOK, HeapFiles, Contents, Dirs
<1>6. Control'
  BY <1>1, <1>2, <1>3, <1>4 DEF IInv, TypeOK, Control
<1>7. DirPlaces'
  BY <1>1, <1>2, <1>3, <1>4 DEF IInv, DirPlaces, Live
<1>8. Counters'
  BY <1>1, <1>2, <1>3, <1>4 DEF IInv, DirPlaces, Counters, Empty, Dirs
<1>9. Images'
  BY <1>1, <1>2, <1>3, <1>4 DEF Images, RecHeap, Dirs
<1>10. Backups'
  BY <1>1, <1>2, <1>3, <1>4 DEF Backups, BackedUp, Dirs
<1>11. SaverInv'
  BY <1>1, <1>2, <1>3, <1>4 DEF IInv, TypeOK, Control, Bats, SaverInv, Dirs
<1>12. Memory'
  BY <1>1, <1>2, <1>3, <1>4 DEF IInv, Control, Memory, Dirs, GoodEntries
<1>13. Flags'
  BY <1>1, <1>2, <1>3, <1>4 DEF IInv, Control, Flags, Unprocessed, Live
<1> QED BY <1>4, <1>5, <1>6, <1>7, <1>8, <1>9, <1>10, <1>11, <1>12, <1>13 DEF IInv

-----------------------------------------------------------------------------
(* A subcommit announces its list by BBPinsert: the cheap end of BBPsync,  *)
(* which moves the old BBP.dir back, is not taken.                         *)
LEMMA CheapEndNotTaken ==
    ASSUME IInv, SyncDirCheap
    PROVE  FALSE
  BY DEF SyncDirCheap, IInv, Control, MidPcs

LEMMA InitIInv ==
    ASSUME Init
    PROVE  IInv
<1> USE ConstantsAssumption
    DEF Running, SyncPcs, BootPcs, MidPcs, PostPcs, SavePcs, NoSave, NoHeaps, Init
<1>1. RecDir = NoEntries
  BY DEF RecDir, Dirs
<1>2. RecDir \in GoodEntries /\ \A b \in Bats : RecDir[b] = Absent
  BY <1>1 DEF NoEntries, GoodEntries
<1>3. TypeOK
  <2>1. /\ subdir \in BOOLEAN /\ deldir \in BOOLEAN /\ BBP_dirty \in BOOLEAN
        /\ bbpdirty \in BOOLEAN /\ sub \in BOOLEAN
    BY Zenon
  <2> QED BY <2>1 DEF TypeOK, Contents, Entries, Statuses
<1>4. Control
  BY DEF Control
<1>5. DirPlaces
  BY <1>2 DEF DirPlaces
<1>6. Counters
  BY DEF Counters
<1>7. Images
  BY <1>2 DEF Images
<1>8. Backups /\ SaverInv /\ Memory /\ Flags
  BY DEF Backups, SaverInv, Memory, Flags
<1> QED BY <1>3, <1>4, <1>5, <1>6, <1>7, <1>8 DEF IInv

LEMMA StepIInv ==
    ASSUME IInv, Disciplined, [Next]_vars
    PROVE  IInv'
<1>1. CASE Owner
  BY <1>1, BBPinsertKeeps, BBPinsertOtherKeeps, UpdateKeeps, BBPdestroyKeeps,
     BATmodePersistentKeeps, BATmodeTransientKeeps DEF Owner
<1>2. CASE Saver
  BY <1>2, SaveStartKeeps, SavePrepareKeeps, SaveMoveKeeps, SaveWriteKeeps, SaveDoneKeeps
     DEF Saver
<1>3. CASE Sync
  BY <1>3, SyncStartKeeps, SyncPrepareKeeps, SyncPhaseKeeps, SyncSavedKeeps, SyncDirKeeps,
     SyncDirDoneKeeps, CheapEndNotTaken, SyncSwitchKeeps, SyncAfterKeeps, SyncAgainKeeps,
     SyncDoneKeeps, SyncFailsKeeps, SyncBackupKeeps, SyncSaveKeeps,
        SyncEpilogueKeeps DEF Sync
<1>4. CASE Boot
  BY <1>4, BootRemoveDelKeeps, BootSubDirKeeps, BootSubDoneKeeps, BootDirKeeps,
     BootReadKeeps,
     BootPrepareKeeps, BootScanKeeps, BootSubHeapKeeps, BootHeapKeeps DEF Boot
<1>5. CASE Crash
  BY <1>5, CrashKeeps
<1>6. CASE UNCHANGED vars
  BY <1>6 DEF vars, diskVars, bkVars, batVars, syncVars, IInv, TypeOK, Control, DirPlaces,
     Counters, Images, Backups, SaverInv, Memory, Flags, RecDir, RecHeap, Live, Empty,
     BackedUp, Unprocessed, Running
<1> QED BY <1>1, <1>2, <1>3, <1>4, <1>5, <1>6 DEF Next

-----------------------------------------------------------------------------
(* In an intact checkpoint the images are what BBP.dir says.               *)
LEMMA ImageIsDir == IInv => Image = RecDir /\ CheckpointIntact
<1> SUFFICES ASSUME IInv PROVE Image = RecDir /\ CheckpointIntact
  OBVIOUS
<1>1. RecDir \in GoodEntries /\ RecDir # Torn
  BY ConstantsAssumption DEF IInv, DirPlaces, GoodEntries, Entries, Contents
<1>2. \A b \in Bats : Image[b] = RecDir[b]
  BY <1>1 DEF Image, IInv, Images
<1>3. Image = RecDir
  BY <1>1, <1>2 DEF Image, GoodEntries
<1>4. \A b \in Bats : RecDir[b] # Torn
  BY <1>1, ConstantsAssumption DEF GoodEntries
<1> QED BY <1>2, <1>3, <1>4 DEF CheckpointIntact

(* The inductive invariant holds of every behaviour of a disciplined use.  *)
THEOREM Invariance ==
    ASSUME Disciplined
    PROVE  Spec => []IInv
<1>1. Init => IInv
  BY InitIInv
<1>2. IInv /\ [Next]_vars => IInv'
  BY StepIInv
<1> QED BY <1>1, <1>2, PTL DEF Spec

(* The variables keep their types; in particular backup_files, from which  *)
(* BBPsync subtracts backup_subdir, never becomes negative.                *)
THEOREM TypeCorrect ==
    ASSUME Disciplined
    PROVE  Spec => []TypeOK
<1>1. IInv => TypeOK
  BY DEF IInv
<1>2. Spec => []IInv
  BY Invariance
<1> QED BY <1>1, <1>2, PTL

(* Whenever the machine stops, in a commit, a save or a recovery, a        *)
(* restart finds every bat of the last checkpoint undamaged.               *)
THEOREM CheckpointNeverDamaged ==
    ASSUME Disciplined
    PROVE  Spec => []CheckpointIntact
<1>1. IInv => CheckpointIntact
  BY ImageIsDir
<1>2. Spec => []IInv
  BY Invariance
<1> QED BY <1>1, <1>2, PTL

(* Between commits BBPEXISTING and BBPDELETED mark exactly the bats of the *)
(* last checkpoint, so BBPsave and BBPsync back up what they must.         *)
THEOREM FlagsTrustworthy ==
    ASSUME Disciplined
    PROVE  Spec => []FlagsMatchCheckpoint
<1>1. IInv => FlagsMatchCheckpoint
  BY ImageIsDir DEF FlagsMatchCheckpoint, IInv, Flags, Unprocessed, PostPcs
<1>2. Spec => []IInv
  BY Invariance
<1> QED BY <1>1, <1>2, PTL

(* BBPprepare in a running server never lets BBPrecover move an old image  *)
(* over a newer heap.                                                      *)
THEOREM BackupsOutliveCounters ==
    ASSUME Disciplined
    PROVE  Spec => []LiveBackupsKept
<1>1. ASSUME IInv PROVE LiveBackupsKept
  <2> SUFFICES ASSUME Running,
                      backup_files = 0 \/ (pc = "after" /\ sub /\ backup_files <= backup_subdir)
               PROVE  heap["BAK"] = NoHeaps /\ heap["SUB"] = NoHeaps
    BY DEF LiveBackupsKept
  <2>1. backup_files \in Nat /\ backup_subdir \in Nat /\ backup_files >= backup_subdir
    BY <1>1 DEF IInv, TypeOK, Counters
  <2>2. Empty("BAK") /\ Empty("SUB")
    BY <1>1, <2>1 DEF IInv, Counters
  <2> QED BY <1>1, <2>2 DEF IInv, TypeOK, Dirs, Empty, NoHeaps
<1>2. Spec => []IInv
  BY Invariance
<1> QED BY <1>1, <1>2, PTL

(* backup_dir says where the backup of BBP.dir is.                         *)
THEOREM BackupDirCorrect ==
    ASSUME Disciplined
    PROVE  Spec => []BackupDirTells
<1>1. IInv => BackupDirTells
  BY DEF BackupDirTells, IInv, TypeOK, DirPlaces
<1>2. Spec => []IInv
  BY Invariance
<1> QED BY <1>1, <1>2, PTL

-----------------------------------------------------------------------------
(***************************************************************************)
(* The refinement: every step is a step of Checkpoint or a stutter.        *)
(***************************************************************************)
LEMMA Stutters ==
    ASSUME Image' = Image, Running' = Running, Running => Live' = Live, list' = list,
           (pc \in PostPcs)' = (pc \in PostPcs)
    PROVE  UNCHANGED Abstract!vars
  BY DEF Abstract!vars, PostPcs

LEMMA StepRefines ==
    ASSUME IInv, Disciplined, [Next]_vars, Image = RecDir, Image' = RecDir'
    PROVE  [Abstract!Next]_(Abstract!vars)
<1> USE DEF Running, SyncPcs, PostPcs, diskVars, bkVars, batVars, syncVars
<1>1. CASE Owner
  <2>1. RecDir' = RecDir
    BY <1>1, BBPinsertKeeps, BBPinsertOtherKeeps, UpdateKeeps, BBPdestroyKeeps,
       BATmodePersistentKeeps, BATmodeTransientKeeps DEF Owner
  <2>2. Running /\ UNCHANGED <<pc, list>>
    BY <1>1 DEF Owner, BBPinsert, BBPinsertOther, Update, BATmodePersistent,
       BATmodeTransient,
       BBPdestroy, UnchangedByOwner
  <2>3. \A x \in list : Live'[x] = Live[x]
    BY <1>1 DEF Owner, BBPinsert, BBPinsertOther, Update, BATmodePersistent,
       BATmodeTransient,
       BBPdestroy, UnchangedByOwner, Exclusive, IInv, TypeOK, Control, Live
  <2> QED BY <2>1, <2>2, <2>3 DEF Abstract!Next, Abstract!Work
<1>2. CASE Saver
  <2>1. RecDir' = RecDir
    BY <1>2, SaveStartKeeps, SavePrepareKeeps, SaveMoveKeeps, SaveWriteKeeps, SaveDoneKeeps
       DEF Saver
  <2>2. UNCHANGED <<status, mem, pc, list>>
    BY <1>2 DEF Saver, SaveStart, SavePrepare, SaveMove, SaveWrite, SaveDone,
       UnchangedBySaver
  <2> QED BY <2>1, <2>2, Stutters DEF Live
<1>3. CASE \E L \in SUBSET Bats, subc \in BOOLEAN : SyncStart(L, subc)
  <2>1. RecDir' = RecDir
    BY <1>3, SyncStartKeeps
  <2>2. /\ pc = "idle" /\ pc' = "prepare" /\ list = {} /\ list' \in SUBSET Bats
        /\ UNCHANGED <<status, mem>>
    BY <1>3 DEF SyncStart, IInv, Control
  <2>3. Live' = Live
    BY <2>2 DEF Live
  <2>4. /\ Running /\ Running' /\ pc \notin PostPcs /\ pc' \notin PostPcs
    BY <2>2
  <2> HIDE DEF Running, PostPcs
  <2>5. (IF Running THEN Live ELSE NoHeaps)' = (IF Running THEN Live ELSE NoHeaps)
    BY <2>3, <2>4
  <2>6. Running' = Running /\ (pc \in PostPcs)' = (pc \in PostPcs)
    BY <2>4
  <2>7. Image' = Image
    BY <2>1
  <2>8. Abstract!Request
    BY <2>2, <2>4, <2>5, <2>6, <2>7 DEF Abstract!Request, PostPcs
  <2> QED BY <2>8 DEF Abstract!Next
<1>4. CASE SyncPrepare \/ SyncFails
  <2>1. RecDir' = RecDir
    BY <1>4, SyncPrepareKeeps, SyncFailsKeeps
  <2>2. pc \in SyncPcs /\ pc \notin PostPcs /\ UNCHANGED <<status, mem>>
    BY <1>4 DEF SyncPrepare, SyncFails
  <2>3. CASE pc' \in SyncPcs /\ pc' \notin PostPcs /\ list' = list
    BY <2>1, <2>2, <2>3, Stutters DEF Live
  <2>4. CASE pc' = "idle" /\ list' = {}
    BY <2>1, <2>2, <2>4 DEF Abstract!Next, Abstract!Return, Live
  <2> QED BY <1>4, <2>3, <2>4 DEF SyncPrepare, SyncFails, ReturnFail, Return
<1>5. CASE \/ SyncPhase \/ SyncSaved \/ SyncDir \/ SyncDirDone \/ SyncAfter \/ SyncAgain
            \/ \E b \in Bats : SyncBackup(b) \/ SyncSave(b)
  <2>1. RecDir' = RecDir
    BY <1>5, SyncPhaseKeeps, SyncSavedKeeps, SyncDirKeeps, SyncDirDoneKeeps, SyncAfterKeeps,
       SyncAgainKeeps, SyncBackupKeeps, SyncSaveKeeps
  <2>2. /\ pc \in SyncPcs /\ UNCHANGED <<status, mem, list>>
        /\ pc' # "fatal" => pc' \in SyncPcs /\ (pc' \in PostPcs <=> pc \in PostPcs)
    BY <1>5 DEF SyncPhase, SyncSaved, SyncDir, SyncDirDone, SyncAfter, SyncAgain,
       SyncBackup,
       SyncSave
  <2>3. pc' # "fatal"
    BY <1>5, SyncPhaseKeeps, SyncSavedKeeps, SyncDirKeeps, SyncDirDoneKeeps, SyncAfterKeeps,
       SyncAgainKeeps, SyncBackupKeeps, SyncSaveKeeps, ZenonT(30) DEF IInv, Control
  <2> QED BY <2>1, <2>2, <2>3, Stutters DEF Live
<1>6. CASE SyncSwitch
  <2>1. pc = "switch" /\ UNCHANGED <<status, mem>>
    BY <1>6, SwitchOutcome
  <2>2. CASE ReturnFail /\ RecDir' = RecDir
    BY <2>1, <2>2 DEF Abstract!Next, Abstract!Return, Live, ReturnFail, Return
  <2>3. CASE /\ pc' = "after" /\ list' = list /\ RecDir' \in GoodEntries
             /\ \A b \in Bats : RecDir'[b] = IF b \in list THEN Live[b] ELSE RecDir[b]
    <3>1. RecDir' = [b \in Bats |-> IF b \in list THEN Live[b] ELSE RecDir[b]]
      BY <2>3 DEF GoodEntries
    <3> QED BY <2>1, <2>3, <3>1 DEF Abstract!Next, Abstract!Commit, Live
  <2> QED BY <1>6, <2>2, <2>3, SwitchOutcome, SwitchFailsKeeps, SwitchSucceedsKeeps
             DEF IInv, DirPlaces
<1>7. CASE \E b \in Bats, referred \in BOOLEAN : SyncEpilogue(b, referred)
  <2>1. RecDir' = RecDir
    BY <1>7, SyncEpilogueKeeps
  <2>2. pc = "epilogue" /\ UNCHANGED <<pc, list>>
    BY <1>7 DEF SyncEpilogue
  <2>3. Live' = Live
    BY <1>7 DEF SyncEpilogue, Live, Committed, Persistent, IInv, TypeOK, Statuses
  <2> QED BY <2>1, <2>2, <2>3, Stutters
<1>8. CASE SyncDone
  <2>1. RecDir' = RecDir
    BY <1>8, SyncDoneKeeps
  <2> QED BY <1>8, <2>1 DEF SyncDone, Return, Live, Abstract!Next, Abstract!Return
<1>9. CASE BootScan
  <2>1. RecDir' = RecDir
    BY <1>9, BootScanKeeps
  <2>2. pc = "scan" /\ pc' = "idle" /\ UNCHANGED <<list, status>>
        /\ mem' = [b \in Bats |-> IF status[b] = "free" THEN Absent ELSE heap["BAT"][b]]
    BY <1>9 DEF BootScan
  <2>3. RecDir \in GoodEntries /\ \A b \in Bats : Live'[b] = RecDir[b]
    BY <2>2 DEF Live, Persistent, IInv, DirPlaces, Flags, Images, RecHeap, Counters, Empty
  <2>4. Live' = RecDir
    BY <2>3 DEF Live, GoodEntries
  <2> QED BY <2>1, <2>2, <2>4 DEF Abstract!Next, Abstract!Restart
<1>10. CASE \/ BootRemoveDel \/ BootSubDir \/ BootSubDone \/ BootDir \/ BootRead \/ BootPrepare
            \/ \E b \in Bats : BootSubHeap(b) \/ BootHeap(b)
  <2>1. RecDir' = RecDir
    BY <1>10, BootRemoveDelKeeps, BootSubDirKeeps, BootSubDoneKeeps, BootDirKeeps,
       BootReadKeeps,
       BootPrepareKeeps, BootSubHeapKeeps, BootHeapKeeps
  <2>2. ~Running /\ ~Running' /\ list' = list
    BY <1>10 DEF BootRemoveDel, BootSubDir, BootSubDone, BootDir, BootRead, BootPrepare,
       BootSubHeap, BootHeap, UnchangedByBoot
  <2> QED BY <2>1, <2>2, Stutters
<1>11. CASE Crash
  <2>1. RecDir' = RecDir
    BY <1>11, CrashKeeps
  <2> QED BY <1>11, <2>1 DEF Crash, NoHeaps, Abstract!Next, Abstract!Crash, Abstract!Nothing
<1>12. CASE UNCHANGED vars
  BY <1>12, Stutters DEF vars, Image, RecDir, RecHeap, Live
<1> QED BY <1>1, <1>2, <1>3, <1>4, <1>5, <1>6, <1>7, <1>8, <1>9, <1>10, <1>11, <1>12,
           CheapEndNotTaken DEF Next, Sync, Boot

(* A disciplined use of commits, subcommits, saves and restarts implements *)
(* the atomic checkpoint of module Checkpoint.                             *)
THEOREM Refinement ==
    ASSUME Disciplined
    PROVE  Spec => AtomicCheckpoint
<1>1. Init => Abstract!Init
  <2> SUFFICES ASSUME Init PROVE Abstract!Init
    OBVIOUS
  <2>1. RecDir = NoEntries
    BY DEF Init, RecDir, Dirs
  <2>2. Image = NoEntries
    BY <2>1, InitIInv, ImageIsDir
  <2> QED BY <2>2 DEF Init, Abstract!Init, Abstract!Nothing, Running, SyncPcs, NoHeaps,
          NoEntries
<1>2. IInv' => (Image = RecDir)'
  BY ImageIsDir, PTL
<1>3. IInv /\ IInv' /\ [Next]_vars => [Abstract!Next]_(Abstract!vars)
  BY <1>2, ImageIsDir, StepRefines
<1>4. Spec => []IInv
  BY Invariance
<1> QED BY <1>1, <1>3, <1>4, PTL DEF Spec, AtomicCheckpoint, Abstract!Spec
=============================================================================
