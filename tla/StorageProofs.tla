----------------------------- MODULE StorageProofs -----------------------------
(***************************************************************************)
(* For every number of inodes, snapshots, saves, errors and crashes: what  *)
(* save_hs_to_disk reported as saved survives, and saving the HardState is *)
(* atomic.                                                                 *)
(***************************************************************************)
EXTENDS StorageRefinement, TLAPS

(* The inductive invariant besides TypeOK and SavedSurvives.               *)

(* The process sees one of the contents a power failure may leave.         *)
Visible == \A i \in Inode : content[i] \in survives[i]

(* No inode serves a HardState and a snapshot.                             *)
Apart ==
  \A d, e \in dirs :
    \A name \in {"node", "nodeTmp"}, other \in {"snapshot", "snapshotTmp"} :
      d[name] # Nil => d[name] # e[other]

(* In no directory is the temporary file the file itself.                  *)
Moved == \A d \in dirs : d["node"] # Nil => d["node"] # d["nodeTmp"]

Saving == pc \in {"write", "sync", "rename", "syncDirectory"}

Numbered ==
  /\ confirmed <= saves
  /\ Saving => saving.version = saves

(* What the save has reached at each of its steps.                         *)
Written ==
  pc = "sync" => dir["nodeTmp"] # Nil /\ content[dir["nodeTmp"]] = saving
Synced ==
  pc = "rename" => dir["nodeTmp"] # Nil /\ survives[dir["nodeTmp"]] = {saving}
InPlace ==
  pc = "syncDirectory" => dir["node"] # Nil /\ survives[dir["node"]] = {saving}

SnapshotWritten == pc = "renameSnapshot" => dir["snapshotTmp"] # Nil

FilesOK == Visible /\ Apart /\ Moved

StepsOK == Written /\ Synced /\ InPlace /\ SnapshotWritten

IInv == TypeOK /\ FilesOK /\ Numbered /\ StepsOK /\ SavedSurvives

(* The step leaves alone what may be found under the name of the file.     *)
NodeKept ==
  /\ dir'["node"] = dir["node"]
  /\ \A d \in dirs' : \E e \in dirs : d["node"] = e["node"]
  /\ \A e \in dirs : \E d \in dirs' : d["node"] = e["node"]
  /\ \A d \in dirs : d["node"] # Nil =>
       /\ survives'[d["node"]] = survives[d["node"]]
       /\ content'[d["node"]] = content[d["node"]]

FilesTypeOK ==
  /\ dir \in Directory /\ dirs \subseteq Directory /\ dir \in dirs
  /\ content \in [Inode -> Content] /\ survives \in [Inode -> SUBSET Content]
  /\ \A d \in dirs : d["node"] # Nil => d["node"] # dir["nodeTmp"]

(* Writing a temporary file.                                               *)
LEMMA WriteFileKeeps ==
  ASSUME FilesTypeOK, FilesOK, NEW tmp \in {"nodeTmp", "snapshotTmp"}, NEW c \in Content,
         WriteFile(tmp, c)
  PROVE  /\ FilesTypeOK' /\ FilesOK' /\ NodeKept
         /\ dir'[tmp] # Nil /\ content'[dir'[tmp]] = c
<1>0. Torn \in Content /\ Nil \notin Inode /\ tmp \in Name
  BY StorageAssumption DEF Content, Name
<1>1. CASE dir[tmp] # Nil
  <2>1. dir' = dir /\ dirs' = dirs /\ dir[tmp] \in Inode
    BY <1>0, <1>1 DEF WriteFile, FilesTypeOK, Directory
  <2>2. \A d \in dirs : d["node"] # Nil => d["node"] # dir[tmp] /\ d["node"] \in Inode
    BY <2>1, <1>0 DEF FilesTypeOK, FilesOK, Apart, Directory, Name
  <2>3. /\ content' = [content EXCEPT ![dir[tmp]] = c]
        /\ survives' = [survives EXCEPT ![dir[tmp]] = @ \cup {Torn, c}]
    BY <1>1 DEF WriteFile
  <2>4. content' \in [Inode -> Content] /\ survives' \in [Inode -> SUBSET Content]
    BY <1>0, <2>1, <2>3 DEF FilesTypeOK
  <2>5. FilesTypeOK'
    BY <2>1, <2>4 DEF FilesTypeOK
  <2>6. Visible'
    BY <2>1, <2>3 DEF FilesTypeOK, FilesOK, Visible
  <2>7. NodeKept
    BY <2>1, <2>2, <2>3 DEF NodeKept, FilesTypeOK
  <2> QED
    BY <2>1, <2>3, <2>5, <2>6, <2>7, <1>1 DEF FilesOK, Apart, Moved, FilesTypeOK
<1>2. CASE dir[tmp] = Nil
  <2>1. PICK i \in Inode \ Linked :
          /\ dir' = [dir EXCEPT ![tmp] = i]
          /\ dirs' = dirs \cup {[d EXCEPT ![tmp] = i] : d \in dirs}
          /\ content' = [content EXCEPT ![i] = c]
          /\ survives' = [survives EXCEPT ![i] = {Torn, c}]
    BY <1>2 DEF WriteFile
  <2>2. \A d \in dirs : \A name \in Name : d[name] # i
    BY DEF Linked
  <2>3. i # Nil /\ \A d \in dirs : [d EXCEPT ![tmp] = i] \in Directory
    BY <1>0 DEF FilesTypeOK, Directory
  <2>4. dir' \in dirs' /\ dirs' \subseteq Directory /\ dir' \in Directory
    BY <2>1, <2>3 DEF FilesTypeOK
  <2>5. content' \in [Inode -> Content] /\ survives' \in [Inode -> SUBSET Content]
    BY <1>0, <2>1 DEF FilesTypeOK
  <2>6. \A d \in dirs' : \E e \in dirs :
          /\ d["node"] = e["node"]
          /\ d[tmp] = e[tmp] \/ d[tmp] = i
          /\ \A name \in Name \ {tmp} : d[name] = e[name]
    BY <2>1, <1>0 DEF FilesTypeOK, Directory, Name
  <2>7. dir'[tmp] = i /\ \A name \in Name \ {tmp} : dir'[name] = dir[name]
    BY <2>1, <1>0 DEF FilesTypeOK, Directory
  <2>8. \A d \in dirs' : d["node"] # i
    BY <2>2, <2>6 DEF Name
  <2>9. \A d \in dirs' : d["node"] # Nil => d["node"] # dir'["nodeTmp"]
    BY <2>6, <2>7, <2>8, <1>0 DEF FilesTypeOK, Name
  <2>10. FilesTypeOK'
    BY <2>4, <2>5, <2>9 DEF FilesTypeOK
  <2>11. Visible'
    BY <2>1 DEF FilesTypeOK, FilesOK, Visible
  <2>12. Moved'
    BY <2>6, <2>8, <1>0 DEF FilesOK, Moved, Name
  <2>13. Apart'
    BY <2>6, <2>2, <2>3, <1>0 DEF FilesOK, Apart, Name
  <2>14. NodeKept
    <3>1. \A d \in dirs : d["node"] # i
      BY <2>2 DEF Name
    <3>2. dir'["node"] = dir["node"]
      BY <2>7, <1>0 DEF Name
    <3>3. \A e \in dirs : e \in dirs'
      BY <2>1
    <3> QED
      BY <2>1, <2>6, <3>1, <3>2, <3>3 DEF NodeKept, FilesTypeOK
  <2> QED
    BY <2>1, <2>3, <2>7, <2>10, <2>11, <2>12, <2>13, <2>14 DEF FilesOK, FilesTypeOK
<1> QED
  BY <1>1, <1>2

(* Where the file's possible contents stay, so does what is known of them. *)
LEMMA KeptSurvives ==
  ASSUME SavedSurvives, NodeKept, confirmed' = confirmed
  PROVE  SavedSurvives'
BY DEF SavedSurvives, NodeKept

LEMMA KeptRegister ==
  ASSUME NodeKept, dir \in dirs
  PROVE  RegisterValue' = RegisterValue /\ RegisterLeft' = RegisterLeft
<1>1. RegisterValue' = RegisterValue
  BY DEF NodeKept, RegisterValue
<1>2. ASSUME NEW c \in RegisterLeft' PROVE c \in RegisterLeft
  <2>1. PICK d \in dirs' : c \in IF d["node"] = Nil THEN {Nil} ELSE survives'[d["node"]]
    BY <1>2 DEF RegisterLeft, FoundIn
  <2>2. PICK e \in dirs : d["node"] = e["node"]
    BY DEF NodeKept
  <2> QED
    BY <2>1, <2>2 DEF NodeKept, RegisterLeft, FoundIn
<1>3. ASSUME NEW c \in RegisterLeft PROVE c \in RegisterLeft'
  <2>1. PICK e \in dirs : c \in IF e["node"] = Nil THEN {Nil} ELSE survives[e["node"]]
    BY <1>3 DEF RegisterLeft, FoundIn
  <2>2. PICK d \in dirs' : d["node"] = e["node"]
    BY DEF NodeKept
  <2> QED
    BY <2>1, <2>2 DEF NodeKept, RegisterLeft, FoundIn
<1> QED
  BY <1>1, <1>2, <1>3

------------------------------------------------------------------------------
(* The inductive step, one lemma for each group of actions.                *)

LEMMA InitIInv == Init => IInv
<1> SUFFICES ASSUME Init PROVE IInv
  OBVIOUS
<1>0. /\ Fresh \in HardState /\ Torn \in Content /\ Nil \notin Inode
      /\ None \in Mark
  BY StorageAssumption DEF Fresh, HardState, Content, None, Mark
<1>1. dir \in Directory /\ dirs = {dir} /\ \A d \in dirs : d["node"] = Nil
  BY DEF Init, Directory, Name
<1>2. TypeOK
  BY <1>0, <1>1 DEF Init, TypeOK
<1>3. FilesOK
  BY <1>1 DEF Init, FilesOK, Visible, Apart, Moved, Name
<1>4. Numbered /\ StepsOK
  BY DEF Init, Numbered, Saving, StepsOK, Written, Synced, InPlace, SnapshotWritten
<1>5. SavedSurvives
  BY <1>1 DEF Init, SavedSurvives
<1> QED
  BY <1>2, <1>3, <1>4, <1>5 DEF IInv

LEMMA TypeOfFiles == TypeOK => FilesTypeOK
BY DEF TypeOK, FilesTypeOK

(* Steps that leave the files as they are.                                 *)
LEMMA SameFiles ==
  ASSUME IInv, UNCHANGED files
  PROVE  FilesTypeOK' /\ FilesOK' /\ NodeKept
BY DEF IInv, TypeOK, FilesTypeOK, FilesOK, Visible, Apart, Moved, NodeKept, files

LEMMA SaveStateType ==
  ASSUME TypeOK, NEW mark \in Mark, NEW fatal \in BOOLEAN,
         SaveState(saves + 1, mark, fatal)
  PROVE  /\ saves' = saves + 1 /\ saves' \in Nat
         /\ saving' \in HardState /\ saving'.version = saves'
         /\ lastIncluded' \in Mark /\ panics' \in BOOLEAN /\ pc' = "write"
BY DEF SaveState, TypeOK, HardState

LEMMA StartTypes ==
  ASSUME TypeOK, Startable(dir, content)
  PROVE  /\ StateFile(dir, content).lastIncluded \in Mark
         /\ SnapshotFile(dir, content).lastIncluded \in Mark
<1>1. StateFile(dir, content) \in HardState \cup Snapshot
  BY DEF StateFile, Startable, TypeOK, Directory, Name, Fresh, HardState, Snapshot, Content,
         None, Mark
<1>2. SnapshotFile(dir, content) \in HardState \cup Snapshot
  BY DEF SnapshotFile, Startable, TypeOK, Directory, Name, HardState, Snapshot, Content,
         None, Mark
<1> QED
  BY <1>1, <1>2 DEF HardState, Snapshot

(* Saves begin, and processes start and crash, without touching the files. *)
LEMMA QuietSteps ==
  ASSUME IInv,
         Persist \/ (\E mark \in Marks : TakeSnapshot(mark)) \/ Crash \/ Start
  PROVE  IInv' /\ NodeKept
<1>1. UNCHANGED files /\ confirmed' = confirmed /\ (lost \in BOOLEAN => lost' \in BOOLEAN)
  BY DEF Persist, TakeSnapshot, Crash, Start
<1>2. FilesTypeOK' /\ FilesOK' /\ NodeKept
  BY <1>1, SameFiles
<1>3. SavedSurvives'
  BY <1>1, <1>2, KeptSurvives DEF IInv
<1>4. CASE Persist
  <2>1. /\ saves' = saves + 1 /\ saves' \in Nat
        /\ saving' \in HardState /\ saving'.version = saves'
        /\ lastIncluded' \in Mark /\ panics' \in BOOLEAN /\ pc' = "write"
    BY <1>4, SaveStateType DEF Persist, IInv, TypeOK
  <2>2. taken' = taken
    BY <1>4 DEF Persist
  <2> QED
    BY <1>1, <1>2, <1>3, <2>1, <2>2
    DEF IInv, TypeOK, FilesTypeOK, Numbered, Saving, StepsOK, Written, Synced, InPlace,
        SnapshotWritten
<1>5. CASE \E mark \in Marks : TakeSnapshot(mark)
  BY <1>1, <1>2, <1>3, <1>5
  DEF TakeSnapshot, Marks, Mark, IInv, TypeOK, FilesTypeOK, Numbered, Saving, StepsOK, Written,
      Synced, InPlace, SnapshotWritten
<1>6. CASE Crash
  BY <1>1, <1>2, <1>3, <1>6
  DEF Crash, IInv, TypeOK, FilesTypeOK, Numbered, Saving, StepsOK, Written, Synced, InPlace,
      SnapshotWritten
<1>7. CASE Start
  <2>1. /\ StateFile(dir, content).lastIncluded \in Mark
        /\ SnapshotFile(dir, content).lastIncluded \in Mark
    BY <1>7, StartTypes DEF Start, IInv
  <2>2. CASE /\ lastIncluded' = StateFile(dir, content).lastIncluded
             /\ pc' = "up" /\ UNCHANGED <<panics, saving, saves>>
    BY <1>1, <1>2, <1>3, <1>7, <2>1, <2>2
    DEF Start, IInv, TypeOK, FilesTypeOK, Numbered, Saving, StepsOK, Written, Synced, InPlace,
        SnapshotWritten
  <2>3. CASE SaveState(saves + 1, SnapshotFile(dir, content).lastIncluded, TRUE)
    <3>1. /\ saves' = saves + 1 /\ saves' \in Nat
          /\ saving' \in HardState /\ saving'.version = saves'
          /\ lastIncluded' \in Mark /\ panics' \in BOOLEAN /\ pc' = "write"
      BY <2>1, <2>3, SaveStateType DEF IInv
    <3>2. taken' = taken
      BY <1>7 DEF Start
    <3> QED
      BY <1>1, <1>2, <1>3, <3>1, <3>2
      DEF IInv, TypeOK, FilesTypeOK, Numbered, Saving, StepsOK, Written, Synced, InPlace,
          SnapshotWritten
  <2> QED
    BY <1>7, <2>2, <2>3 DEF Start
<1> QED
  BY <1>2, <1>4, <1>5, <1>6, <1>7

(* Writing a temporary file, whole or in part, and then an error or not.   *)
LEMMA WritingSteps ==
  ASSUME IInv, Write \/ WriteSnapshot \/ SaveFails \/ SnapshotFails
  PROVE  IInv' /\ NodeKept
<1>0. FilesTypeOK /\ FilesOK
  BY TypeOfFiles DEF IInv
<1>1. saving \in Content /\ Torn \in Content /\ [lastIncluded |-> taken] \in Content
  BY DEF IInv, TypeOK, Content, Snapshot
<1>2. CASE Write
  <2>1. /\ FilesTypeOK' /\ FilesOK' /\ NodeKept
        /\ dir'["nodeTmp"] # Nil /\ content'[dir'["nodeTmp"]] = saving
    BY <1>0, <1>1, <1>2, WriteFileKeeps DEF Write
  <2>2. SavedSurvives'
    BY <1>2, <2>1, KeptSurvives DEF IInv, Write
  <2> QED
    BY <1>2, <2>1, <2>2
    DEF Write, IInv, TypeOK, FilesTypeOK, Numbered, Saving, StepsOK, Written, Synced, InPlace,
        SnapshotWritten
<1>3. CASE WriteSnapshot
  <2>1. FilesTypeOK' /\ FilesOK' /\ NodeKept /\ dir'["snapshotTmp"] # Nil
    BY <1>0, <1>1, <1>3, WriteFileKeeps DEF WriteSnapshot
  <2>2. SavedSurvives'
    BY <1>3, <2>1, KeptSurvives DEF IInv, WriteSnapshot
  <2> QED
    BY <1>3, <2>1, <2>2
    DEF WriteSnapshot, IInv, TypeOK, FilesTypeOK, Numbered, Saving, StepsOK, Written, Synced,
        InPlace, SnapshotWritten
<1>4. CASE SaveFails
  <2>1. FilesTypeOK' /\ FilesOK' /\ NodeKept
    <3>1. CASE WriteFile("nodeTmp", Torn)
      BY <1>0, <1>1, <3>1, WriteFileKeeps
    <3>2. CASE UNCHANGED files
      BY <3>2, SameFiles
    <3> QED
      BY <1>4, <3>1, <3>2 DEF SaveFails
  <2>2. SavedSurvives'
    BY <1>4, <2>1, KeptSurvives DEF IInv, SaveFails
  <2> QED
    BY <1>4, <2>1, <2>2
    DEF SaveFails, IInv, TypeOK, FilesTypeOK, Numbered, Saving, StepsOK, Written, Synced, InPlace,
        SnapshotWritten
<1>5. CASE SnapshotFails
  <2>1. FilesTypeOK' /\ FilesOK' /\ NodeKept
    <3>1. CASE WriteFile("snapshotTmp", Torn)
      BY <1>0, <1>1, <3>1, WriteFileKeeps
    <3>2. CASE UNCHANGED files
      BY <3>2, SameFiles
    <3> QED
      BY <1>5, <3>1, <3>2 DEF SnapshotFails
  <2>2. SavedSurvives'
    BY <1>5, <2>1, KeptSurvives DEF IInv, SnapshotFails
  <2> QED
    BY <1>5, <2>1, <2>2
    DEF SnapshotFails, IInv, TypeOK, FilesTypeOK, Numbered, Saving, StepsOK, Written, Synced,
        InPlace, SnapshotWritten
<1> QED
  BY <1>2, <1>3, <1>4, <1>5

LEMMA SyncStep ==
  ASSUME IInv, Sync
  PROVE  IInv' /\ NodeKept
<1> DEFINE t == dir["nodeTmp"]
<1>1. t \in Inode /\ content[t] = saving /\ saving \in HardState
  BY DEF Sync, IInv, TypeOK, Directory, Name, StepsOK, Written
<1>2. /\ dir' = dir /\ dirs' = dirs /\ content' = content
      /\ survives' = [survives EXCEPT ![t] = {saving}]
  BY <1>1 DEF Sync, SyncFile
<1>3. \A d \in dirs : d["node"] # Nil => d["node"] # t
  BY DEF IInv, TypeOK
<1>4. NodeKept
  BY <1>2, <1>3 DEF NodeKept, IInv, TypeOK
<1>5. SavedSurvives'
  BY <1>4, KeptSurvives DEF Sync, IInv
<1>6. FilesOK'
  BY <1>1, <1>2 DEF IInv, TypeOK, FilesOK, Visible, Apart, Moved
<1>7. survives' \in [Inode -> SUBSET Content]
  BY <1>1, <1>2 DEF IInv, TypeOK, Content
<1>8. TypeOK'
  BY <1>2, <1>7 DEF Sync, IInv, TypeOK
<1>9. survives'[t] = {saving} /\ t # Nil
  BY <1>1, <1>2, StorageAssumption DEF IInv, TypeOK
<1>10. Numbered' /\ StepsOK'
  BY <1>2, <1>9
  DEF Sync, IInv, Numbered, Saving, StepsOK, Written, Synced, InPlace, SnapshotWritten
<1> QED
  BY <1>4, <1>5, <1>6, <1>8, <1>10 DEF IInv

(* What a directory has under each name after a rename.                    *)
LEMMA RenamedEntries ==
  ASSUME FilesTypeOK, NEW d \in dirs, NEW tmp \in Name, NEW path \in Name, tmp # path
  PROVE  LET r == Renamed(d, tmp, path)
         IN  /\ r \in Directory
             /\ r[path] = dir[tmp] /\ r[tmp] = Nil
             /\ \A name \in Name \ {tmp, path} : r[name] = d[name]
BY DEF Renamed, FilesTypeOK, Directory

(* The file takes its name: what is found under it is the save, from now   *)
(* on or after a power failure.                                            *)
LEMMA RenameStep ==
  ASSUME IInv, RenameState
  PROVE  /\ IInv'
         /\ RegisterValue' \in HardState
         /\ RegisterLeft' = RegisterLeft \cup {RegisterValue'}
<1> DEFINE t == dir["nodeTmp"]
           R(d) == Renamed(d, "nodeTmp", "node")
<1>0. FilesTypeOK /\ FilesOK /\ "nodeTmp" \in Name /\ "node" \in Name
  BY TypeOfFiles DEF IInv, Name
<1>1. t \in Inode /\ t # Nil /\ survives[t] = {saving} /\ saving \in HardState
  BY StorageAssumption DEF RenameState, IInv, TypeOK, Directory, Name, StepsOK, Synced
<1>2. content[t] = saving
  BY <1>0, <1>1 DEF FilesOK, Visible
<1>3. /\ dir' = R(dir) /\ dirs' = dirs \cup {R(d) : d \in dirs}
      /\ content' = content /\ survives' = survives
  BY DEF RenameState, Rename
<1>4. \A d \in dirs : /\ R(d) \in Directory /\ R(d)["node"] = t /\ R(d)["nodeTmp"] = Nil
                      /\ \A name \in {"snapshot", "snapshotTmp"} : R(d)[name] = d[name]
  BY <1>0, RenamedEntries DEF Name
<1>5. dir \in dirs /\ dir'["node"] = t /\ dir'["nodeTmp"] = Nil /\ dir' \in dirs'
  BY <1>0, <1>3, <1>4 DEF FilesTypeOK
<1>6. dirs' \subseteq Directory /\ dir' \in Directory
  BY <1>0, <1>3, <1>4, <1>5 DEF FilesTypeOK
<1>7. \A d \in dirs' : \/ d \in dirs
                       \/ d["node"] = t /\ d["nodeTmp"] = Nil
  BY <1>3, <1>4
<1>8. TypeOK'
  BY <1>3, <1>5, <1>6 DEF RenameState, IInv, TypeOK
<1>9. Visible' /\ Moved'
  BY <1>0, <1>1, <1>3, <1>7 DEF FilesOK, Visible, Moved
<1>10. Apart'
  <2> SUFFICES ASSUME NEW d \in dirs', NEW e \in dirs', NEW name \in {"node", "nodeTmp"},
                      NEW other \in {"snapshot", "snapshotTmp"}, d[name] # Nil
               PROVE  d[name] # e[other]
    BY DEF Apart
  <2>1. PICK f \in dirs : e[other] = f[other]
    BY <1>3, <1>4
  <2>2. CASE d \in dirs
    BY <1>0, <2>1, <2>2 DEF FilesOK, Apart
  <2>3. CASE d["node"] = t /\ d["nodeTmp"] = Nil
    BY <1>0, <1>1, <1>5, <2>1, <2>3 DEF FilesOK, Apart
  <2> QED
    BY <1>7, <2>2, <2>3
<1>11. saving.version = saves /\ confirmed <= saves
  BY DEF RenameState, IInv, Numbered, Saving
<1>12. SavedSurvives'
  BY <1>1, <1>3, <1>7, <1>11 DEF RenameState, IInv, TypeOK, SavedSurvives, HardState
<1>13. Numbered' /\ StepsOK'
  BY <1>1, <1>3, <1>5, <1>11
  DEF RenameState, Numbered, Saving, StepsOK, Written, Synced, InPlace, SnapshotWritten
<1>14. RegisterValue' = saving
  BY <1>1, <1>2, <1>3, <1>5 DEF RegisterValue
<1>15. \A d \in dirs : FoundIn(R(d)) = {saving}
  BY <1>1, <1>4 DEF FoundIn
<1>16. RegisterLeft' = UNION {FoundIn(d) : d \in dirs'}
  BY <1>3 DEF RegisterLeft, FoundIn
<1>17. RegisterLeft' = RegisterLeft \cup {saving}
  <2>1. ASSUME NEW c \in RegisterLeft' PROVE c \in RegisterLeft \cup {saving}
    BY <1>3, <1>15, <1>16, <2>1 DEF RegisterLeft
  <2>2. ASSUME NEW c \in RegisterLeft PROVE c \in RegisterLeft'
    BY <1>3, <1>16, <2>2 DEF RegisterLeft
  <2>3. saving \in RegisterLeft'
    BY <1>3, <1>5, <1>15, <1>16
  <2> QED
    BY <2>1, <2>2, <2>3
<1> QED
  BY <1>1, <1>8, <1>9, <1>10, <1>12, <1>13, <1>14, <1>17 DEF IInv, FilesOK

(* The snapshot takes its name.                                            *)
LEMMA RenameSnapshotStep ==
  ASSUME IInv, RenameSnapshot
  PROVE  IInv' /\ NodeKept
<1> DEFINE t == dir["snapshotTmp"]
           R(d) == Renamed(d, "snapshotTmp", "snapshot")
<1>0. FilesTypeOK /\ FilesOK /\ "snapshotTmp" \in Name /\ "snapshot" \in Name
  BY TypeOfFiles DEF IInv, Name
<1>1. t # Nil
  BY DEF RenameSnapshot, IInv, StepsOK, SnapshotWritten
<1>3. /\ dir' = R(dir) /\ dirs' = dirs \cup {R(d) : d \in dirs}
      /\ content' = content /\ survives' = survives
  BY DEF RenameSnapshot, Rename
<1>4. \A d \in dirs : /\ R(d) \in Directory /\ R(d)["snapshot"] = t /\ R(d)["snapshotTmp"] = Nil
                      /\ \A name \in {"node", "nodeTmp"} : R(d)[name] = d[name]
  BY <1>0, RenamedEntries DEF Name
<1>5. dir \in dirs /\ dir' \in dirs'
  BY <1>0, <1>3 DEF FilesTypeOK
<1>6. dirs' \subseteq Directory /\ dir' \in Directory
  BY <1>0, <1>3, <1>4, <1>5 DEF FilesTypeOK
<1>7. \A d \in dirs' : \E e \in dirs :
        /\ \A name \in {"node", "nodeTmp"} : d[name] = e[name]
        /\ \A name \in {"snapshot", "snapshotTmp"} : d[name] \in {e[name], t, Nil}
  BY <1>3, <1>4
<1>8. /\ saves' = saves + 1 /\ saves' \in Nat
      /\ saving' \in HardState /\ saving'.version = saves'
      /\ lastIncluded' \in Mark /\ panics' \in BOOLEAN /\ pc' = "write"
  BY SaveStateType DEF RenameSnapshot, IInv, TypeOK
<1>9. dir'["node"] = dir["node"] /\ dir'["nodeTmp"] = dir["nodeTmp"]
  BY <1>3, <1>4, <1>5
<1>10. NodeKept
  BY <1>3, <1>7, <1>9 DEF NodeKept
<1>11. \A d \in dirs' : d["node"] # Nil => d["node"] # dir'["nodeTmp"]
  BY <1>0, <1>7, <1>9 DEF FilesTypeOK
<1>12. TypeOK'
  BY <1>3, <1>5, <1>6, <1>8, <1>11 DEF RenameSnapshot, IInv, TypeOK
<1>13. Visible' /\ Moved'
  BY <1>0, <1>3, <1>7 DEF FilesOK, Visible, Moved
<1>14. Apart'
  BY <1>0, <1>1, <1>5, <1>7 DEF FilesOK, Apart
<1>15. SavedSurvives'
  BY <1>10, KeptSurvives DEF RenameSnapshot, IInv
<1>16. Numbered' /\ StepsOK'
  BY <1>8
  DEF RenameSnapshot, IInv, TypeOK, Numbered, Saving, StepsOK, Written, Synced, InPlace,
      SnapshotWritten
<1> QED
  BY <1>10, <1>12, <1>13, <1>14, <1>15, <1>16 DEF IInv, FilesOK

(* The directory is synced: the save is confirmed.                         *)
LEMMA SavedStep ==
  ASSUME IInv, Saved
  PROVE  IInv' /\ RegisterValue' = RegisterValue /\ RegisterLeft' = {RegisterValue'}
<1> DEFINE n == dir["node"]
<1>1. n \in Inode /\ n # Nil /\ survives[n] = {saving} /\ saving \in HardState
  BY StorageAssumption DEF Saved, IInv, TypeOK, Directory, Name, StepsOK, InPlace
<1>2. content[n] = saving
  BY <1>1 DEF IInv, FilesOK, Visible
<1>3. dir' = dir /\ dirs' = {dir} /\ content' = content /\ survives' = survives
  BY DEF Saved, SyncDirectory
<1>4. saving.version = saves /\ confirmed' = saves /\ saves' = saves
  BY DEF Saved, IInv, Numbered, Saving
<1>5. TypeOK'
  BY <1>3, <1>4 DEF Saved, IInv, TypeOK
<1>6. FilesOK'
  BY <1>3 DEF IInv, TypeOK, FilesOK, Visible, Apart, Moved
<1>7. SavedSurvives'
  BY <1>1, <1>3, <1>4 DEF IInv, TypeOK, SavedSurvives
<1>8. Numbered' /\ StepsOK'
  BY <1>4, <1>5
  DEF Saved, TypeOK, Numbered, Saving, StepsOK, Written, Synced, InPlace, SnapshotWritten
<1>9. RegisterValue' = saving /\ RegisterValue = saving
  BY <1>1, <1>2, <1>3 DEF RegisterValue
<1>10. RegisterLeft' = {saving}
  BY <1>1, <1>3 DEF RegisterLeft, FoundIn
<1> QED
  BY <1>5, <1>6, <1>7, <1>8, <1>9, <1>10 DEF IInv

(* A power failure leaves one of the directories and, of each file, one of *)
(* its contents.                                                           *)
LEMMA PowerFailureStep ==
  ASSUME IInv, PowerFailure
  PROVE  IInv' /\ RegisterValue' \in RegisterLeft /\ RegisterLeft' = {RegisterValue'}
<1>1. /\ dir' \in dirs /\ dirs' = {dir'}
      /\ \A i \in Inode : content'[i] \in survives[i]
      /\ content' \in [Inode -> UNION {survives[i] : i \in Inode}]
      /\ survives' = [i \in Inode |-> {content'[i]}]
  BY DEF PowerFailure
<1>2. content' \in [Inode -> Content] /\ survives' \in [Inode -> SUBSET Content]
  <2>1. \A i \in Inode : content'[i] \in Content
    BY <1>1 DEF IInv, TypeOK
  <2> QED
    BY <1>1, <2>1
<1>3. dir'["node"] # Nil => dir'["node"] \in Inode /\ dir'["node"] # dir'["nodeTmp"]
  BY <1>1 DEF IInv, TypeOK, FilesOK, Moved, Directory, Name
<1>4. TypeOK'
  <2>1. lost' \in BOOLEAN
    BY DEF PowerFailure
  <2> QED
    BY <1>1, <1>2, <1>3, <2>1 DEF PowerFailure, IInv, TypeOK
<1>5. FilesOK'
  BY <1>1, <1>3 DEF IInv, FilesOK, Visible, Apart, Moved
<1>6. SavedSurvives'
  BY <1>1, <1>3 DEF PowerFailure, IInv, SavedSurvives
<1>7. Numbered' /\ StepsOK'
  BY DEF PowerFailure, IInv, Numbered, Saving, StepsOK, Written, Synced, InPlace,
         SnapshotWritten
<1>8. RegisterValue' \in FoundIn(dir')
  BY <1>1, <1>3 DEF RegisterValue, FoundIn
<1>9. RegisterValue' \in RegisterLeft
  BY <1>1, <1>8 DEF RegisterLeft
<1>10. RegisterLeft' = {RegisterValue'}
  BY <1>1, <1>3 DEF RegisterLeft, FoundIn, RegisterValue
<1> QED
  BY <1>4, <1>5, <1>6, <1>7, <1>9, <1>10 DEF IInv

LEMMA Stutter ==
  ASSUME IInv, UNCHANGED vars
  PROVE  IInv' /\ NodeKept
<1>1. FilesTypeOK' /\ FilesOK' /\ NodeKept
  BY SameFiles DEF vars
<1>2. SavedSurvives'
  BY <1>1, KeptSurvives DEF vars, IInv
<1> QED
  BY <1>1, <1>2
  DEF vars, files, process, IInv, TypeOK, FilesTypeOK, Numbered, Saving, StepsOK, Written,
      Synced, InPlace, SnapshotWritten

(* The step of the register that a step of the node is.                    *)
LEMMA NextStep ==
  ASSUME IInv, [Next]_vars
  PROVE  IInv' /\ [Register!Next]_<<RegisterValue, RegisterLeft>>
<1>1. ASSUME IInv', NodeKept
      PROVE  IInv' /\ [Register!Next]_<<RegisterValue, RegisterLeft>>
  BY <1>1, KeptRegister DEF IInv, TypeOK
<1>2. CASE Persist \/ (\E mark \in Marks : TakeSnapshot(mark)) \/ Crash \/ Start
  BY <1>1, <1>2, QuietSteps
<1>3. CASE Write \/ WriteSnapshot \/ SaveFails \/ SnapshotFails
  BY <1>1, <1>3, WritingSteps
<1>4. CASE Sync
  BY <1>1, <1>4, SyncStep
<1>5. CASE RenameState
  BY <1>5, RenameStep DEF Register!Next, Register!Replace
<1>6. CASE RenameSnapshot
  BY <1>1, <1>6, RenameSnapshotStep
<1>7. CASE Saved
  BY <1>7, SavedStep DEF Register!Next, Register!Confirm
<1>8. CASE PowerFailure
  BY <1>8, PowerFailureStep DEF Register!Next, Register!Fail
<1>9. CASE UNCHANGED vars
  BY <1>1, <1>9, Stutter
<1> QED
  BY <1>2, <1>3, <1>4, <1>5, <1>6, <1>7, <1>8, <1>9 DEF Next

------------------------------------------------------------------------------
(* The theorems.                                                           *)

THEOREM Invariant == Spec => []IInv
<1>1. IInv /\ [Next]_vars => IInv'
  BY NextStep
<1> QED
  BY <1>1, InitIInv, PTL DEF Spec

(* The types, and that a file a start may read is not written any more.    *)
THEOREM StorageTypeCorrect == Spec => []TypeOK
<1>1. IInv => TypeOK
  BY DEF IInv
<1> QED
  BY <1>1, Invariant, PTL

(* A save that returned Ok survives every crash and power failure that     *)
(* follows, whatever other saves and snapshots were under way.             *)
THEOREM SavesAreDurable == Spec => []SavedSurvives
<1>1. IInv => SavedSurvives
  BY DEF IInv
<1> QED
  BY <1>1, Invariant, PTL

(* The refinement: persist_state is an atomic, confirmed write.            *)
THEOREM SavesAreAtomic == Spec => ImplementsRegister
<1>1. Init => Register!Init
  <2> SUFFICES ASSUME Init PROVE RegisterValue = Nil /\ RegisterLeft = {Nil}
    BY DEF Register!Init
  <2>1. dir["node"] = Nil /\ dirs = {dir}
    BY DEF Init, Name
  <2> QED
    BY <2>1 DEF RegisterValue, RegisterLeft, FoundIn
<1>2. IInv /\ [Next]_vars => [Register!Next]_<<RegisterValue, RegisterLeft>>
  BY NextStep
<1> QED
  BY <1>1, <1>2, Invariant, PTL DEF Spec, ImplementsRegister, Register!Spec

------------------------------------------------------------------------------
(* That the node can start again needs to know of the snapshot's file,     *)
(* too, and how its mark, the process' and the HardState's are ordered.    *)

SnapshotMoved == \A d \in dirs : d["snapshot"] # Nil => d["snapshot"] # d["snapshotTmp"]

SnapshotComplete ==
  pc = "renameSnapshot" => content[dir["snapshotTmp"]] = [lastIncluded |-> taken]

StateRead == StateFile(dir, content)
SnapshotRead == SnapshotFile(dir, content)

(* The HardStates a start may find, after a power failure or without one.  *)
StatesLeft ==
  UNION {IF d["node"] = Nil THEN {Fresh} ELSE survives[d["node"]] : d \in dirs}

(* The snapshot that is there is enough for every one of them.             *)
Covered ==
  /\ SnapshotRead # Torn
  /\ SnapshotRead.lastIncluded \in Mark
  /\ \A s \in StatesLeft : Reaches(SnapshotRead.lastIncluded, s.lastIncluded)

(* Nothing depends on a power failure any more.                            *)
Certain == dirs = {dir} /\ \A i \in Inode : survives[i] = {content[i]}

Ordered ==
  /\ IF lost THEN pc = "down" /\ Certain ELSE Covered
  /\ pc # "down" => lastIncluded = SnapshotRead.lastIncluded
  /\ Saving => saving.lastIncluded = lastIncluded
  /\ pc \in {"writeSnapshot", "renameSnapshot"} => taken.index > lastIncluded.index

StartInv == IInv /\ SnapshotMoved /\ SnapshotComplete /\ Ordered

ReadsKept == StateRead' = StateRead /\ SnapshotRead' = SnapshotRead

LEMMA WriteFileReads ==
  ASSUME FilesTypeOK, FilesOK, SnapshotMoved, NEW tmp \in {"nodeTmp", "snapshotTmp"},
         NEW c \in Content, WriteFile(tmp, c)
  PROVE  ReadsKept /\ SnapshotMoved'
<1>0. Nil \notin Inode /\ tmp \in Name
  BY StorageAssumption DEF Name
<1>1. CASE dir[tmp] # Nil
  <2>1. /\ dir' = dir /\ dirs' = dirs
        /\ content' = [content EXCEPT ![dir[tmp]] = c]
    BY <1>1 DEF WriteFile
  <2>2. \A name \in {"node", "snapshot"} : dir[name] # Nil => dir[name] # dir[tmp]
    BY <1>1 DEF FilesTypeOK, FilesOK, Apart, SnapshotMoved
  <2>3. ReadsKept
    BY <2>1, <2>2 DEF ReadsKept, StateRead, SnapshotRead, StateFile, SnapshotFile, FilesTypeOK
  <2> QED
    BY <2>1, <2>3 DEF SnapshotMoved
<1>2. CASE dir[tmp] = Nil
  <2>1. PICK i \in Inode \ Linked :
          /\ dir' = [dir EXCEPT ![tmp] = i]
          /\ dirs' = dirs \cup {[d EXCEPT ![tmp] = i] : d \in dirs}
          /\ content' = [content EXCEPT ![i] = c]
    BY <1>2 DEF WriteFile
  <2>2. \A d \in dirs : \A name \in Name : d[name] # i
    BY DEF Linked
  <2>3. \A d \in dirs : \A name \in Name :
          [d EXCEPT ![tmp] = i][name] = IF name = tmp THEN i ELSE d[name]
    BY DEF FilesTypeOK, Directory
  <2>4. \A name \in {"node", "snapshot"} : dir'[name] = dir[name] /\ dir[name] # i
    BY <2>1, <2>2, <2>3 DEF FilesTypeOK, Name
  <2>5. ReadsKept
    BY <2>1, <2>4 DEF ReadsKept, StateRead, SnapshotRead, StateFile, SnapshotFile, FilesTypeOK
  <2>6. SnapshotMoved'
    <3> SUFFICES ASSUME NEW d \in dirs', d["snapshot"] # Nil
                 PROVE  d["snapshot"] # d["snapshotTmp"]
      BY DEF SnapshotMoved
    <3>1. CASE d \in dirs
      BY <3>1 DEF SnapshotMoved
    <3>2. CASE \E e \in dirs : d = [e EXCEPT ![tmp] = i]
      <4>1. PICK e \in dirs : d = [e EXCEPT ![tmp] = i]
        BY <3>2
      <4>2. d["snapshot"] = e["snapshot"] /\ d["snapshotTmp"] \in {e["snapshotTmp"], i}
        BY <4>1, <2>3 DEF Name
      <4> QED
        BY <4>2, <2>2 DEF SnapshotMoved, Name
    <3> QED
      BY <2>1, <3>1, <3>2
  <2> QED
    BY <2>5, <2>6
<1> QED
  BY <1>1, <1>2

LEMMA SameReads ==
  ASSUME UNCHANGED files
  PROVE  ReadsKept /\ (SnapshotMoved => SnapshotMoved')
BY DEF files, ReadsKept, StateRead, SnapshotRead, SnapshotMoved

(* Every HardState that a start may find is one.                           *)
LEMMA LeftTypes ==
  ASSUME TypeOK, SavedSurvives
  PROVE  StatesLeft \subseteq HardState
<1>1. Fresh \in HardState
  BY DEF Fresh, HardState, None, Mark
<1> QED
  BY <1>1 DEF StatesLeft, SavedSurvives

LEMMA ReadLeft ==
  ASSUME TypeOK, FilesOK
  PROVE  StateRead \in StatesLeft
<1>1. CASE dir["node"] = Nil
  BY <1>1 DEF TypeOK, StateRead, StateFile, StatesLeft
<1>2. CASE dir["node"] # Nil
  <2>1. dir["node"] \in Inode /\ dir \in dirs
    BY <1>2 DEF TypeOK, Directory, Name
  <2>2. content[dir["node"]] \in survives[dir["node"]]
    BY <2>1 DEF FilesOK, Visible
  <2> QED
    BY <1>2, <2>1, <2>2 DEF StateRead, StateFile, StatesLeft
<1> QED
  BY <1>1, <1>2

(* Where it is enough for all of them, it is for the one that is found.    *)
LEMMA CoveredStarts ==
  ASSUME TypeOK, FilesOK, SavedSurvives, Covered
  PROVE  Startable(dir, content)
<1>1. StateRead \in StatesLeft /\ StateRead \in HardState
  BY ReadLeft, LeftTypes
<1>2. StateRead # Torn
  BY <1>1, StorageAssumption
<1> QED
  BY <1>1, <1>2 DEF Covered, Startable, StateRead, SnapshotRead

(* Once it is certain what a start finds, being able to start covers it.   *)
LEMMA StartsCovered ==
  ASSUME TypeOK, Certain, Startable(dir, content)
  PROVE  Covered
<1>1. StatesLeft = {StateRead}
  <2>1. CASE dir["node"] = Nil
    BY <2>1 DEF Certain, StatesLeft, StateRead, StateFile
  <2>2. CASE dir["node"] # Nil
    <3>1. dir["node"] \in Inode
      BY <2>2 DEF TypeOK, Directory, Name
    <3> QED
      BY <2>2, <3>1 DEF Certain, StatesLeft, StateRead, StateFile
  <2> QED
    BY <2>1, <2>2
<1>2. SnapshotRead.lastIncluded \in Mark
  BY StartTypes DEF SnapshotRead
<1> QED
  BY <1>1, <1>2 DEF Covered, Startable, StateRead, SnapshotRead

LEMMA KeptLeft == ASSUME NodeKept PROVE StatesLeft' \subseteq StatesLeft
<1> SUFFICES ASSUME NEW c \in StatesLeft' PROVE c \in StatesLeft
  OBVIOUS
<1>1. PICK d \in dirs' : c \in IF d["node"] = Nil THEN {Fresh} ELSE survives'[d["node"]]
  BY DEF StatesLeft
<1>2. PICK e \in dirs : d["node"] = e["node"]
  BY DEF NodeKept
<1> QED
  BY <1>1, <1>2 DEF NodeKept, StatesLeft

LEMMA KeptCovered ==
  ASSUME Covered, NodeKept, SnapshotRead' = SnapshotRead
  PROVE  Covered'
BY KeptLeft DEF Covered

LEMMA InitStarts == Init => StartInv
<1> SUFFICES ASSUME Init PROVE SnapshotMoved /\ SnapshotComplete /\ Ordered
  BY InitIInv DEF StartInv
<1>1. dirs = {dir} /\ \A name \in Name : dir[name] = Nil
  BY DEF Init
<1>2. SnapshotMoved /\ SnapshotComplete
  BY <1>1 DEF Init, SnapshotMoved, SnapshotComplete, Name
<1>3. StatesLeft = {Fresh} /\ SnapshotRead = [lastIncluded |-> None]
  BY <1>1 DEF StatesLeft, SnapshotRead, SnapshotFile, Name
<1>4. None \in Mark /\ [lastIncluded |-> None] \in Snapshot /\ Fresh.lastIncluded = None
  BY DEF Fresh, Snapshot, None, Mark
<1>5. Covered
  BY <1>3, <1>4, StorageAssumption DEF Covered, Reaches
<1> QED
  BY <1>2, <1>5 DEF Init, Ordered, Saving

LEMMA SaveStateMarks ==
  ASSUME NEW mark, NEW fatal, SaveState(saves + 1, mark, fatal)
  PROVE  lastIncluded' = mark /\ saving'.lastIncluded = mark /\ pc' = "write"
BY DEF SaveState

LEMMA QuietStarts ==
  ASSUME StartInv, IInv', NodeKept,
         Persist \/ (\E mark \in Marks : TakeSnapshot(mark)) \/ Crash \/ Start
  PROVE  StartInv'
<1>1. UNCHANGED files
  BY DEF Persist, TakeSnapshot, Crash, Start
<1>2. ReadsKept /\ SnapshotMoved'
  BY <1>1, SameReads DEF StartInv
<1>3. Covered => Covered'
  BY <1>2, KeptCovered DEF ReadsKept
<1>4. SnapshotComplete'
  BY <1>1 DEF Persist, TakeSnapshot, Crash, Start, SaveState, SnapshotComplete, StartInv
<1>5. Ordered'
  <2>1. CASE Persist
    <3>1. /\ lastIncluded' = lastIncluded
          /\ saving'.lastIncluded = lastIncluded /\ pc' = "write" /\ pc = "up"
      BY <2>1, SaveStateMarks DEF Persist
    <3> QED
      BY <1>2, <1>3, <2>1, <3>1 DEF Persist, StartInv, Ordered, Saving, ReadsKept
  <2>2. CASE \E mark \in Marks : TakeSnapshot(mark)
    BY <1>2, <1>3, <2>2 DEF TakeSnapshot, StartInv, Ordered, Saving, ReadsKept
  <2>3. CASE Crash
    BY <1>2, <1>3, <2>3 DEF Crash, StartInv, Ordered, Saving
  <2>4. CASE Start
    <3>1. Covered' /\ ~lost'
      BY <1>3, <2>4, StartsCovered DEF Start, StartInv, IInv, Ordered
    <3>2. CASE /\ SnapshotRead.lastIncluded = StateRead.lastIncluded
               /\ lastIncluded' = StateRead.lastIncluded /\ pc' = "up"
      BY <1>2, <3>1, <3>2 DEF Ordered, Saving, ReadsKept
    <3>3. CASE SaveState(saves + 1, SnapshotRead.lastIncluded, TRUE)
      <4>1. /\ lastIncluded' = SnapshotRead.lastIncluded
            /\ saving'.lastIncluded = SnapshotRead.lastIncluded /\ pc' = "write"
        BY <3>3, SaveStateMarks
      <4> QED
        BY <1>2, <3>1, <4>1 DEF Ordered, Saving, ReadsKept
    <3> QED
      BY <2>4, <3>2, <3>3 DEF Start, StateRead, SnapshotRead
  <2> QED
    BY <2>1, <2>2, <2>3, <2>4
<1> QED
  BY <1>2, <1>4, <1>5 DEF StartInv

LEMMA WritingStarts ==
  ASSUME StartInv, IInv', NodeKept, Write \/ WriteSnapshot \/ SaveFails \/ SnapshotFails
  PROVE  StartInv'
<1>0. FilesTypeOK /\ FilesOK /\ SnapshotMoved
  BY TypeOfFiles DEF IInv, StartInv
<1>1. saving \in Content /\ Torn \in Content /\ [lastIncluded |-> taken] \in Content
  BY DEF StartInv, IInv, TypeOK, Content, Snapshot
<1>2. ReadsKept /\ SnapshotMoved'
  <2>1. CASE WriteFile("nodeTmp", saving) \/ WriteFile("nodeTmp", Torn)
    BY <1>0, <1>1, <2>1, WriteFileReads
  <2>2. CASE \/ WriteFile("snapshotTmp", [lastIncluded |-> taken])
             \/ WriteFile("snapshotTmp", Torn)
    BY <1>0, <1>1, <2>2, WriteFileReads
  <2>3. CASE UNCHANGED files
    BY <1>0, <2>3, SameReads
  <2> QED
    BY <2>1, <2>2, <2>3 DEF Write, WriteSnapshot, SaveFails, SnapshotFails
<1>3. Covered => Covered'
  BY <1>2, KeptCovered DEF ReadsKept
<1>4. SnapshotComplete'
  <2>1. CASE WriteSnapshot
    BY <1>0, <1>1, <2>1, WriteFileKeeps DEF WriteSnapshot, SnapshotComplete
  <2>2. CASE Write \/ SaveFails \/ SnapshotFails
    BY <2>2 DEF Write, SaveFails, SnapshotFails, SnapshotComplete
  <2> QED
    BY <2>1, <2>2
<1>5. Ordered'
  BY <1>2, <1>3
  DEF Write, WriteSnapshot, SaveFails, SnapshotFails, StartInv, Ordered, Saving, ReadsKept
<1> QED
  BY <1>2, <1>4, <1>5 DEF StartInv

LEMMA SyncStarts ==
  ASSUME StartInv, IInv', NodeKept, Sync
  PROVE  StartInv'
<1>1. dir' = dir /\ dirs' = dirs /\ content' = content
  BY DEF Sync, SyncFile
<1>2. ReadsKept /\ SnapshotMoved'
  BY <1>1 DEF ReadsKept, StateRead, SnapshotRead, StartInv, SnapshotMoved
<1>3. Covered => Covered'
  BY <1>2, KeptCovered DEF ReadsKept
<1>4. SnapshotComplete' /\ Ordered'
  BY <1>2, <1>3 DEF Sync, StartInv, SnapshotComplete, Ordered, Saving, ReadsKept
<1> QED
  BY <1>2, <1>4 DEF StartInv

LEMMA StutterStarts ==
  ASSUME StartInv, IInv', UNCHANGED vars
  PROVE  StartInv'
BY DEF vars, files, process, StartInv, SnapshotMoved, SnapshotComplete, Ordered, Covered, Certain,
       StatesLeft, SnapshotRead, Saving

(* The new HardState needs no later snapshot than the one that is there.   *)
LEMMA RenameStarts ==
  ASSUME StartInv, IInv', RenameState
  PROVE  StartInv'
<1> DEFINE t == dir["nodeTmp"]
           R(d) == Renamed(d, "nodeTmp", "node")
<1>0. FilesTypeOK /\ FilesOK /\ TypeOK /\ "nodeTmp" \in Name /\ "node" \in Name
  BY TypeOfFiles DEF StartInv, IInv, Name
<1>1. t # Nil /\ survives[t] = {saving}
  BY DEF RenameState, StartInv, IInv, StepsOK, Synced
<1>2. /\ dir' = R(dir) /\ dirs' = dirs \cup {R(d) : d \in dirs}
      /\ content' = content /\ survives' = survives
  BY DEF RenameState, Rename
<1>3. \A d \in dirs : /\ R(d)["node"] = t
                      /\ \A name \in {"snapshot", "snapshotTmp"} : R(d)[name] = d[name]
  BY <1>0, RenamedEntries DEF Name
<1>4. SnapshotRead' = SnapshotRead
  BY <1>0, <1>2, <1>3 DEF SnapshotRead, SnapshotFile, FilesTypeOK
<1>5. SnapshotMoved'
  BY <1>2, <1>3 DEF StartInv, SnapshotMoved
<1>6. SnapshotComplete'
  BY DEF RenameState, SnapshotComplete
<1>7. /\ ~lost /\ Covered
      /\ saving.lastIncluded = SnapshotRead.lastIncluded
      /\ lastIncluded = SnapshotRead.lastIncluded
  BY DEF RenameState, StartInv, Ordered, Saving
<1>8. StatesLeft' \subseteq StatesLeft \cup {saving}
  <2> SUFFICES ASSUME NEW c \in StatesLeft' PROVE c \in StatesLeft \cup {saving}
    OBVIOUS
  <2>1. PICK d \in dirs' : c \in IF d["node"] = Nil THEN {Fresh} ELSE survives[d["node"]]
    BY <1>2 DEF StatesLeft
  <2>2. CASE d \in dirs
    BY <2>1, <2>2 DEF StatesLeft
  <2>3. CASE d["node"] = t
    BY <1>1, <2>1, <2>3
  <2> QED
    BY <1>2, <1>3, <2>2, <2>3
<1>9. Covered'
  BY <1>4, <1>7, <1>8 DEF Covered, Reaches
<1>10. Ordered'
  BY <1>4, <1>7, <1>9 DEF RenameState, Ordered, Saving
<1> QED
  BY <1>5, <1>6, <1>10 DEF StartInv

(* The new snapshot is ahead of the HardState until that follows.          *)
LEMMA RenameSnapshotStarts ==
  ASSUME StartInv, IInv', NodeKept, RenameSnapshot
  PROVE  StartInv'
<1> DEFINE t == dir["snapshotTmp"]
           R(d) == Renamed(d, "snapshotTmp", "snapshot")
<1>0. FilesTypeOK /\ FilesOK /\ TypeOK /\ "snapshotTmp" \in Name /\ "snapshot" \in Name
  BY TypeOfFiles DEF StartInv, IInv, Name
<1>1. t # Nil /\ content[t] = [lastIncluded |-> taken]
  BY DEF RenameSnapshot, StartInv, SnapshotComplete, IInv, StepsOK, SnapshotWritten
<1>2. dir' = R(dir) /\ dirs' = dirs \cup {R(d) : d \in dirs} /\ content' = content
  BY DEF RenameSnapshot, Rename
<1>3. \A d \in dirs : R(d)["snapshot"] = t /\ R(d)["snapshotTmp"] = Nil
  BY <1>0, RenamedEntries
<1>4. SnapshotRead' = [lastIncluded |-> taken]
  BY <1>0, <1>1, <1>2, <1>3 DEF SnapshotRead, SnapshotFile, FilesTypeOK
<1>5. SnapshotMoved'
  BY <1>1, <1>2, <1>3 DEF StartInv, SnapshotMoved
<1>6. /\ lastIncluded' = taken /\ saving'.lastIncluded = taken /\ pc' = "write"
      /\ lost' = lost
  BY SaveStateMarks DEF RenameSnapshot
<1>7. SnapshotComplete'
  BY <1>6 DEF SnapshotComplete
<1>8. /\ ~lost /\ Covered /\ taken.index > lastIncluded.index
      /\ lastIncluded = SnapshotRead.lastIncluded
  BY DEF RenameSnapshot, StartInv, Ordered
<1>9. taken \in Mark /\ [lastIncluded |-> taken] # Torn
  BY <1>0, StorageAssumption DEF TypeOK, Snapshot
<1>10. \A s \in StatesLeft : Reaches(taken, s.lastIncluded)
  <2>1. \A s \in StatesLeft : s.lastIncluded \in Mark
    BY <1>0, LeftTypes DEF StartInv, IInv, HardState
  <2>2. lastIncluded \in Mark
    BY <1>0 DEF TypeOK
  <2> QED
    BY <1>8, <1>9, <2>1, <2>2 DEF Covered, Reaches, Mark
<1>11. Covered'
  BY <1>4, <1>9, <1>10, KeptLeft DEF Covered
<1>12. Ordered'
  BY <1>4, <1>6, <1>8, <1>11 DEF Ordered, Saving
<1> QED
  BY <1>5, <1>7, <1>12 DEF StartInv

LEMMA SavedStarts ==
  ASSUME StartInv, IInv', Saved
  PROVE  StartInv'
<1>1. /\ dir' = dir /\ dirs' = {dir} /\ content' = content /\ survives' = survives
      /\ dir \in dirs
  BY DEF Saved, SyncDirectory, StartInv, IInv, TypeOK
<1>2. ReadsKept /\ SnapshotMoved'
  BY <1>1 DEF ReadsKept, StateRead, SnapshotRead, StartInv, SnapshotMoved
<1>3. StatesLeft' \subseteq StatesLeft
  BY <1>1 DEF StatesLeft
<1>4. Covered => Covered'
  BY <1>2, <1>3 DEF Covered, ReadsKept
<1>5. SnapshotComplete' /\ Ordered'
  BY <1>2, <1>4 DEF Saved, StartInv, SnapshotComplete, Ordered, Saving, ReadsKept
<1> QED
  BY <1>2, <1>5 DEF StartInv

(* A power failure takes the snapshot, or leaves one that is enough for    *)
(* whichever HardState it leaves.                                          *)
LEMMA PowerFailureStarts ==
  ASSUME StartInv, IInv', PowerFailure
  PROVE  StartInv'
<1>1. SnapshotMoved'
  BY DEF PowerFailure, StartInv, SnapshotMoved
<1>2. /\ dir' \in dirs /\ dirs' = {dir'} /\ pc' = "down"
      /\ \A i \in Inode : content'[i] \in survives[i]
      /\ survives' = [i \in Inode |-> {content'[i]}]
      /\ lost' = (lost \/ SnapshotRead' # SnapshotRead)
  BY DEF PowerFailure, SnapshotRead
<1>3. Certain'
  BY <1>2 DEF Certain
<1>4. ASSUME ~lost' PROVE Covered'
  <2>1. Covered /\ SnapshotRead' = SnapshotRead
    BY <1>2, <1>4 DEF StartInv, Ordered
  <2>2. StatesLeft' \subseteq StatesLeft
    <3>1. CASE dir'["node"] = Nil
      BY <1>2, <3>1 DEF StatesLeft
    <3>2. CASE dir'["node"] # Nil
      <4>1. dir'["node"] \in Inode
        BY <1>2, <3>2 DEF StartInv, IInv, TypeOK, Directory, Name
      <4> QED
        BY <1>2, <3>2, <4>1 DEF StatesLeft
    <3> QED
      BY <3>1, <3>2
  <2> QED
    BY <2>1, <2>2 DEF Covered
<1> QED
  BY <1>1, <1>2, <1>3, <1>4 DEF StartInv, SnapshotComplete, Ordered, Saving

(* A crash of the process, an error of any step of a save or snapshot, and *)
(* a power failure that leaves the snapshot there as it was, leave the     *)
(* node able to start.                                                     *)
THEOREM CrashesAreRecoverable == Spec => []StartsAfterCrash
<1>1. StartInv /\ [Next]_vars => StartInv'
  <2> SUFFICES ASSUME StartInv, [Next]_vars PROVE StartInv'
    OBVIOUS
  <2>1. IInv /\ IInv'
    BY NextStep DEF StartInv
  <2>2. CASE Persist \/ (\E mark \in Marks : TakeSnapshot(mark)) \/ Crash \/ Start
    BY <2>1, <2>2, QuietSteps, QuietStarts
  <2>3. CASE Write \/ WriteSnapshot \/ SaveFails \/ SnapshotFails
    BY <2>1, <2>3, WritingSteps, WritingStarts
  <2>4. CASE Sync
    BY <2>1, <2>4, SyncStep, SyncStarts
  <2>5. CASE RenameSnapshot
    BY <2>1, <2>5, RenameSnapshotStep, RenameSnapshotStarts
  <2> QED
    BY <2>1, <2>2, <2>3, <2>4, <2>5, RenameStarts, SavedStarts, PowerFailureStarts,
       StutterStarts DEF Next
<1>2. StartInv => StartsAfterCrash
  BY CoveredStarts DEF StartInv, IInv, Ordered, StartsAfterCrash
<1> QED
  BY <1>1, <1>2, InitStarts, PTL DEF Spec
==============================================================================
