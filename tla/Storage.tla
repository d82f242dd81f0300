-------------------------------- MODULE Storage --------------------------------
(***************************************************************************)
(* The files of one node, step by step: save_hs_to_disk of                 *)
(* src/src/raft/state.rs, save_snapshot_to_disk and RaftActor::new of      *)
(* src/src/raft/actor.rs.  Every step can be the last one before a crash   *)
(* of the process or a power failure, and every step can return an error.  *)
(*                                                                         *)
(* The file system keeps inodes and one directory, the working directory.  *)
(* A crash keeps both as the process saw them.  A power failure keeps what *)
(* was synced; of the rest each change of the directory is there or not,   *)
(* and a file that was not synced is whole or not.                         *)
(***************************************************************************)
EXTENDS Naturals

CONSTANTS
  Inode, Nil,
  Torn,          \* the content of a file that is not whole, which from_str refuses
  MaxIndex,      \* bound: indices a snapshot may have
  MaxTerm,       \* bound: terms of the last entry of a snapshot
  MaxSaves,      \* bound: HardStates written
  MaxFaults,     \* bound: steps that return an error
  MaxCrashes     \* bound: crashes and power failures

Name == {"node", "nodeTmp", "snapshot", "snapshotTmp"}

Directory == [Name -> Inode \cup {Nil}]

(* last_included_index and last_included_term, of a file or the process.   *)
Mark == [index : Nat, term : Nat]
None == [index |-> 0, term |-> 0]

(* A HardState is told by the number of its save; the states the handlers  *)
(* write are RaftCluster's.                                                *)
HardState == [version : Nat, lastIncluded : Mark]
Snapshot == [lastIncluded : Mark]

ASSUME StorageAssumption ==
  /\ Nil \notin Inode /\ Torn \notin HardState \cup Snapshot /\ Nil \notin HardState
  /\ MaxIndex \in Nat /\ MaxTerm \in Nat /\ MaxSaves \in Nat /\ MaxFaults \in Nat /\ MaxCrashes \in Nat

Content == HardState \cup Snapshot \cup {Torn}

VARIABLES
  dir,         \* the directory as the process sees it
  dirs,        \* the directories a power failure may leave
  content,     \* the files as the process sees them
  survives,    \* survives[i]: the contents of i a power failure may leave
  pc,          \* the next step of the save, "up" or "down"
  panics,      \* does an error of the save end the process?
  lastIncluded,\* the process'
  saving,      \* the HardState being written
  taken,       \* the snapshot being written
  saves,       \* HardStates written so far, the version of the last
  confirmed,   \* history: the version of the last save that returned Ok
  lost,        \* history: a power failure took the snapshot, since the last start
  faults, crashes

files == <<dir, dirs, content, survives>>
process == <<pc, panics, lastIncluded, saving, taken, saves>>
budget == <<faults, crashes>>
vars == <<files, process, confirmed, lost, budget>>

------------------------------------------------------------------------------
(* The file system.                                                        *)

Linked == {i \in Inode : \E d \in dirs, name \in Name : d[name] = i}

(* Open for writing with create and truncate, and write_all of c.          *)
WriteFile(tmp, c) ==
  \/ /\ dir[tmp] = Nil
     /\ \E i \in Inode \ Linked :
          /\ dir' = [dir EXCEPT ![tmp] = i]
          /\ dirs' = dirs \cup {[d EXCEPT ![tmp] = i] : d \in dirs}
          /\ content' = [content EXCEPT ![i] = c]
          /\ survives' = [survives EXCEPT ![i] = {Torn, c}]
  \/ /\ dir[tmp] # Nil
     /\ content' = [content EXCEPT ![dir[tmp]] = c]
     /\ survives' = [survives EXCEPT ![dir[tmp]] = @ \cup {Torn, c}]
     /\ UNCHANGED <<dir, dirs>>

SyncFile(tmp) ==
  /\ survives' = [survives EXCEPT ![dir[tmp]] = {content[dir[tmp]]}]
  /\ UNCHANGED <<dir, dirs, content>>

(* Mutant: the file keeps its temporary name, too.                         *)
AlsoNamed(d, tmp, path) == [d EXCEPT ![path] = dir[tmp]]

Renamed(d, tmp, path) == [d EXCEPT ![path] = dir[tmp], ![tmp] = Nil]

Rename(tmp, path) ==
  /\ dir' = Renamed(dir, tmp, path)
  /\ dirs' = dirs \cup {Renamed(d, tmp, path) : d \in dirs}
  /\ UNCHANGED <<content, survives>>

(* Mutant: the directory is not synced.                                    *)
SyncNothing == UNCHANGED files

SyncDirectory ==
  /\ dirs' = {dir}
  /\ UNCHANGED <<dir, content, survives>>

------------------------------------------------------------------------------
(* A save of the HardState.                                                *)

SaveState(number, mark, fatal) ==
  /\ saves < MaxSaves
  /\ saves' = number
  /\ saving' = [version |-> number, lastIncluded |-> mark]
  /\ lastIncluded' = mark
  /\ panics' = fatal
  /\ pc' = "write"

(* persist_state by a handler that can go on without it.                   *)
Persist ==
  /\ pc = "up"
  /\ SaveState(saves + 1, lastIncluded, FALSE)
  /\ UNCHANGED <<files, taken, confirmed, lost, budget>>

Write ==
  /\ pc = "write"
  /\ WriteFile("nodeTmp", saving)
  /\ pc' = "sync"
  /\ UNCHANGED <<panics, lastIncluded, saving, taken, saves, confirmed, lost, budget>>

(* Mutant: the file is renamed without being synced.                       *)
SyncSkipped ==
  /\ pc = "sync"
  /\ pc' = "rename"
  /\ UNCHANGED <<files, panics, lastIncluded, saving, taken, saves, confirmed, lost, budget>>

Sync ==
  /\ pc = "sync"
  /\ SyncFile("nodeTmp")
  /\ pc' = "rename"
  /\ UNCHANGED <<panics, lastIncluded, saving, taken, saves, confirmed, lost, budget>>

RenameState ==
  /\ pc = "rename"
  /\ Rename("nodeTmp", "node")
  /\ pc' = "syncDirectory"
  /\ UNCHANGED <<panics, lastIncluded, saving, taken, saves, confirmed, lost, budget>>

Saved ==
  /\ pc = "syncDirectory"
  /\ SyncDirectory
  /\ confirmed' = saving.version
  /\ pc' = "up"
  /\ UNCHANGED <<panics, lastIncluded, saving, taken, saves, lost, budget>>

(* A step returns an error: it did nothing, or wrote a part of the file.   *)
SaveFails ==
  /\ pc \in {"write", "sync", "rename", "syncDirectory"}
  /\ faults < MaxFaults /\ faults' = faults + 1
  /\ \/ pc = "write" /\ WriteFile("nodeTmp", Torn)
     \/ UNCHANGED files
  /\ pc' = IF panics THEN "down" ELSE "up"
  /\ UNCHANGED <<panics, lastIncluded, saving, taken, saves, confirmed, lost, crashes>>

------------------------------------------------------------------------------
(* A snapshot, and the HardState that goes with it.                        *)

(* Mutant: the index is not compared with the present snapshot's.          *)
TakeAnySnapshot(mark) ==
  /\ pc = "up"
  /\ taken' = mark
  /\ pc' = "writeSnapshot"
  /\ UNCHANGED <<files, panics, lastIncluded, saving, saves, confirmed, lost, budget>>

(* handle_trigger_snapshot and handle_install_snapshot.  The latter's      *)
(* index may also be lower: run stale_snapshot.                            *)
TakeSnapshot(mark) ==
  /\ pc = "up" /\ mark.index > lastIncluded.index
  /\ taken' = mark
  /\ pc' = "writeSnapshot"
  /\ UNCHANGED <<files, panics, lastIncluded, saving, saves, confirmed, lost, budget>>

WriteSnapshot ==
  /\ pc = "writeSnapshot"
  /\ WriteFile("snapshotTmp", [lastIncluded |-> taken])
  /\ pc' = "renameSnapshot"
  /\ UNCHANGED <<panics, lastIncluded, saving, taken, saves, confirmed, lost, budget>>

RenameSnapshot ==
  /\ pc = "renameSnapshot"
  /\ Rename("snapshotTmp", "snapshot")
  /\ SaveState(saves + 1, taken, TRUE)
  /\ UNCHANGED <<taken, confirmed, lost, budget>>

SnapshotFails ==
  /\ pc \in {"writeSnapshot", "renameSnapshot"}
  /\ faults < MaxFaults /\ faults' = faults + 1
  /\ \/ pc = "writeSnapshot" /\ WriteFile("snapshotTmp", Torn)
     \/ UNCHANGED files
  /\ pc' = "up"
  /\ UNCHANGED <<panics, lastIncluded, saving, taken, saves, confirmed, lost, crashes>>

------------------------------------------------------------------------------
(* Crashes and starts.                                                     *)

Fresh == [version |-> 0, lastIncluded |-> None]

(* What RaftState::new_with_addr and RaftActor::new read.                  *)
StateFile(d, c) == IF d["node"] = Nil THEN Fresh ELSE c[d["node"]]
SnapshotFile(d, c) ==
  IF d["snapshot"] = Nil THEN [lastIncluded |-> None] ELSE c[d["snapshot"]]

(* The snapshot is later than the HardState's, or the same.                *)
Reaches(mark, other) == mark.index > other.index \/ mark = other

(* Neither of them panics: both files are whole, and the snapshot is not   *)
(* older than the HardState needs, nor of another term at its index.       *)
Startable(d, c) ==
  /\ StateFile(d, c) # Torn
  /\ SnapshotFile(d, c) # Torn
  /\ Reaches(SnapshotFile(d, c).lastIncluded, StateFile(d, c).lastIncluded)

Crash ==
  /\ pc # "down" /\ crashes < MaxCrashes /\ crashes' = crashes + 1
  /\ pc' = "down"
  /\ UNCHANGED <<files, panics, lastIncluded, saving, taken, saves, confirmed, lost, faults>>

PowerFailure ==
  /\ crashes < MaxCrashes /\ crashes' = crashes + 1
  /\ dir' \in dirs /\ dirs' = {dir'}
  /\ content' \in {c \in [Inode -> UNION {survives[i] : i \in Inode}] :
                     \A i \in Inode : c[i] \in survives[i]}
  /\ survives' = [i \in Inode |-> {content'[i]}]
  /\ pc' = "down"
  /\ lost' = (lost \/ SnapshotFile(dir', content') # SnapshotFile(dir, content))
  /\ UNCHANGED <<panics, lastIncluded, saving, taken, saves, confirmed, faults>>

(* A snapshot ahead of the HardState is adopted and the HardState saved    *)
(* before the node is up.                                                  *)
Start ==
  /\ pc = "down" /\ Startable(dir, content)
  /\ LET stored == StateFile(dir, content).lastIncluded
         snapshot == SnapshotFile(dir, content).lastIncluded
     IN  \/ /\ snapshot = stored
            /\ lastIncluded' = stored
            /\ pc' = "up"
            /\ UNCHANGED <<panics, saving, saves>>
         \/ /\ snapshot.index > stored.index
            /\ SaveState(saves + 1, snapshot, TRUE)
  /\ lost' = FALSE
  /\ UNCHANGED <<files, taken, confirmed, budget>>

------------------------------------------------------------------------------
Init ==
  /\ dir = [name \in Name |-> Nil] /\ dirs = {dir}
  /\ content = [i \in Inode |-> Torn] /\ survives = [i \in Inode |-> {Torn}]
  /\ pc = "down" /\ panics = FALSE /\ lastIncluded = None
  /\ saving = Fresh /\ taken = None /\ saves = 0
  /\ confirmed = 0 /\ lost = FALSE
  /\ faults = 0 /\ crashes = 0

(* Bound: the snapshots.                                                   *)
Marks == [index : 1 .. MaxIndex, term : 1 .. MaxTerm]

Next ==
  \/ Persist \/ Write \/ Sync \/ RenameState \/ Saved \/ SaveFails
  \/ \E mark \in Marks : TakeSnapshot(mark)
  \/ WriteSnapshot \/ RenameSnapshot \/ SnapshotFails
  \/ Crash \/ PowerFailure \/ Start

Spec == Init /\ [][Next]_vars

------------------------------------------------------------------------------
(* Properties.                                                             *)

(* The process and its directory have the states the code gives them, and  *)
(* a file that a start may read is not written any more.                   *)
TypeOK ==
  /\ dir \in Directory /\ dirs \subseteq Directory /\ dir \in dirs
  /\ content \in [Inode -> Content] /\ survives \in [Inode -> SUBSET Content]
  /\ pc \in {"up", "down", "write", "sync", "rename", "syncDirectory",
             "writeSnapshot", "renameSnapshot"}
  /\ panics \in BOOLEAN /\ lost \in BOOLEAN
  /\ lastIncluded \in Mark /\ taken \in Mark
  /\ saving \in HardState /\ saves \in Nat /\ confirmed \in Nat
  /\ \A d \in dirs : d["node"] # Nil => d["node"] # dir["nodeTmp"]

(* What a save reported as done is there after any crash or power failure: *)
(* the file is whole, and holds that save or a later one.                  *)
SavedSurvives ==
  \A d \in dirs :
    /\ confirmed > 0 => d["node"] # Nil
    /\ d["node"] # Nil =>
         \A c \in survives[d["node"]] : c \in HardState /\ c.version >= confirmed

(* Whatever step of a save or a snapshot an error, a crash or a power      *)
(* failure interrupted, the node can start from what is found, unless a    *)
(* power failure has taken the snapshot itself back (it is never synced):  *)
(* no HardState is found that needs a snapshot which is not there yet, or  *)
(* another one of its index (RaftActor::new, Fix 2).                       *)
StartsAfterCrash == lost \/ Startable(dir, content)

(* What the comments at Fix 3 and Fix 10 promise without exception.        *)
AlwaysStartable == Startable(dir, content)
==============================================================================
