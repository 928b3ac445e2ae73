-------------------------- MODULE RangeStore_proofs -------------------------
(***************************************************************************)
(* Proofs about RangeStore: a file system that does its job loses no       *)
(* committed cell of a Range whose process is killed at any point, scans   *)
(* see exactly what was written, and the store implements RangeData.       *)
(***************************************************************************)
EXTENDS RangeStore, TLAPS

USE DEF disk, log, maj, min, hist, vars

\* The steps of Next that are not a fault.
LogSteps ==
  \/ \E c \in Cells : Add(c)
  \/ \E f \in Frags, S \in SUBSET mem : Roll(f, S)
  \/ \E f \in Frags : Written(f)
  \/ \E G \in SUBSET listed : LogCompact(G)
  \/ LogMerge \/ LogCancel
  \/ \E f \in Frags : LogRename(f)
  \/ \E f \in Frags : LogTake(f)
  \/ \E f \in Frags : LogDiscard(f)
  \/ LogDone
  \/ \E f \in Frags : RemoveFile(f)

CompactSteps ==
  \/ Compact \/ InitFinalized \/ Collect
  \/ \E c \in Cells : ScanCell(c)
  \/ ScanFinishing \/ Finalize \/ Quit
  \/ ReplaceBackup \/ ReplaceMove \/ ReplaceRead \/ ReplaceClean
  \/ RollbackRemove \/ RollbackRestore
  \/ DropFragments \/ CompactDone

LEMMA UnstruckSteps ==
  ASSUME Unstruck', [Next]_vars
  PROVE  LogSteps \/ CompactSteps \/ LoadNext \/ UNCHANGED vars
<1>1. ~ \E f \in Frags : LogTakeMissing(f)
  BY DEF Unstruck, LogTakeMissing, Strike
<1>2. ~ \E c \in Cells : ReplaceReadCorrupt(c) \/ RmdirOne(c)
  BY DEF Unstruck, ReplaceReadCorrupt, RmdirOne, Strike
<1>3. ~ ReplaceReadMissing /\ ~ ReplaceCleanFails
  BY DEF Unstruck, ReplaceReadMissing, ReplaceCleanFails, Strike
<1> QED
  BY <1>1, <1>2, <1>3
     DEF Next, LogNext, CompactNext, LogSteps, CompactSteps

\* What the log's steps and the range compaction's steps leave alone.
LEMMA LogFrame ==
  ASSUME LogSteps
  PROVE  phase = "up" /\ UNCHANGED <<phase, torn, cs, bak, tmp, rdr, maj>>
BY DEF LogSteps, Add, Roll, Written, LogCompact, LogMerge, LogCancel,
   LogRename, LogTake, LogDiscard, LogDone, RemoveFile

LEMMA CompactFrame ==
  ASSUME CompactSteps
  PROVE  phase = "up" /\ UNCHANGED <<phase, file, torn, mem, buf, min, hist>>
BY DEF CompactSteps, Compact, InitFinalized, Collect, ScanCell,
   ScanFinishing, Finalize, Quit, ReplaceBackup, ReplaceMove, ReplaceRead,
   ReplaceClean, RollbackRemove, RollbackRestore, DropFragments, CompactDone

\* Types, what is empty at rest, and the directories that a place of the
\* range compaction needs, through any step, faults included.
LEMMA PlacesStep ==
  ASSUME TypeOK, PlacesInv, [Next]_vars
  PROVE  TypeOK' /\ PlacesInv'
<1> USE StoreAssumption DEF TypeOK, Dirs, PlacesInv, FaultNames
<1>1. CASE UNCHANGED vars
  BY <1>1
<1>2. ASSUME NEW c \in Cells, Add(c) PROVE TypeOK' /\ PlacesInv'
  BY <1>2 DEF Add, Merge, Closed
<1>3. ASSUME NEW f \in Frags, NEW S \in SUBSET mem, Roll(f, S)
      PROVE  TypeOK' /\ PlacesInv'
  BY <1>3 DEF Roll
<1>4. ASSUME NEW f \in Frags, Written(f) PROVE TypeOK' /\ PlacesInv'
  BY <1>4 DEF Written
<1>5. ASSUME NEW G \in SUBSET listed, LogCompact(G) PROVE TypeOK' /\ PlacesInv'
  BY <1>5 DEF LogCompact
<1>6. CASE LogMerge
  BY <1>6 DEF LogMerge, Merge
<1>7. CASE LogCancel \/ LogDone
  BY <1>7 DEF LogCancel, LogDone
<1>8. ASSUME NEW f \in Frags, LogRename(f) PROVE TypeOK' /\ PlacesInv'
  BY <1>8 DEF LogRename
<1>9. ASSUME NEW f \in Frags, LogTake(f) \/ LogDiscard(f) \/ RemoveFile(f)
      PROVE  TypeOK' /\ PlacesInv'
  <2>1. CASE LogTake(f) \/ LogDiscard(f)
    BY <2>1 DEF LogTake, LogDiscard
  <2>2. CASE RemoveFile(f)
    BY <2>2 DEF RemoveFile
  <2> QED BY <1>9, <2>1, <2>2
<1>10. CASE Compact \/ InitFinalized \/ Collect \/ ScanFinishing \/ Finalize
  BY <1>10 DEF Compact, InitFinalized, Collect, ScanFinishing, Finalize
<1>11. ASSUME NEW c \in Cells, ScanCell(c) PROVE TypeOK' /\ PlacesInv'
  <2>1. tmp' \in SUBSET Cells
    BY <1>11 DEF ScanCell, Visible
  <2> QED BY <1>11, <2>1 DEF ScanCell
<1>12. CASE Quit \/ ReplaceBackup \/ ReplaceMove \/ ReplaceRead \/ ReplaceClean
  BY <1>12 DEF Quit, ReplaceBackup, ReplaceMove, ReplaceRead, ReplaceClean
<1>13. CASE DropFragments \/ CompactDone \/ RollbackRemove \/ RollbackRestore
  BY <1>13 DEF DropFragments, CompactDone, RollbackRemove, RollbackRestore
<1>14. ASSUME NEW T \in SUBSET Frags, Crash(T) PROVE TypeOK' /\ PlacesInv'
  BY <1>14 DEF Crash
<1>15. CASE Unload \/ LoadSetAside \/ LoadRestore \/ LoadPlain \/ LoadRead
  BY <1>15 DEF Unload, LoadSetAside, LoadRestore, LoadPlain, LoadRead
<1>16. ASSUME NEW f \in Frags, LogTakeMissing(f) PROVE TypeOK' /\ PlacesInv'
  BY <1>16 DEF LogTakeMissing, Strike
<1>17. ASSUME NEW c \in Cells, ReplaceReadCorrupt(c)
       PROVE  TypeOK' /\ PlacesInv'
  BY <1>17 DEF ReplaceReadCorrupt, Strike
<1>18. CASE ReplaceReadMissing \/ ReplaceCleanFails
  BY <1>18 DEF ReplaceReadMissing, ReplaceCleanFails, Strike
<1>19. ASSUME NEW c \in Cells, RmdirOne(c) PROVE TypeOK' /\ PlacesInv'
  BY <1>19 DEF RmdirOne, Strike
<1> QED
  BY <1>1, <1>2, <1>3, <1>4, <1>5, <1>6, <1>7, <1>8, <1>9, <1>10, <1>11,
     <1>12, <1>13, <1>14, <1>15, <1>16, <1>17, <1>18, <1>19
     DEF Next, LogNext, CompactNext, LoadNext

\* Which directories are there.
LEMMA DirsStep ==
  ASSUME TypeOK, DirsInv, DownInv, Unstruck', [Next]_vars
  PROVE  DirsInv'
<1> USE StoreAssumption DEF TypeOK, Dirs, DirsInv, Replacing
<1>1. CASE UNCHANGED vars
  BY <1>1
<1>2. CASE LogSteps
  BY <1>2, LogFrame
<1>3. CASE Compact \/ InitFinalized \/ Collect \/ ScanFinishing \/ Finalize
  BY <1>3 DEF Compact, InitFinalized, Collect, ScanFinishing, Finalize
<1>4. ASSUME NEW c \in Cells, ScanCell(c) PROVE DirsInv'
  <2>1. tmp' # Absent
    BY <1>4 DEF ScanCell, Visible
  <2> QED BY <1>4, <2>1 DEF ScanCell
<1>5. CASE Quit \/ ReplaceBackup \/ ReplaceMove \/ ReplaceRead \/ ReplaceClean
  BY <1>5 DEF Quit, ReplaceBackup, ReplaceMove, ReplaceRead, ReplaceClean
<1>6. CASE DropFragments \/ CompactDone \/ RollbackRemove \/ RollbackRestore
  BY <1>6 DEF DropFragments, CompactDone, RollbackRemove, RollbackRestore
<1>7. ASSUME NEW T \in SUBSET Frags, Crash(T) PROVE DirsInv'
  <2>1. T = {}
    BY <1>7 DEF Crash, Unstruck
  <2> QED BY <1>7, <2>1 DEF Crash
<1>8. CASE Unload \/ LoadSetAside \/ LoadRestore \/ LoadPlain \/ LoadRead
  BY <1>8 DEF Unload, LoadSetAside, LoadRestore, LoadPlain, LoadRead, DownInv
<1> QED
  BY <1>1, <1>2, <1>3, <1>4, <1>5, <1>6, <1>7, <1>8, UnstruckSteps
     DEF CompactSteps, LoadNext

\* No cell store holds a removal.
LEMMA PlainStep ==
  ASSUME TypeOK, DirsInv, PlainInv, Unstruck', [Next]_vars
  PROVE  PlainInv'
<1> USE StoreAssumption DEF TypeOK, Dirs, DirsInv, PlainInv, Replacing
<1>1. CASE UNCHANGED vars
  BY <1>1
<1>2. CASE LogSteps
  BY <1>2, LogFrame
<1>3. CASE Compact \/ InitFinalized \/ Collect \/ ScanFinishing \/ Finalize
  BY <1>3 DEF Compact, InitFinalized, Collect, ScanFinishing, Finalize
<1>4. ASSUME NEW c \in Cells, ScanCell(c) PROVE PlainInv'
  <2>1. \A r \in Removals : r \notin tmp'
    BY <1>4 DEF ScanCell, Visible
  <2> QED BY <1>4, <2>1 DEF ScanCell
<1>5. CASE Quit \/ ReplaceBackup \/ ReplaceMove \/ ReplaceRead \/ ReplaceClean
  BY <1>5 DEF Quit, ReplaceBackup, ReplaceMove, ReplaceRead, ReplaceClean
<1>6. CASE DropFragments \/ CompactDone \/ RollbackRemove \/ RollbackRestore
  BY <1>6 DEF DropFragments, CompactDone, RollbackRemove, RollbackRestore
<1>7. ASSUME NEW T \in SUBSET Frags, Crash(T) PROVE PlainInv'
  BY <1>7 DEF Crash
<1>8. CASE Unload \/ LoadSetAside \/ LoadRestore \/ LoadPlain \/ LoadRead
  BY <1>8 DEF Unload, LoadSetAside, LoadRestore, LoadPlain, LoadRead
<1> QED
  BY <1>1, <1>2, <1>3, <1>4, <1>5, <1>6, <1>7, <1>8, UnstruckSteps
     DEF CompactSteps, LoadNext

\* A process that is not up has nothing in memory.
LEMMA DownStep ==
  ASSUME TypeOK, DownInv, FragInv, Unstruck', [Next]_vars
  PROVE  DownInv'
<1> USE DEF DownInv
<1>1. CASE UNCHANGED vars
  BY <1>1
<1>2. CASE LogSteps
  BY <1>2, LogFrame
<1>3. CASE CompactSteps
  BY <1>3, CompactFrame
<1>4. ASSUME NEW T \in SUBSET Frags, Crash(T) PROVE DownInv'
  BY <1>4 DEF Crash
<1>5. CASE Unload \/ LoadSetAside \/ LoadRestore \/ LoadPlain \/ LoadRead
  BY <1>5 DEF Unload, LoadSetAside, LoadRestore, LoadPlain, LoadRead,
     FragInv, Finalized
<1> QED
  BY <1>1, <1>2, <1>3, <1>4, <1>5, UnstruckSteps DEF LoadNext


\* The roles of a fragment's name.
LEMMA FragStep ==
  ASSUME StoreInv, Unstruck', [Next]_vars
  PROVE  FragInv'
<1> USE DEF StoreInv, TypeOK, FragInv
<1>1. CASE UNCHANGED vars
  BY <1>1
<1>2. ASSUME NEW c \in Cells, Add(c) PROVE FragInv'
  BY <1>2 DEF Add
<1>3. ASSUME NEW f \in Frags, NEW S \in SUBSET mem, Roll(f, S) PROVE FragInv'
  BY <1>3 DEF Roll, Free
<1>4. ASSUME NEW f \in Frags, Written(f) PROVE FragInv'
  BY <1>4 DEF Written
<1>5. ASSUME NEW G \in SUBSET listed, LogCompact(G) PROVE FragInv'
  BY <1>5 DEF LogCompact, GroupInv
<1>6. CASE LogMerge
  BY <1>6 DEF LogMerge
<1>7. CASE LogCancel \/ LogDone
  BY <1>7 DEF LogCancel, LogDone, GroupInv
<1>8. ASSUME NEW f \in Frags, LogRename(f) PROVE FragInv'
  <2>1. merged \subseteq durable
    BY <1>8 DEF LogRename, GroupInv, Merge
  <2> QED BY <1>8, <2>1 DEF LogRename, Free, GroupInv
<1>9. ASSUME NEW f \in Frags, LogTake(f) PROVE FragInv'
  BY <1>9 DEF LogTake, GroupInv
<1>10. ASSUME NEW f \in Frags, RemoveFile(f) \/ LogDiscard(f) PROVE FragInv'
  <2>1. LogDiscard(f) => rem = {} /\ own \cap listed = {}
    BY DEF LogDiscard, GroupInv
  <2> QED BY <1>10, <2>1 DEF RemoveFile, LogDiscard
<1>11. CASE CompactSteps /\ UNCHANGED <<listed, rem>> /\ cpc # "drop"
  BY <1>11, CompactFrame
<1>12. CASE DropFragments
  <2>1. /\ old \subseteq listed /\ mpc = "idle" /\ own = {} /\ rem = {}
        /\ \A f \in Frags : buf[f] = {}
    BY <1>12 DEF DropFragments, OldInv, GroupInv, Finalized
  <2> QED BY <1>12, <2>1 DEF DropFragments
<1>13. CASE CompactDone
  BY <1>13 DEF CompactDone
<1>14. ASSUME NEW T \in SUBSET Frags, Crash(T) PROVE FragInv'
  BY <1>14 DEF Crash
<1>15. CASE Unload \/ LoadSetAside \/ LoadRestore \/ LoadPlain \/ LoadRead
  BY <1>15 DEF Unload, LoadSetAside, LoadRestore, LoadPlain, LoadRead,
     DownInv, Finalized
<1>16. CompactSteps =>
         DropFragments \/ CompactDone \/ (UNCHANGED <<listed, rem>> /\ cpc # "drop")
  BY DEF CompactSteps, Compact, InitFinalized, Collect, ScanCell,
     ScanFinishing, Finalize, Quit, ReplaceBackup, ReplaceMove, ReplaceRead,
     ReplaceClean, RollbackRemove, RollbackRestore
<1> QED
  BY <1>1, <1>2, <1>3, <1>4, <1>5, <1>6, <1>7, <1>8, <1>9, <1>10, <1>11,
     <1>12, <1>13, <1>14, <1>15, <1>16, UnstruckSteps DEF LogSteps, LoadNext

\* The log compaction's group and its new file.
LEMMA GroupStep ==
  ASSUME StoreInv, Unstruck', [Next]_vars
  PROVE  GroupInv'
<1> USE DEF StoreInv, TypeOK, GroupInv
<1>1. CASE UNCHANGED vars
  BY <1>1 DEF Merge
<1>2. ASSUME NEW c \in Cells, Add(c) PROVE GroupInv'
  BY <1>2 DEF Add, Merge
<1>3. ASSUME NEW f \in Frags, NEW S \in SUBSET mem, Roll(f, S) PROVE GroupInv'
  BY <1>3 DEF Roll, Free, Merge
<1>4. ASSUME NEW f \in Frags, Written(f) PROVE GroupInv'
  <2>1. mpc \in {"own", "read"} => f \notin grp
    BY <1>4 DEF Written
  <2>2. \A g \in Frags : g # f => file'[g] = file[g]
    BY <1>4 DEF Written
  <2>3. mpc \in {"own", "read"} =>
          {file'[g] : g \in grp} = {file[g] : g \in grp}
    BY <2>1, <2>2
  <2>4. mpc = "read" => f \notin own
    BY <1>4 DEF Written, FragInv
  <2>5. mpc \in {"own", "read"} =>
          merged = Merge(UNION {file'[g] : g \in grp})
    BY <2>3
  <2> QED BY <1>4, <2>2, <2>4, <2>5 DEF Written, Merge
<1>5. ASSUME NEW G \in SUBSET listed, LogCompact(G) PROVE GroupInv'
  BY <1>5 DEF LogCompact
<1>6. CASE LogMerge
  BY <1>6 DEF LogMerge, Merge
<1>7. CASE LogCancel \/ LogDone
  BY <1>7 DEF LogCancel, LogDone
<1>8. ASSUME NEW f \in Frags, LogRename(f) PROVE GroupInv'
  <2>1. f \notin grp /\ f \notin listed /\ f \notin old
    BY <1>8 DEF LogRename, Free, OldInv
  <2>2. {file'[g] : g \in grp} = {file[g] : g \in grp}
    BY <1>8, <2>1 DEF LogRename
  <2>3. merged = Merge(UNION {file'[g] : g \in grp})
    BY <1>8, <2>2 DEF LogRename
  <2>4. file'[f] = merged
    BY <1>8 DEF LogRename
  <2> QED BY <1>8, <2>1, <2>3, <2>4 DEF LogRename, Merge
<1>9. ASSUME NEW f \in Frags, LogTake(f) PROVE GroupInv'
  <2>1. own \subseteq {f}
    BY <1>9 DEF LogTake
  <2> QED BY <1>9, <2>1 DEF LogTake
<1>10. ASSUME NEW f \in Frags, RemoveFile(f) \/ LogDiscard(f) PROVE GroupInv'
  BY <1>10 DEF RemoveFile, LogDiscard, FragInv, Merge
<1>11. CASE CompactSteps
  <2>1. grp' = grp /\ file' = file /\ buf' = buf /\ merged' = merged
        /\ own' = own /\ mpc' = mpc
    BY <1>11, CompactFrame
  <2>2. mpc # "idle" =>
          /\ cpc' \in {"idle", "collect", "scan"}
          /\ old' = old /\ listed' = listed
    BY <1>11 DEF CompactSteps, Compact, InitFinalized, Collect, ScanCell,
       ScanFinishing, Finalize, Quit, ReplaceBackup, ReplaceMove, ReplaceRead,
       ReplaceClean, RollbackRemove, RollbackRestore, DropFragments,
       CompactDone
  <2> QED BY <2>1, <2>2 DEF Merge
<1>12. ASSUME NEW T \in SUBSET Frags, Crash(T) PROVE GroupInv'
  BY <1>12 DEF Crash
<1>13. CASE Unload \/ LoadSetAside \/ LoadRestore \/ LoadPlain \/ LoadRead
  BY <1>13 DEF Unload, LoadSetAside, LoadRestore, LoadPlain, LoadRead, DownInv
<1> QED
  BY <1>1, <1>2, <1>3, <1>4, <1>5, <1>6, <1>7, <1>8, <1>9, <1>10, <1>11,
     <1>12, <1>13, UnstruckSteps DEF LogSteps, LoadNext


\* Once commit_finalize has returned with updates held, the log is at rest.
Quiet == cpc \in {"apply", "moved", "check", "clean", "log"}

LEMMA QuietLog ==
  ASSUME StoreInv, Quiet
  PROVE  ~ LogSteps
<1>1. /\ mem = {} /\ \A f \in Frags : buf[f] = {}
      /\ mpc = "idle" /\ rem = {} /\ Closed
  BY DEF Quiet, StoreInv, OldInv, Finalized, GroupInv, FragInv, Closed
<1> QED
  BY <1>1 DEF Quiet, LogSteps, Add, Roll, Written, LogCompact, LogMerge,
     LogCancel,
     LogRename, LogTake, LogDiscard, LogDone, RemoveFile

\* fragments_old stays listed; the log stays at rest.
LEMMA OldStep ==
  ASSUME StoreInv, Unstruck', [Next]_vars
  PROVE  OldInv'
<1> USE DEF StoreInv, TypeOK, OldInv, Finalized
<1>1. CASE UNCHANGED vars
  BY <1>1
<1>2. CASE LogSteps
  <2>1. cpc' = cpc /\ old' = old /\ ~ Quiet
    BY <1>2, LogFrame, QuietLog
  <2>2. cpc = "final" \/ cpc = "scan" => old \subseteq listed'
    BY <1>2 DEF LogSteps, Add, Roll, Written, LogCompact, LogMerge, LogCancel,
       LogRename, LogTake, LogDiscard, LogDone, RemoveFile, GroupInv
  <2> QED BY <2>1, <2>2 DEF Quiet
<1>3. CASE CompactSteps
  <2>1. mem' = mem /\ buf' = buf
    BY <1>3, CompactFrame
  <2> QED
    BY <1>3, <2>1 DEF CompactSteps, Compact, InitFinalized, Collect, ScanCell,
       ScanFinishing, Finalize, Quit, ReplaceBackup, ReplaceMove, ReplaceRead,
       ReplaceClean, RollbackRemove, RollbackRestore, DropFragments,
       CompactDone, DirsInv
<1>4. ASSUME NEW T \in SUBSET Frags, Crash(T) PROVE OldInv'
  BY <1>4 DEF Crash
<1>5. CASE Unload \/ LoadSetAside \/ LoadRestore \/ LoadPlain \/ LoadRead
  BY <1>5 DEF Unload, LoadSetAside, LoadRestore, LoadPlain, LoadRead, DownInv
<1> QED
  BY <1>1, <1>2, <1>3, <1>4, <1>5, UnstruckSteps DEF LoadNext

\* A cell of the group that is not in the merged file is removed by a cell
\* of the group.
LEMMA MergedCovers ==
  ASSUME StoreInv, mpc \in {"own", "read"},
         NEW g \in grp, NEW c \in file[g], c \notin merged
  PROVE  \E d \in durable : <<d, c>> \in Kills
<1>1. /\ g \in Frags
      /\ merged = Merge(UNION {file[f] : f \in grp})
      /\ \A f \in grp : file[f] \subseteq durable
  BY DEF StoreInv, TypeOK, GroupInv, FragInv
<1>2. c \in UNION {file[f] : f \in grp}
  OBVIOUS
<1>3. PICK d \in UNION {file[f] : f \in grp} : <<d, c>> \in Kills
  BY <1>1, <1>2 DEF Merge
<1> QED BY <1>1, <1>3

\* A cell of the new file is in a file of the group.
LEMMA OwnContent ==
  ASSUME StoreInv, mpc = "read", NEW f \in own, NEW c \in file[f]
  PROVE  \E g \in grp : c \in file[g]
<1>1. file[f] = Merge(UNION {file[g] : g \in grp})
  BY DEF StoreInv, GroupInv
<1>2. c \in UNION {file[g] : g \in grp}
  BY <1>1 DEF Merge
<1> QED BY <1>2

\* No committed, visible cell is left uncovered.
LEMMA CoverStep ==
  ASSUME StoreInv, Unstruck', [Next]_vars
  PROVE  CoverInv'
<1> USE DEF StoreInv, TypeOK, CoverInv, InBase
<1>1. CASE UNCHANGED vars
  BY <1>1 DEF Visible
<1>2. ASSUME NEW f \in Frags, Written(f) PROVE CoverInv'
  <2>1. /\ file[f] = {} /\ f \notin rem
        /\ durable' = durable \cup buf[f]
        /\ file' = [file EXCEPT ![f] = buf[f]]
        /\ UNCHANGED <<bak, cs, rem>>
    BY <1>2 DEF Written, FragInv
  <2>2. SUFFICES ASSUME NEW c \in Visible(durable')
                 PROVE  InBase(c)' \/ \E g \in Frags \ rem' : c \in file'[g]
    OBVIOUS
  <2>3. CASE c \in buf[f]
    BY <2>1, <2>3
  <2>4. CASE c \notin buf[f]
    <3>1. c \in Visible(durable)
      BY <2>1, <2>4 DEF Visible
    <3>2. InBase(c) \/ \E g \in Frags \ rem : c \in file[g]
      BY <3>1
    <3>3. \A g \in Frags : c \in file[g] => c \in file'[g]
      BY <2>1
    <3> QED BY <2>1, <3>2, <3>3
  <2> QED BY <2>3, <2>4
<1>3. ASSUME NEW f \in Frags, LogRename(f) PROVE CoverInv'
  <2>1. \A g \in Frags : file[g] \subseteq file'[g]
    BY <1>3 DEF LogRename, Free
  <2>2. UNCHANGED <<bak, cs, rem, durable>>
    BY <1>3 DEF LogRename
  <2> QED BY <2>1, <2>2 DEF Visible
<1>4. ASSUME NEW f \in Frags, LogTake(f) PROVE CoverInv'
  <2>1. /\ mpc = "read" /\ f \in own /\ rem' = grp
        /\ UNCHANGED <<bak, cs, file, durable>>
    BY <1>4 DEF LogTake
  <2>2. file[f] = merged /\ f \notin grp /\ rem = {}
    BY <2>1 DEF GroupInv, FragInv
  <2>3. SUFFICES ASSUME NEW c \in Visible(durable)
                 PROVE  InBase(c) \/ \E g \in Frags \ grp : c \in file[g]
    BY <2>1 DEF Visible
  <2>4. CASE \E g \in grp : c \in file[g]
    <3>1. c \in merged
      BY <2>1, <2>4, MergedCovers DEF Visible
    <3> QED BY <2>2, <3>1
  <2>5. CASE ~ \E g \in grp : c \in file[g]
    BY <2>5
  <2> QED BY <2>4, <2>5
<1>13. ASSUME NEW f \in Frags, LogDiscard(f) PROVE CoverInv'
  <2>1. /\ mpc = "read" /\ f \in own /\ rem' = own
        /\ UNCHANGED <<bak, cs, file, durable>>
    BY <1>13 DEF LogDiscard
  <2>2. \A g \in grp : g \in Frags \ own
    BY <2>1 DEF GroupInv
  <2>3. SUFFICES ASSUME NEW c \in Visible(durable)
                 PROVE  InBase(c) \/ \E g \in Frags \ own : c \in file[g]
    BY <2>1 DEF Visible
  <2>4. ASSUME NEW g \in own, c \in file[g] PROVE \E h \in grp : c \in file[h]
    BY <2>1, <2>4, OwnContent
  <2> QED BY <2>2, <2>4
<1>5. ASSUME NEW f \in Frags, RemoveFile(f) PROVE CoverInv'
  <2>1. /\ f \in rem /\ rem' = rem \ {f}
        /\ UNCHANGED <<bak, cs, durable>>
        /\ \A g \in Frags \ rem : file'[g] = file[g]
    BY <1>5 DEF RemoveFile
  <2> QED BY <2>1 DEF Visible
<1>6. ASSUME \/ \E c \in Cells : Add(c)
             \/ \E f \in Frags, S \in SUBSET mem : Roll(f, S)
             \/ \E G \in SUBSET listed : LogCompact(G)
             \/ LogMerge \/ LogCancel \/ LogDone
      PROVE  CoverInv'
  <2>1. UNCHANGED <<bak, cs, rem, file, durable>>
    BY <1>6 DEF Add, Roll, LogCompact, LogMerge, LogCancel, LogDone
  <2> QED BY <2>1 DEF Visible
<1>7. CASE Compact \/ InitFinalized \/ Collect \/ ScanFinishing \/ Finalize
           \/ Quit \/ ReplaceRead \/ CompactDone \/ \E c \in Cells : ScanCell(c)
  <2>1. UNCHANGED <<bak, cs, rem, file, durable>>
    BY <1>7 DEF Compact, InitFinalized, Collect, ScanFinishing, Finalize,
       Quit, ReplaceRead, CompactDone, ScanCell
  <2> QED BY <2>1 DEF Visible
<1>8. CASE ReplaceBackup \/ ReplaceMove \/ Unload \/ LoadSetAside \/ LoadRestore
           \/ LoadPlain \/ LoadRead
  <2>1. UNCHANGED <<rem, file, durable>> /\ (\A c : InBase(c)' <=> InBase(c))
    BY <1>8, StoreAssumption
       DEF ReplaceBackup, ReplaceMove, Unload, LoadSetAside, LoadRestore, LoadPlain,
       LoadRead, DirsInv, Replacing, Dirs
  <2> QED BY <2>1 DEF Visible
<1>9. CASE ReplaceClean
  <2>1. /\ bak' = Absent /\ cs # Absent /\ rem = {}
        /\ UNCHANGED <<cs, rem, file, durable>>
    BY <1>9, StoreAssumption
       DEF ReplaceClean, DirsInv, FragInv, GroupInv, Dirs
  <2>2. \A c \in Visible(durable) :
          c \in cs \/ \E g \in Frags \ old : c \in file[g]
    BY <1>9 DEF ReplaceClean, NewInv
  <2> QED BY <2>1, <2>2 DEF Visible
<1>10. CASE DropFragments
  <2>1. /\ bak = Absent /\ cs # Absent /\ rem' = old
        /\ UNCHANGED <<cs, bak, file, durable>>
    BY <1>10, StoreAssumption DEF DropFragments, DirsInv, Replacing, Dirs
  <2>2. \A c \in Visible(durable) :
          c \in cs \/ \E g \in Frags \ old : c \in file[g]
    BY <1>10 DEF DropFragments, NewInv
  <2> QED BY <2>1, <2>2 DEF Visible
<1>11. CASE RollbackRemove \/ RollbackRestore
  BY <1>11 DEF RollbackRemove, RollbackRestore, DirsInv
<1>12. ASSUME NEW T \in SUBSET Frags, Crash(T) PROVE CoverInv'
  <2>1. rem' = {} /\ UNCHANGED <<cs, bak, file, durable>>
    BY <1>12 DEF Crash
  <2> QED BY <2>1 DEF Visible
<1> QED
  BY <1>1, <1>2, <1>3, <1>4, <1>5, <1>6, <1>7, <1>8, <1>9, <1>10, <1>11,
     <1>12, <1>13, UnstruckSteps DEF LogSteps, CompactSteps, LoadNext

LEMMA EverDef ==
  \A d : d \in Ever <=> d \in durable \/ d \in mem \/ \E f \in Frags : d \in buf[f]
BY DEF Ever

\* The removals a scan meets are cells that Ever counts, and a cell that Ever
\* counts and does not see removed is there for the scan.
LEMMA ScanSees ==
  ASSUME StoreInv, phase = "up", cpc \in {"scan", "final"},
         NEW c \in Visible(Ever)
  PROVE  c \in Visible(View)
<1> USE DEF StoreInv, TypeOK
<1>1. /\ bak = Absent /\ cs = rdr
      /\ c \in Ever /\ c \notin Removals
      /\ \A d \in Ever : <<d, c>> \notin Kills
  BY DEF DirsInv, Replacing, Visible
<1>2. \A d : d \in View <=>
             d \in rdr \/ d \in mem \/ \E f \in listed : d \in buf[f] \cup file[f]
  BY DEF View, Content
<1>3. c \in View
  <2>1. CASE c \in durable
    <3>1. c \in Visible(durable)
      BY <1>1, <2>1, EverDef DEF Visible
    <3>2. CASE InBase(c)
      BY <1>1, <1>2, <3>2 DEF InBase
    <3>3. CASE \E g \in Frags \ rem : c \in file[g]
      <4>1. PICK g \in Frags \ rem : c \in file[g]
        BY <3>3
      <4>2. g \in listed \/ (g \in own /\ mpc = "read")
        BY <4>1 DEF FragInv, GroupInv
      <4>3. CASE g \in own /\ mpc = "read"
        <5>1. /\ c \in Merge(UNION {file[f] : f \in grp})
              /\ grp \subseteq listed
          BY <4>1, <4>3 DEF GroupInv
        <5>2. c \in UNION {file[f] : f \in grp}
          BY <5>1 DEF Merge
        <5> QED BY <1>2, <5>1, <5>2
      <4> QED BY <1>2, <4>1, <4>2, <4>3
    <3> QED BY <3>1, <3>2, <3>3 DEF CoverInv
  <2>2. CASE c \in mem \/ \E f \in Frags : c \in buf[f]
    BY <1>2, <2>2 DEF FragInv
  <2> QED BY <1>1, <2>1, <2>2, EverDef
<1>4. ASSUME NEW d \in View, <<d, c>> \in Kills PROVE FALSE
  <2>1. d \in Removals
    BY <1>4 DEF Removals
  <2>2. d \in mem \/ \E f \in listed : d \in buf[f] \cup file[f]
    BY <1>2, <1>4, <2>1 DEF PlainInv
  <2>3. d \in Ever
    BY <2>2, EverDef DEF FragInv
  <2> QED BY <1>1, <1>4, <2>3
<1> QED BY <1>1, <1>3, <1>4 DEF Visible

\* Where the scan has passed nothing is missed.
LEMMA ScanStep ==
  ASSUME StoreInv, Unstruck', [Next]_vars
  PROVE  ScanInv'
<1> USE DEF StoreInv, TypeOK
<1> DEFINE Placed(c) ==
      c \in tmp \cup mem \/ \E g \in Frags \ (old \cup rem) : c \in Content(g)
<1>a. ASSUME UNCHANGED <<durable, mem, buf, file, old, rem, scanned, tmp>>,
             cpc' \in {"scan", "final"} => cpc \in {"scan", "final"}
      PROVE  ScanInv'
  <2>1. Visible(Ever)' = Visible(Ever) /\ \A g : Content(g)' = Content(g)
    BY <1>a DEF Visible, Ever, Content
  <2> QED BY <1>a, <2>1 DEF ScanInv
<1>1. CASE UNCHANGED vars
  BY <1>1, <1>a
<1>2. ASSUME NEW c \in Cells, Add(c) PROVE ScanInv'
  <2>1. /\ mem' = Merge(mem \cup {c})
        /\ UNCHANGED <<durable, buf, file, old, rem, scanned, tmp, cpc>>
    BY <1>2 DEF Add
  <2>2. \A d : d \in Ever' <=>
               d \in durable \/ d \in mem' \/ \E f \in Frags : d \in buf[f]
    BY <2>1 DEF Ever
  <2>3. \A d, x : d \in mem \cup {c} /\ <<d, x>> \in Kills => d \in mem'
    BY <2>1, StoreAssumption DEF Merge
  <2>4. SUFFICES ASSUME cpc \in {"scan", "final"}, NEW x \in scanned,
                        x \in Visible(Ever')
                 PROVE  Placed(x)'
    BY <2>1 DEF ScanInv, Visible
  <2>5. CASE x \in mem'
    BY <2>5
  <2>6. CASE x \notin mem'
    <3>1. x \in Visible(Ever)
      BY <2>2, <2>3, <2>4, <2>6, EverDef DEF Visible
    <3>2. Placed(x)
      BY <2>4, <3>1 DEF ScanInv
    <3>3. x \in mem => x \in mem'
      <4>1. ASSUME x \in mem, x \notin mem' PROVE FALSE
        <5>1. PICK d \in mem \cup {c} : <<d, x>> \in Kills
          BY <2>1, <4>1 DEF Merge
        <5> QED BY <2>2, <2>3, <2>4, <5>1 DEF Visible
      <4> QED BY <4>1
    <3> QED BY <2>1, <3>2, <3>3 DEF Content
  <2> QED BY <2>5, <2>6
<1>3. ASSUME NEW f \in Frags, NEW S \in SUBSET mem, Roll(f, S) PROVE ScanInv'
  <2>1. /\ mem' = mem \ S /\ buf' = [buf EXCEPT ![f] = S]
        /\ buf[f] = {} /\ file[f] = {} /\ f \notin listed \cup rem
        /\ UNCHANGED <<durable, file, old, rem, scanned, tmp, cpc>>
    BY <1>3 DEF Roll, Free
  <2>2. \A d : d \in Ever' <=>
               d \in durable \/ d \in mem' \/ \E g \in Frags : d \in buf'[g]
    BY <2>1 DEF Ever
  <2>3. Ever' = Ever
    BY <2>1, <2>2, EverDef
  <2>4. SUFFICES ASSUME cpc \in {"scan", "final"}, NEW x \in scanned,
                        x \in Visible(Ever)
                 PROVE  Placed(x)'
    BY <2>1, <2>3 DEF ScanInv, Visible
  <2>5. Placed(x) /\ f \notin old
    BY <2>1, <2>4 DEF ScanInv, OldInv
  <2>6. CASE x \in S
    BY <2>1, <2>5, <2>6 DEF Content
  <2>7. CASE x \notin S
    BY <2>1, <2>5, <2>7 DEF Content
  <2> QED BY <2>6, <2>7
<1>4. ASSUME NEW f \in Frags, Written(f) PROVE ScanInv'
  <2>1. /\ durable' = durable \cup buf[f] /\ buf' = [buf EXCEPT ![f] = {}]
        /\ file[f] = {} /\ file' = [file EXCEPT ![f] = buf[f]]
        /\ UNCHANGED <<mem, old, rem, scanned, tmp, cpc>>
    BY <1>4 DEF Written, FragInv
  <2>2. \A d : d \in Ever' <=>
               d \in durable' \/ d \in mem \/ \E g \in Frags : d \in buf'[g]
    BY <2>1 DEF Ever
  <2>3. Ever' = Ever
    BY <2>1, <2>2, EverDef
  <2>4. \A g \in Frags : Content(g)' = Content(g)
    BY <2>1 DEF Content
  <2> QED BY <2>1, <2>3, <2>4 DEF ScanInv, Visible
<1>5. ASSUME NEW G \in SUBSET listed, LogCompact(G) PROVE ScanInv'
  BY <1>5, <1>a DEF LogCompact
<1>6. CASE LogMerge \/ LogCancel \/ LogDone
  BY <1>6, <1>a DEF LogMerge, LogCancel, LogDone
<1>7. ASSUME NEW f \in Frags, LogRename(f) PROVE ScanInv'
  <2>1. /\ UNCHANGED <<durable, mem, buf, old, rem, scanned, tmp, cpc>>
        /\ \A g \in Frags : file[g] \subseteq file'[g]
    BY <1>7 DEF LogRename, Free
  <2>2. Visible(Ever)' = Visible(Ever)
        /\ \A g \in Frags : Content(g) \subseteq Content(g)'
    BY <2>1 DEF Visible, Ever, Content
  <2> QED BY <2>1, <2>2 DEF ScanInv
<1>8. ASSUME NEW f \in Frags, LogTake(f) PROVE ScanInv'
  <2>1. /\ UNCHANGED <<durable, mem, buf, file, old, scanned, tmp, cpc>>
        /\ rem' = grp /\ mpc = "read" /\ f \in own
    BY <1>8 DEF LogTake
  <2>2. /\ file[f] = merged /\ f \notin grp \cup old
        /\ \A g \in grp : buf[g] = {}
    BY <2>1 DEF GroupInv
  <2>3. Visible(Ever)' = Visible(Ever) /\ \A g : Content(g)' = Content(g)
    BY <2>1 DEF Visible, Ever, Content
  <2>4. SUFFICES ASSUME cpc \in {"scan", "final"}, NEW x \in scanned,
                        x \in Visible(Ever)
                 PROVE  Placed(x)'
    BY <2>1, <2>3 DEF ScanInv
  <2>5. Placed(x)
    BY <2>4 DEF ScanInv
  <2>6. CASE \E g \in grp : x \in file[g]
    <3>1. x \in merged
      BY <2>1, <2>4, <2>6, MergedCovers, EverDef DEF Visible
    <3> QED BY <2>1, <2>2, <3>1 DEF Content
  <2>7. CASE ~ \E g \in grp : x \in file[g]
    BY <2>1, <2>2, <2>5, <2>7 DEF Content
  <2> QED BY <2>6, <2>7
<1>15. ASSUME NEW f \in Frags, LogDiscard(f) PROVE ScanInv'
  <2>1. /\ UNCHANGED <<durable, mem, buf, file, old, scanned, tmp, cpc>>
        /\ rem' = own /\ mpc = "read" /\ rem = {}
    BY <1>15 DEF LogDiscard, FragInv, GroupInv
  <2>2. \A g \in grp : g \in Frags \ (own \cup old)
    BY <2>1 DEF GroupInv
  <2>3. Visible(Ever)' = Visible(Ever) /\ \A g : Content(g)' = Content(g)
    BY <2>1 DEF Visible, Ever, Content
  <2>4. SUFFICES ASSUME cpc \in {"scan", "final"}, NEW x \in scanned,
                        x \in Visible(Ever)
                 PROVE  Placed(x)'
    BY <2>1, <2>3 DEF ScanInv
  <2>5. Placed(x)
    BY <2>4 DEF ScanInv
  <2>6. ASSUME NEW g \in own, x \in Content(g)
        PROVE  \E h \in grp : x \in Content(h)
    <3>1. x \in file[g]
      BY <2>1, <2>6 DEF Content, FragInv, GroupInv
    <3> QED BY <2>1, <3>1, OwnContent DEF Content
  <2> QED BY <2>1, <2>2, <2>3, <2>5, <2>6
<1>9. ASSUME NEW f \in Frags, RemoveFile(f) PROVE ScanInv'
  <2>1. /\ UNCHANGED <<durable, mem, buf, old, scanned, tmp, cpc>>
        /\ rem' = rem \ {f} /\ f \in rem
        /\ \A g \in Frags \ rem : file'[g] = file[g]
    BY <1>9 DEF RemoveFile
  <2>2. Visible(Ever)' = Visible(Ever)
        /\ \A g \in Frags \ rem : Content(g) = Content(g)'
    BY <2>1 DEF Visible, Ever, Content
  <2> QED BY <2>1, <2>2 DEF ScanInv
<1>10. ASSUME NEW c \in Cells, ScanCell(c) PROVE ScanInv'
  <2>1. /\ UNCHANGED <<durable, mem, buf, file, old, rem, cpc>>
        /\ tmp' = (IF scanned = {} THEN {} ELSE tmp) \cup ({c} \cap Visible(View))
        /\ scanned' = scanned \cup {c} /\ phase = "up"
    BY <1>10 DEF ScanCell
  <2>2. Visible(Ever)' = Visible(Ever) /\ \A g : Content(g)' = Content(g)
    BY <2>1 DEF Visible, Ever, Content
  <2>3. SUFFICES ASSUME cpc \in {"scan", "final"}, NEW x \in scanned \cup {c},
                        x \in Visible(Ever)
                 PROVE  Placed(x)'
    BY <2>1, <2>2 DEF ScanInv
  <2>4. CASE x = c
    BY <2>1, <2>3, <2>4, ScanSees
  <2>5. CASE x \in scanned
    <3>1. Placed(x) /\ tmp \subseteq tmp'
      BY <2>1, <2>3, <2>5 DEF ScanInv
    <3> QED BY <2>1, <2>2, <3>1
  <2> QED BY <2>4, <2>5
<1>11. CASE Collect
  BY <1>11 DEF Collect, ScanInv
<1>12. CASE Compact \/ InitFinalized \/ ScanFinishing \/ Finalize \/ Quit
            \/ ReplaceBackup \/ ReplaceMove \/ ReplaceRead \/ ReplaceClean
            \/ RollbackRemove \/ RollbackRestore \/ DropFragments \/ CompactDone
  <2>1. ScanFinishing => ScanInv'
    BY <1>a DEF ScanFinishing
  <2>2. ~ ScanFinishing => cpc' \notin {"scan", "final"}
    BY <1>12 DEF Compact, InitFinalized, Finalize, Quit, ReplaceBackup,
       ReplaceMove, ReplaceRead, ReplaceClean, RollbackRemove,
       RollbackRestore, DropFragments, CompactDone
  <2> QED BY <2>1, <2>2 DEF ScanInv
<1>13. ASSUME NEW T \in SUBSET Frags, Crash(T) PROVE ScanInv'
  BY <1>13 DEF Crash, ScanInv
<1>14. CASE Unload \/ LoadSetAside \/ LoadRestore \/ LoadPlain \/ LoadRead
  BY <1>14 DEF Unload, LoadSetAside, LoadRestore, LoadPlain, LoadRead, DownInv, ScanInv
<1> QED
  BY <1>1, <1>2, <1>3, <1>4, <1>5, <1>6, <1>7, <1>8, <1>9, <1>10, <1>11,
     <1>12, <1>13, <1>14, <1>15, UnstruckSteps DEF LogSteps, CompactSteps, LoadNext

\* The new cell stores hold what fragments_old and the old ones did.
LEMMA NewStep ==
  ASSUME StoreInv, Unstruck', [Next]_vars
  PROVE  NewInv'
<1> USE DEF StoreInv, TypeOK
<1>1. CASE UNCHANGED vars
  BY <1>1 DEF NewInv, Visible
<1>2. CASE LogSteps
  <2>1. ~ Quiet /\ cpc' = cpc
    BY <1>2, QuietLog, LogFrame
  <2> QED BY <2>1 DEF Quiet, NewInv
<1>3. CASE Finalize
  <2>1. /\ Finalized /\ scanned = Cells \ Removals /\ cpc = "final"
        /\ cpc' = "apply" /\ UNCHANGED <<file, old, durable>>
        /\ scanned # {} => tmp' = tmp
    BY <1>3 DEF Finalize
  <2>2. Ever = durable
    BY <2>1, EverDef DEF Finalized
  <2>3. SUFFICES ASSUME NEW c \in Visible(durable)
                 PROVE  c \in tmp' \/ \E g \in Frags \ old : c \in file[g]
    BY <2>1 DEF NewInv, Visible
  <2>4. c \in scanned
    BY <2>1, <2>3 DEF Visible
  <2>5. c \in tmp \cup mem \/ \E g \in Frags \ (old \cup rem) : c \in Content(g)
    BY <2>1, <2>2, <2>3, <2>4 DEF ScanInv
  <2> QED BY <2>1, <2>4, <2>5 DEF Finalized, Content
<1>4. CASE ReplaceBackup \/ ReplaceMove \/ ReplaceRead \/ ReplaceClean
  <2>1. UNCHANGED <<file, old, durable>>
    BY <1>4 DEF ReplaceBackup, ReplaceMove, ReplaceRead, ReplaceClean
  <2>2. /\ cpc' \in {"apply", "moved"} => cpc = "apply" /\ tmp' = tmp
        /\ cpc' \in {"check", "clean", "log"} =>
             \/ cpc = "moved" /\ cs' = tmp
             \/ cpc \in {"check", "clean", "log"} /\ cs' = cs
    BY <1>4 DEF ReplaceBackup, ReplaceMove, ReplaceRead, ReplaceClean
  <2> QED BY <2>1, <2>2 DEF NewInv, Visible
<1>5. CASE RollbackRemove \/ RollbackRestore
  BY <1>5 DEF RollbackRemove, RollbackRestore, DirsInv
<1>6. CASE Compact \/ InitFinalized \/ Collect \/ ScanFinishing \/ Quit
           \/ DropFragments \/ CompactDone \/ \E c \in Cells : ScanCell(c)
  <2>1. cpc' \notin {"apply", "moved", "check", "clean", "log"}
    BY <1>6 DEF Compact, InitFinalized, Collect, ScanFinishing, Quit,
       DropFragments, CompactDone, ScanCell
  <2> QED BY <2>1 DEF NewInv
<1>7. ASSUME NEW T \in SUBSET Frags, Crash(T) PROVE NewInv'
  BY <1>7 DEF Crash, NewInv
<1>8. CASE Unload \/ LoadSetAside \/ LoadRestore \/ LoadPlain \/ LoadRead
  BY <1>8 DEF Unload, LoadSetAside, LoadRestore, LoadPlain, LoadRead, DownInv, NewInv
<1> QED
  BY <1>1, <1>2, <1>3, <1>4, <1>5, <1>6, <1>7, <1>8, UnstruckSteps
     DEF CompactSteps, LoadNext

LEMMA StoreInit == Init => StoreInv
<1> SUFFICES ASSUME Init PROVE StoreInv
  OBVIOUS
<1> USE StoreAssumption DEF Init
<1>1. TypeOK /\ DirsInv
  BY DEF TypeOK, Dirs, DirsInv, Replacing
<1>2. PlainInv /\ DownInv /\ FragInv /\ OldInv /\ ScanInv /\ NewInv
  BY DEF PlainInv, DownInv, FragInv, OldInv, ScanInv, NewInv
<1>3. GroupInv /\ CoverInv
  BY DEF GroupInv, CoverInv, Visible
<1> QED BY <1>1, <1>2, <1>3 DEF StoreInv

\* A fault is not forgotten.
LEMMA StruckStays ==
  ASSUME Unstruck', [Next]_vars
  PROVE  Unstruck
<1> USE DEF Unstruck
<1>1. CASE UNCHANGED vars
  BY <1>1
<1>2. CASE LogSteps
  BY <1>2 DEF LogSteps, Add, Roll, Written, LogCompact, LogMerge, LogCancel,
     LogRename, LogTake, LogDiscard, LogDone, RemoveFile
<1>3. CASE CompactSteps
  BY <1>3, CompactFrame
<1>4. CASE LoadNext
  BY <1>4 DEF LoadNext, Unload, Crash, LoadSetAside, LoadRestore, LoadPlain,
     LoadRead
<1> QED BY <1>1, <1>2, <1>3, <1>4, UnstruckSteps

\* The invariant StoreInv holds of a range as long as its file system did no
\* more than let the process be killed.
THEOREM StoreInvariant == Spec => [](Unstruck => StoreInv)
<1>1. (Unstruck => StoreInv) /\ [Next]_vars => (Unstruck => StoreInv)'
  <2> SUFFICES ASSUME Unstruck => StoreInv, [Next]_vars, Unstruck'
               PROVE  StoreInv'
    OBVIOUS
  <2>0. StoreInv
    BY StruckStays
  <2>1. TypeOK /\ DirsInv /\ PlainInv /\ DownInv /\ FragInv
    BY <2>0 DEF StoreInv
  <2>5. PlacesInv
    BY <2>1, StoreAssumption DEF PlacesInv, DirsInv, DownInv, TypeOK, Dirs,
       Replacing
  <2>2. TypeOK' /\ DirsInv' /\ PlainInv' /\ DownInv'
    BY <2>1, <2>5, PlacesStep, DirsStep, PlainStep, DownStep
  <2>3. FragInv' /\ GroupInv' /\ OldInv'
    BY <2>0, FragStep, GroupStep, OldStep
  <2>4. CoverInv' /\ ScanInv' /\ NewInv'
    BY <2>0, CoverStep, ScanStep, NewStep
  <2> QED BY <2>2, <2>3, <2>4 DEF StoreInv
<1>2. Init => (Unstruck => StoreInv)
  BY StoreInit
<1> QED BY <1>1, <1>2, PTL DEF Spec

\* Whatever the cells, the removals and the number of fragments: killing the
\* process between any two file-system calls of a roll, a log compaction, a
\* range compaction or a load leaves directories that load and that hold
\* every committed cell no committed removal takes away.
THEOREM NothingLost == Spec => []Recoverable
<1>1. (Unstruck => StoreInv) => Recoverable
  <2> SUFFICES ASSUME Unstruck, StoreInv PROVE Recoverable
    BY DEF Recoverable, Unstruck
  <2> USE DEF StoreInv, TypeOK
  <2>1. torn = {} /\ (bak # Absent \/ cs # Absent)
    BY StoreAssumption DEF DirsInv, Replacing
  <2>2. ASSUME NEW c \in Visible(durable) PROVE c \in Recovered
    <3>1. InBase(c) \/ \E g \in Frags : c \in file[g]
      BY DEF CoverInv
    <3> QED BY <3>1 DEF InBase, Recovered
  <2> QED BY <2>1, <2>2 DEF Recoverable
<1> QED BY <1>1, StoreInvariant, PTL

\* Every variable keeps its type, and the two compactions hold no fragment,
\* group or scan position while they rest, whatever the file system does.
THEOREM StoreTypes == Spec => []TypeOK
<1>1. Init => TypeOK /\ PlacesInv
  BY StoreAssumption DEF Init, TypeOK, Dirs, PlacesInv
<1>2. TypeOK /\ PlacesInv /\ [Next]_vars => (TypeOK /\ PlacesInv)'
  BY PlacesStep
<1> QED BY <1>1, <1>2, PTL DEF Spec

\* The open cell stores are the ones a load would open, whatever else fails,
\* as long as the removal of cs_bak/ does not.
THEOREM OpenStoresAgree == Spec => []StoresAgree
<1>1. Init => FollowInv
  BY StoreAssumption DEF Init, FollowInv
<1>2. FollowInv /\ TypeOK /\ PlacesInv /\ [Next]_vars => FollowInv'
  <2> SUFFICES ASSUME FollowInv, TypeOK, PlacesInv, [Next]_vars
               PROVE  FollowInv'
    OBVIOUS
  <2> USE DEF FollowInv, Replacing, PlacesInv
  <2>1. CASE LogNext
    BY <2>1 DEF LogNext, Add, Roll, Written, LogCompact, LogMerge, LogCancel,
       LogRename, LogTake, LogDiscard, LogDone, RemoveFile, LogTakeMissing,
       Strike
  <2>2. CASE Compact \/ InitFinalized \/ Collect \/ ScanFinishing \/ Finalize
             \/ Quit \/ DropFragments \/ CompactDone
    BY <2>2 DEF Compact, InitFinalized, Collect, ScanFinishing, Finalize,
       Quit, DropFragments, CompactDone
  <2>3. ASSUME NEW c \in Cells, ScanCell(c) PROVE FollowInv'
    BY <2>3 DEF ScanCell
  <2>4. CASE ReplaceBackup \/ ReplaceMove \/ ReplaceRead \/ ReplaceClean
    BY <2>4 DEF ReplaceBackup, ReplaceMove, ReplaceRead, ReplaceClean
  <2>5. CASE RollbackRemove \/ RollbackRestore
    BY <2>5 DEF RollbackRemove, RollbackRestore
  <2>6. ASSUME NEW c \in Cells, ReplaceReadCorrupt(c) PROVE FollowInv'
    BY <2>6 DEF ReplaceReadCorrupt, Strike
  <2>7. CASE ReplaceReadMissing \/ ReplaceCleanFails
    BY <2>7 DEF ReplaceReadMissing, ReplaceCleanFails, Strike
  <2>8. ASSUME NEW c \in Cells, RmdirOne(c) PROVE FollowInv'
    BY <2>8 DEF RmdirOne, Strike
  <2>9. ASSUME NEW T \in SUBSET Frags, Crash(T) PROVE FollowInv'
    BY <2>9 DEF Crash
  <2>10. CASE Unload \/ LoadSetAside \/ LoadRestore \/ LoadPlain \/ LoadRead
    BY <2>10 DEF Unload, LoadSetAside, LoadRestore, LoadPlain, LoadRead
  <2> QED
    BY <2>1, <2>2, <2>3, <2>4, <2>5, <2>6, <2>7, <2>8, <2>9, <2>10
       DEF Next, CompactNext, LoadNext
<1>3. Init => TypeOK /\ PlacesInv
  BY StoreAssumption DEF Init, TypeOK, Dirs, PlacesInv
<1>4. TypeOK /\ PlacesInv /\ [Next]_vars => (TypeOK /\ PlacesInv)'
  BY PlacesStep
<1>5. FollowInv => StoresAgree
  BY DEF FollowInv, StoresAgree
<1> QED BY <1>1, <1>2, <1>3, <1>4, <1>5, PTL DEF Spec

-----------------------------------------------------------------------------
(***************************************************************************)
(* What a scan sees.  A removal is there for as long as something that it  *)
(* removes is.                                                             *)
(***************************************************************************)

\* d removes c.
Takes(d, c) == <<d, c>> \in Kills

\* History: what was written is there, or was dropped for a removal that is.
KeptInv ==
  /\ Ever \subseteq kept /\ kept \subseteq added
  /\ \A c \in kept : c \in Ever \/ \E d \in Ever : Takes(d, c)

\* A removal takes what it removes from m_cells, where that does not come back.
LateInv == \A d \in added, c \in mem : ~Takes(d, c)

\* A committed cell, or one that a committed removal was rolled in place of.
Vouched(c) == c \in durable \/ \E d \in durable : Takes(d, c)

\* Cells on the file system are vouched for.
BaseInv ==
  /\ \A c \in Cells : InBase(c) => Vouched(c)
  /\ cpc \in {"scan", "final"} /\ scanned # {} =>
       \A c \in tmp : c \in Ever \/ \E d \in Ever : Takes(d, c)
  /\ cpc \in {"apply", "moved"} => \A c \in tmp : Vouched(c)
  /\ cpc \in {"check", "clean", "log"} => \A c \in cs : Vouched(c)

\* Cells that a load would read, or in fragments about to be written; those of
\* fragments_old do not count while these are removed.
OnDisk(c) ==
  \/ InBase(c)
  \/ \E f \in Frags : c \in buf[f]
  \/ \E f \in Frags : c \in file[f] /\ (cpc = "drop" => f \notin rem)

\* A committed removal is in a file that stays as long as what it removes is on
\* disk.
DiskKills ==
  \A d \in durable, c \in Cells :
    Takes(d, c) /\ OnDisk(c) => \E g \in Frags \ rem : d \in file[g]

\* What removes a cell of the new cell stores came after the scan had passed.
ScanKills ==
  cpc \in {"scan", "final"} /\ scanned # {} =>
    \A c \in tmp, d \in Ever :
      Takes(d, c) => d \in mem \/ \E g \in Frags \ (old \cup rem) : d \in Content(g)

NewKills ==
  /\ cpc \in {"apply", "moved"} =>
       \A c \in tmp, d \in durable :
         Takes(d, c) => \E g \in Frags \ old : d \in file[g]
  /\ cpc \in {"check", "clean", "log"} =>
       \A c \in cs, d \in durable :
         Takes(d, c) => \E g \in Frags \ old : d \in file[g]

\* What a removal of fragments_old removes is not in a later fragment.
OldKills ==
  cpc \in {"scan", "final", "apply", "moved", "check", "clean", "log"} =>
    \A g \in old, h \in Frags \ old :
      \A d \in Content(g), c \in Content(h) : ~Takes(d, c)

ExactInv ==
  /\ KeptInv /\ LateInv /\ BaseInv
  /\ DiskKills /\ ScanKills /\ NewKills /\ OldKills

\* Nothing happened that lets a removed cell come back.
Sure == struck = {} /\ (cut => Kills = {})

LEMMA ViewIs ==
  \A d : d \in View <=> d \in rdr \/ d \in mem
                        \/ \E f \in listed : d \in buf[f] \/ d \in file[f]
BY DEF View, Content

\* A file that is not about to go is listed, or is the merge of ones that are.
LEMMA FileSeen ==
  ASSUME StoreInv, phase = "up", NEW g \in Frags \ rem, NEW d \in file[g]
  PROVE  d \in View
<1> USE DEF StoreInv, TypeOK
<1>1. g \in listed \/ (g \in own /\ mpc = "read")
  BY DEF FragInv, GroupInv
<1>2. CASE g \in own /\ mpc = "read"
  <2>1. grp \subseteq listed /\ \E h \in grp : d \in file[h]
    BY <1>2, OwnContent DEF GroupInv
  <2> QED BY <2>1, ViewIs
<1> QED BY <1>1, <1>2, ViewIs

\* The open cell stores are the ones a load would open, but for the last part of
\* the swap.
LEMMA ReadersAre ==
  ASSUME StoreInv, phase = "up"
  PROVE  /\ cpc # "clean" => \A c : InBase(c) <=> c \in rdr
         /\ cpc = "clean" => rdr = cs /\ rem = {}
<1> USE DEF StoreInv
<1>1. rdr # Absent
  BY StoreAssumption DEF TypeOK
<1>2. CASE cpc \notin {"moved", "check", "clean"}
  <2>1. bak = Absent /\ cs = rdr
    BY <1>2 DEF DirsInv, Replacing
  <2> QED BY <1>1, <1>2, <2>1 DEF InBase
<1>3. CASE cpc \in {"moved", "check"}
  <2>1. bak = rdr
    BY <1>3 DEF DirsInv
  <2> QED BY <1>1, <1>3, <2>1 DEF InBase
<1>4. CASE cpc = "clean"
  BY <1>4 DEF DirsInv, FragInv, GroupInv
<1> QED BY <1>2, <1>3, <1>4

\* A removal is seen as long as what it removes is.
LEMMA RemovalSeen ==
  ASSUME StoreInv, ExactInv, phase = "up", NEW d \in Ever, NEW c \in View, Takes(d, c)
  PROVE  d \in View
<1> USE DEF StoreInv, TypeOK
<1>0. c \in Cells
  BY StoreAssumption DEF Takes
<1>1. CASE d \in mem \/ \E f \in Frags : d \in buf[f]
  BY <1>1, ViewIs DEF FragInv
<1>2. CASE d \in durable
  <2>1. c \notin mem
    BY EverDef DEF ExactInv, KeptInv, LateInv
  <2>2. ASSUME OnDisk(c) PROVE d \in View
    <3>1. PICK g \in Frags \ rem : d \in file[g]
      BY <1>0, <1>2, <2>2 DEF ExactInv, DiskKills
    <3> QED BY <3>1, FileSeen
  <2>3. CASE \E f \in listed : c \in buf[f] \/ c \in file[f]
    BY <2>2, <2>3 DEF OnDisk, FragInv
  <2>4. CASE c \in rdr /\ cpc # "clean"
    BY <2>2, <2>4, ReadersAre DEF OnDisk
  <2>5. CASE c \in rdr /\ cpc = "clean"
    <3>1. PICK g \in Frags \ old : d \in file[g]
      BY <1>2, <2>5, ReadersAre DEF ExactInv, NewKills
    <3> QED BY <2>5, <3>1, ReadersAre, FileSeen
  <2> QED BY <2>1, <2>3, <2>4, <2>5, ViewIs
<1> QED BY <1>1, <1>2, EverDef

\* A cell that no removal takes away is seen.
LEMMA VisibleSeen ==
  ASSUME StoreInv, phase = "up", NEW c \in Visible(Ever)
  PROVE  c \in View
<1> USE DEF StoreInv, TypeOK
<1>1. CASE c \in mem \/ \E f \in Frags : c \in buf[f]
  BY <1>1, ViewIs DEF FragInv
<1>2. CASE c \in durable
  <2>1. c \in Visible(durable)
    BY <1>2, EverDef DEF Visible
  <2>2. CASE cpc # "clean"
    <3>1. CASE InBase(c)
      BY <2>2, <3>1, ReadersAre, ViewIs
    <3>2. CASE \E g \in Frags \ rem : c \in file[g]
      BY <3>2, FileSeen
    <3> QED BY <2>1, <3>1, <3>2 DEF CoverInv
  <2>3. CASE cpc = "clean"
    <3>1. c \in cs \/ \E g \in Frags \ old : c \in file[g]
      BY <2>1, <2>3 DEF NewInv
    <3>2. rdr = cs /\ rem = {}
      BY <2>3, ReadersAre
    <3> QED BY <3>1, <3>2, FileSeen, ViewIs
  <2> QED BY <2>2, <2>3
<1> QED BY <1>1, <1>2, EverDef DEF Visible

\* What is seen is there, or was dropped for a removal that is.
LEMMA SeenThere ==
  ASSUME StoreInv, BaseInv, phase = "up", NEW c \in View
  PROVE  c \in Ever \/ \E d \in durable : Takes(d, c)
<1> USE DEF StoreInv, TypeOK
<1>1. CASE c \in mem \/ \E f \in listed : c \in buf[f] \/ c \in file[f]
  BY <1>1, EverDef DEF FragInv
<1>2. CASE c \in rdr
  <2>1. Vouched(c)
    BY <1>2, ReadersAre DEF BaseInv
  <2> QED BY <2>1, EverDef DEF Vouched
<1> QED BY <1>1, <1>2, ViewIs

\* A removal that is seen is there: cell stores have none.
LEMMA RemovalThere ==
  ASSUME StoreInv, NEW d \in View, NEW c, Takes(d, c)
  PROVE  d \in Ever
<1> USE DEF StoreInv, TypeOK
<1>1. d \in Removals
  BY DEF Removals, Takes
<1>2. d \in mem \/ \E f \in listed : d \in buf[f] \/ d \in file[f]
  BY <1>1, ViewIs DEF PlainInv
<1> QED BY <1>2, EverDef DEF FragInv

\* A scan returns the cells that are there and that no removal takes away.
LEMMA SeesExactly ==
  ASSUME StoreInv, ExactInv, phase = "up"
  PROVE  Visible(View) = Visible(Ever)
<1> USE DEF StoreInv, TypeOK
<1>1. ASSUME NEW c \in Visible(Ever) PROVE c \in Visible(View)
  <2>1. c \in View
    BY VisibleSeen
  <2>2. \A d \in View : ~Takes(d, c)
    BY RemovalThere DEF Visible, Takes
  <2> QED BY <2>1, <2>2 DEF Visible, Takes
<1>2. ASSUME NEW c \in Visible(View) PROVE c \in Visible(Ever)
  <2>1. c \in View /\ c \notin Removals /\ \A d \in View : ~Takes(d, c)
    BY DEF Visible, Takes
  <2>2. \A d \in Ever : ~Takes(d, c)
    BY <2>1, RemovalSeen
  <2>3. c \in Ever
    BY <2>1, <2>2, SeenThere, EverDef DEF ExactInv
  <2> QED BY <2>1, <2>2, <2>3 DEF Visible, Takes
<1> QED BY <1>1, <1>2

\* What was written and not lost shows as what is there.
LEMMA KeptShows ==
  ASSUME KeptInv
  PROVE  Visible(kept) = Visible(Ever)
<1>1. ASSUME NEW d \in kept, NEW c, Takes(d, c) PROVE d \in Ever
  <2>1. \A e : ~Takes(e, d)
    BY <1>1, StoreAssumption DEF Takes
  <2> QED BY <2>1 DEF KeptInv
<1>2. Visible(kept) \subseteq Visible(Ever)
  BY DEF KeptInv, Visible, Takes
<1>3. Visible(Ever) \subseteq Visible(kept)
  BY <1>1 DEF KeptInv, Visible, Takes
<1> QED BY <1>2, <1>3

\* A removal is not removed.
LEMMA NotRemoved == \A d, c, e : Takes(d, c) => ~Takes(e, d)
BY StoreAssumption DEF Takes

\* Where cells are does not change what is there.
LEMMA EverStays ==
  ASSUME StoreInv, Unstruck', [Next]_vars,
         ~ \E c \in Cells : Add(c), ~ \E T \in SUBSET Frags : Crash(T)
  PROVE  Ever' = Ever /\ UNCHANGED <<kept, added>>
<1> USE DEF StoreInv, TypeOK
<1>1. CASE UNCHANGED <<durable, mem, buf, kept, added>>
  BY <1>1 DEF Ever
<1>2. ASSUME NEW f \in Frags, NEW S \in SUBSET mem, Roll(f, S)
      PROVE  Ever' = Ever /\ UNCHANGED <<kept, added>>
  <2>1. \A d : d \in Ever' <=> d \in Ever
    BY <1>2 DEF Roll, Free, Ever
  <2> QED BY <1>2, <2>1 DEF Roll
<1>3. ASSUME NEW f \in Frags, Written(f)
      PROVE  Ever' = Ever /\ UNCHANGED <<kept, added>>
  <2>1. \A d : d \in Ever' <=> d \in Ever
    BY <1>3 DEF Written, Ever
  <2> QED BY <1>3, <2>1 DEF Written
<1>4. CASE LogSteps
  <2>1. ASSUME ~ \E f \in Frags, S \in SUBSET mem : Roll(f, S),
               ~ \E f \in Frags : Written(f)
        PROVE  UNCHANGED <<durable, mem, buf, kept, added>>
    BY <1>4, <2>1 DEF LogSteps, LogCompact, LogMerge, LogCancel, LogRename,
       LogTake, LogDiscard, LogDone, RemoveFile
  <2> QED BY <1>1, <1>2, <1>3, <2>1
<1>5. CASE CompactSteps
  BY <1>1, <1>5, CompactFrame
<1>6. CASE Unload \/ LoadSetAside \/ LoadRestore \/ LoadPlain \/ LoadRead
  BY <1>1, <1>6 DEF Unload, LoadSetAside, LoadRestore, LoadPlain, LoadRead
<1> QED BY <1>1, <1>4, <1>5, <1>6, UnstruckSteps DEF LoadNext

\* A cell that is written is there; what it removes may go from m_cells.
LEMMA AddShows ==
  ASSUME NEW c \in Cells, LateInv, KeptInv, Add(c)
  PROVE  /\ c \in Ever' /\ c \in mem'
         /\ \A e \in Ever : e \in Ever' \/ Takes(c, e)
         /\ \A e : e \in Ever' => e \in Ever \/ e = c
         /\ \A d \in mem : \A e : Takes(d, e) => d \in mem'
<1>1. /\ mem' = Merge(mem \cup {c}) /\ UNCHANGED <<buf, durable>>
      /\ \A d \in added : ~Takes(d, c)
  BY DEF Add, Takes
<1>2. mem \subseteq added
  BY EverDef DEF KeptInv
<1>3. ~Takes(c, c)
  BY NotRemoved
<1>4. c \in mem'
  BY <1>1, <1>2, <1>3 DEF Merge, Takes
<1>5. \A e \in mem : e \in mem' \/ Takes(c, e)
  BY <1>1, <1>2 DEF Merge, LateInv, Takes
<1>6. mem' \subseteq mem \cup {c}
  BY <1>1 DEF Merge
<1>7. \A d \in mem : \A e : Takes(d, e) => d \in mem'
  BY <1>5, NotRemoved
<1>8. /\ \A d : d \in Ever' <=> d \in durable \/ d \in mem' \/ \E f \in Frags : d \in buf[f]
      /\ \A d : d \in Ever <=> d \in durable \/ d \in mem \/ \E f \in Frags : d \in buf[f]
  BY <1>1 DEF Ever
<1> QED BY <1>4, <1>5, <1>6, <1>7, <1>8

LEMMA KeptStep ==
  ASSUME StoreInv, KeptInv, LateInv, Unstruck', [Next]_vars
  PROVE  KeptInv' /\ LateInv'
<1> USE DEF StoreInv, TypeOK
<1>1. ASSUME NEW c \in Cells, Add(c) PROVE KeptInv' /\ LateInv'
  <2>1. /\ c \in Ever' /\ c \in mem'
        /\ \A e \in Ever : e \in Ever' \/ Takes(c, e)
        /\ \A e : e \in Ever' => e \in Ever \/ e = c
        /\ \A d \in mem : \A e : Takes(d, e) => d \in mem'
    BY <1>1, AddShows
  <2>2. added' = added \cup {c} /\ kept' = kept \cup {c} /\ mem' = Merge(mem \cup {c})
        /\ \A d \in added : ~Takes(d, c)
    BY <1>1 DEF Add, Takes
  <2>3. \A d, e : d \in Ever /\ Takes(d, e) => d \in Ever'
    BY <2>1, NotRemoved
  <2>4. KeptInv'
    BY <2>1, <2>2, <2>3 DEF KeptInv
  <2>5. LateInv'
    BY <2>1, <2>2, NotRemoved DEF LateInv, Merge, Takes
  <2> QED BY <2>4, <2>5
<1>2. ASSUME NEW T \in SUBSET Frags, Crash(T) PROVE KeptInv' /\ LateInv'
  <2>1. Ever' = durable /\ kept' = durable /\ added' = added /\ mem' = {}
    <3>1. \A d : d \in Ever' <=> d \in durable
      BY <1>2 DEF Crash, Ever
    <3> QED BY <1>2, <3>1 DEF Crash
  <2>2. durable \subseteq added
    BY EverDef DEF KeptInv
  <2> QED BY <2>1, <2>2 DEF KeptInv, LateInv
<1>3. CASE ~(\E c \in Cells : Add(c)) /\ ~(\E T \in SUBSET Frags : Crash(T))
  <2>1. Ever' = Ever /\ UNCHANGED <<kept, added>>
    BY <1>3, EverStays
  <2>2. mem' \subseteq mem
    <3>1. CASE LogSteps
      BY <1>3, <3>1 DEF LogSteps, Roll, Written, LogCompact, LogMerge, LogCancel,
         LogRename, LogTake, LogDiscard, LogDone, RemoveFile
    <3>2. CASE CompactSteps
      BY <3>2, CompactFrame
    <3>3. CASE LoadNext
      BY <1>3, <3>3 DEF LoadNext, Unload, LoadSetAside, LoadRestore, LoadPlain, LoadRead
    <3> QED BY <3>1, <3>2, <3>3, UnstruckSteps
  <2> QED BY <2>1, <2>2 DEF KeptInv, LateInv
<1> QED BY <1>1, <1>2, <1>3

\* Cells on the file system stay vouched for.
LEMMA BaseStep ==
  ASSUME StoreInv, KeptInv, LateInv, BaseInv, Unstruck', [Next]_vars
  PROVE  BaseInv'
<1> USE DEF StoreInv, TypeOK
<1> DEFINE There(c) == c \in Ever \/ \E d \in Ever : Takes(d, c)
<1>0. durable \subseteq durable'
  <2>1. CASE LogSteps
    BY <2>1 DEF LogSteps, Add, Roll, Written, LogCompact, LogMerge, LogCancel,
       LogRename, LogTake, LogDiscard, LogDone, RemoveFile
  <2>2. CASE CompactSteps
    BY <2>2, CompactFrame
  <2>3. CASE LoadNext
    BY <2>3 DEF LoadNext, Unload, Crash, LoadSetAside, LoadRestore, LoadPlain, LoadRead
  <2> QED BY <2>1, <2>2, <2>3, UnstruckSteps
<1>1. \A c : Vouched(c) => Vouched(c)'
  BY <1>0 DEF Vouched
<1>2. ASSUME \A c \in Cells : InBase(c)' => InBase(c),
             cpc' \notin {"scan", "final", "apply", "moved", "check", "clean", "log"}
      PROVE  BaseInv'
  BY <1>1, <1>2 DEF BaseInv
<1>3. CASE LogSteps
  <2>1. UNCHANGED <<cs, bak, tmp, cpc, scanned>>
    BY <1>3, LogFrame
  <2>2. \A c \in Cells : InBase(c)' <=> InBase(c)
    BY <2>1 DEF InBase
  <2>3. \A c : There(c) => There(c)'
    <3>1. ASSUME NEW a \in Cells, Add(a), NEW c, There(c) PROVE There(c)'
      <4>1. /\ a \in Ever' /\ \A e \in Ever : e \in Ever' \/ Takes(a, e)
        BY <3>1, AddShows
      <4> QED BY <3>1, <4>1, NotRemoved
    <3>2. CASE ~ \E a \in Cells : Add(a)
      <4>1. ~ \E T \in SUBSET Frags : Crash(T)
        BY <1>3, LogFrame DEF Crash
      <4> QED BY <3>2, <4>1, EverStays
    <3> QED BY <3>1, <3>2
  <2>4. (cpc \in {"scan", "final"} /\ scanned # {} => \A c \in tmp : There(c))'
    BY <2>1, <2>3 DEF BaseInv
  <2>5. /\ (cpc \in {"apply", "moved"} => \A c \in tmp : Vouched(c))'
        /\ (cpc \in {"check", "clean", "log"} => \A c \in cs : Vouched(c))'
    BY <1>1, <2>1 DEF BaseInv
  <2>6. (\A c \in Cells : InBase(c) => Vouched(c))'
    BY <1>1, <2>2 DEF BaseInv
  <2> QED BY <2>4, <2>5, <2>6 DEF BaseInv
<1>4. ASSUME NEW c0 \in Cells, ScanCell(c0) PROVE BaseInv'
  <2>1. /\ phase = "up" /\ UNCHANGED <<cs, bak, cpc, durable, mem, buf>>
        /\ tmp' = (IF scanned = {} THEN {} ELSE tmp) \cup ({c0} \cap Visible(View))
        /\ cpc \in {"scan", "final"}
    BY <1>4 DEF ScanCell
  <2>2. \A c \in View : There(c)
    BY <2>1, SeenThere, EverDef
  <2>3. \A c \in tmp' : There(c)
    BY <2>1, <2>2 DEF BaseInv, Visible
  <2>4. Ever' = Ever
    BY <2>1 DEF Ever
  <2>5. \A c \in Cells : InBase(c)' <=> InBase(c)
    BY <2>1 DEF InBase
  <2> QED BY <1>1, <2>1, <2>3, <2>4, <2>5 DEF BaseInv
<1>5. CASE Collect \/ ScanFinishing
  <2>1. /\ UNCHANGED <<cs, bak, tmp, scanned, durable, mem, buf>>
        /\ cpc' \in {"scan", "final"} /\ (scanned # {} => cpc \in {"scan", "final"})
    BY <1>5 DEF Collect, ScanFinishing
  <2>2. Ever' = Ever /\ \A c \in Cells : InBase(c)' <=> InBase(c)
    BY <2>1 DEF Ever, InBase
  <2> QED BY <1>1, <2>1, <2>2 DEF BaseInv
<1>6. CASE Finalize
  <2>1. /\ Finalized /\ cpc = "final" /\ cpc' = "apply" /\ UNCHANGED <<cs, bak>>
        /\ tmp' = IF scanned = {} THEN {} ELSE tmp
    BY <1>6 DEF Finalize
  <2>2. Ever = durable
    BY <2>1, EverDef DEF Finalized
  <2>3. \A c \in tmp' : Vouched(c)
    BY <2>1, <2>2 DEF BaseInv, Vouched
  <2>4. \A c \in Cells : InBase(c)' <=> InBase(c)
    BY <2>1 DEF InBase
  <2> QED BY <1>1, <2>1, <2>3, <2>4 DEF BaseInv
<1>7. CASE ReplaceBackup
  <2>1. /\ cpc = "apply" /\ cpc' = "moved" /\ bak' = cs /\ tmp' = tmp /\ phase = "up"
    BY <1>7 DEF ReplaceBackup
  <2>2. bak = Absent /\ cs # Absent
    BY <2>1, StoreAssumption DEF DirsInv, Replacing
  <2>3. \A c \in Cells : InBase(c)' <=> InBase(c)
    BY <2>1, <2>2 DEF InBase
  <2> QED BY <1>1, <2>1, <2>3 DEF BaseInv
<1>8. CASE ReplaceMove \/ ReplaceRead
  <2>1. /\ cpc' \in {"check", "clean"} /\ bak' = bak /\ bak # Absent
        /\ \/ cpc = "moved" /\ cs' = tmp
           \/ cpc = "check" /\ cs' = cs
    BY <1>8, StoreAssumption DEF ReplaceMove, ReplaceRead, DirsInv
  <2>2. \A c \in Cells : InBase(c)' <=> InBase(c)
    BY <2>1 DEF InBase
  <2>3. \A c \in cs' : Vouched(c)
    BY <2>1 DEF BaseInv
  <2> QED BY <1>1, <2>1, <2>2, <2>3 DEF BaseInv
<1>9. CASE ReplaceClean
  <2>1. cpc = "clean" /\ cpc' = "log" /\ bak' = Absent /\ cs' = cs
    BY <1>9 DEF ReplaceClean
  <2>2. \A c \in cs : Vouched(c)
    BY <2>1 DEF BaseInv
  <2>3. \A c \in Cells : InBase(c)' => c \in cs
    BY <2>1 DEF InBase
  <2> QED BY <1>1, <2>1, <2>2, <2>3 DEF BaseInv
<1>10. CASE Compact \/ InitFinalized \/ Quit \/ DropFragments \/ CompactDone
  <2>1. /\ UNCHANGED <<cs, bak>>
        /\ cpc' \notin {"scan", "final", "apply", "moved", "check", "clean", "log"}
    BY <1>10 DEF Compact, InitFinalized, Quit, DropFragments, CompactDone
  <2> QED BY <1>2, <2>1 DEF InBase
<1>11. CASE RollbackRemove \/ RollbackRestore
  BY <1>11 DEF RollbackRemove, RollbackRestore, DirsInv
<1>12. ASSUME NEW T \in SUBSET Frags, Crash(T) PROVE BaseInv'
  BY <1>2, <1>12 DEF Crash, InBase
<1>13. CASE Unload \/ LoadSetAside \/ LoadRestore \/ LoadPlain \/ LoadRead
  <2>1. cpc' = "idle" /\ \A c \in Cells : InBase(c)' => InBase(c)
    BY <1>13 DEF Unload, LoadSetAside, LoadRestore, LoadPlain, LoadRead, InBase,
       DownInv, DirsInv
  <2> QED BY <1>2, <2>1
<1>14. CASE UNCHANGED vars
  <2>1. Ever' = Ever /\ \A c \in Cells : InBase(c)' <=> InBase(c)
    BY <1>14 DEF Ever, InBase
  <2> QED BY <1>1, <1>14, <2>1 DEF BaseInv
<1> QED
  BY <1>3, <1>4, <1>5, <1>6, <1>7, <1>8, <1>9, <1>10, <1>11, <1>12, <1>13, <1>14,
     UnstruckSteps DEF CompactSteps, LoadNext

\* A removal of the merged group is in the merged file.
LEMMA MergedRemoves ==
  ASSUME StoreInv, mpc \in {"own", "read"}, NEW g \in grp, NEW d \in file[g],
         NEW c, Takes(d, c)
  PROVE  d \in merged
<1>1. merged = Merge(UNION {file[f] : f \in grp})
  BY DEF StoreInv, GroupInv
<1> QED BY <1>1, NotRemoved DEF Merge, Takes

\* A step of the log that takes no removal from the disk and brings nothing there
\* that was not on its way.
LEMMA DiskFrame ==
  ASSUME StoreInv, DiskKills, durable' = durable,
         \A c \in Cells : OnDisk(c)' => OnDisk(c),
         \A d, c : Takes(d, c) =>
           ((\E g \in Frags \ rem : d \in file[g]) => \E g \in Frags \ rem' : d \in file'[g])
  PROVE  DiskKills'
<1> SUFFICES ASSUME NEW d \in durable, NEW c \in Cells, Takes(d, c), OnDisk(c)'
             PROVE  \E g \in Frags \ rem' : d \in file'[g]
  BY DEF DiskKills, Takes
<1>1. \E g \in Frags \ rem : d \in file[g]
  BY DEF DiskKills
<1> QED BY <1>1

\* A committed removal stays in a file as long as it is needed, unless the
\* process is killed among the removals of fragments_old.
LEMMA DiskStep ==
  ASSUME StoreInv, ExactInv, Sure', [Next]_vars
  PROVE  DiskKills'
<1> USE DEF StoreInv, ExactInv, TypeOK
<1>0. Unstruck'
  BY DEF Sure, Unstruck
<1>a. ASSUME UNCHANGED <<durable, file, buf, rem>>, \A c \in Cells : InBase(c)' => InBase(c),
             cpc = "drop" /\ rem # {} => cpc' = "drop"
      PROVE  DiskKills'
  <2>1. \A c \in Cells : OnDisk(c)' => OnDisk(c)
    BY <1>a DEF OnDisk
  <2> QED BY <1>a, <2>1, DiskFrame
<1>b. UNCHANGED <<cs, bak>> => \A c \in Cells : InBase(c)' <=> InBase(c)
  BY DEF InBase
<1>1. CASE UNCHANGED vars
  BY <1>1, <1>a, <1>b
<1>2. CASE LogMerge \/ LogCancel \/ LogDone
           \/ (\E c \in Cells : Add(c)) \/ (\E G \in SUBSET listed : LogCompact(G))
  BY <1>2, <1>a, <1>b DEF LogMerge, LogCancel, LogDone, Add, LogCompact
<1>3. ASSUME NEW f \in Frags, NEW S \in SUBSET mem, Roll(f, S) PROVE DiskKills'
  <2>1. /\ UNCHANGED <<durable, file, rem, cs, bak, cpc>> /\ buf' = [buf EXCEPT ![f] = S]
    BY <1>3 DEF Roll
  <2>2. durable \subseteq added
    BY EverDef DEF KeptInv
  <2>3. ASSUME NEW d \in durable, NEW c \in Cells, Takes(d, c), OnDisk(c)'
        PROVE  OnDisk(c)
    <3>1. c \notin mem
      BY <2>2, <2>3 DEF LateInv
    <3>2. \A g \in Frags : c \in buf'[g] => c \in buf[g]
      BY <2>1, <3>1
    <3> QED BY <2>1, <2>3, <3>2, <1>b DEF OnDisk
  <2> QED BY <2>1, <2>3 DEF DiskKills, Takes
<1>4. ASSUME NEW f \in Frags, Written(f) PROVE DiskKills'
  <2>1. /\ f \in listed /\ file[f] = {} /\ f \notin rem /\ cpc' = cpc
        /\ durable' = durable \cup buf[f] /\ UNCHANGED <<rem, cs, bak>>
        /\ file' = [file EXCEPT ![f] = buf[f]] /\ buf' = [buf EXCEPT ![f] = {}]
    BY <1>4 DEF Written, FragInv
  <2>2. \A c \in Cells : OnDisk(c)' => OnDisk(c)
    BY <2>1, <1>b DEF OnDisk
  <2>3. ASSUME NEW d \in durable', NEW c \in Cells, Takes(d, c), OnDisk(c)'
        PROVE  \E g \in Frags \ rem' : d \in file'[g]
    <3>1. CASE d \in buf[f]
      BY <2>1, <3>1
    <3>2. CASE d \in durable
      <4>1. PICK g \in Frags \ rem : d \in file[g]
        BY <2>2, <2>3, <3>2 DEF DiskKills
      <4> QED BY <2>1, <4>1
    <3> QED BY <2>1, <2>3, <3>1, <3>2
  <2> QED BY <2>3 DEF DiskKills, Takes
<1>5. ASSUME NEW f \in Frags, LogRename(f) PROVE DiskKills'
  <2>1. /\ mpc = "own" /\ file[f] = {} /\ file' = [file EXCEPT ![f] = merged]
        /\ UNCHANGED <<durable, buf, rem, cs, bak, cpc>>
    BY <1>5 DEF LogRename, Free
  <2>2. \A c \in merged : \E g \in grp : c \in file[g]
    BY <2>1 DEF GroupInv, Merge
  <2>3. cpc # "drop" /\ grp \subseteq Frags
    BY <2>1 DEF GroupInv
  <2>4. \A c \in Cells : OnDisk(c)' => OnDisk(c)
    BY <2>1, <2>2, <2>3, <1>b DEF OnDisk
  <2>5. \A g \in Frags : file[g] \subseteq file'[g]
    BY <2>1
  <2> QED BY <2>1, <2>4, <2>5, DiskFrame
<1>6. ASSUME NEW f \in Frags, LogTake(f) PROVE DiskKills'
  <2>1. /\ mpc = "read" /\ f \in own /\ rem' = grp /\ cpc' = cpc
        /\ UNCHANGED <<durable, file, buf, cs, bak>>
    BY <1>6 DEF LogTake
  <2>2. file[f] = merged /\ f \notin grp /\ cpc # "drop"
    BY <2>1 DEF GroupInv
  <2>3. \A c \in Cells : OnDisk(c)' => OnDisk(c)
    BY <2>1, <2>2, <1>b DEF OnDisk
  <2>4. ASSUME NEW d, NEW c, Takes(d, c), NEW g \in Frags \ rem, d \in file[g]
        PROVE  \E h \in Frags \ rem' : d \in file'[h]
    <3>1. CASE g \in grp
      BY <2>1, <2>2, <2>4, <3>1, MergedRemoves
    <3>2. CASE g \notin grp
      BY <2>1, <2>4, <3>2
    <3> QED BY <3>1, <3>2
  <2> QED BY <2>1, <2>3, <2>4, DiskFrame
<1>7. ASSUME NEW f \in Frags, LogDiscard(f) PROVE DiskKills'
  <2>1. /\ mpc = "read" /\ rem' = own /\ cpc' = cpc
        /\ UNCHANGED <<durable, file, buf, cs, bak>>
    BY <1>7 DEF LogDiscard
  <2>2. own \cap grp = {} /\ cpc # "drop" /\ grp \subseteq Frags
    BY <2>1 DEF GroupInv
  <2>3. \A c \in Cells : OnDisk(c)' => OnDisk(c)
    BY <2>1, <2>2, <1>b DEF OnDisk
  <2>4. ASSUME NEW d, NEW g \in Frags \ rem, d \in file[g]
        PROVE  \E h \in Frags \ rem' : d \in file'[h]
    <3>1. CASE g \in own
      <4>1. PICK h \in grp : d \in file[h]
        BY <2>1, <2>4, <3>1, OwnContent
      <4> QED BY <2>1, <2>2, <4>1
    <3>2. CASE g \notin own
      BY <2>1, <2>4, <3>2
    <3> QED BY <3>1, <3>2
  <2> QED BY <2>1, <2>3, <2>4, DiskFrame
<1>8. ASSUME NEW f \in Frags, RemoveFile(f) PROVE DiskKills'
  <2>1. /\ f \in rem /\ rem' = rem \ {f} /\ file' = [file EXCEPT ![f] = {}]
        /\ UNCHANGED <<durable, buf, cs, bak, cpc>>
    BY <1>8 DEF RemoveFile
  <2>2. \A c \in Cells : OnDisk(c)' => OnDisk(c)
    BY <2>1, <1>b DEF OnDisk
  <2>3. \A g \in Frags \ rem : g \in Frags \ rem' /\ file'[g] = file[g]
    BY <2>1
  <2> QED BY <2>1, <2>2, <2>3, DiskFrame
<1>9. CASE Compact \/ InitFinalized \/ Collect \/ ScanFinishing \/ Finalize \/ Quit
           \/ CompactDone \/ \E c \in Cells : ScanCell(c)
  <2>1. /\ UNCHANGED <<durable, file, buf, rem, cs, bak>>
        /\ cpc = "drop" => rem = {}
    BY <1>9 DEF Compact, InitFinalized, Collect, ScanFinishing, Finalize, Quit,
       CompactDone, ScanCell
  <2> QED BY <1>a, <1>b, <2>1
<1>10. CASE ReplaceBackup \/ ReplaceMove \/ ReplaceRead
  <2>1. UNCHANGED <<durable, file, buf, rem>> /\ cpc # "drop"
    BY <1>10 DEF ReplaceBackup, ReplaceMove, ReplaceRead
  <2>2. \A c \in Cells : InBase(c)' => InBase(c)
    BY <1>10, StoreAssumption DEF ReplaceBackup, ReplaceMove, ReplaceRead, DirsInv,
       Replacing, InBase
  <2> QED BY <1>a, <2>1, <2>2
<1>11. CASE ReplaceClean
  <2>1. /\ cpc = "clean" /\ bak' = Absent /\ cpc' = "log"
        /\ UNCHANGED <<cs, durable, file, buf, rem>>
    BY <1>11 DEF ReplaceClean
  <2>2. rem = {}
    BY <2>1 DEF FragInv, GroupInv
  <2>3. ASSUME NEW d \in durable, NEW c \in Cells, Takes(d, c), OnDisk(c)'
        PROVE  \E g \in Frags \ rem' : d \in file'[g]
    <3>1. CASE OnDisk(c)
      BY <2>1, <2>3, <3>1 DEF DiskKills
    <3>2. CASE ~OnDisk(c)
      <4>1. c \in cs
        BY <2>1, <2>3, <3>2 DEF OnDisk, InBase
      <4> QED BY <2>1, <2>2, <2>3, <4>1 DEF NewKills
    <3> QED BY <3>1, <3>2
  <2> QED BY <2>1, <2>3 DEF DiskKills, Takes
<1>12. CASE DropFragments
  <2>1. /\ cpc = "log" /\ cpc' = "drop" /\ rem' = old /\ phase = "up"
        /\ UNCHANGED <<cs, bak, durable, file, buf>>
    BY <1>12 DEF DropFragments
  <2>2. /\ rem = {} /\ bak = Absent /\ \A f \in Frags : buf[f] = {}
    BY <2>1 DEF FragInv, GroupInv, DirsInv, Replacing, OldInv, Finalized
  <2>3. ASSUME NEW d \in durable, NEW c \in Cells, Takes(d, c), OnDisk(c)'
        PROVE  \E g \in Frags \ rem' : d \in file'[g]
    <3>1. CASE InBase(c)'
      <4>1. c \in cs
        BY <2>1, <2>2, <3>1 DEF InBase
      <4> QED BY <2>1, <2>3, <4>1 DEF NewKills
    <3>2. ASSUME NEW h \in Frags \ old, c \in file[h]
          PROVE  \E g \in Frags \ rem' : d \in file'[g]
      <4>1. OnDisk(c)
        BY <2>1, <3>2 DEF OnDisk
      <4>2. PICK g \in Frags \ rem : d \in file[g]
        BY <2>3, <4>1 DEF DiskKills
      <4>3. g \notin old
        BY <2>1, <2>3, <3>2, <4>2 DEF OldKills, Content
      <4> QED BY <2>1, <4>2, <4>3
    <3> QED BY <2>1, <2>2, <2>3, <3>1, <3>2 DEF OnDisk
  <2> QED BY <2>1, <2>3 DEF DiskKills, Takes
<1>13. CASE RollbackRemove \/ RollbackRestore
  BY <1>13 DEF RollbackRemove, RollbackRestore, DirsInv
<1>14. ASSUME NEW T \in SUBSET Frags, Crash(T) PROVE DiskKills'
  <2>1. CASE Kills = {}
    BY <2>1 DEF DiskKills, Takes
  <2>2. CASE Kills # {}
    <3>1. /\ cpc # "drop" /\ rem' = {} /\ UNCHANGED <<cs, bak, file, durable>>
          /\ \A f \in Frags : buf'[f] = {}
      BY <1>14, <2>2 DEF Crash, Sure
    <3>2. \A c \in Cells : OnDisk(c)' => OnDisk(c)
      BY <3>1, <1>b DEF OnDisk
    <3> QED BY <3>1, <3>2, DiskFrame
  <2> QED BY <2>1, <2>2
<1>15. CASE Unload \/ LoadSetAside \/ LoadRestore \/ LoadPlain \/ LoadRead
  <2>1. UNCHANGED <<durable, file, buf, rem>> /\ cpc # "drop"
    BY <1>15 DEF Unload, LoadSetAside, LoadRestore, LoadPlain, LoadRead, DownInv
  <2>2. \A c \in Cells : InBase(c)' => InBase(c)
    BY <1>15 DEF Unload, LoadSetAside, LoadRestore, LoadPlain, LoadRead, DirsInv,
       InBase
  <2> QED BY <1>a, <2>1, <2>2
<1> QED
  BY <1>0, <1>1, <1>2, <1>3, <1>4, <1>5, <1>6, <1>7, <1>8, <1>9, <1>10, <1>11, <1>12,
     <1>13, <1>14, <1>15, UnstruckSteps DEF LogSteps, CompactSteps, LoadNext

\* What removes a cell that the scan has passed stays out of fragments_old.
LEMMA ScanKillsStep ==
  ASSUME StoreInv, ExactInv, Unstruck', [Next]_vars
  PROVE  ScanKills'
<1> USE DEF StoreInv, ExactInv, TypeOK
<1> DEFINE Held(d) == d \in mem \/ \E g \in Frags \ (old \cup rem) : d \in Content(g)
<1>1. CASE UNCHANGED vars
  <2>1. Ever' = Ever /\ \A g : Content(g)' = Content(g)
    BY <1>1 DEF Ever, Content
  <2> QED BY <1>1, <2>1 DEF ScanKills, Takes
<1>2. CASE LogSteps
  <2>0. UNCHANGED <<cpc, scanned, tmp, old>>
    BY <1>2, LogFrame
  <2> SUFFICES ASSUME cpc \in {"scan", "final"}, scanned # {}, NEW c \in tmp, NEW d \in Ever',
                      Takes(d, c)
               PROVE  Held(d)'
    BY <2>0 DEF ScanKills, Takes
  <2>1. old \subseteq listed
    BY DEF OldInv
  <2>2. ASSUME NEW a \in Cells, Add(a) PROVE Held(d)'
    <3>1. /\ a \in mem' /\ (d \in Ever \/ d = a) /\ (d \in mem => d \in mem')
      BY <2>2, AddShows
    <3>2. \A g : Content(g)' = Content(g)
      BY <2>2 DEF Add, Content
    <3>3. rem' = rem /\ old' = old
      BY <2>2 DEF Add
    <3>4. CASE d \in Ever
      <4>1. Held(d)
        BY <3>4 DEF ScanKills
      <4> QED BY <3>1, <3>2, <3>3, <4>1
    <3> QED BY <3>1, <3>4
  <2>3. CASE ~ \E a \in Cells : Add(a)
    <3>0. ~ \E T \in SUBSET Frags : Crash(T)
      BY <1>2, LogFrame DEF Crash
    <3>1. d \in Ever
      BY <2>3, <3>0, EverStays
    <3>2. Held(d)
      BY <3>1 DEF ScanKills
    <3>3. ASSUME NEW f \in Frags, NEW S \in SUBSET mem, Roll(f, S) PROVE Held(d)'
      <4>1. /\ f \notin old \cup rem /\ buf[f] = {} /\ file[f] = {}
            /\ mem' = mem \ S /\ buf' = [buf EXCEPT ![f] = S]
            /\ UNCHANGED <<file, old, rem>>
        BY <2>1, <3>3 DEF Roll, Free
      <4>2. d \in S => d \in Content(f)'
        BY <4>1 DEF Content
      <4>3. \A g \in Frags : Content(g) \subseteq Content(g)'
        BY <4>1 DEF Content
      <4> QED BY <3>2, <4>1, <4>2, <4>3
    <3>4. ASSUME NEW f \in Frags, Written(f) PROVE Held(d)'
      <4>1. \A g \in Frags : Content(g)' = Content(g)
        BY <3>4 DEF Written, Content, FragInv
      <4>2. UNCHANGED <<mem, old, rem>>
        BY <3>4 DEF Written
      <4> QED BY <3>2, <4>1, <4>2
    <3>5. ASSUME NEW f \in Frags, LogRename(f) PROVE Held(d)'
      <4>1. \A g \in Frags : Content(g) \subseteq Content(g)'
        BY <3>5 DEF LogRename, Free, Content
      <4>2. UNCHANGED <<mem, old, rem>>
        BY <3>5 DEF LogRename
      <4> QED BY <3>2, <4>1, <4>2
    <3>6. ASSUME NEW f \in Frags, LogTake(f) PROVE Held(d)'
      <4>1. /\ mpc = "read" /\ f \in own /\ rem' = grp
            /\ UNCHANGED <<mem, buf, file, old>>
        BY <3>6 DEF LogTake
      <4>2. /\ file[f] = merged /\ f \notin grp /\ f \notin old
            /\ \A g \in grp : buf[g] = {}
        BY <4>1 DEF GroupInv
      <4>3. \A g : Content(g)' = Content(g)
        BY <4>1 DEF Content
      <4>4. ASSUME NEW g \in grp, d \in Content(g) PROVE d \in Content(f)
        BY <4>1, <4>2, <4>4, MergedRemoves DEF Content
      <4> QED BY <3>2, <4>1, <4>2, <4>3, <4>4
    <3>7. ASSUME NEW f \in Frags, LogDiscard(f) PROVE Held(d)'
      <4>1. /\ mpc = "read" /\ rem' = own /\ UNCHANGED <<mem, buf, file, old>>
        BY <3>7 DEF LogDiscard
      <4>2. /\ own \cap grp = {} /\ grp \cap old = {} /\ grp \subseteq Frags
            /\ \A g \in own : buf[g] = {}
        BY <4>1 DEF GroupInv, FragInv
      <4>3. \A g : Content(g)' = Content(g)
        BY <4>1 DEF Content
      <4>4. ASSUME NEW g \in own, d \in Content(g)
            PROVE  \E h \in grp : d \in Content(h)
        BY <4>1, <4>2, <4>4, OwnContent DEF Content
      <4> QED BY <3>2, <4>1, <4>2, <4>3, <4>4
    <3>8. ASSUME NEW f \in Frags, RemoveFile(f) PROVE Held(d)'
      <4>1. /\ f \in rem /\ rem' = rem \ {f} /\ UNCHANGED <<mem, old>>
            /\ \A g \in Frags \ {f} : Content(g)' = Content(g)
        BY <3>8 DEF RemoveFile, Content
      <4> QED BY <3>2, <4>1
    <3>9. CASE LogMerge \/ LogCancel \/ LogDone \/ \E G \in SUBSET listed : LogCompact(G)
      <4>1. UNCHANGED <<mem, buf, file, old, rem>>
        BY <3>9 DEF LogMerge, LogCancel, LogDone, LogCompact
      <4>2. \A g : Content(g)' = Content(g)
        BY <4>1 DEF Content
      <4> QED BY <3>2, <4>1, <4>2
    <3> QED BY <1>2, <2>3, <3>3, <3>4, <3>5, <3>6, <3>7, <3>8, <3>9 DEF LogSteps
  <2> QED BY <2>2, <2>3
<1>3. ASSUME NEW c0 \in Cells, ScanCell(c0) PROVE ScanKills'
  <2>1. /\ phase = "up" /\ UNCHANGED <<cpc, durable, mem, buf, file, old, rem>>
        /\ tmp' = (IF scanned = {} THEN {} ELSE tmp) \cup ({c0} \cap Visible(View))
        /\ cpc \in {"scan", "final"}
    BY <1>3 DEF ScanCell
  <2>2. Visible(View) = Visible(Ever)
    BY <2>1, SeesExactly
  <2>3. Ever' = Ever /\ \A g : Content(g)' = Content(g)
    BY <2>1 DEF Ever, Content
  <2>4. ASSUME NEW c \in tmp', NEW d \in Ever, Takes(d, c) PROVE Held(d)
    <3>1. c \notin Visible(Ever)
      BY <2>4 DEF Visible, Takes
    <3>2. scanned # {} /\ c \in tmp
      BY <2>1, <2>2, <3>1
    <3> QED BY <2>1, <2>4, <3>2 DEF ScanKills
  <2> QED BY <2>1, <2>3, <2>4 DEF ScanKills, Takes
<1>4. CASE ScanFinishing
  <2>1. /\ cpc = "scan" /\ UNCHANGED <<scanned, tmp, durable, mem, buf, file, old, rem>>
    BY <1>4 DEF ScanFinishing
  <2>2. Ever' = Ever /\ \A g : Content(g)' = Content(g)
    BY <2>1 DEF Ever, Content
  <2> QED BY <2>1, <2>2 DEF ScanKills, Takes
<1>5. CASE Collect
  BY <1>5 DEF Collect, ScanKills
<1>6. CASE CompactSteps /\ ~(\E c \in Cells : ScanCell(c)) /\ ~ScanFinishing /\ ~Collect
  <2>1. cpc' \notin {"scan", "final"}
    BY <1>6 DEF CompactSteps, Compact, InitFinalized, Finalize, Quit, ReplaceBackup,
       ReplaceMove, ReplaceRead, ReplaceClean, RollbackRemove, RollbackRestore,
       DropFragments, CompactDone
  <2> QED BY <2>1 DEF ScanKills
<1>7. CASE LoadNext
  <2>1. cpc' = "idle"
    BY <1>7 DEF LoadNext, Unload, Crash, LoadSetAside, LoadRestore, LoadPlain, LoadRead,
       DownInv
  <2> QED BY <2>1 DEF ScanKills
<1> QED BY <1>1, <1>2, <1>3, <1>4, <1>5, <1>6, <1>7, UnstruckSteps

\* The new cell stores need no removal of fragments_old.
LEMMA NewKillsStep ==
  ASSUME StoreInv, ExactInv, Unstruck', [Next]_vars
  PROVE  NewKills'
<1> USE DEF StoreInv, ExactInv, TypeOK
<1>1. CASE UNCHANGED vars
  BY <1>1 DEF NewKills, Takes
<1>2. CASE LogSteps
  <2>1. ~ Quiet /\ cpc' = cpc
    BY <1>2, QuietLog, LogFrame
  <2> QED BY <2>1 DEF Quiet, NewKills
<1>3. CASE Finalize
  <2>1. /\ Finalized /\ cpc = "final" /\ cpc' = "apply"
        /\ UNCHANGED <<file, old, durable>>
        /\ tmp' = IF scanned = {} THEN {} ELSE tmp
    BY <1>3 DEF Finalize
  <2>2. ASSUME NEW c \in tmp', NEW d \in durable, Takes(d, c)
        PROVE  \E g \in Frags \ old : d \in file[g]
    <3>1. d \in Ever /\ c \in tmp /\ scanned # {}
      BY <2>1, EverDef
    <3>2. d \in mem \/ \E g \in Frags \ (old \cup rem) : d \in Content(g)
      BY <2>1, <2>2, <3>1 DEF ScanKills
    <3> QED BY <2>1, <3>2 DEF Finalized, Content
  <2> QED BY <2>1, <2>2 DEF NewKills, Takes
<1>4. CASE ReplaceBackup \/ ReplaceMove \/ ReplaceRead \/ ReplaceClean
  <2>1. UNCHANGED <<file, old, durable>>
    BY <1>4 DEF ReplaceBackup, ReplaceMove, ReplaceRead, ReplaceClean
  <2>2. /\ cpc' \in {"apply", "moved"} => cpc = "apply" /\ tmp' = tmp
        /\ cpc' \in {"check", "clean", "log"} =>
             \/ cpc = "moved" /\ cs' = tmp
             \/ cpc \in {"check", "clean", "log"} /\ cs' = cs
    BY <1>4 DEF ReplaceBackup, ReplaceMove, ReplaceRead, ReplaceClean
  <2> QED BY <2>1, <2>2 DEF NewKills, Takes
<1>5. CASE RollbackRemove \/ RollbackRestore
  BY <1>5 DEF RollbackRemove, RollbackRestore, DirsInv
<1>6. CASE Compact \/ InitFinalized \/ Collect \/ ScanFinishing \/ Quit
           \/ DropFragments \/ CompactDone \/ \E c \in Cells : ScanCell(c)
  <2>1. cpc' \notin {"apply", "moved", "check", "clean", "log"}
    BY <1>6 DEF Compact, InitFinalized, Collect, ScanFinishing, Quit,
       DropFragments, CompactDone, ScanCell
  <2> QED BY <2>1 DEF NewKills
<1>7. CASE LoadNext
  <2>1. cpc' = "idle"
    BY <1>7 DEF LoadNext, Unload, Crash, LoadSetAside, LoadRestore, LoadPlain, LoadRead,
       DownInv
  <2> QED BY <2>1 DEF NewKills
<1> QED
  BY <1>1, <1>2, <1>3, <1>4, <1>5, <1>6, <1>7, UnstruckSteps DEF CompactSteps

\* A fragment made after fragments_old was collected has nothing that these
\* remove.
LEMMA OldKillsStep ==
  ASSUME StoreInv, ExactInv, Unstruck', [Next]_vars
  PROVE  OldKills'
<1> USE DEF StoreInv, ExactInv, TypeOK
<1> DEFINE Late == {"scan", "final", "apply", "moved", "check", "clean", "log"}
<1>a. ASSUME cpc' \in Late => cpc \in Late, old' = old,
             \A g \in Frags : Content(g)' \subseteq Content(g)
      PROVE  OldKills'
  BY <1>a DEF OldKills, Takes
<1>b. UNCHANGED <<file, buf>> => \A g \in Frags : Content(g)' = Content(g)
  BY DEF Content
<1>1. CASE UNCHANGED vars
  BY <1>1, <1>a, <1>b
<1>2. CASE LogSteps
  <2>0. UNCHANGED <<cpc, old>>
    BY <1>2, LogFrame
  <2>1. ASSUME NEW f \in Frags, NEW S \in SUBSET mem, Roll(f, S) PROVE OldKills'
    <3>1. /\ f \notin listed /\ buf[f] = {} /\ file[f] = {}
          /\ buf' = [buf EXCEPT ![f] = S] /\ file' = file
      BY <2>1 DEF Roll, Free
    <3>2. /\ Content(f)' = S /\ \A g \in Frags \ {f} : Content(g)' = Content(g)
      BY <3>1 DEF Content
    <3>3. ASSUME cpc \in Late, NEW g \in old, NEW h \in Frags \ old, NEW d \in Content(g)',
                 NEW c \in Content(h)', Takes(d, c)
          PROVE  FALSE
      <4>1. g # f /\ g \in Frags /\ d \in Content(g)
        BY <3>1, <3>2, <3>3 DEF OldInv
      <4>2. d \in added
        BY <4>1, EverDef DEF Content, FragInv, KeptInv
      <4>3. CASE h = f
        BY <3>2, <3>3, <4>2, <4>3 DEF LateInv
      <4>4. CASE h # f
        BY <3>2, <3>3, <4>1, <4>4 DEF OldKills
      <4> QED BY <4>3, <4>4
    <3> QED BY <2>0, <3>3 DEF OldKills, Takes
  <2>2. ASSUME NEW f \in Frags, LogRename(f) PROVE OldKills'
    <3>1. /\ mpc = "own" /\ f \notin listed /\ buf[f] = {} /\ buf' = buf
          /\ file' = [file EXCEPT ![f] = merged]
      BY <2>2 DEF LogRename, Free
    <3>2. /\ Content(f)' = merged /\ \A g \in Frags \ {f} : Content(g)' = Content(g)
      BY <3>1 DEF Content
    <3>3. /\ grp \cap old = {} /\ grp \subseteq Frags
          /\ \A c \in merged : \E g \in grp : c \in file[g]
      BY <3>1 DEF GroupInv, Merge
    <3>4. ASSUME cpc \in Late, NEW g \in old, NEW h \in Frags \ old, NEW d \in Content(g)',
                 NEW c \in Content(h)', Takes(d, c)
          PROVE  FALSE
      <4>1. g # f /\ g \in Frags /\ d \in Content(g)
        BY <3>1, <3>2, <3>4 DEF OldInv
      <4>2. PICK i \in Frags \ old : c \in Content(i)
        BY <3>2, <3>3, <3>4 DEF Content
      <4> QED BY <3>4, <4>1, <4>2 DEF OldKills
    <3> QED BY <2>0, <3>4 DEF OldKills, Takes
  <2>3. ASSUME NEW f \in Frags, Written(f) \/ RemoveFile(f) PROVE OldKills'
    <3>1. \A g \in Frags : Content(g)' \subseteq Content(g)
      BY <2>3 DEF Written, RemoveFile, Content
    <3> QED BY <1>a, <2>0, <3>1
  <2>4. CASE \/ LogMerge \/ LogCancel \/ LogDone
             \/ \E c \in Cells : Add(c)
             \/ \E G \in SUBSET listed : LogCompact(G)
             \/ \E f \in Frags : LogTake(f) \/ LogDiscard(f)
    <3>1. UNCHANGED <<file, buf>>
      BY <2>4 DEF LogMerge, LogCancel, LogDone, Add, LogCompact, LogTake, LogDiscard
    <3> QED BY <1>a, <1>b, <2>0, <3>1
  <2> QED BY <1>2, <2>1, <2>2, <2>3, <2>4 DEF LogSteps
<1>3. CASE Collect
  <2>1. /\ phase = "up" /\ cpc = "collect" /\ mpc = "idle" /\ old' = listed
        /\ UNCHANGED <<file, buf>>
    BY <1>3 DEF Collect
  <2>2. \A h \in Frags \ listed : Content(h) = {}
    BY <2>1 DEF Content, FragInv, GroupInv
  <2> QED BY <1>b, <2>1, <2>2 DEF OldKills
<1>4. CASE CompactSteps /\ ~Collect
  <2>1. UNCHANGED <<file, buf>>
    BY <1>4, CompactFrame
  <2>2. cpc' \in Late => cpc \in Late /\ old' = old
    BY <1>4 DEF CompactSteps, Compact, InitFinalized, ScanCell, ScanFinishing, Finalize,
       Quit, ReplaceBackup, ReplaceMove, ReplaceRead, ReplaceClean, RollbackRemove,
       RollbackRestore, DropFragments, CompactDone, DirsInv
  <2>3. CASE cpc' \in Late
    BY <1>a, <1>b, <2>1, <2>2, <2>3
  <2>4. CASE cpc' \notin Late
    BY <2>4 DEF OldKills
  <2> QED BY <2>3, <2>4
<1>5. CASE LoadNext
  <2>1. cpc' = "idle"
    BY <1>5 DEF LoadNext, Unload, Crash, LoadSetAside, LoadRestore, LoadPlain, LoadRead,
       DownInv
  <2> QED BY <2>1 DEF OldKills
<1> QED BY <1>1, <1>2, <1>3, <1>4, <1>5, UnstruckSteps

LEMMA ExactInit == Init => ExactInv
<1> SUFFICES ASSUME Init PROVE ExactInv
  OBVIOUS
<1> USE DEF Init
<1>1. \A d : d \notin Ever
  BY EverDef
<1>2. KeptInv /\ LateInv
  BY <1>1 DEF KeptInv, LateInv
<1>3. BaseInv
  BY StoreAssumption DEF BaseInv, InBase
<1>4. DiskKills /\ ScanKills /\ NewKills /\ OldKills
  BY DEF DiskKills, ScanKills, NewKills, OldKills
<1> QED BY <1>2, <1>3, <1>4 DEF ExactInv

\* The part of Sure about cut is not regained either.
LEMMA SureStays ==
  ASSUME Sure', [Next]_vars
  PROVE  Sure
<1>0. Unstruck'
  BY DEF Sure, Unstruck
<1>1. Unstruck
  BY <1>0, StruckStays
<1>2. cut => cut'
  <2>1. CASE LogSteps
    BY <2>1 DEF LogSteps, Add, Roll, Written, LogCompact, LogMerge, LogCancel,
       LogRename, LogTake, LogDiscard, LogDone, RemoveFile
  <2>2. CASE CompactSteps
    BY <2>2, CompactFrame
  <2>3. CASE LoadNext
    BY <2>3 DEF LoadNext, Unload, Crash, LoadSetAside, LoadRestore, LoadPlain, LoadRead
  <2> QED BY <1>0, <2>1, <2>2, <2>3, UnstruckSteps
<1> QED BY <1>1, <1>2 DEF Sure, Unstruck

\* What was written is there or was dropped for a removal that is, and nothing
\* else is on the file system, as long as this did no more than let the process be
\* killed.
THEOREM KeptInvariant ==
  Spec => [](Unstruck => StoreInv /\ KeptInv /\ LateInv /\ BaseInv)
<1> DEFINE I == KeptInv /\ LateInv /\ BaseInv
<1>1. (Unstruck => StoreInv) /\ (Unstruck => I) /\ [Next]_vars => (Unstruck => I)'
  <2> SUFFICES ASSUME Unstruck => StoreInv, Unstruck => I, [Next]_vars, Unstruck'
               PROVE  I'
    OBVIOUS
  <2>1. StoreInv /\ I
    BY StruckStays
  <2> QED BY <2>1, KeptStep, BaseStep
<1>2. Init => I
  BY ExactInit DEF ExactInv
<1> QED BY <1>1, <1>2, StoreInvariant, PTL DEF Spec

\* ExactInv holds of a range as long as its file system did no more than let the
\* process be killed, outside of Fragments::remove or where nothing is removed.
THEOREM ExactInvariant == Spec => [](Sure => StoreInv /\ ExactInv)
<1>1. (Unstruck => StoreInv) /\ (Sure => ExactInv) /\ [Next]_vars => (Sure => ExactInv)'
  <2> SUFFICES ASSUME Unstruck => StoreInv, Sure => ExactInv, [Next]_vars, Sure'
               PROVE  ExactInv'
    OBVIOUS
  <2>1. Unstruck' /\ StoreInv /\ ExactInv
    BY SureStays DEF Sure, Unstruck
  <2>2. KeptInv' /\ LateInv' /\ BaseInv'
    BY <2>1, KeptStep, BaseStep DEF ExactInv
  <2>3. DiskKills' /\ ScanKills' /\ NewKills' /\ OldKills'
    BY <2>1, DiskStep, ScanKillsStep, NewKillsStep, OldKillsStep
  <2> QED BY <2>2, <2>3 DEF ExactInv
<1>2. Init => (Sure => ExactInv)
  BY ExactInit
<1>3. Sure => Unstruck
  BY DEF Sure, Unstruck
<1> QED BY <1>1, <1>2, <1>3, StoreInvariant, PTL DEF Spec

\* Rolls, log compactions, range compactions and restarts are invisible to
\* scans: BlockLoader reads from the cell stores, the fragments and m_cells
\* what was written and not lost, no less and no more, for any cells, removals
\* and number of fragments, unless the process was killed in Fragments::remove or
\* the file system failed.
THEOREM ScansSeeExactly == Spec => []ViewExact
<1>1. (Sure => StoreInv /\ ExactInv) => ViewExact
  <2> SUFFICES ASSUME StoreInv, ExactInv, phase = "up"
               PROVE  Visible(View) = Visible(kept)
    BY DEF ViewExact, Sure
  <2>1. KeptInv
    BY DEF ExactInv
  <2> QED BY <2>1, SeesExactly, KeptShows
<1> QED BY <1>1, ExactInvariant, PTL

-----------------------------------------------------------------------------
(***************************************************************************)
(* The range as a set of cells.                                            *)
(***************************************************************************)

\* A file system that does no more than let the process be killed.
LEMMA NoOtherFault ==
  ASSUME Faults \subseteq {"crash"}, Unstruck, [Next]_vars
  PROVE  Unstruck'
<1> USE DEF Unstruck
<1>1. ~ \E f \in Frags : LogTakeMissing(f)
  BY DEF LogTakeMissing, Strike
<1>2. ~ \E c \in Cells : ReplaceReadCorrupt(c) \/ RmdirOne(c)
  BY DEF ReplaceReadCorrupt, RmdirOne, Strike
<1>3. ~ ReplaceReadMissing /\ ~ ReplaceCleanFails
  BY DEF ReplaceReadMissing, ReplaceCleanFails, Strike
<1>4. CASE UNCHANGED vars
  BY <1>4
<1>5. CASE LogSteps
  BY <1>5 DEF LogSteps, Add, Roll, Written, LogCompact, LogMerge, LogCancel,
     LogRename, LogTake, LogDiscard, LogDone, RemoveFile
<1>6. CASE CompactSteps
  BY <1>6, CompactFrame
<1>7. CASE LoadNext
  BY <1>7 DEF LoadNext, Unload, Crash, LoadSetAside, LoadRestore, LoadPlain, LoadRead
<1> QED
  BY <1>1, <1>2, <1>3, <1>4, <1>5, <1>6, <1>7
     DEF Next, LogNext, CompactNext, LogSteps, CompactSteps

\* What a load would read.
LEMMA RecoveredIs ==
  \A c : c \in Recovered <=> InBase(c) \/ \E f \in Frags : c \in file[f]
BY DEF Recovered, InBase

\* A range that is not loaded shows no less than what was written and no more than
\* that and what committed removals take away.
LEMMA DownBounds ==
  ASSUME StoreInv, BaseInv, phase # "up"
  PROVE  /\ Visible(Ever) \subseteq Visible(Recovered)
         /\ \A c \in Recovered : c \in Ever \/ \E d \in durable : Takes(d, c)
         /\ Ever = durable
<1> USE DEF StoreInv, TypeOK
<1>1. Ever = durable
  BY EverDef DEF DownInv
<1>2. ASSUME NEW c \in Recovered
      PROVE  c \in Ever \/ \E d \in durable : Takes(d, c)
  <2>1. CASE InBase(c)
    <3>1. c \in Cells
      BY <2>1 DEF InBase, Dirs
    <3> QED BY <1>1, <2>1, <3>1 DEF BaseInv, Vouched
  <2>2. CASE \E f \in Frags : c \in file[f]
    BY <1>1, <2>2 DEF FragInv
  <2> QED BY <2>1, <2>2, RecoveredIs
<1>3. ASSUME NEW c \in Visible(Ever) PROVE c \in Visible(Recovered)
  <2>1. c \in Recovered
    BY <1>1, RecoveredIs DEF CoverInv
  <2>2. ASSUME NEW d \in Recovered, Takes(d, c) PROVE FALSE
    <3>1. d \in Ever
      BY <1>2, <2>2, NotRemoved
    <3> QED BY <2>2, <3>1 DEF Visible, Takes
  <2> QED BY <2>1, <2>2 DEF Visible, Takes
<1> QED BY <1>1, <1>2, <1>3

LEMMA ShownBounds ==
  ASSUME StoreInv, KeptInv, BaseInv
  PROVE  /\ Visible(kept) \subseteq Shown
         /\ \A c \in Shown : c \in Visible(kept) \/ \E d \in durable : Takes(d, c)
<1>0. Visible(kept) = Visible(Ever)
  BY KeptShows
<1>1. CASE phase = "up"
  <2>1. Shown = Visible(View)
    BY <1>1 DEF Shown
  <2>2. ASSUME NEW c \in Visible(Ever) PROVE c \in Visible(View)
    <3>1. c \in View
      BY <1>1, VisibleSeen
    <3>2. \A d \in View : ~Takes(d, c)
      BY RemovalThere DEF Visible, Takes
    <3> QED BY <3>1, <3>2 DEF Visible, Takes
  <2>3. ASSUME NEW c \in Visible(View)
        PROVE  c \in Visible(Ever) \/ \E d \in durable : Takes(d, c)
    <3>1. c \in View /\ c \notin Removals /\ \A d \in View : ~Takes(d, c)
      BY DEF Visible, Takes
    <3>2. ASSUME NEW d \in Ever, Takes(d, c) PROVE d \in durable
      <4>1. d \notin mem /\ \A f \in Frags : d \notin buf[f]
        BY <3>1, <3>2, ViewIs DEF StoreInv, FragInv, TypeOK
      <4> QED BY <4>1, EverDef
    <3>3. c \in Ever \/ \E d \in durable : Takes(d, c)
      BY <1>1, <3>1, SeenThere
    <3> QED BY <3>1, <3>2, <3>3 DEF Visible, Takes
  <2> QED BY <1>0, <2>1, <2>2, <2>3
<1>2. CASE phase # "up"
  <2>1. Shown = Visible(Recovered)
    BY <1>2 DEF Shown
  <2>2. /\ Visible(Ever) \subseteq Visible(Recovered)
        /\ \A c \in Recovered : c \in Ever \/ \E d \in durable : Takes(d, c)
        /\ Ever = durable
    BY <1>2, DownBounds
  <2> QED BY <1>0, <2>1, <2>2 DEF Visible, Takes
<1> QED BY <1>1, <1>2

\* As long as removals last, it shows just what was written.
LEMMA ShownExact ==
  ASSUME StoreInv, ExactInv
  PROVE  Shown = Visible(kept)
<1>0. KeptInv /\ BaseInv /\ DiskKills
  BY DEF ExactInv
<1>1. CASE phase = "up"
  BY <1>0, <1>1, SeesExactly, KeptShows DEF Shown
<1>2. CASE phase # "up"
  <2>1. Shown = Visible(Recovered)
    BY <1>2 DEF Shown
  <2>2. ASSUME NEW c \in Shown, NEW d \in durable, Takes(d, c) PROVE FALSE
    <3>1. c \in Recovered /\ \A e \in Recovered : ~Takes(e, c)
      BY <2>1 DEF Visible, Takes
    <3>2. c \in Cells /\ cpc = "idle"
      BY <1>2, <2>2, StoreAssumption DEF Takes, StoreInv, DownInv
    <3>3. OnDisk(c)
      BY <3>1, <3>2, RecoveredIs DEF OnDisk
    <3>4. \E g \in Frags : d \in file[g]
      BY <1>0, <2>2, <3>2, <3>3 DEF DiskKills
    <3> QED BY <2>2, <3>1, <3>4, RecoveredIs
  <2> QED BY <1>0, <2>2, ShownBounds
<1> QED BY <1>1, <1>2

\* The abstract specification's words for what a scan returns.
LEMMA ShowsIs ==
  ASSUME NEW S \in SUBSET Cells
  PROVE  /\ Visible(S) = (S \cap Stored!Plain) \ Stored!Taken(S)
         /\ \A c : c \in Stored!Taken(S) <=> \E d \in S : Takes(d, c)
<1>1. \A c \in Cells : c \in Stored!Plain <=> c \notin Removals
  BY StoreAssumption DEF Stored!Plain, Removals
<1>2. \A d, c : Takes(d, c) => c \in Cells /\ c \notin Removals
  BY StoreAssumption DEF Takes, Removals
<1>3. \A c : c \in Stored!Taken(S) <=> \E d \in S : Takes(d, c)
  BY <1>1, <1>2 DEF Stored!Taken, Takes, Stored!Plain
<1>4. \A c : c \in Visible(S) <=> c \in (S \cap Stored!Plain) \ Stored!Taken(S)
  BY <1>1, <1>3 DEF Visible, Takes
<1> QED BY <1>3, <1>4

\* What the range shows, wherever the process and its files are.
ShownInv ==
  /\ TypeOK
  /\ Visible(kept) \subseteq Shown
  /\ \A c \in Shown : c \in Visible(kept) \/ \E d \in durable : Takes(d, c)
  /\ ~Undone => Shown = Visible(kept)

\* Each step is a write, a commit or a crash, or does not show.
LEMMA StepsOfData ==
  ASSUME StoreInv, KeptInv, ShownInv, ShownInv', Unstruck', [Next]_vars
  PROVE  [Stored!Next]_<<kept, durable, Shown, Undone>>
<1> USE DEF StoreInv, TypeOK
<1>0. kept' \in SUBSET Cells /\ durable' \in SUBSET Cells
  BY DEF ShownInv
<1>1. Stored!Shows
  <2>1. Visible(kept') \subseteq Shown'
        /\ (\A c \in Shown' : c \in Visible(kept') \/ \E d \in durable' : Takes(d, c))
        /\ (~Undone' => Shown' = Visible(kept'))
    BY DEF ShownInv, Visible, Takes
  <2>2. Visible(kept') = (kept' \cap Stored!Plain) \ Stored!Taken(kept')
    BY <1>0, ShowsIs
  <2>3. \A c : c \in Stored!Taken(durable') <=> \E d \in durable' : Takes(d, c)
    BY <1>0, ShowsIs
  <2> QED BY <2>1, <2>2, <2>3 DEF Stored!Shows
<1>2. ASSUME NEW c \in Cells, Add(c) PROVE Stored!Write(c)
  <2>1. /\ kept' = kept \cup {c} /\ UNCHANGED <<durable, cut>> /\ c \notin added
        /\ \A d \in added : ~Takes(d, c)
    BY <1>2 DEF Add, Takes
  <2>2. c \notin kept /\ c \notin Stored!Taken(kept)
    BY <2>1, ShowsIs DEF KeptInv
  <2>3. UNCHANGED Undone
    BY <2>1 DEF Undone
  <2> QED BY <1>1, <2>1, <2>2, <2>3 DEF Stored!Write
<1>3. ASSUME NEW f \in Frags, Written(f) PROVE Stored!Commit(buf[f])
  <2>1. durable' = durable \cup buf[f] /\ UNCHANGED <<kept, cut>>
    BY <1>3 DEF Written
  <2>2. buf[f] \subseteq kept
    BY EverDef DEF KeptInv
  <2>3. UNCHANGED Undone
    BY <2>1 DEF Undone
  <2> QED BY <1>1, <2>1, <2>2, <2>3 DEF Stored!Commit
<1>4. ASSUME NEW T \in SUBSET Frags, Crash(T) PROVE Stored!Crash
  <2>1. kept' = durable /\ UNCHANGED durable /\ cut' = (cut \/ cpc = "drop")
    BY <1>4 DEF Crash
  <2>2. Undone' \in {Undone, Kills # {}}
    <3>1. CASE cpc = "drop"
      <4>1. cut' = TRUE
        BY <2>1, <3>1
      <4> QED BY <4>1 DEF Undone
    <3>2. CASE cpc # "drop"
      <4>1. cut' = cut
        BY <2>1, <3>2
      <4> QED BY <4>1 DEF Undone
    <3> QED BY <3>1, <3>2
  <2> QED BY <1>1, <2>1, <2>2 DEF Stored!Crash
<1>5. CASE ~(\E c \in Cells : Add(c)) /\ ~(\E T \in SUBSET Frags : Crash(T))
           /\ ~(\E f \in Frags : Written(f))
  <2>1. UNCHANGED <<kept, durable, cut>>
    <3>1. CASE LogSteps
      BY <1>5, <3>1 DEF LogSteps, Roll, LogCompact, LogMerge, LogCancel, LogRename,
         LogTake, LogDiscard, LogDone, RemoveFile
    <3>2. CASE CompactSteps
      BY <3>2, CompactFrame
    <3>3. CASE LoadNext
      BY <1>5, <3>3 DEF LoadNext, Unload, LoadSetAside, LoadRestore, LoadPlain, LoadRead
    <3> QED BY <3>1, <3>2, <3>3, UnstruckSteps
  <2>2. UNCHANGED Undone
    BY <2>1 DEF Undone
  <2>3. CASE Undone
    BY <1>1, <2>1, <2>2, <2>3 DEF Stored!Next, Stored!Lapse
  <2>4. CASE ~Undone
    BY <2>1, <2>2, <2>4 DEF ShownInv, Visible
  <2> QED BY <2>3, <2>4
<1>6. \A f \in Frags : buf[f] \in SUBSET Cells
  OBVIOUS
<1> QED BY <1>2, <1>3, <1>4, <1>5, <1>6 DEF Stored!Next

\* Where the file system does no more than let the process be killed, the cell
\* stores, the fragments, their compactions and the recovery of CellStore::Readers
\* and Fragments are a set of cells and removals, of which a crash keeps the
\* committed ones and which scans show, but for removals that a crash in
\* Fragments::remove undoes: every step of RangeStore is a step of RangeData or
\* does not show.
THEOREM StoreImplementsData ==
  ASSUME Faults \subseteq {"crash"}
  PROVE  Spec => ImplementsRangeData
<1>1. Init => Unstruck
  BY DEF Init, Unstruck
<1>2. Unstruck /\ [Next]_vars => Unstruck'
  BY NoOtherFault
<1>3. /\ Unstruck => StoreInv /\ KeptInv /\ LateInv /\ BaseInv
      /\ Sure => StoreInv /\ ExactInv
      /\ Unstruck
      => ShownInv
  <2> SUFFICES ASSUME StoreInv, KeptInv, BaseInv, Sure => ExactInv, Unstruck
               PROVE  ShownInv
    OBVIOUS
  <2>1. ~Undone => Sure
    BY DEF Undone, Sure, Unstruck
  <2> QED BY <2>1, ShownBounds, ShownExact DEF ShownInv, StoreInv
<1>4. Init => Stored!Init
  BY StoreAssumption DEF Init, Stored!Init, Shown, Recovered, Undone, Visible
<1>5. StoreInv /\ KeptInv /\ ShownInv /\ ShownInv' /\ Unstruck' /\ [Next]_vars
        => [Stored!Next]_<<kept, durable, Shown, Undone>>
  BY StepsOfData
<1>6. Stored!Init /\ [][Stored!Next]_<<kept, durable, Shown, Undone>>
        => ImplementsRangeData
  BY DEF ImplementsRangeData, Stored!Spec
<1> QED BY <1>1, <1>2, <1>3, <1>4, <1>5, <1>6, KeptInvariant, ExactInvariant, PTL
        DEF Spec

=============================================================================
