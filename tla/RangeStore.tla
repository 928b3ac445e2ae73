----------------------------- MODULE RangeStore -----------------------------
(***************************************************************************)
(* What one Range keeps on the file system, and what a restart reads back. *)
(*                                                                         *)
(* A Range's cells are in its cell stores (the directory cs/), in commit   *)
(* log fragments (the files of log/) and in Fragments::m_cells, which only *)
(* memory holds.  Three activities move cells between them:                *)
(*   - a roll takes cells of m_cells into a new fragment and writes it;    *)
(*   - a log compaction (CommitLog::Compact) merges fragments: it writes   *)
(*     the merged one under log_tmp/, renames it into log/, and removes    *)
(*     the ones it merged;                                                 *)
(*   - a range compaction (CompactRange) scans the whole range into new    *)
(*     cell stores under cs_tmp/, swaps directories                        *)
(*     (cs -> cs_bak, cs_tmp -> cs, rmdir cs_bak) and removes the          *)
(*     fragments that were there when it began.                            *)
(* The process may be killed between any two file-system calls; the load   *)
(* that follows first undoes a swap that was cut short.                    *)
(*                                                                         *)
(* Cells are abstract.  Some of them are removals: <<d, c>> \in Kills says *)
(* that d removes c.  A scan, hence a range compaction, yields neither     *)
(* removals nor what they remove (Cells/Mutable.cc:162).                   *)
(***************************************************************************)
EXTENDS FiniteSets, Naturals

CONSTANTS
  Cells,     \* what clients write
  Kills,     \* the pairs <<removal, removed cell>>
  Frags,     \* names of fragment files (bound on fragments alive at once)
  Absent,    \* a directory that does not exist
  Faults     \* what the file system may do besides its job

FaultNames == {"crash", "torn", "rmdir", "noop", "noStore", "noFragment",
               "corrupt"}

\* A removal is not itself removed: what removes c is newer than c.
ASSUME StoreAssumption ==
  /\ Kills \subseteq Cells \X Cells
  /\ \A p, q \in Kills : p[1] # q[2]
  /\ \A S \in SUBSET Cells : S # Absent
  /\ Faults \subseteq FaultNames

VARIABLES
  phase,     \* "down", loading ("swap", "read"), or "up"
  mem,       \* Fragments::m_cells
  buf,       \* fragments being written: their cells, {} for none
  file,      \* the files of log/: their cells, {} for no file
  torn,      \* files of log/ that a crash left half written
  listed,    \* the Fragments vector
  rdr,       \* CellStore::Readers: what the open cell stores hold
  cs, bak, tmp,   \* the directories cs/, cs_bak/ and cs_tmp/
  cpc,       \* place of the range compaction
  old,       \* CompactRange::fragments_old
  scanned,   \* what the compaction's scan has passed
  mpc,       \* place of the log compaction
  grp,       \* Compact::Group::read_frags
  merged,    \* the cells of the fragment file under log_tmp/
  own,       \* that file's name in log/ once renamed: {} or one name
  rem,       \* files whose removal was asked for and is not done
  added,     \* history: every cell a client has written
  kept,      \* history: the cells written and not lost by a crash
  durable,   \* history: the cells that were in a fully written fragment
  cut,       \* history: a crash fell among the removals of fragments_old
  struck     \* history: the faults other than a crash that have happened

disk == <<file, torn, cs, bak, tmp>>
log  == <<mem, buf, listed>>
maj  == <<cpc, old, scanned>>
min  == <<mpc, grp, merged, own>>
hist == <<added, kept, durable, cut, struck>>
vars == <<phase, disk, log, rdr, maj, min, rem, hist>>

Removals == {p[1] : p \in Kills}

\* What a scan of S returns: no removals, nothing that is removed.
Visible(S) ==
  {c \in S : c \notin Removals /\ \A d \in S : <<d, c>> \notin Kills}

\* Cells::Mutable::add_raw keeps the removals and drops what they remove.
Merge(S) == {c \in S : \A d \in S : <<d, c>> \notin Kills}

Content(f) == buf[f] \cup file[f]

\* What BlockLoader reads: cell stores, listed fragments, m_cells.
View == rdr \cup mem \cup UNION {Content(f) : f \in listed}

\* Every cell is in a written fragment: commit_finalize has returned.
Finalized == mem = {} /\ \A f \in Frags : buf[f] = {}

\* No fragment has this name and none is about to.
Free(f) ==
  buf[f] = {} /\ file[f] = {} /\ f \notin listed \cup rem \cup torn \cup own

\* COMPACT_APPLYING: updates and commits wait.
Closed ==
  \/ cpc \in {"init", "final", "apply", "moved", "check", "clean",
              "rollback", "restore", "log", "drop"}
  \/ mpc \in {"own", "read", "drop"}

Dirs == {Absent} \cup SUBSET Cells

\* Types; the names the range compaction and the log compaction go through.
TypeOK ==
  /\ phase \in {"down", "swap", "read", "up"}
  /\ mem \in SUBSET Cells
  /\ buf \in [Frags -> SUBSET Cells]
  /\ file \in [Frags -> SUBSET Cells]
  /\ torn \in SUBSET Frags
  /\ listed \in SUBSET Frags
  /\ rdr \in SUBSET Cells
  /\ cs \in Dirs /\ bak \in Dirs /\ tmp \in Dirs
  /\ cpc \in {"idle", "init", "collect", "scan", "final", "apply", "moved",
              "check", "clean", "rollback", "restore", "log", "drop"}
  /\ old \in SUBSET Frags
  /\ scanned \in SUBSET Cells
  /\ mpc \in {"idle", "merge", "own", "read", "drop"}
  /\ grp \in SUBSET Frags
  /\ merged \in SUBSET Cells
  /\ own \in SUBSET Frags
  /\ rem \in SUBSET Frags
  /\ added \in SUBSET Cells /\ kept \in SUBSET Cells
  /\ durable \in SUBSET Cells
  /\ cut \in BOOLEAN /\ struck \in SUBSET FaultNames
  /\ cpc \in {"idle", "init", "collect"} => old = {} /\ scanned = {}
  /\ mpc = "idle" => grp = {} /\ merged = {} /\ own = {}

\* A new range: an empty cs/ (Range::internal_create_folders), no fragment.
Init ==
  /\ phase = "down"
  /\ mem = {} /\ listed = {} /\ rdr = {} /\ torn = {}
  /\ buf = [f \in Frags |-> {}]
  /\ file = [f \in Frags |-> {}]
  /\ cs = {} /\ bak = Absent /\ tmp = Absent
  /\ cpc = "idle" /\ old = {} /\ scanned = {}
  /\ mpc = "idle" /\ grp = {} /\ merged = {} /\ own = {}
  /\ rem = {}
  /\ added = {} /\ kept = {} /\ durable = {} /\ cut = FALSE
  /\ struck = {}

-----------------------------------------------------------------------------
(***************************************************************************)
(* Updates and rolls.                                                      *)
(***************************************************************************)

\* Blocks::add_logged: a cell joins m_cells; a removal takes what it removes
\* out of there.  The Ranger stamps cells as they come
\* (set_timestamp_with_rev_is_ts), so a cell never comes after its removal.
Add(c) ==
  /\ phase = "up" /\ ~Closed
  /\ c \notin added
  /\ \A d \in added : <<d, c>> \notin Kills
  /\ mem' = Merge(mem \cup {c})
  /\ added' = added \cup {c}
  /\ kept' = kept \cup {c}
  /\ UNCHANGED <<phase, disk, buf, listed, rdr, maj, min, rem, durable, cut,
                 struck>>

\* Fragments::_commit: write_and_free moves some of m_cells to a new
\* fragment, which is listed at once and written by a file-system thread.
Roll(f, S) ==
  /\ phase = "up"
  /\ S # {} /\ S \subseteq mem /\ Free(f)
  /\ mem' = mem \ S
  /\ buf' = [buf EXCEPT ![f] = S]
  /\ listed' = listed \cup {f}
  /\ UNCHANGED <<phase, disk, rdr, maj, min, rem, hist>>

\* Fragment::write's last callback: the file is there, of full length.  An
\* error is retried, but at the shutdown of the server, when the file system
\* has been stopped and the write is given up: for the disk a Crash before it.
Written(f) ==
  /\ phase = "up"
  /\ buf[f] # {}
  /\ file' = [file EXCEPT ![f] = buf[f]]
  /\ buf' = [buf EXCEPT ![f] = {}]
  /\ durable' = durable \cup buf[f]
  /\ UNCHANGED <<phase, torn, cs, bak, tmp, mem, listed, rdr, maj, min, rem,
                 added, kept, cut, struck>>

-----------------------------------------------------------------------------
(***************************************************************************)
(* Log compaction: Compact::Group and Fragments::take_ownership.           *)
(***************************************************************************)

\* try_compact, CompactRange::initial_commitlog, CompactRange::commitlog: a
\* group of fragments, none of fragments_old once the scan has begun.
LogCompact(G) ==
  /\ phase = "up" /\ mpc = "idle" /\ cpc \in {"idle", "collect", "scan"}
  /\ G \subseteq listed \ old
  /\ Cardinality(G) >= 2
  /\ mpc' = "merge" /\ grp' = G
  /\ UNCHANGED <<phase, disk, log, rdr, maj, merged, own, rem, hist>>

\* Group::_loaded for every fragment, then Group::write: a fragment still in
\* writing is loaded once its write ends.
LogMerge ==
  /\ phase = "up" /\ mpc = "merge" /\ \A f \in grp : buf[f] = {}
  /\ merged' = Merge(UNION {file[f] : f \in grp})
  /\ mpc' = "own"
  /\ UNCHANGED <<phase, disk, log, rdr, maj, grp, own, rem, hist>>

\* Group::write failed (error), or the log stops: finalize keeps the group
\* and removes the new fragment.
LogCancel ==
  /\ phase = "up" /\ mpc = "own"
  /\ mpc' = "idle" /\ grp' = {} /\ merged' = {} /\ own' = {}
  /\ UNCHANGED <<phase, disk, log, rdr, maj, rem, hist>>

\* take_ownership: the file under log_tmp/ is renamed to a new name of log/.
LogRename(f) ==
  /\ phase = "up" /\ mpc = "own" /\ Free(f)
  /\ file' = [file EXCEPT ![f] = merged]
  /\ mpc' = "read" /\ own' = {f}
  /\ UNCHANGED <<phase, torn, cs, bak, tmp, log, rdr, maj, grp, merged, rem,
                 hist>>

\* take_ownership: the new fragment's header is read, then under m_mutex it
\* is listed and the group is unlisted; the group's files go one by one.
LogTake(f) ==
  /\ phase = "up" /\ mpc = "read" /\ f \in own
  /\ listed' = (listed \ grp) \cup {f}
  /\ rem' = grp
  /\ mpc' = "drop"
  /\ UNCHANGED <<phase, disk, mem, buf, rdr, maj, grp, merged, own, hist>>

\* take_ownership when the log stops after the rename: the new fragment is
\* removed and the group stays.
LogDiscard(f) ==
  /\ phase = "up" /\ mpc = "read" /\ f \in own
  /\ rem' = own
  /\ mpc' = "drop" /\ grp' = {} /\ merged' = {} /\ own' = {}
  /\ UNCHANGED <<phase, disk, log, rdr, maj, hist>>

\* A fault of the file system, remembered.
Strike(f) ==
  /\ f \in Faults
  /\ struck' = struck \cup {f}
  /\ UNCHANGED <<added, kept, durable, cut>>

\* The header is not found: frags is already empty (the entry was erased
\* before the read), so the branch of success removes the group all the same.
LogTakeMissing(f) ==
  /\ Strike("noFragment")
  /\ phase = "up" /\ mpc = "read" /\ f \in own
  /\ file' = [file EXCEPT ![f] = {}]
  /\ listed' = listed \ grp
  /\ rem' = grp
  /\ mpc' = "drop"
  /\ UNCHANGED <<phase, torn, cs, bak, tmp, mem, buf, rdr, maj, grp, merged,
                 own>>

\* finish_compact, or the callback of the range compaction.
LogDone ==
  /\ phase = "up" /\ mpc = "drop" /\ rem = {}
  /\ mpc' = "idle" /\ grp' = {} /\ merged' = {} /\ own' = {}
  /\ UNCHANGED <<phase, disk, log, rdr, maj, rem, hist>>

\* Fragment::remove: one file is gone.
RemoveFile(f) ==
  /\ phase = "up" /\ f \in rem
  /\ file' = [file EXCEPT ![f] = {}]
  /\ rem' = rem \ {f}
  /\ UNCHANGED <<phase, torn, cs, bak, tmp, log, rdr, maj, min, hist>>

-----------------------------------------------------------------------------
(***************************************************************************)
(* Range compaction: CompactRange, Blocks::apply_new, Readers::replace.    *)
(***************************************************************************)

\* CompactRange::initialize: updates are held, commit_finalize is called.
Compact ==
  /\ phase = "up" /\ cpc = "idle" /\ mpc = "idle"
  /\ cpc' = "init"
  /\ UNCHANGED <<phase, disk, log, rdr, old, scanned, min, rem, hist>>

\* commit_finalize returned; log compactions may follow (initial_commitlog).
InitFinalized ==
  /\ phase = "up" /\ cpc = "init" /\ Finalized
  /\ cpc' = "collect"
  /\ UNCHANGED <<phase, disk, log, rdr, old, scanned, min, rem, hist>>

\* initial_commitlog_done: the fragments that are there are to be removed at
\* the end.
Collect ==
  /\ phase = "up" /\ cpc = "collect" /\ mpc = "idle"
  /\ old' = listed
  /\ cpc' = "scan"
  /\ UNCHANGED <<phase, disk, log, rdr, scanned, min, rem, hist>>

\* The scan passes a cell's key and its cell, if it is visible, goes to a
\* cell store of cs_tmp/.  create_cs clears cs_tmp/ before the first one.
ScanCell(c) ==
  /\ phase = "up" /\ cpc \in {"scan", "final"}
  /\ c \in (Cells \ Removals) \ scanned
  /\ tmp' = (IF scanned = {} THEN {} ELSE tmp) \cup ({c} \cap Visible(View))
  /\ scanned' = scanned \cup {c}
  /\ UNCHANGED <<phase, file, torn, cs, bak, log, rdr, cpc, old, min, rem,
                 hist>>

\* CompactRange::response: the scan has come to the end of what is there;
\* updates are held and commit_finalize is called.  What is still to pass is
\* scanned with updates held.
ScanFinishing ==
  /\ phase = "up" /\ cpc = "scan" /\ mpc = "idle"
  /\ cpc' = "final"
  /\ UNCHANGED <<phase, disk, log, rdr, old, scanned, min, rem, hist>>

\* Variant: commit_finalize is not called before the new cell stores apply.
FinalizeUncommitted ==
  /\ phase = "up" /\ cpc = "final"
  /\ scanned = Cells \ Removals
  /\ tmp' = IF scanned = {} THEN {} ELSE tmp
  /\ cpc' = "apply"
  /\ UNCHANGED <<phase, file, torn, cs, bak, log, rdr, old, scanned, min, rem,
                 hist>>

\* CompactRange::finalize: the last cell store is closed, an empty one is made
\* when there is none, and apply_new begins.
Finalize ==
  /\ phase = "up" /\ cpc = "final" /\ Finalized
  /\ scanned = Cells \ Removals
  /\ tmp' = IF scanned = {} THEN {} ELSE tmp
  /\ cpc' = "apply"
  /\ UNCHANGED <<phase, file, torn, cs, bak, log, rdr, old, scanned, min, rem,
                 hist>>

\* Variant: the fragments collected for removal are not let go.
QuitKeeps ==
  /\ phase = "up" /\ cpc \in {"scan", "final"} /\ mpc = "idle"
  /\ tmp' = IF scanned = {} THEN tmp ELSE Absent
  /\ cpc' = "idle" /\ UNCHANGED <<old, scanned>>
  /\ UNCHANGED <<phase, file, torn, cs, bak, log, rdr, min, rem, hist>>

\* CompactRange::quit, after an error of the scan or of a write.  Before the
\* first new cell store tmp_dir is not set, and what an earlier compaction
\* left in cs_tmp/ stays there.
Quit ==
  /\ phase = "up" /\ cpc \in {"scan", "final"} /\ mpc = "idle"
  /\ tmp' = IF scanned = {} THEN tmp ELSE Absent
  /\ cpc' = "idle" /\ old' = {} /\ scanned' = {}
  /\ UNCHANGED <<phase, file, torn, cs, bak, log, rdr, min, rem, hist>>

\* Readers::replace, rename cs/ to cs_bak/, a cs_bak/ in the way is removed.
ReplaceBackup ==
  /\ phase = "up" /\ cpc = "apply"
  /\ bak' = cs /\ cs' = Absent
  /\ cpc' = "moved"
  /\ UNCHANGED <<phase, file, torn, tmp, log, rdr, old, scanned, min, rem,
                 hist>>

\* Readers::replace, rename cs_tmp/ to cs/.
ReplaceMove ==
  /\ phase = "up" /\ cpc = "moved"
  /\ cs' = tmp /\ tmp' = Absent
  /\ cpc' = "check"
  /\ UNCHANGED <<phase, file, torn, bak, log, rdr, old, scanned, min, rem,
                 hist>>

\* Readers::replace, Read::make of every new cell store.
ReplaceRead ==
  /\ phase = "up" /\ cpc = "check"
  /\ rdr' = cs
  /\ cpc' = "clean"
  /\ UNCHANGED <<phase, disk, log, old, scanned, min, rem, hist>>

\* A cell store does not pass its checksum: load_blocks_index leaves its loop
\* with the error, and its closing fs_if->close(err, smartfd) clears it.
ReplaceReadCorrupt(c) ==
  /\ Strike("corrupt")
  /\ phase = "up" /\ cpc = "check" /\ c \in cs
  /\ cs' = cs \ {c} /\ rdr' = cs'
  /\ cpc' = "clean"
  /\ UNCHANGED <<phase, file, torn, bak, tmp, log, old, scanned, min, rem>>

\* Variant: the open cell stores are replaced before all are read.
ReplaceReadEarly ==
  /\ Strike("noStore")
  /\ phase = "up" /\ cpc = "check"
  /\ rdr' = cs
  /\ cpc' = "rollback"
  /\ UNCHANGED <<phase, disk, log, old, scanned, min, rem>>

\* A cell store's file is not found.
ReplaceReadMissing ==
  /\ Strike("noStore")
  /\ phase = "up" /\ cpc = "check"
  /\ cpc' = "rollback"
  /\ UNCHANGED <<phase, disk, log, rdr, old, scanned, min, rem>>

\* Variant: cs_bak/ is left for the next load to remove.
ReplaceKeepsBackup ==
  /\ phase = "up" /\ cpc = "clean"
  /\ cpc' = "log"
  /\ UNCHANGED <<phase, disk, log, rdr, old, scanned, min, rem, hist>>

\* Readers::replace, rmdir of cs_bak/.
ReplaceClean ==
  /\ phase = "up" /\ cpc = "clean"
  /\ bak' = Absent
  /\ cpc' = "log"
  /\ UNCHANGED <<phase, file, torn, cs, tmp, log, rdr, old, scanned, min, rem,
                 hist>>

\* Nothing is removed, and the error is cleared.
ReplaceCleanFails ==
  /\ Strike("noop")
  /\ phase = "up" /\ cpc = "clean"
  /\ cpc' = "log"
  /\ UNCHANGED <<phase, disk, log, rdr, old, scanned, min, rem>>

\* Readers::replace after an error, rmdir of the new cs/.
RollbackRemove ==
  /\ phase = "up" /\ cpc = "rollback"
  /\ cs' = Absent
  /\ cpc' = "restore"
  /\ UNCHANGED <<phase, file, torn, bak, tmp, log, rdr, old, scanned, min, rem,
                 hist>>

\* Readers::replace after an error, rename cs_bak/ to cs/.  Both calls set
\* err, to OK when they succeed, and replace returns it: apply_new goes on.
RollbackRestore ==
  /\ phase = "up" /\ cpc = "restore"
  /\ cs' = bak /\ bak' = Absent
  /\ cpc' = "log"
  /\ UNCHANGED <<phase, file, torn, tmp, log, rdr, old, scanned, min, rem,
                 hist>>

\* rmdir of cs_bak/ (or of cs/) removes the files one by one.
RmdirOne(c) ==
  /\ Strike("rmdir")
  /\ phase = "up"
  /\ \/ /\ cpc = "clean" /\ bak' = bak \ {c} /\ UNCHANGED cs
     \/ /\ cpc = "rollback" /\ cs' = cs \ {c} /\ UNCHANGED bak
  /\ UNCHANGED <<phase, file, torn, tmp, log, rdr, maj, min, rem>>

\* Variant: what is listed now is removed, not what was there at the start.
DropListed ==
  /\ phase = "up" /\ cpc = "log"
  /\ listed' = {}
  /\ rem' = listed
  /\ cpc' = "drop"
  /\ UNCHANGED <<phase, disk, mem, buf, rdr, old, scanned, min, hist>>

\* Fragments::remove(err, fragments_old): under m_mutex all are unlisted.
DropFragments ==
  /\ phase = "up" /\ cpc = "log"
  /\ listed' = listed \ old
  /\ rem' = old
  /\ cpc' = "drop"
  /\ UNCHANGED <<phase, disk, mem, buf, rdr, old, scanned, min, hist>>

\* sem.wait_all() returned: CompactRange::finished.
CompactDone ==
  /\ phase = "up" /\ cpc = "drop" /\ rem = {}
  /\ cpc' = "idle" /\ old' = {} /\ scanned' = {}
  /\ UNCHANGED <<phase, disk, log, rdr, min, rem, hist>>

-----------------------------------------------------------------------------
(***************************************************************************)
(* Unload, crash and load.                                                 *)
(***************************************************************************)

\* Range::internal_unload: no compaction runs, commit_finalize has returned,
\* and what memory holds is let go.
Unload ==
  /\ phase = "up" /\ cpc = "idle" /\ mpc = "idle" /\ Finalized
  /\ phase' = "down"
  /\ listed' = {} /\ rdr' = {}
  /\ UNCHANGED <<disk, mem, buf, maj, min, rem, hist>>

\* The process is killed: memory is gone, and of each fragment in writing
\* there is nothing, or with "torn" possibly a part, in log/.
Crash(T) ==
  /\ "crash" \in Faults
  /\ phase # "down"
  /\ T \subseteq {f \in Frags : "torn" \in Faults /\ buf[f] # {}}
  /\ torn' = torn \cup T
  /\ phase' = "down"
  /\ mem' = {} /\ listed' = {} /\ rdr' = {}
  /\ buf' = [f \in Frags |-> {}]
  /\ cpc' = "idle" /\ old' = {} /\ scanned' = {}
  /\ mpc' = "idle" /\ grp' = {} /\ merged' = {} /\ own' = {} /\ rem' = {}
  /\ kept' = durable
  /\ cut' = (cut \/ cpc = "drop")
  /\ struck' = IF T = {} THEN struck ELSE struck \cup {"torn"}
  /\ UNCHANGED <<file, cs, bak, tmp, added, durable>>

\* Readers::load_from_path, cs_bak/ exists: what is in cs/ goes to cs_rcvd/.
LoadSetAside ==
  /\ phase = "down" /\ bak # Absent
  /\ cs' = Absent
  /\ phase' = "swap"
  /\ UNCHANGED <<file, torn, bak, tmp, log, rdr, maj, min, rem, hist>>

\* Readers::load_from_path, cs_bak/ becomes cs/.
LoadRestore ==
  /\ phase = "swap"
  /\ cs' = bak /\ bak' = Absent
  /\ phase' = "read"
  /\ UNCHANGED <<file, torn, tmp, log, rdr, maj, min, rem, hist>>

\* Readers::load_from_path, no cs_bak/.
LoadPlain ==
  /\ phase = "down" /\ bak = Absent
  /\ phase' = "read"
  /\ UNCHANGED <<disk, log, rdr, maj, min, rem, hist>>

\* The cell stores of cs/ are opened and the fragments of log/ listed.  A
\* fragment cut short is read again and again: the load does not end.
LoadRead ==
  /\ phase = "read" /\ cs # Absent /\ torn = {}
  /\ rdr' = cs
  /\ listed' = {f \in Frags : file[f] # {}}
  /\ phase' = "up"
  /\ UNCHANGED <<disk, mem, buf, maj, min, rem, hist>>

-----------------------------------------------------------------------------
LogNext ==
  \/ \E c \in Cells : Add(c)
  \/ \E f \in Frags, S \in SUBSET mem : Roll(f, S)
  \/ \E f \in Frags : Written(f)
  \/ \E G \in SUBSET listed : LogCompact(G)
  \/ LogMerge \/ LogCancel
  \/ \E f \in Frags : LogRename(f)
  \/ \E f \in Frags : LogTake(f)
  \/ \E f \in Frags : LogDiscard(f)
  \/ \E f \in Frags : LogTakeMissing(f)
  \/ LogDone
  \/ \E f \in Frags : RemoveFile(f)

CompactNext ==
  \/ Compact \/ InitFinalized \/ Collect
  \/ \E c \in Cells : ScanCell(c)
  \/ ScanFinishing \/ Finalize \/ Quit
  \/ ReplaceBackup \/ ReplaceMove \/ ReplaceRead
  \/ \E c \in Cells : ReplaceReadCorrupt(c)
  \/ ReplaceReadMissing \/ ReplaceClean \/ ReplaceCleanFails
  \/ RollbackRemove \/ RollbackRestore
  \/ \E c \in Cells : RmdirOne(c)
  \/ DropFragments \/ CompactDone

LoadNext ==
  \/ Unload
  \/ \E T \in SUBSET Frags : Crash(T)
  \/ LoadSetAside \/ LoadRestore \/ LoadPlain \/ LoadRead

Next == LogNext \/ CompactNext \/ LoadNext

Spec == Init /\ [][Next]_vars

-----------------------------------------------------------------------------
(***************************************************************************)
(* Properties.                                                             *)
(***************************************************************************)

\* Readers::replace is under way.
Replacing == cpc \in {"moved", "check", "clean", "rollback", "restore"}

\* What a load that starts now reads (Readers::load_from_path and
\* Fragments::load): the backup when there is one, and every fragment.
Recovered ==
  (IF bak # Absent THEN bak ELSE IF cs # Absent THEN cs ELSE {})
    \cup UNION {file[f] : f \in Frags}

\* Killing the process at this very point loses no committed cell: a load
\* can be done, and it reads every cell that was in a written fragment and
\* that no committed removal takes away.  Of a file system that did more
\* than let the process be killed nothing is said.
Recoverable ==
  struck = {} =>
    /\ bak # Absent \/ cs # Absent
    /\ torn = {}
    /\ Visible(durable) \subseteq Recovered

\* Rolls, log compactions, range compactions and restarts are invisible: a
\* scan sees what was written and not lost, no less and no more (unless a
\* crash fell among the removals of fragments_old, or a fault happened).
ViewExact ==
  phase = "up" /\ ~cut /\ struck = {} =>
    Visible(View) = Visible(kept)

\* Except for the time of the swap itself, the open cell stores are those a
\* load would open: what scans read and what a restart reads do not drift
\* apart, whether a compaction was applied, rolled back or given up.  Only a
\* cs_bak/ that could not be removed comes between them.
StoresAgree ==
  "noop" \in struck \/ Replacing \/ phase # "up" \/ (cs = rdr /\ bak = Absent)

\* What a scan returns, or would if the range were loaded now.
Shown == Visible(IF phase = "up" THEN View ELSE Recovered)

\* A crash fell among the removals of fragments_old, one of which may be gone
\* before the cells it removes.
Undone == cut /\ Kills # {}

\* The range as a set of cells, some of them committed (RangeData).
Stored == INSTANCE RangeData WITH
  data <- kept, safe <- durable, shown <- Shown, undone <- Undone

\* The cell stores, the fragments, their compactions and the recovery amount to
\* a set of cells and removals: scans show it whether the range is loaded or to
\* be loaded, and a crash keeps the committed part, but for removals that a
\* crash in Fragments::remove undoes.
ImplementsRangeData == Stored!Spec

-----------------------------------------------------------------------------
(***************************************************************************)
(* The inductive invariant behind Recoverable, as long as nothing happened *)
(* besides that the process was killed.                                    *)
(***************************************************************************)
Unstruck == struck = {}

\* Which directories are there at each place, and who the readers follow.
DirsInv ==
  /\ torn = {}
  /\ cpc \notin {"rollback", "restore"}
  /\ phase = "down" => bak # Absent \/ cs # Absent
  /\ phase = "swap" => bak # Absent /\ cs = Absent
  /\ phase = "read" => bak = Absent /\ cs # Absent
  /\ phase = "up" /\ ~Replacing => bak = Absent /\ cs = rdr
  /\ phase = "up" /\ cpc = "moved" => bak = rdr /\ cs = Absent
  /\ phase = "up" /\ cpc = "check" => bak = rdr /\ cs # Absent
  /\ phase = "up" /\ cpc = "clean" => bak # Absent /\ cs = rdr
  /\ scanned # {} /\ cpc \in {"scan", "final"} => tmp # Absent
  /\ cpc \in {"apply", "moved"} => tmp # Absent

\* The part of it that holds whatever the file system does: a directory
\* that a place of the range compaction needs is there.
PlacesInv ==
  /\ phase # "up" => cpc = "idle"
  /\ phase = "up" /\ cpc \notin {"moved", "restore"} => cs # Absent
  /\ cpc \in {"moved", "check", "clean", "rollback", "restore"} => bak # Absent
  /\ scanned # {} /\ cpc \in {"scan", "final"} => tmp # Absent
  /\ cpc \in {"apply", "moved"} => tmp # Absent

\* Behind StoresAgree: whom the readers follow at each place, as long as a
\* cs_bak/ can be removed.
FollowInv ==
  "noop" \notin struck =>
    /\ phase = "read" => bak = Absent
    /\ phase = "up" /\ ~Replacing => cs = rdr /\ bak = Absent
    /\ phase = "up" /\ cpc = "clean" => cs = rdr
    /\ phase = "up" /\ cpc \in {"moved", "check", "rollback", "restore"} =>
         bak = rdr

\* No cell store holds a removal.
PlainInv ==
  /\ scanned \subseteq Cells \ Removals
  /\ \A r \in Removals :
       /\ r \notin rdr
       /\ cs # Absent => r \notin cs
       /\ bak # Absent => r \notin bak
       /\ tmp # Absent => r \notin tmp

\* A process that is not up has nothing in memory.
DownInv ==
  phase # "up" =>
    /\ cpc = "idle" /\ mpc = "idle"
    /\ mem = {} /\ listed = {} /\ rem = {}
    /\ \A f \in Frags : buf[f] = {}

\* What is known of a fragment in each of its roles.
FragInv ==
  /\ \A f \in Frags : buf[f] # {} => file[f] = {} /\ f \in listed
  /\ \A f \in Frags : file[f] \subseteq durable
  /\ phase = "up" =>
       \A f \in Frags : file[f] # {} => f \in listed \cup rem \cup own
  /\ listed \cap rem = {}
  /\ rem # {} => mpc = "drop" \/ cpc = "drop"

\* The log compaction: its group stays listed until its file is.
GroupInv ==
  /\ cpc \notin {"idle", "collect", "scan"} => mpc = "idle"
  /\ mpc \in {"merge", "own", "read"} => grp \subseteq listed /\ grp \cap old = {}
  /\ mpc \in {"own", "read"} =>
       /\ \A f \in grp : buf[f] = {}
       /\ merged = Merge(UNION {file[f] : f \in grp})
  /\ mpc \notin {"read", "drop"} => own = {}
  /\ mpc = "read" =>
       \A f \in own : file[f] = merged /\ f \notin listed \cup old
  /\ \A f, g \in own : f = g
  /\ mpc = "drop" => own \subseteq listed

\* The range compaction: what it will remove stays listed until then, and
\* once updates are held and commit_finalize returned nothing moves.
OldInv ==
  /\ cpc \in {"scan", "final", "apply", "moved", "check", "clean", "log"} =>
       old \subseteq listed
  /\ cpc \in {"apply", "moved", "check", "clean", "log"} => Finalized

\* A committed, visible cell is in the cell stores a load would open, or in
\* a file that is not about to go.
InBase(c) ==
  IF bak # Absent THEN c \in bak ELSE cs # Absent /\ c \in cs

CoverInv ==
  \A c \in Visible(durable) :
    InBase(c) \/ \E g \in Frags \ rem : c \in file[g]

\* Every cell there is, committed or on its way.
Ever == durable \cup mem \cup UNION {buf[f] : f \in Frags}

\* A cell the scan has passed is in the new cell stores, or came later and
\* is where the end of the compaction leaves it alone.
ScanInv ==
  cpc \in {"scan", "final"} =>
    \A c \in scanned \cap Visible(Ever) :
      c \in tmp \cup mem \/ \E g \in Frags \ (old \cup rem) : c \in Content(g)

\* The new cell stores replace the old ones and fragments_old together.
NewInv ==
  /\ cpc \in {"apply", "moved"} =>
       \A c \in Visible(durable) :
         c \in tmp \/ \E g \in Frags \ old : c \in file[g]
  /\ cpc \in {"check", "clean", "log"} =>
       \A c \in Visible(durable) :
         c \in cs \/ \E g \in Frags \ old : c \in file[g]

StoreInv ==
  /\ TypeOK /\ DirsInv /\ PlainInv /\ DownInv
  /\ FragInv /\ GroupInv /\ OldInv
  /\ CoverInv /\ ScanInv /\ NewInv

=============================================================================
