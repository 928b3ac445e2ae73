----------------------------- MODULE CommitLog ------------------------------
(***************************************************************************)
(* The threads of one commit log: Ranger::CommitLog::Fragments.            *)
(*                                                                         *)
(* Update workers put cells in m_cells and call commit().  Whoever sets    *)
(* m_commit rolls cells into fragments (_commit): a posted task, the       *)
(* release of memory (commit_release), a range compaction or an unload     *)
(* (commit_finalize).  Fragments are written by file-system threads, at    *)
(* most m_sem of them at once.  A log compaction holds m_compacting.       *)
(* commit_finalize, unload and remove wait on m_cv for both flags; some of *)
(* the code that clears a flag notifies, commit() does not.                *)
(*                                                                         *)
(* The range around the log is here as far as the log depends on it: its   *)
(* state, the compaction state that holds updates back, and m_processing,  *)
(* which is the number of threads in a section that is counted in it.      *)
(***************************************************************************)
EXTENDS FiniteSets, Naturals

CONSTANTS
  Updates,    \* the updates, each with one cell to log
  Tasks,      \* threads that may run a posted _commit at once
  Triers,     \* threads that may be in try_compact at once
  Sem         \* size of m_sem: 5 in the code

\* The posted tasks, the range compaction, the release of memory, the unload.
Committers == Tasks \cup {"fin", "rel", "unl"}

\* A log compaction is a thread of its own.
ASSUME LogAssumption ==
  /\ Sem \in Nat \ {0}
  /\ Updates \cap Triers = {}
  /\ Tasks \cap {"fin", "rel", "unl", "cmp"} = {}
  /\ (Updates \cup Triers) \cap (Committers \cup {"cmp"}) = {}

VARIABLES
  pc,         \* where each thread is
  take,       \* the cells of the fragment a thread of _commit has listed
  cells,      \* m_cells
  writing,    \* the fragments in State::WRITING
  commit,     \* m_commit
  compacting, \* m_compacting
  asleep,     \* threads in m_cv.wait that nobody has notified
  stopping, deleting,  \* of Fragments: stopping, m_deleting
  bound,      \* Fragments::range is not null
  state,      \* Range::m_state: LOADED, UNLOADING, NOTLOADED, DELETED
  rc,         \* Range::m_compacting: "none", "check", "log", "range", "apply"
  finishing,  \* the scan of the range compaction is over
  late,       \* history: the updates served after wait_queue had returned
  unheard     \* history: threads of `asleep` since before a commit() cleared
              \* m_commit

data  == <<take, cells, writing, late>>
flags == <<commit, compacting, asleep, unheard, stopping, deleting>>
rng   == <<bound, state, rc, finishing>>
vars  == <<pc, data, flags, rng>>

Threads == Updates \cup Triers \cup Committers \cup {"cmp"}

Go(t, p) == pc' = [pc EXCEPT ![t] = p]

Init ==
  /\ pc = [t \in Threads |-> "idle"]
  /\ take = [t \in Committers |-> {}]
  /\ cells = {} /\ writing = {} /\ late = {}
  /\ commit = FALSE /\ compacting = FALSE /\ asleep = {} /\ unheard = {}
  /\ stopping = FALSE /\ deleting = FALSE
  /\ bound = TRUE /\ state = "LOADED" /\ rc = "none" /\ finishing = FALSE

\* Blocks::m_processing
Processing ==
  {u \in Updates : pc[u] \in {"entered", "add", "commit", "held", "out"}}
    \cup {t \in {"rel"} : pc[t] \notin {"idle", "checked"}}
    \cup {t \in {"unl"} :
            pc[t] \notin {"idle", "flag", "await", "sync", "closed", "done"}}

\* What Blocks::wait_processing waits for.
Synced == Processing = {} /\ ~commit /\ writing = {}

-----------------------------------------------------------------------------
(***************************************************************************)
(* Updates.                                                                *)
(***************************************************************************)

\* Range::_run_add_queue: a worker is counted when no compaction applies.
Enter(u) ==
  /\ pc[u] = "idle" /\ rc # "apply"
  /\ Go(u, "entered")
  /\ UNCHANGED <<data, flags, rng>>

\* An unload has returned from wait_queue.
PastQueue == pc["unl"] \notin {"idle", "flag", "await"}

\* The update is served while the range is loaded or unloading, which it may
\* be past wait_queue() too; else, or when it has expired, it is refused.
Serve(u) ==
  /\ pc[u] = "entered"
  /\ \/ /\ state \in {"LOADED", "UNLOADING"}
        /\ late' = IF PastQueue THEN late \cup {u} ELSE late
        /\ Go(u, "add")
     \/ Go(u, "out") /\ UNCHANGED late
  /\ UNCHANGED <<take, cells, writing, flags, rng>>

\* Fragments::add
Add(u) ==
  /\ pc[u] = "add"
  /\ cells' = cells \cup {u}
  /\ Go(u, "commit")
  /\ UNCHANGED <<take, writing, late, flags, rng>>

\* Fragments::commit, m_commit.running()
CommitTry(u) ==
  /\ pc[u] = "commit"
  /\ commit' = TRUE
  /\ Go(u, IF commit THEN "out" ELSE "held")
  /\ UNCHANGED <<data, compacting, asleep, unheard, stopping, deleting, rng>>

\* Fragments::commit, nothing to roll, or m_mutex_cells is taken: m_commit
\* is cleared and nobody is notified.
CommitSkip(u) ==
  /\ pc[u] = "held"
  /\ commit' = FALSE
  /\ unheard' = asleep
  /\ Go(u, "out")
  /\ UNCHANGED <<data, compacting, asleep, stopping, deleting, rng>>

\* Fragments::commit, _need_roll(): _commit is posted.  With range null the
\* thread faults on range->cfg: it goes no further.
CommitPost(u, k) ==
  /\ pc[u] = "held" /\ cells # {} /\ bound /\ pc[k] = "idle"
  /\ pc' = [pc EXCEPT ![u] = "out", ![k] = "loop"]
  /\ UNCHANGED <<data, flags, rng>>

\* Range::_run_add_queue, MetaRegOnAddReq::callback: processing_decrement
Leave(u) ==
  /\ pc[u] = "out"
  /\ Go(u, "done")
  /\ UNCHANGED <<data, flags, rng>>

-----------------------------------------------------------------------------
(***************************************************************************)
(* Fragments::_commit, by a thread that has set m_commit.                  *)
(***************************************************************************)

\* The head of the loop.  A task goes on while _need_roll, the others
\* until m_cells is empty.
Loop(t) ==
  /\ pc[t] = "loop"
  /\ \/ cells # {} /\ Go(t, "take")
     \/ (cells = {} \/ t \in Tasks) /\ Go(t, "end")
  /\ UNCHANGED <<data, flags, rng>>

\* Variant: the fragment of a range that is being removed is listed too.
TakeListed(t, S) ==
  /\ pc[t] = "take" /\ bound
  /\ S \subseteq cells /\ (S = {} => cells = {})
  /\ cells' = cells \ S
  /\ take' = [take EXCEPT ![t] = S]
  /\ Go(t, IF deleting \/ S = {} THEN "end" ELSE "write")
  /\ UNCHANGED <<writing, late, flags, rng>>

\* Under m_mutex and m_mutex_cells: some cells leave m_cells and, unless the
\* range is being removed, their fragment is listed.  With range null the
\* thread faults on range->cfg: it goes no further.  Fragment::make_write
\* returns a fragment always: the encoder it calls reports no error
\* (core/Encoder.cc:222-255).
Take(t, S) ==
  /\ pc[t] = "take" /\ bound
  /\ S \subseteq cells /\ (S = {} => cells = {})
  /\ cells' = cells \ S
  /\ take' = [take EXCEPT ![t] = IF deleting THEN {} ELSE S]
  /\ Go(t, IF deleting \/ S = {} THEN "end" ELSE "write")
  /\ UNCHANGED <<writing, late, flags, rng>>

\* m_sem.acquire(), Fragment::write
Write(t) ==
  /\ pc[t] = "write"
  /\ Cardinality(writing) < Sem
  /\ writing' = writing \cup {take[t]}
  /\ take' = [take EXCEPT ![t] = {}]
  /\ Go(t, "avail")
  /\ UNCHANGED <<cells, late, flags, rng>>

\* The file is written: m_sem.release().  An error is retried until then.  At
\* the shutdown of the server an error ends the write in the same way, with
\* the cells in no file: RangeStore has that as a kill.
Written(S) ==
  /\ S \in writing
  /\ writing' = writing \ {S}
  /\ UNCHANGED <<pc, take, cells, late, flags, rng>>

\* m_sem.wait_available()
Available(t) ==
  /\ pc[t] = "avail" /\ Cardinality(writing) < Sem
  /\ Go(t, "loop")
  /\ UNCHANGED <<data, flags, rng>>

\* Variant: what is still being written is not waited for.
EndEarly(t) ==
  /\ pc[t] = "end"
  /\ Go(t, "stop")
  /\ UNCHANGED <<data, flags, rng>>

\* if(finalize) m_sem.wait_all()
End(t) ==
  /\ pc[t] = "end" /\ (t \in Tasks \/ writing = {})
  /\ Go(t, "stop")
  /\ UNCHANGED <<data, flags, rng>>

\* m_commit.stop()
Stop(t) ==
  /\ pc[t] = "stop"
  /\ commit' = FALSE
  /\ Go(t, "notify")
  /\ UNCHANGED <<data, compacting, asleep, unheard, stopping, deleting, rng>>

\* Where _commit returns to.  A task goes on to try_compact: see Try.
Return(t) ==
  CASE t = "fin" -> "finalized"
    [] t = "unl" -> "last"
    [] t \in Tasks \cup {"rel"} -> "idle"

\* Variant: m_cv is not notified.
NotifyNobody(t) ==
  /\ pc[t] = "notify"
  /\ Go(t, Return(t))
  /\ UNCHANGED <<data, flags, rng>>

\* m_cv.notify_all() under m_mutex.
Notify(t) ==
  /\ pc[t] = "notify"
  /\ asleep' = {} /\ unheard' = {}
  /\ Go(t, Return(t))
  /\ UNCHANGED <<data, commit, compacting, stopping, deleting, rng>>

-----------------------------------------------------------------------------
(***************************************************************************)
(* Who waits for m_commit and m_compacting.                                *)
(***************************************************************************)

\* The test of both flags under m_mutex, before and in m_cv.wait; it sets
\* m_commit when it passes.
Claim(t, from, sleeping, to) ==
  /\ pc[t] = from \/ (pc[t] = sleeping /\ t \notin asleep)
  /\ IF compacting \/ commit
       THEN asleep' = asleep \cup {t} /\ Go(t, sleeping) /\ UNCHANGED commit
       ELSE commit' = TRUE /\ Go(t, to) /\ UNCHANGED asleep
  /\ UNCHANGED unheard

\* Fragments::commit_finalize
CommitFinalize(t) ==
  /\ t \in {"fin", "unl"}
  /\ Claim(t, "enter", "wait", "loop")
  /\ UNCHANGED <<data, compacting, stopping, deleting, rng>>

\* Column::release: is_loaded() and not compacting().  m_release lets one
\* thread in.
Release ==
  /\ pc["rel"] = "idle" /\ state = "LOADED" /\ rc = "none"
  /\ Go("rel", "checked")
  /\ UNCHANGED <<data, flags, rng>>

\* Blocks::release: processing_increment.
ReleaseEnter ==
  /\ pc["rel"] = "checked"
  /\ Go("rel", "asked")
  /\ UNCHANGED <<data, flags, rng>>

\* Blocks::release: range->compact_apply(), and level 3 goes on.  With range
\* null the thread faults: it goes no further.
ReleaseAsk ==
  /\ pc["rel"] = "asked" /\ bound
  /\ Go("rel", IF rc = "apply" THEN "idle" ELSE "release")
  /\ UNCHANGED <<data, flags, rng>>

\* Variant: m_commit.running() is not tested.
CommitReleaseAlways ==
  /\ pc["rel"] = "release"
  /\ \/ ~compacting /\ commit' = TRUE /\ Go("rel", "loop")
     \/ Go("rel", "idle") /\ UNCHANGED commit
  /\ UNCHANGED <<data, compacting, asleep, unheard, stopping, deleting, rng>>

\* Fragments::commit_release: it does not wait, for a flag or for m_mutex.
CommitRelease ==
  /\ pc["rel"] = "release"
  /\ \/ /\ ~compacting /\ ~commit
        /\ commit' = TRUE /\ Go("rel", "loop")
     \/ Go("rel", "idle") /\ UNCHANGED commit
  /\ UNCHANGED <<data, compacting, asleep, unheard, stopping, deleting, rng>>

-----------------------------------------------------------------------------
(***************************************************************************)
(* Log compactions: try_compact, Compact, finish_compact.                  *)
(***************************************************************************)

\* The callers of try_compact: Compaction::run, the task after _commit, and
\* finish_compact for a repetition.  None of them holds anything that an
\* unload waits for.
Try(t) ==
  /\ pc[t] = "idle"
  /\ Go(t, "try")
  /\ UNCHANGED <<data, flags, rng>>

\* if(stopping || is_low_mem_state()) return
TryCheck(t) ==
  /\ pc[t] = "try"
  /\ \/ ~stopping /\ Go(t, "cas")
     \/ Go(t, "idle")
  /\ UNCHANGED <<data, flags, rng>>

\* m_compacting.compare_exchange_weak
TryClaim(t) ==
  /\ pc[t] = "cas"
  /\ compacting' = TRUE
  /\ Go(t, IF compacting THEN "idle" ELSE "ask")
  /\ UNCHANGED <<data, commit, asleep, unheard, stopping, deleting, rng>>

\* log_compact_possible and range->compact_possible.  With range null the
\* thread faults: it goes no further.
TryPossible(t) ==
  /\ pc[t] = "ask" /\ bound
  /\ \/ state = "LOADED" /\ rc = "none" /\ rc' = "check" /\ Go(t, "need")
     \/ Go(t, "undo") /\ UNCHANGED rc
  /\ UNCHANGED <<data, flags, bound, state, finishing>>

\* _need_compact: a Compact is made, or finish_compact(nullptr).
TryNeed(t) ==
  /\ pc[t] = "need"
  /\ \/ /\ pc' = [pc EXCEPT ![t] = "idle", !["cmp"] = "run"]
        /\ rc' = "log"
     \/ Go(t, "store") /\ UNCHANGED rc
  /\ UNCHANGED <<data, flags, bound, state, finishing>>

\* Compact::finished of the last group: updates are held back.
CompactApply ==
  /\ pc["cmp"] = "run"
  /\ rc' = "apply" /\ Go("cmp", "sync")
  /\ UNCHANGED <<data, flags, bound, state, finishing>>

\* wait_processing, Group::finalize, Compact::finalized
CompactOwn ==
  /\ pc["cmp"] = "sync" /\ Synced
  /\ Go("cmp", "store")
  /\ UNCHANGED <<data, flags, rng>>

\* finish_compact, and try_compact's way out: m_compacting is cleared.
FinishStore(t) ==
  /\ pc[t] \in {"store", "undo"}
  /\ compacting' = FALSE
  /\ Go(t, IF pc[t] = "store" THEN "notice" ELSE "undone")
  /\ UNCHANGED <<data, commit, asleep, unheard, stopping, deleting, rng>>

\* Variant: the way out of try_compact does not notify.
FinishNotifySome(t) ==
  /\ pc[t] \in {"notice", "undone"}
  /\ asleep' = IF pc[t] = "notice" THEN {} ELSE asleep
  /\ unheard' = IF pc[t] = "notice" THEN {} ELSE unheard
  /\ Go(t, IF pc[t] = "notice" THEN "open" ELSE "idle")
  /\ UNCHANGED <<data, commit, compacting, stopping, deleting, rng>>

\* m_cv.notify_all() under m_mutex.
FinishNotify(t) ==
  /\ pc[t] \in {"notice", "undone"}
  /\ asleep' = {} /\ unheard' = {}
  /\ Go(t, IF pc[t] = "notice" THEN "open" ELSE "idle")
  /\ UNCHANGED <<data, commit, compacting, stopping, deleting, rng>>

\* finish_compact: range->compacting(COMPACT_NONE)
FinishOpen(t) ==
  /\ pc[t] = "open"
  /\ rc' = "none" /\ Go(t, "idle")
  /\ UNCHANGED <<data, flags, bound, state, finishing>>

-----------------------------------------------------------------------------
(***************************************************************************)
(* Range compactions, unload and removal, where they meet the log.         *)
(***************************************************************************)

\* CompactRange::initialize: COMPACT_APPLYING.
RangeBegin ==
  /\ pc["fin"] = "idle" /\ state = "LOADED" /\ rc = "none"
  /\ rc' = "apply" /\ Go("fin", "sync")
  /\ UNCHANGED <<data, flags, bound, state, finishing>>

\* CompactRange::response at the end of the scan: COMPACT_APPLYING again.
RangeApply ==
  /\ pc["fin"] = "scan"
  /\ rc' = "apply" /\ finishing' = TRUE /\ Go("fin", "sync")
  /\ UNCHANGED <<data, flags, bound, state>>

\* wait_processing(), and commit_finalize: at the beginning only when
\* cells_count(true) is not zero.
RangeSync ==
  /\ pc["fin"] = "sync" /\ Synced
  /\ Go("fin", IF cells = {} /\ ~finishing THEN "finalized" ELSE "enter")
  /\ UNCHANGED <<data, flags, rng>>

\* initialize gives up after a minute of wait_processing.
RangeTimeout ==
  /\ pc["fin"] = "sync" /\ ~finishing /\ ~Synced
  /\ rc' = "none" /\ Go("fin", "idle")
  /\ UNCHANGED <<data, flags, bound, state, finishing>>

\* commit_finalize returned: the scan runs with updates let in, or the range
\* is split or the new cell stores are applied, and the compaction ends.
RangeGo ==
  /\ pc["fin"] = "finalized"
  /\ \/ ~finishing /\ rc' = "range" /\ Go("fin", "scan")
     \/ rc' = "none" /\ Go("fin", "idle")
  /\ finishing' = FALSE
  /\ UNCHANGED <<data, flags, bound, state>>

\* Range::internal_unload or Range::internal_remove leaves State::LOADED.
UnloadBegin ==
  /\ pc["unl"] = "idle"
  /\ state' \in {"UNLOADING", "DELETED"} /\ Go("unl", "flag")
  /\ UNCHANGED <<data, flags, bound, rc, finishing>>

\* commitlog.stopping.store(true)
UnloadFlag ==
  /\ pc["unl"] = "flag"
  /\ stopping' = TRUE /\ Go("unl", "await")
  /\ UNCHANGED <<data, commit, compacting, asleep, unheard, deleting, rng>>

\* Range::wait_queue: m_adding is zero.  An update that registers its range
\* with the meta range hands its unit of m_adding to a new worker before it
\* commits (MetaRegOnAddReq); it is still counted in m_processing.
NoneAdding == \A u \in Updates : pc[u] \notin {"entered", "add"}

\* Variant: a check for a compaction is not waited for.
UnloadWaitLess ==
  /\ pc["unl"] = "await" /\ rc \in {"none", "check"} /\ NoneAdding
  /\ Go("unl", "sync")
  /\ UNCHANGED <<data, flags, rng>>

\* Range::wait, Range::wait_queue
UnloadWait ==
  /\ pc["unl"] = "await" /\ rc = "none" /\ NoneAdding
  /\ Go("unl", "sync")
  /\ UNCHANGED <<data, flags, rng>>

\* Blocks::unload or Blocks::remove: wait_processing, processing_increment
UnloadSync ==
  /\ pc["unl"] = "sync" /\ Synced
  /\ Go("unl", IF state = "DELETED" THEN "remove" ELSE "enter")
  /\ UNCHANGED <<data, flags, rng>>

\* Fragments::unload: both flags are waited for once more.
UnloadLog ==
  /\ Claim("unl", "last", "lastWait", "clear")
  /\ UNCHANGED <<data, compacting, stopping, deleting, rng>>

\* Fragments::remove: m_deleting is set under the lock of the first test.
RemoveLog ==
  /\ pc["unl"] = "remove"
  /\ deleting' = TRUE
  /\ Claim("unl", "remove", "lastWait", "clear")
  /\ UNCHANGED <<data, compacting, stopping, rng>>

\* Fragments::unload and remove: range = nullptr, m_commit.stop(); the end of
\* Blocks::unload and remove.
UnloadClear ==
  /\ pc["unl"] = "clear"
  /\ deleting => writing = {}
  /\ bound' = FALSE /\ commit' = FALSE
  /\ Go("unl", "closed")
  /\ UNCHANGED <<data, compacting, asleep, unheard, stopping, deleting, state,
                 rc, finishing>>

\* Range::internal_unload: NOTLOADED.  A range that is removed is DELETED.
UnloadEnd ==
  /\ pc["unl"] = "closed"
  /\ state' = IF state = "DELETED" THEN state ELSE "NOTLOADED"
  /\ Go("unl", "done")
  /\ UNCHANGED <<data, flags, bound, rc, finishing>>

-----------------------------------------------------------------------------
UpdateStep(u) ==
  \/ Serve(u) \/ Add(u) \/ CommitTry(u) \/ CommitSkip(u) \/ Leave(u)
  \/ \E k \in Tasks : CommitPost(u, k)

CommitStep(t) ==
  \/ Loop(t) \/ (\E S \in SUBSET cells : Take(t, S)) \/ Write(t)
  \/ Available(t) \/ End(t) \/ Stop(t) \/ Notify(t) \/ CommitFinalize(t)

ReleaseStep == ReleaseEnter \/ ReleaseAsk \/ CommitRelease

TryStep(t) == TryCheck(t) \/ TryClaim(t) \/ TryPossible(t) \/ TryNeed(t)

FinishStep(t) == FinishStore(t) \/ FinishNotify(t) \/ FinishOpen(t)

CompactStep == CompactApply \/ CompactOwn

RangeStep == RangeApply \/ RangeSync \/ RangeTimeout \/ RangeGo

UnloadStep ==
  \/ UnloadFlag \/ UnloadWait \/ UnloadSync \/ UnloadLog \/ RemoveLog
  \/ UnloadClear \/ UnloadEnd

Next ==
  \/ \E u \in Updates : Enter(u) \/ UpdateStep(u)
  \/ \E t \in Committers : CommitStep(t)
  \/ \E S \in writing : Written(S)
  \/ Release \/ ReleaseStep
  \/ \E t \in Triers : Try(t) \/ TryStep(t)
  \/ \E t \in Triers \cup {"cmp"} : FinishStep(t)
  \/ CompactStep \/ RangeBegin \/ RangeStep
  \/ UnloadBegin \/ UnloadStep

Spec == Init /\ [][Next]_vars

-----------------------------------------------------------------------------
(***************************************************************************)
(* Properties.                                                             *)
(***************************************************************************)

\* The places of a thread in _commit.
RollPlaces == {"loop", "take", "write", "avail", "end", "stop", "notify"}

\* The places of each kind of thread.
UpdatePlaces == {"idle", "entered", "add", "commit", "held", "out", "done"}
FinPlaces ==
  {"idle", "sync", "enter", "wait", "finalized", "scan"} \cup RollPlaces
RelPlaces == {"idle", "checked", "asked", "release"} \cup RollPlaces
UnlPlaces ==
  {"idle", "flag", "await", "sync", "enter", "wait", "remove", "last",
   "lastWait", "clear", "closed", "done"} \cup RollPlaces
CmpPlaces == {"idle", "run", "sync", "store", "notice", "open"}
TryPlaces == {"try", "cas", "ask", "need", "undo", "undone"} \cup CmpPlaces

Places ==
  UpdatePlaces \cup FinPlaces \cup RelPlaces \cup UnlPlaces \cup TryPlaces

PlacesOK ==
  /\ pc \in [Threads -> Places]
  /\ \A u \in Updates : pc[u] \in UpdatePlaces
  /\ \A k \in Tasks : pc[k] \in {"idle"} \cup RollPlaces
  /\ \A t \in Triers : pc[t] \in TryPlaces \ {"run", "sync"}
  /\ pc["fin"] \in FinPlaces /\ pc["rel"] \in RelPlaces
  /\ pc["unl"] \in UnlPlaces /\ pc["cmp"] \in CmpPlaces
  /\ rc \in {"none", "check", "log", "range", "apply"}
  /\ state \in {"LOADED", "UNLOADING", "NOTLOADED", "DELETED"}

FlagsOK ==
  /\ commit \in BOOLEAN /\ compacting \in BOOLEAN
  /\ stopping \in BOOLEAN /\ deleting \in BOOLEAN
  /\ bound \in BOOLEAN /\ finishing \in BOOLEAN

DataOK ==
  /\ take \in [Committers -> SUBSET Updates]
  /\ cells \in SUBSET Updates /\ late \in SUBSET Updates
  /\ writing \in SUBSET (SUBSET Updates)
  /\ \A t \in Committers : (take[t] # {}) = (pc[t] = "write")
  /\ \A t \in asleep : t \in {"fin", "unl"} /\ pc[t] \in {"wait", "lastWait"}
  /\ unheard \subseteq asleep

\* Types.  A thread has a fragment in hand only between listing and writing
\* it, and the only sleepers are those that wait.
TypeOK == PlacesOK /\ FlagsOK /\ DataOK

\* The threads that have set m_commit.
HoldPlaces == {"held", "clear"} \cup (RollPlaces \ {"notify"})

Holders == {t \in Threads : pc[t] \in HoldPlaces}

\* m_commit is set exactly while one thread holds it, and never two do: the
\* checks of commit(), commit_release(), commit_finalize(), unload() and
\* remove() exclude each other, and each holder clears it once.
OneCommitter ==
  /\ Holders # {} <=> commit
  /\ \A s, t \in Holders : s = t

\* When commit_finalize returns to a range compaction, every cell that was
\* acknowledged is in a file: the fragments it then collects are the whole
\* log (CompactRange.cc:187, :360).
FinalizeComplete ==
  pc["fin"] = "finalized" => cells = {} /\ writing = {}

\* After an unload nothing was left in memory, and after an unload or a
\* removal no commit, no write and no log compaction is still at work on the
\* log whose range is gone.  Three threads are not waited for, and excepted
\* here: one of try_compact that read `stopping` before it was set, a release
\* of memory that saw the range loaded before it was not, and an update that
\* is served late (Range.cc:1192), whose cell may stay in memory or in a
\* write that goes on.  Before a removal nothing is served late.
UnloadedQuiet ==
  ~bound =>
    /\ deleting \/ cells \subseteq late
    /\ UNION writing \subseteq late /\ Holders \subseteq {"rel"} \cup late
    /\ deleting => late = {}
    /\ pc["cmp"] = "idle"
    /\ \A t \in Triers : pc[t] \notin {"need", "store", "notice", "open"}

\* Who sleeps on m_cv will be notified: a thread that holds a flag and
\* notifies after clearing it is under way.  A late update in commit() is the
\* one holder that does not notify (CommitLog.cc:71): it leaves an unload
\* asleep, and nobody else.
NotStranded ==
  /\ asleep # unheard =>
       \/ \E t \in Committers \ asleep : pc[t] \in RollPlaces
       \/ \E t \in Triers \cup {"cmp"} :
            pc[t] \in {"ask", "need", "undo", "undone", "store", "notice",
                       "run", "sync"}
       \/ \E u \in late : pc[u] = "held"
  /\ unheard # {} => unheard = {"unl"} /\ late # {}

-----------------------------------------------------------------------------
(***************************************************************************)
(* The inductive invariant.                                                *)
(***************************************************************************)

\* The compactions that have Range::m_compacting.
Owners ==
  {t \in Triers : pc[t] \in {"need", "store", "notice", "open"}}
    \cup {t \in {"fin", "cmp"} : pc[t] # "idle"}

\* One compaction at a time has the range, and a range compaction holds
\* updates back except while it scans.
OneCompaction ==
  /\ rc = "none" <=> Owners = {}
  /\ \A s, t \in Owners : s = t
  /\ pc["fin"] \notin {"idle", "scan"} => rc = "apply"

\* A range compaction past wait_processing.
FinAlone == pc["fin"] \notin {"idle", "scan", "sync"}

\* Neither an update nor, beside a range compaction, any other committer is
\* at work then; nor, past the waits of an unload, an update that is not late.
Alone ==
  /\ FinAlone =>
       /\ \A u \in Updates : pc[u] \in {"idle", "done"}
       /\ pc["rel"] \in {"idle", "checked", "asked"}
       /\ Holders \subseteq {"fin"}
  /\ PastQueue =>
       /\ rc = "none"
       /\ \A u \in Updates \ late :
            IF pc["unl"] = "sync" THEN pc[u] # "add"
            ELSE pc[u] \in {"idle", "entered", "out", "done"}
  /\ late # {} => PastQueue /\ state # "DELETED"
  /\ ~bound => Holders \cap Tasks = {}

\* The state of the range at each place of an unload or a removal.
StateOf ==
  /\ state = "LOADED" <=> pc["unl"] = "idle"
  /\ state = "DELETED" =>
       /\ pc["unl"] \in {"flag", "await", "sync", "remove", "lastWait",
                        "clear", "closed", "done"}
       /\ pc["unl"] \in {"lastWait", "clear", "closed", "done"} => deleting
  /\ pc["unl"] = "remove" => state = "DELETED"
  /\ deleting =>
       /\ state = "DELETED"
       /\ pc["unl"] \in {"lastWait", "clear", "closed", "done"}
  /\ bound <=> pc["unl"] \notin {"closed", "done"}

\* Where an unload is when commit_finalize has waited for all writes.
UnlWritten ==
  {"stop", "notify", "last", "lastWait", "clear", "closed", "done"}

\* What a range compaction and an unload have already written out.
WrittenOut ==
  /\ pc["fin"] \in {"end", "stop", "notify", "finalized"} => cells = {}
  /\ pc["fin"] \in {"stop", "notify", "finalized"} => writing = {}
  /\ pc["unl"] \in UnlWritten \cup {"end"} => deleting \/ cells \subseteq late
  /\ pc["unl"] \in UnlWritten =>
       \/ deleting
       \/ /\ \A S \in writing : S \subseteq late
          /\ \A t \in Committers : take[t] \subseteq late
  /\ ~bound => pc["rel"] \notin {"write", "avail"}
  /\ ~bound /\ deleting => writing = {}

\* m_compacting is set only while a thread is to clear it.
CompactingHeld ==
  compacting => \E t \in Triers \cup {"cmp"} :
                  pc[t] \in {"ask", "need", "undo", "store", "run", "sync"}

LogInv ==
  /\ TypeOK /\ OneCommitter /\ OneCompaction /\ Alone /\ StateOf
  /\ WrittenOut /\ CompactingHeld /\ NotStranded

-----------------------------------------------------------------------------
(***************************************************************************)
(* Every thread that can go on does, and every write ends.  A waiter that  *)
(* finds both flags clear again and again gets through: calls of           *)
(* try_compact on one range are seconds apart.                             *)
(***************************************************************************)
Fairness ==
  /\ \A u \in Updates : WF_vars(UpdateStep(u))
  /\ \A t \in Committers : WF_vars(CommitStep(t))
  /\ \A t \in {"fin", "unl"} :
       SF_vars(CommitFinalize(t) /\ ~compacting /\ ~commit)
  /\ SF_vars((UnloadLog \/ RemoveLog) /\ ~compacting /\ ~commit)
  /\ \A S \in SUBSET Updates : WF_vars(Written(S))
  /\ WF_vars(ReleaseStep)
  /\ \A t \in Triers : WF_vars(TryStep(t))
  /\ \A t \in Triers \cup {"cmp"} : WF_vars(FinishStep(t))
  /\ WF_vars(CompactStep) /\ WF_vars(RangeStep) /\ WF_vars(UnloadStep)

FairSpec == Spec /\ Fairness

\* An unload or a removal that has begun comes to its end, unless a late
\* update's commit() left it asleep.
UnloadEnds == pc["unl"] = "flag" ~> pc["unl"] = "done" \/ unheard # {}

\* A commit_finalize that has begun returns.
FinalizeEnds == pc["fin"] = "enter" ~> pc["fin"] = "finalized"

=============================================================================
