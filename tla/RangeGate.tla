----------------------------- MODULE RangeGate -----------------------------
(***************************************************************************)
(* The gate of a ranger's Range (lib/swcdb/ranger/db/Range.cc): which      *)
(* update and scan requests may run against the range while it is loaded,  *)
(* compacted, unloaded or removed.                                         *)
(*                                                                         *)
(* The fields of class Range: m_state, m_compacting, m_adding, m_q_run_add,*)
(* m_q_run_scan and Blocks::m_processing are variables of the same         *)
(* meaning.  m_q_add and m_q_scan are the requests whose place is          *)
(* "queued" (a set: nothing below depends on the order of a queue).        *)
(* A request is one cell; mem is CommitLog's in-memory cells, disk what    *)
(* its fragments hold.                                                     *)
(*                                                                         *)
(* The threads running _run_add_queue are anonymous, so wk counts them by  *)
(* place:                                                                  *)
(*   call     run_add_queue() entered, before m_adding.fetch_add           *)
(*   over     past a fetch_add that met the limit, before its fetch_sub    *)
(*   head     task posted, or at the while condition                       *)
(*   lock     queue seen non-empty, before taking m_mutex                  *)
(*   next     processing incremented, before m_q_add.next()                *)
(*   ending   past the loop, before m_adding.fetch_sub                     *)
(*   recheck  its fetch_sub returned 1, before looking at the queue        *)
(* and a worker that holds a request is the request's own place.           *)
(***************************************************************************)
EXTENDS Integers, FiniteSets

CONSTANTS
  Adds,          \* update requests
  Scans,         \* scan requests
  Concurrency    \* swc.rgr.Range.req.update.concurrency

ASSUME RequestsFinite == IsFiniteSet(Adds) /\ IsFiniteSet(Scans)
ASSUME ConcurrencyPositive == Concurrency \in Nat \ {0}

NONE       == 0
CHECKING   == 1
COMPACTING == 2
PREPARING  == 3
APPLYING   == 4

VARIABLES
  state,       \* m_state
  compacting,  \* m_compacting
  adding,      \* m_adding
  processing,  \* blocks.m_processing
  runAdd,      \* m_q_run_add
  runScan,     \* m_q_run_scan
  wk,          \* threads of run_add_queue / _run_add_queue by place
  upd,         \* place of every update request
  scan,        \* place of every scan request
  drain,       \* tasks of _run_scan_queue: posted, and draining the queue
  cpc,         \* where the compaction of this range is
  back,        \* where a commit-log compaction returns to
  lpc,         \* loads in progress: the first one, and one finding it loaded
  upc,         \* where internal_unload or remove is
  mem,         \* cells only in memory (CommitLog::Fragments::m_cells)
  disk,        \* cells in commit-log fragments
  late,        \* history: updates pushed after wait_queue() had returned
  lapped       \* history: a caller that is "over" was taken for a worker

gate == <<state, compacting, adding, processing, runAdd, runScan>>
vars == <<state, compacting, adding, processing, runAdd, runScan, wk, upd,
          scan, drain, cpc, back, lpc, upc, mem, disk, late, lapped>>

(***************************************************************************)
(* Places.                                                                 *)
(***************************************************************************)
States == {"NOTLOADED", "LOADING", "LOADED", "UNLOADING", "DELETED"}
WkPlaces == {"call", "over", "head", "lock", "next", "ending", "recheck"}
UpdPlaces == {"idle", "checked", "queued", "exec", "applied", "meta",
              "metaRsp", "ok", "err", "dropped"}
ScanPlaces == {"idle", "checked", "queued", "run", "done", "dropped"}
CompactPlaces == {"idle", "check", "log", "logWait", "logApply", "initWait",
                  "initApply", "scan", "endWait", "applyWait", "apply"}

\* Requests being worked on: processing is positive on behalf of each.
Held == {r \in Adds : upd[r] \in {"exec", "applied", "meta", "metaRsp"}}
\* Requests whose worker's unit of m_adding is still theirs.
Tokens == {r \in Adds : upd[r] \in {"exec", "applied", "meta"}}
QAdd == {r \in Adds : upd[r] = "queued"}
QScan == {s \in Scans : scan[s] = "queued"}
Scanning == {s \in Scans : scan[s] = "run"}

\* Places where wait_processing() has returned and the compaction rewrites
\* fragments, cell stores or m_interval.
Window == {"logApply", "initApply", "apply"}

TypeOK ==
  /\ state \in States
  /\ compacting \in NONE..APPLYING
  /\ adding \in Nat
  /\ processing \in Nat
  /\ runAdd \in BOOLEAN
  /\ runScan \in BOOLEAN
  /\ wk \in [WkPlaces -> Nat]
  /\ upd \in [Adds -> UpdPlaces]
  /\ scan \in [Scans -> ScanPlaces]
  /\ drain \in [{"posted", "draining"} -> Nat]
  /\ cpc \in CompactPlaces
  /\ back \in {"idle", "initApply", "scan"}
  /\ lpc \in [{"load", "again"} -> {"idle", "busy", "done"}]
  /\ upc \in {"idle", "wait", "adding", "queues", "processing", "finalize",
              "drop", "done"}
  /\ mem \subseteq Adds
  /\ disk \subseteq Adds
  /\ late \subseteq Adds
  /\ lapped \in BOOLEAN

Init ==
  /\ state = "NOTLOADED"
  /\ compacting = NONE
  /\ adding = 0
  /\ processing = 0
  /\ runAdd = FALSE
  /\ runScan = FALSE
  /\ wk = [p \in WkPlaces |-> 0]
  /\ upd = [r \in Adds |-> "idle"]
  /\ scan = [s \in Scans |-> "idle"]
  /\ drain = [p \in {"posted", "draining"} |-> 0]
  /\ cpc = "idle"
  /\ back = "idle"
  /\ lpc = [l \in {"load", "again"} |-> "idle"]
  /\ upc = "idle"
  /\ mem = {}
  /\ disk = {}
  /\ late = {}
  /\ lapped = FALSE
-----------------------------------------------------------------------------
(***************************************************************************)
(* Range::load ... Range::loaded.  A load of a range that is loaded        *)
(* already ("again", once in the life of the object) only counts itself in *)
(* processing.                                                             *)
(***************************************************************************)
LoadBegin ==
  /\ \/ /\ state = "NOTLOADED"
        /\ upc = "idle"
        /\ lpc["load"] = "idle"
        /\ state' = "LOADING"
        /\ lpc' = [lpc EXCEPT !["load"] = "busy"]
     \/ /\ state = "LOADED"
        /\ upc = "idle"
        /\ lpc["again"] = "idle"
        /\ lpc' = [lpc EXCEPT !["again"] = "busy"]
        /\ UNCHANGED state
  /\ processing' = processing + 1
  /\ UNCHANGED <<compacting, adding, runAdd, runScan, wk, upd, scan, drain,
                 cpc, back, upc, mem, disk, late, lapped>>

\* loaded(err, req): every outcome of taking ownership, reading the data and
\* checking the meta registration ends here.
Loaded(l) ==
  /\ lpc[l] = "busy"
  /\ lpc' = [lpc EXCEPT ![l] = IF l = "load" THEN "idle" ELSE "done"]
  /\ state' \in IF l = "load" /\ state = "LOADING"
                THEN {"LOADED", "NOTLOADED"} ELSE {state}
  /\ processing' = processing - 1
  /\ UNCHANGED <<compacting, adding, runAdd, runScan, wk, upd, scan, drain,
                 cpc, back, upc, mem, disk, late, lapped>>
-----------------------------------------------------------------------------
(***************************************************************************)
(* Updates: the range_query_update handler, Range::add, run_add_queue.     *)
(***************************************************************************)
Moved(from, to) == [wk EXCEPT ![from] = @ - 1, ![to] = @ + 1]
Gone(from) == [wk EXCEPT ![from] = @ - 1]

\* The handler looks the range up and asks is_loaded() before it calls add().
AddChecked(r) ==
  /\ upd[r] = "idle"
  /\ state = "LOADED"
  /\ upd' = [upd EXCEPT ![r] = "checked"]
  /\ UNCHANGED <<gate, wk, scan, drain, cpc, back, lpc, upc, mem, disk, late,
                 lapped>>

AddPush(r) ==
  /\ upd[r] = "checked"
  /\ upd' = [upd EXCEPT ![r] = "queued"]
  /\ wk' = [wk EXCEPT !["call"] = @ + 1]
  /\ late' = IF upc \in {"processing", "finalize", "drop", "done"}
             THEN late \cup {r} ELSE late
  /\ UNCHANGED <<gate, scan, drain, cpc, back, lpc, upc, mem, disk, lapped>>

\* Variant: the limit tested with <=.
RunAddQueueOneMore ==
  /\ wk["call"] > 0
  /\ adding' = adding + 1
  /\ wk' = Moved("call", IF adding <= Concurrency THEN "head" ELSE "over")
  /\ UNCHANGED <<state, compacting, processing, runAdd, runScan, upd, scan,
                 drain, cpc, back, lpc, upc, mem, disk, late, lapped>>

RunAddQueue ==
  /\ wk["call"] > 0
  /\ adding' = adding + 1
  /\ wk' = Moved("call", IF adding < Concurrency THEN "head" ELSE "over")
  /\ lapped' = (lapped \/ (adding >= Concurrency /\ adding = wk["over"]))
  /\ UNCHANGED <<state, compacting, processing, runAdd, runScan, upd, scan,
                 drain, cpc, back, lpc, upc, mem, disk, late>>

RunAddOver ==
  /\ wk["over"] > 0
  /\ adding' = adding - 1
  /\ wk' = Gone("over")
  /\ UNCHANGED <<state, compacting, processing, runAdd, runScan, upd, scan,
                 drain, cpc, back, lpc, upc, mem, disk, late, lapped>>

(***************************************************************************)
(* Range::_run_add_queue, one action per access to shared state.           *)
(***************************************************************************)
WorkerHead ==
  /\ wk["head"] > 0
  /\ wk' = Moved("head", IF QAdd = {} THEN "ending" ELSE "lock")
  /\ UNCHANGED <<gate, upd, scan, drain, cpc, back, lpc, upc, mem, disk, late,
                 lapped>>

\* Variant: the worker leaves without asking for a new one.
WorkerHoldSilent ==
  /\ wk["lock"] > 0
  /\ compacting >= PREPARING
  /\ adding' = adding - 1
  /\ wk' = Gone("lock")
  /\ UNCHANGED <<state, compacting, processing, runAdd, runScan, upd, scan,
                 drain, cpc, back, lpc, upc, mem, disk, late, lapped>>

\* Compaction is preparing or applying: expired requests are deleted without
\* an answer, the others stay, and compacting() is asked to start a worker.
WorkerHold ==
  /\ wk["lock"] > 0
  /\ compacting >= PREPARING
  /\ \E expired \in SUBSET QAdd :
       upd' = [r \in Adds |-> IF r \in expired THEN "dropped" ELSE upd[r]]
  /\ runAdd' = TRUE
  /\ adding' = adding - 1
  /\ wk' = Gone("lock")
  /\ UNCHANGED <<state, compacting, processing, runScan, scan, drain, cpc,
                 back, lpc, upc, mem, disk, late, lapped>>

WorkerEnter ==
  /\ wk["lock"] > 0
  /\ compacting < PREPARING
  /\ processing' = processing + 1
  /\ wk' = Moved("lock", "next")
  /\ UNCHANGED <<state, compacting, adding, runAdd, runScan, upd, scan, drain,
                 cpc, back, lpc, upc, mem, disk, late, lapped>>

WorkerNext ==
  /\ wk["next"] > 0
  /\ \/ /\ QAdd = {}
        /\ processing' = processing - 1
        /\ wk' = Moved("next", "ending")
        /\ UNCHANGED upd
     \/ \E r \in QAdd :
          /\ upd' = [upd EXCEPT ![r] = "exec"]
          /\ wk' = Gone("next")
          /\ UNCHANGED processing
  /\ UNCHANGED <<state, compacting, adding, runAdd, runScan, scan, drain, cpc,
                 back, lpc, upc, mem, disk, late, lapped>>

\* Expired, range not loaded any more, or no cell of the request in the
\* interval: answered with an error, and on to the next request.
AddRefused(r) ==
  /\ upd[r] = "exec"
  /\ upd' = [upd EXCEPT ![r] = "err"]
  /\ processing' = processing - 1
  /\ wk' = [wk EXCEPT !["head"] = @ + 1]
  /\ UNCHANGED <<state, compacting, adding, runAdd, runScan, scan, drain, cpc,
                 back, lpc, upc, mem, disk, late, lapped>>

\* add_logged; when the cell moved the alignment of the interval the answer
\* waits for the registration with the meta range (MetaRegOnAddReq).
AddLogged(r) ==
  /\ upd[r] = "exec"
  /\ state \in {"LOADED", "UNLOADING"}
  /\ mem' = mem \cup {r}
  /\ \E to \in {"applied", "meta"} : upd' = [upd EXCEPT ![r] = to]
  /\ UNCHANGED <<gate, wk, scan, drain, cpc, back, lpc, upc, disk, late,
                 lapped>>

AddAnswered(r) ==
  /\ upd[r] = "applied"
  /\ upd' = [upd EXCEPT ![r] = "ok"]
  /\ processing' = processing - 1
  /\ wk' = [wk EXCEPT !["head"] = @ + 1]
  /\ UNCHANGED <<state, compacting, adding, runAdd, runScan, scan, drain, cpc,
                 back, lpc, upc, mem, disk, late, lapped>>

\* MetaRegOnAddReq::callback: the worker's unit of m_adding goes to a task
\* posted first, then the request is answered.
MetaCallback(r) ==
  /\ upd[r] = "meta"
  /\ upd' = [upd EXCEPT ![r] = "metaRsp"]
  /\ wk' = [wk EXCEPT !["head"] = @ + 1]
  /\ UNCHANGED <<gate, scan, drain, cpc, back, lpc, upc, mem, disk, late,
                 lapped>>

MetaAnswered(r) ==
  /\ upd[r] = "metaRsp"
  /\ \E to \in {"ok", "err"} : upd' = [upd EXCEPT ![r] = to]
  /\ processing' = processing - 1
  /\ UNCHANGED <<state, compacting, adding, runAdd, runScan, wk, scan, drain,
                 cpc, back, lpc, upc, mem, disk, late, lapped>>

WorkerEnd ==
  /\ wk["ending"] > 0
  /\ adding' = adding - 1
  /\ wk' = IF adding = 1 THEN Moved("ending", "recheck") ELSE Gone("ending")
  /\ lapped' = (lapped \/ (/\ QAdd # {}
                           /\ adding > 1
                           /\ wk["over"] = adding - 1))
  /\ UNCHANGED <<state, compacting, processing, runAdd, runScan, upd, scan,
                 drain, cpc, back, lpc, upc, mem, disk, late>>

WorkerRecheck ==
  /\ wk["recheck"] > 0
  /\ wk' = IF QAdd # {} THEN Moved("recheck", "call") ELSE Gone("recheck")
  /\ UNCHANGED <<gate, upd, scan, drain, cpc, back, lpc, upc, mem, disk, late,
                 lapped>>

\* CommitLog::Fragments::commit from the paths above writes the cells in
\* memory to a fragment once they are enough.
Commit ==
  /\ upc # "done"
  /\ mem # {}
  /\ disk' = disk \cup mem
  /\ mem' = {}
  /\ UNCHANGED <<gate, wk, upd, scan, drain, cpc, back, lpc, upc, late,
                 lapped>>
-----------------------------------------------------------------------------
(***************************************************************************)
(* Scans: the range_query_select handler, Range::scan, _run_scan_queue.    *)
(***************************************************************************)
ScanChecked(s) ==
  /\ scan[s] = "idle"
  /\ state = "LOADED"
  /\ scan' = [scan EXCEPT ![s] = "checked"]
  /\ UNCHANGED <<gate, wk, upd, drain, cpc, back, lpc, upc, mem, disk, late,
                 lapped>>

\* A scan that finds others waiting deletes the expired ones.
ScanHeld(s) ==
  /\ scan[s] = "checked"
  /\ compacting = APPLYING
  /\ \E expired \in IF QScan = {} THEN {{}} ELSE SUBSET (QScan \cup {s}) :
       scan' = [x \in Scans |-> IF x \in expired THEN "dropped"
                                ELSE IF x = s THEN "queued" ELSE scan[x]]
  /\ runScan' = TRUE
  /\ UNCHANGED <<state, compacting, adding, processing, runAdd, wk, upd, drain,
                 cpc, back, lpc, upc, mem, disk, late, lapped>>

\* Variant: scans are not held back.
ScanEnterAlways(s) ==
  /\ scan[s] = "checked"
  /\ scan' = [scan EXCEPT ![s] = "run"]
  /\ processing' = processing + 1
  /\ UNCHANGED <<state, compacting, adding, runAdd, runScan, wk, upd, drain,
                 cpc, back, lpc, upc, mem, disk, late, lapped>>

ScanEnter(s) ==
  /\ scan[s] = "checked"
  /\ compacting # APPLYING
  /\ scan' = [scan EXCEPT ![s] = "run"]
  /\ processing' = processing + 1
  /\ UNCHANGED <<state, compacting, adding, runAdd, runScan, wk, upd, drain,
                 cpc, back, lpc, upc, mem, disk, late, lapped>>

ScanDone(s) ==
  /\ scan[s] = "run"
  /\ scan' = [scan EXCEPT ![s] = "done"]
  /\ processing' = processing - 1
  /\ UNCHANGED <<state, compacting, adding, runAdd, runScan, wk, upd, drain,
                 cpc, back, lpc, upc, mem, disk, late, lapped>>

\* Variant: the task does not ask for another when it finds APPLYING.
DrainBeginSilent ==
  /\ drain["posted"] > 0
  /\ compacting = APPLYING \/ compacting = NONE
  /\ drain' = IF compacting = APPLYING
              THEN [drain EXCEPT !["posted"] = @ - 1]
              ELSE [drain EXCEPT !["posted"] = @ - 1, !["draining"] = @ + 1]
  /\ processing' = IF compacting = APPLYING THEN processing ELSE processing + 1
  /\ UNCHANGED <<state, compacting, adding, runAdd, runScan, wk, upd, scan, cpc,
                 back, lpc, upc, mem, disk, late, lapped>>

\* Variant: the task does not count itself in processing.
DrainBeginUncounted ==
  /\ drain["posted"] > 0
  /\ compacting # APPLYING
  /\ drain' = [drain EXCEPT !["posted"] = @ - 1, !["draining"] = @ + 1]
  /\ UNCHANGED <<gate, wk, upd, scan, cpc, back, lpc, upc, mem, disk, late,
                 lapped>>

DrainBegin ==
  /\ drain["posted"] > 0
  /\ IF compacting = APPLYING
     THEN /\ runScan' = TRUE
          /\ drain' = [drain EXCEPT !["posted"] = @ - 1]
          /\ UNCHANGED processing
     ELSE /\ processing' = processing + 1
          /\ drain' = [drain EXCEPT !["posted"] = @ - 1, !["draining"] = @ + 1]
          /\ UNCHANGED runScan
  /\ UNCHANGED <<state, compacting, adding, runAdd, wk, upd, scan, cpc, back,
                 lpc, upc, mem, disk, late, lapped>>

\* One turn of the loop over m_q_scan: an expired scan is deleted, one of a
\* range not loaded is answered with an error, another becomes a task.
DrainPop ==
  /\ drain["draining"] > 0
  /\ \E s \in QScan :
       \/ /\ scan' = [scan EXCEPT ![s] = "dropped"]
          /\ UNCHANGED processing
       \/ /\ state # "LOADED"
          /\ scan' = [scan EXCEPT ![s] = "done"]
          /\ UNCHANGED processing
       \/ /\ state = "LOADED"
          /\ scan' = [scan EXCEPT ![s] = "run"]
          /\ processing' = processing + 1
  /\ UNCHANGED <<state, compacting, adding, runAdd, runScan, wk, upd, drain,
                 cpc, back, lpc, upc, mem, disk, late, lapped>>

DrainEnd ==
  /\ drain["draining"] > 0
  /\ QScan = {}
  /\ drain' = [drain EXCEPT !["draining"] = @ - 1]
  /\ processing' = processing - 1
  /\ UNCHANGED <<state, compacting, adding, runAdd, runScan, wk, upd, scan,
                 cpc, back, lpc, upc, mem, disk, late, lapped>>
-----------------------------------------------------------------------------
(***************************************************************************)
(* Range::compacting(s): set the state and, unless it is APPLYING, start   *)
(* what was held back.                                                     *)
(***************************************************************************)
\* Variant: m_q_run_add and m_q_run_scan are reset whatever the new state.
CompactingForgets(s) ==
  /\ compacting' = s
  /\ runAdd' = FALSE
  /\ runScan' = FALSE
  /\ wk' = IF runAdd /\ s < PREPARING
           THEN [wk EXCEPT !["call"] = @ + 1] ELSE wk
  /\ drain' = IF runScan /\ s # APPLYING
              THEN [drain EXCEPT !["posted"] = @ + 1] ELSE drain

Compacting(s) ==
  LET doAdd  == s # APPLYING /\ runAdd /\ s < PREPARING
      doScan == s # APPLYING /\ runScan
  IN  /\ compacting' = s
      /\ runAdd' = IF doAdd THEN FALSE ELSE runAdd
      /\ runScan' = IF doScan THEN FALSE ELSE runScan
      /\ wk' = IF doAdd THEN [wk EXCEPT !["call"] = @ + 1] ELSE wk
      /\ drain' = IF doScan THEN [drain EXCEPT !["posted"] = @ + 1] ELSE drain

\* compact_possible(minor): the only way out of COMPACT_NONE.
CompactPossible ==
  /\ cpc = "idle"
  /\ state = "LOADED"
  /\ compacting = NONE
  /\ compacting' = CHECKING
  /\ cpc' = "check"
  /\ UNCHANGED <<state, adding, processing, runAdd, runScan, wk, upd, scan,
                 drain, back, lpc, upc, mem, disk, late, lapped>>

\* One call of compacting(s) by the compaction, which goes from one place to
\* the next.
CompactStep(from, s, to) ==
  /\ cpc = from
  /\ cpc' = to
  /\ Compacting(s)
  /\ UNCHANGED <<state, adding, processing, upd, scan, lpc, upc, mem, disk,
                 late, lapped>>

\* The compaction's wait_processing() returns.
WaitProcessing(from, to) ==
  /\ cpc = from
  /\ processing = 0
  /\ cpc' = to
  /\ UNCHANGED <<gate, wk, upd, scan, drain, back, lpc, upc, mem, disk, late,
                 lapped>>

\* Compaction::compact finds nothing to do, Fragments::finish_compact(nullptr)
CompactCancel == CompactStep("check", NONE, "idle") /\ UNCHANGED back

\* CommitLog::Fragments::try_compact starts a Compact of the log alone
LogCompact ==
  /\ \E s \in {COMPACTING, PREPARING} : CompactStep("check", s, "log")
  /\ back' = "idle"

\* CommitLog::Compact::finished, by the last group
LogFinished == CompactStep("log", APPLYING, "logWait") /\ UNCHANGED back
LogWaited == WaitProcessing("logWait", "logApply")

\* Compact::finalized: finish_compact (or CompactRange::quit meanwhile), or
\* the callback of CompactRange that goes on with its scan.
LogFinalized ==
  /\ \/ CompactStep("logApply", NONE, "idle")
     \/ /\ back # "idle"
        /\ \E s \in {COMPACTING, PREPARING} : CompactStep("logApply", s, "scan")
  /\ UNCHANGED back

\* initial_commitlog_done and commitlog_done compact the log once more when
\* many fragments were merged.
LogRepeat ==
  /\ \/ back = "initApply" /\ CompactStep("logApply", PREPARING, "log")
     \/ /\ back = "scan"
        /\ \E s \in {COMPACTING, PREPARING} : CompactStep("logApply", s, "log")
  /\ UNCHANGED back

\* CompactRange::initialize
RangeCompact == CompactStep("check", APPLYING, "initWait") /\ UNCHANGED back
RangeWaited == WaitProcessing("initWait", "initApply")
RangeWaitTimeout == CompactStep("initWait", NONE, "idle") /\ UNCHANGED back

\* An immediate RangeSplit ends the compaction; else the log is compacted
\* first (initial_commitlog) or the scan starts (initial_commitlog_done).
RangeSplitDone == CompactStep("initApply", NONE, "idle") /\ UNCHANGED back
RangeScan ==
  /\ \E s \in {COMPACTING, PREPARING} : CompactStep("initApply", s, "scan")
  /\ UNCHANGED back
InnerLogCompact ==
  /\ cpc \in {"initApply", "scan"}
  /\ cpc' = "log"
  /\ back' = cpc
  /\ UNCHANGED <<gate, wk, upd, scan, drain, lpc, upc, mem, disk, late, lapped>>

\* progress_check_timer and create_cs: compacting_ifnot_applying
RangeMitigate ==
  /\ cpc = "scan" \/ (cpc = "log" /\ back = "scan")
  /\ compacting # APPLYING
  /\ \E s \in {COMPACTING, PREPARING} :
       s # compacting /\ CompactStep(cpc, s, cpc)
  /\ UNCHANGED back

\* CompactRange::response of the last block, then finalize
RangeFinishing == CompactStep("scan", APPLYING, "endWait") /\ UNCHANGED back
RangeFinalize ==
  /\ processing = 0
  /\ CompactStep("endWait", APPLYING, "applyWait")
  /\ UNCHANGED back
RangeApply == WaitProcessing("applyWait", "apply")

\* Compaction::compacted, from finished (after apply_new) or from quit
Compacted ==
  /\ \E from \in {"scan", "endWait", "applyWait", "apply"} :
       CompactStep(from, NONE, "idle")
  /\ UNCHANGED back
-----------------------------------------------------------------------------
(***************************************************************************)
(* Range::internal_unload, Range::internal_remove and Blocks::unload.      *)
(***************************************************************************)
\* The handler's other way in, a range that is not LOADED and whose blocks have
\* a range (Range.cc:443), is the unload of a load that failed, with nothing
\* to wait for: see BadLoad in RangeOwner.
UnloadBegin ==
  /\ upc = "idle"
  /\ state = "LOADED"
  /\ \A l \in DOMAIN lpc : lpc[l] # "busy"
  /\ state' \in {"UNLOADING", "DELETED"}
  /\ upc' = "wait"
  /\ UNCHANGED <<compacting, adding, processing, runAdd, runScan, wk, upd, scan,
                 drain, cpc, back, lpc, mem, disk, late, lapped>>

UnloadStep(from, to) ==
  /\ upc = from
  /\ upc' = to
  /\ UNCHANGED <<compacting, adding, runAdd, runScan, wk, upd, scan, drain, cpc,
                 back, lpc, late, lapped>>

\* Variant: without wait().
UnloadNoWait ==
  /\ UnloadStep("wait", "adding")
  /\ UNCHANGED <<state, processing, mem, disk>>

UnloadWait ==
  /\ compacting = NONE
  /\ UnloadStep("wait", "adding")
  /\ UNCHANGED <<state, processing, mem, disk>>

\* wait_queue reads m_adding, then the two queues, and starts over
UnloadAdding ==
  /\ adding = 0
  /\ UnloadStep("adding", "queues")
  /\ UNCHANGED <<state, processing, mem, disk>>
UnloadQueues ==
  /\ UnloadStep("queues",
                IF QAdd = {} /\ QScan = {} THEN "processing" ELSE "adding")
  /\ UNCHANGED <<state, processing, mem, disk>>

\* Blocks::unload / Blocks::remove
UnloadProcessing ==
  /\ processing = 0
  /\ processing' = 1
  /\ UnloadStep("processing", IF state = "DELETED" THEN "drop" ELSE "finalize")
  /\ UNCHANGED <<state, mem, disk>>
\* Variant: without commit_finalize().
UnloadNoFinalize ==
  /\ UnloadStep("finalize", "drop")
  /\ UNCHANGED <<state, processing, mem, disk>>

UnloadFinalize ==
  /\ UnloadStep("finalize", "drop")
  /\ disk' = disk \cup mem
  /\ mem' = {}
  /\ UNCHANGED <<state, processing>>
UnloadDrop ==
  /\ UnloadStep("drop", "done")
  /\ mem' = {}
  /\ disk' = IF state = "DELETED" THEN {} ELSE disk
  /\ state' = IF state = "DELETED" THEN state ELSE "NOTLOADED"
  /\ processing' = processing - 1
-----------------------------------------------------------------------------
Compaction ==
  \/ CompactCancel \/ LogCompact \/ LogFinished \/ LogWaited \/ LogFinalized
  \/ LogRepeat \/ RangeCompact \/ RangeWaited \/ RangeWaitTimeout \/ RangeSplitDone
  \/ RangeScan \/ InnerLogCompact \/ RangeMitigate \/ RangeFinishing
  \/ RangeFinalize \/ RangeApply \/ Compacted

Unload ==
  \/ UnloadWait \/ UnloadAdding \/ UnloadQueues \/ UnloadProcessing
  \/ UnloadFinalize \/ UnloadDrop

Worker ==
  \/ RunAddQueue \/ RunAddOver \/ WorkerHead \/ WorkerHold \/ WorkerEnter
  \/ WorkerNext \/ WorkerEnd \/ WorkerRecheck

Request(r) ==
  \/ AddPush(r) \/ AddRefused(r) \/ AddLogged(r) \/ AddAnswered(r)
  \/ MetaCallback(r) \/ MetaAnswered(r)

Scanner(s) == ScanHeld(s) \/ ScanEnter(s) \/ ScanDone(s)

Drain == DrainBegin \/ DrainPop \/ DrainEnd

Next ==
  \/ LoadBegin
  \/ \E l \in {"load", "again"} : Loaded(l)
  \/ \E r \in Adds : AddChecked(r) \/ Request(r)
  \/ Worker
  \/ Commit
  \/ \E s \in Scans : ScanChecked(s) \/ Scanner(s)
  \/ Drain
  \/ CompactPossible
  \/ Compaction
  \/ UnloadBegin
  \/ Unload

Spec == Init /\ [][Next]_vars

(***************************************************************************)
(* The thread pools run every posted task, the meta registration retries   *)
(* until it is answered, and a compaction that has begun is carried on:    *)
(* its timers and its scan do not wait for another request.  Strong        *)
(* fairness is for the ends of its two loops: every block scanned and      *)
(* every repetition of a log compaction leaves less of the range to do.    *)
(***************************************************************************)
Fairness ==
  /\ WF_vars(RunAddQueue) /\ WF_vars(RunAddOver) /\ WF_vars(WorkerHead)
  /\ WF_vars(WorkerHold \/ WorkerEnter) /\ WF_vars(WorkerNext)
  /\ WF_vars(WorkerEnd) /\ WF_vars(WorkerRecheck)
  /\ \A r \in Adds : WF_vars(Request(r))
  /\ \A s \in Scans : WF_vars(Scanner(s))
  /\ WF_vars(Drain)
  /\ \A l \in {"load", "again"} : WF_vars(Loaded(l))
  /\ WF_vars(CompactCancel \/ LogCompact \/ RangeCompact)
  /\ WF_vars(LogFinished) /\ WF_vars(LogWaited) /\ SF_vars(LogFinalized)
  /\ WF_vars(RangeWaited \/ RangeWaitTimeout)
  /\ WF_vars(RangeSplitDone \/ RangeScan) /\ SF_vars(RangeFinishing)
  /\ WF_vars(RangeFinalize) /\ WF_vars(RangeApply)
  /\ WF_vars(cpc = "apply" /\ Compacted)
  /\ WF_vars(Unload)

FairSpec == Spec /\ Fairness
-----------------------------------------------------------------------------
(***************************************************************************)
(* Properties.                                                             *)
(***************************************************************************)

\* Once a compaction's wait_processing() has returned and until it leaves
\* COMPACT_APPLYING, no update is between its interval check and its answer
\* and no scan reads blocks ("Compaction won't change m_interval while
\* processing positive", _run_add_queue).
ApplyAlone == cpc \in Window => Held = {} /\ Scanning = {}

\* m_adding never lets more than Concurrency workers run: callers that met
\* the limit are counted for a moment, workers handing a request over to a
\* meta registration keep their unit.
Workers == wk["head"] + wk["lock"] + wk["next"] + wk["ending"]
           + Cardinality(Tokens)
WorkersBounded == Workers <= Concurrency /\ adding = Workers + wk["over"]

\* What makes the two counters exact: every unit of m_adding and of
\* m_processing has an owner, and wait_processing() can only have returned
\* when nobody is past a gate that COMPACT_APPLYING has closed since.
LoadUnits == (IF lpc["load"] = "busy" THEN 1 ELSE 0)
             + (IF lpc["again"] = "busy" THEN 1 ELSE 0)
UnloadUnits == IF upc \in {"finalize", "drop"} THEN 1 ELSE 0
ProcessingCounted ==
  processing = wk["next"] + Cardinality(Held) + Cardinality(Scanning)
               + drain["draining"] + LoadUnits + UnloadUnits
GateClosed ==
  cpc \in Window \cup {"logWait", "initWait", "endWait", "applyWait"}
    => compacting = APPLYING
GateEmpty ==
  cpc \in Window => /\ wk["next"] = 0
                    /\ drain["draining"] = 0
                    /\ Held = {}
                    /\ Scanning = {}
CountInv == TypeOK /\ WorkersBounded /\ ProcessingCounted /\ GateClosed /\ GateEmpty

\* An update left in m_q_add has somebody who will look at the queue again:
\* a worker, a caller, or the compaction that asked for it to be held.  The
\* exception is a caller between its fetch_add and its fetch_sub
\* (run_add_queue) that is counted as a worker: by the last worker, which then
\* does not look again, or by another caller, which then posts no worker.
AddNotStranded ==
  QAdd # {} =>
    \/ Tokens # {}
    \/ \E p \in WkPlaces \ {"over"} : wk[p] > 0
    \/ runAdd /\ compacting >= PREPARING
    \/ lapped

\* A scan left in m_q_scan has a task that will drain the queue, or the
\* compaction that is applying starts one when it ends.
ScanNotStranded ==
  QScan # {} => \/ drain["posted"] + drain["draining"] > 0
                \/ runScan /\ compacting = APPLYING

\* An update answered without error, and pushed before the unload's
\* wait_queue() had returned, is in the log when the range is unloaded.
AckedKept ==
  state # "DELETED" =>
    \A r \in Adds \ late : upd[r] = "ok" => r \in mem \cup disk

\* When Blocks::unload or Blocks::remove drops the content of the range, then
\* wait(), wait_queue() and wait_processing() have in this order left no
\* compaction at work on it, and no update between its interval check and its
\* answer but those pushed late, which are served while UNLOADING
\* (Range.cc:1192).  Scans are not in it: one that the handler or the drain let
\* pass while the range was LOADED may be counted after wait_processing().
UnloadAlone ==
  upc = "drop" => cpc = "idle" /\ Held \subseteq late

\* An unload or a removal that begins ends, unless an update was stranded:
\* wait_queue() then waits for a queue that nobody serves.
UnloadEnds == upc = "wait" ~> (upc = "done" \/ lapped)

\* While compactions do not follow each other for ever, an update that is
\* queued leaves the queue: answered, or deleted expired.
QueuedServed ==
  <>[](cpc = "idle") =>
    /\ \A r \in Adds : upd[r] = "queued" ~> (upd[r] # "queued" \/ lapped)
    /\ \A s \in Scans : scan[s] = "queued" ~> scan[s] # "queued"
=============================================================================
