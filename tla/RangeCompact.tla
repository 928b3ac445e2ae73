---------------------------- MODULE RangeCompact ----------------------------
(***************************************************************************)
(* One compaction of a range, Ranger::CompactRange: its scans, the three   *)
(* queues that the scanned blocks go through (interval, encode, write),    *)
(* the timer, the new cell stores and their application, and its end, for  *)
(* which finished, quit and Compaction::stop compete.                      *)
(*                                                                         *)
(* Every task, callback and request holds the object by a shared pointer.  *)
(* finalize and completion wait until at most three are left; Refs counts  *)
(* them.  Blocks are numbers, in the order of their keys: what a cell is,  *)
(* and what the files are, is in RangeStore.                               *)
(***************************************************************************)
EXTENDS Naturals, Sequences, FiniteSets

CONSTANTS
  N,           \* bound: blocks of the range
  ReadAhead,   \* swc.rgr.compaction.read.ahead
  Threads,     \* size of the maintenance pool
  MaxFaults    \* bound on errors

ASSUME CompactAssumption ==
  /\ N \in Nat /\ MaxFaults \in Nat
  /\ ReadAhead \in Nat \ {0} /\ Threads \in Nat \ {0}

Last == N + 1                          \* the InBlock with is_last
Stages == {"intval", "encode", "write"}
Passing == {"intval", "encode"}        \* stages that pass a block on
After(s) == IF s = "intval" THEN "encode" ELSE "write"

VARIABLES
  stopped, chkFinal,  \* m_stopped, m_chk_final
  get, processing,    \* m_get, m_processing
  q,                  \* m_q_intval, m_q_encode, m_q_write
  run, hold,          \* the task that a queue's first item is with; its item
                      \* when it has been popped and others are behind it
  out,                \* items of tasks that found their queue empty
  tails,              \* tasks of the write stage in the same place
  scan, more,         \* the scan and its log compaction; ends of the latter
  timer,              \* m_chk_timer and its handler
  init, quitter, mng, unl, done,  \* initialize, the task of response with an
                      \* error, the request or update under way, the one for
                      \* the new range of a split, TaskFinished
  ending,             \* who is in completion
  stopper,            \* Compaction::stop
  dflt, gate,         \* state_default, Range::m_compacting
  scanned, bad, written, tmp,  \* blocks scanned, those that do not encode,
                      \* those in the new cell stores, in cs_tmp
  applied,            \* the new cell stores are the range's
  listed, ended,      \* in Compaction::m_compacting; ends counted there
  loaded,             \* Range::is_loaded
  fin,                \* the scan has come to the end of the range
  passed,             \* history: a block was passed by a later one
  faults

ends  == <<stopped, chkFinal, timer, ending>>
flow  == <<get, processing, scan, more>>
pipe  == <<q, run, hold, out, tails>>
reqs  == <<init, quitter, mng, unl, done, stopper>>
range == <<dflt, gate, fin, loaded>>
cells == <<scanned, bad, written, tmp, applied>>
book  == <<listed, ended, passed, faults>>
vars  == <<ends, flow, pipe, reqs, range, cells, book>>

Enders == {"init", "quitter", "write", "mng", "done", "stopper"}
States == {"NONE", "COMPACTING", "PREPARING", "APPLYING"}

TypeOK ==
  /\ stopped \in BOOLEAN /\ chkFinal \in BOOLEAN /\ get \in BOOLEAN
  /\ processing \in 0 .. N
  /\ q \in [Stages -> Seq(1 .. Last)]
  /\ run \in [Stages -> {"idle", "posted", "work", "hand", "wrote", "more",
                         "final", "apply", "quit"}]
  /\ hold \in [Passing -> 0 .. Last]
  /\ out \in [Passing -> SUBSET (1 .. Last)]
  /\ tails \in Nat /\ more \in Nat
  /\ scan \in {"none", "posted", "scan", "finish", "log"}
  /\ timer \in {"none", "set", "aborted", "check", "rearm"}
  /\ init \in {"none", "posted", "wait", "split", "log", "end"}
  /\ quitter \in {"none", "posted", "quit"}
  /\ mng \in {"none", "create", "split", "apply", "meta", "quit"}
  /\ unl \in {"none", "meta"}
  /\ done \in {"none", "posted", "end"}
  /\ ending \in Enders \cup {"none"}
  /\ stopper \in {"none", "pick", "req", "quit", "tried", "wait", "end"}
  /\ dflt \in States /\ gate \in States
  /\ scanned \in 0 .. N /\ bad \subseteq 1 .. N
  /\ written \in Seq(1 .. N)
  /\ tmp \in BOOLEAN /\ applied \in BOOLEAN /\ listed \in BOOLEAN
  /\ ended \in Nat /\ loaded \in BOOLEAN /\ fin \in BOOLEAN
  /\ passed \in BOOLEAN /\ faults \in 0 .. MaxFaults

\* Compaction::compact: the object is in m_compacting, initialize is posted.
Init ==
  /\ stopped = FALSE /\ chkFinal = FALSE /\ get = TRUE /\ processing = 0
  /\ q = [s \in Stages |-> <<>>] /\ run = [s \in Stages |-> "idle"]
  /\ hold = [s \in Passing |-> 0] /\ out = [s \in Passing |-> {}]
  /\ tails = 0 /\ scan = "none" /\ more = 0 /\ timer = "none"
  /\ init = "posted" /\ quitter = "none" /\ mng = "none" /\ unl = "none"
  /\ done = "none" /\ ending = "none" /\ stopper = "none"
  /\ dflt = "COMPACTING" /\ gate = "COMPACTING" /\ fin = FALSE
  /\ scanned = 0 /\ bad = {} /\ written = <<>> /\ tmp = FALSE
  /\ applied = FALSE /\ listed = TRUE /\ ended = 0 /\ loaded = TRUE
  /\ passed = FALSE /\ faults = 0

Fault == faults < MaxFaults /\ faults' = faults + 1

One(p) == IF p THEN 1 ELSE 0

\* The use count of the shared pointer: m_compacting, each task, callback and
\* request, and the ptr of a wait in finalize or completion.
Refs ==
  One(listed) + One(init # "none") + One(scan # "none") + more + tails
  + One(timer # "none") + One(quitter # "none") + One(mng # "none")
  + One(unl # "none") + One(done # "none") + One(ending # "none")
  + One(stopper \in {"req", "quit"})
  + One(run["write"] = "final")
  + Cardinality({s \in Stages : run[s] # "idle"})
  + Cardinality(out["intval"]) + Cardinality(out["encode"])

\* Threads of the maintenance pool in use.
Busy ==
  One(init \in {"wait", "split", "end"}) + One(quitter = "quit")
  + One(done = "end") + tails
  + Cardinality({s \in Stages : run[s] \notin {"idle", "posted"}})
  + Cardinality(out["intval"]) + Cardinality(out["encode"])

Free == Busy < Threads

-----------------------------------------------------------------------------
(***************************************************************************)
(* Parts of steps.                                                         *)
(***************************************************************************)

\* stop_check_timer
StopTimer ==
  /\ chkFinal' = TRUE
  /\ timer' = IF timer = "set" /\ ~chkFinal THEN "aborted" ELSE timer

\* request_more: a scan is posted unless one is under way, blocks enough are
\* on their way, or memory is short.
RequestMore ==
  \/ /\ get \/ stopped \/ processing > 0
     /\ UNCHANGED <<get, scan>>
  \/ /\ ~get /\ ~stopped /\ (processing = 0 \/ processing < ReadAhead)
     /\ get' = TRUE /\ scan' = "posted"

\* QueuePointer::push_and_is_1st of b, and the task posted for a first item.
\* r is run as the step leaves it otherwise.
Push(s, b, r) ==
  /\ q' = [q EXCEPT ![s] = Append(@, b)]
  /\ run' = IF q[s] = <<>> THEN [r EXCEPT ![s] = "posted"] ELSE r

\* Compaction::compacted: m_compacting, m_running.
Compacted ==
  /\ gate' = "NONE" /\ listed' = FALSE /\ ended' = ended + One(listed)

\* completion: the first one in goes on to wait, the others return.
Enter(w) ==
  \/ /\ ~stopped /\ stopped' = TRUE /\ StopTimer /\ ending' = w
  \/ /\ stopped /\ UNCHANGED <<stopped, chkFinal, timer, ending>>

Goes(p) == IF stopped THEN "none" ELSE p
WriteQuits == run' = [run EXCEPT !["write"] = IF stopped THEN "idle" ELSE "quit"]

-----------------------------------------------------------------------------
(***************************************************************************)
(* initialize                                                              *)
(***************************************************************************)

Initialize ==
  /\ init = "posted" /\ Free
  /\ init' = "wait" /\ gate' = "APPLYING"
  /\ UNCHANGED <<ends, flow, pipe, quitter, mng, unl, done, stopper, dflt, fin,
                 loaded, cells, book>>

\* Blocks::wait_processing gives up.
InitTimeout ==
  /\ init = "wait" /\ Fault
  /\ init' = "none" /\ Compacted
  /\ UNCHANGED <<ends, flow, pipe, quitter, mng, unl, done, stopper, dflt, fin,
                 loaded, cells, passed>>

\* commit_finalize, and whether the cell stores are to be split at once.
InitWaited ==
  /\ init = "wait" /\ init' \in {"split", "log"}
  /\ UNCHANGED <<ends, flow, pipe, quitter, mng, unl, done, stopper, range,
                 cells, book>>

\* RangeSplit::run: finished, or it is refused.
InitSplit ==
  /\ init = "split"
  /\ \/ /\ Enter("init") /\ init' = Goes("end")
     \/ /\ init' = "log" /\ UNCHANGED <<stopped, chkFinal, timer, ending>>
  /\ UNCHANGED <<flow, pipe, quitter, mng, unl, done, stopper, range, cells,
                 book>>

\* initial_commitlog, done: the log is compacted again.
InitLogAgain ==
  /\ init = "log" /\ ~stopped
  /\ gate' = "PREPARING"
  /\ UNCHANGED <<ends, flow, pipe, reqs, dflt, fin, loaded, cells, book>>

\* initial_commitlog_done and the first call of progress_check_timer.
InitDone ==
  /\ init = "log" /\ init' = "none"
  /\ \/ stopped /\ UNCHANGED <<gate, timer, scan>>
     \/ /\ ~stopped
        /\ gate' \in {dflt, "PREPARING"}
        /\ timer' = "set" /\ scan' = "scan"
  /\ UNCHANGED <<stopped, chkFinal, ending, get, processing, more, pipe,
                 quitter, mng, unl, done, stopper, dflt, fin, loaded, cells,
                 book>>

-----------------------------------------------------------------------------
(***************************************************************************)
(* Scans.                                                                  *)
(***************************************************************************)

ScanStart ==
  /\ scan = "posted" /\ Free
  /\ scan' = "scan"
  /\ UNCHANGED <<ends, get, processing, more, pipe, reqs, range, cells, book>>

\* response of a compaction that was stopped, or of an error: quit is posted.
ResponseEnd ==
  /\ scan = "scan" /\ scan' = "none"
  /\ \/ stopped /\ UNCHANGED <<quitter, faults>>
     \/ /\ ~stopped /\ quitter' = "posted"
        /\ Fault \/ (~loaded /\ UNCHANGED faults)
  /\ UNCHANGED <<ends, get, processing, more, pipe, init, mng, unl, done,
                 stopper, range, cells, listed, ended, passed>>

\* A block goes to the first queue.
Block ==
  /\ scanned < N
  /\ scanned' = scanned + 1 /\ processing' = processing + 1
  /\ Push("intval", scanned + 1, run)

\* response: the block is full.
Response ==
  /\ scan = "scan" /\ ~stopped
  /\ Block /\ scan' = "log"
  /\ UNCHANGED <<ends, get, more, hold, out, tails, reqs, range, bad, written,
                 tmp, applied, book>>

\* response: the end of the range is reached.
Finishing ==
  /\ scan = "scan" /\ ~stopped
  /\ scan' = "finish" /\ StopTimer
  /\ dflt' = "APPLYING" /\ gate' = "APPLYING" /\ fin' = TRUE
  /\ UNCHANGED <<stopped, ending, get, processing, more, pipe, reqs, loaded,
                 cells, book>>

\* Variant: at the end of the range the block at hand is not passed on.
FinishedDrops ==
  /\ scan = "finish" /\ scan' = "none"
  /\ scanned < N /\ scanned' = scanned + 1
  /\ Push("intval", Last, run)
  /\ UNCHANGED <<ends, get, processing, more, hold, out, tails, reqs, range,
                 bad, written, tmp, applied, book>>

\* wait_processing and commit_finalize have ended: what there is is a block and
\* the scan goes on from its last cell, or is_last goes to the queue.
Finished ==
  /\ scan = "finish" /\ scan' = "none"
  /\ \/ /\ Block
        /\ \/ stopped /\ UNCHANGED <<get, more>>
           \/ ~stopped /\ get' = FALSE /\ more' = more + 1
     \/ /\ Push("intval", Last, run)
        /\ UNCHANGED <<scanned, processing, get, more>>
  /\ UNCHANGED <<ends, hold, out, tails, reqs, range, bad, written, tmp,
                 applied, book>>

\* commitlog_done of a log compaction: updates are held back, or let in.
LogCompacted ==
  /\ scan = "log" /\ ~stopped /\ ~chkFinal
  /\ \/ /\ StopTimer /\ dflt' = "PREPARING" /\ gate' = "PREPARING"
     \/ /\ gate' \in {"PREPARING", dflt} /\ UNCHANGED <<chkFinal, timer, dflt>>
  /\ UNCHANGED <<stopped, ending, flow, pipe, reqs, fin, loaded, cells, book>>

\* commitlog, commitlog_done: no more to compact, m_get is given back.
LogDone ==
  /\ scan = "log" /\ scan' = "none"
  /\ \/ stopped /\ UNCHANGED <<get, more>>
     \/ ~stopped /\ get' = FALSE /\ more' = more + 1
  /\ UNCHANGED <<ends, processing, pipe, reqs, range, cells, book>>

More ==
  /\ more > 0 /\ more' = more - 1 /\ RequestMore
  /\ UNCHANGED <<ends, processing, pipe, reqs, range, cells, book>>

\* progress_check_timer, from its handler.
TimerFires ==
  /\ \/ timer = "set" /\ timer' = (IF stopped \/ chkFinal THEN "none" ELSE "check")
     \/ timer = "aborted" /\ timer' = "none"
  /\ UNCHANGED <<stopped, chkFinal, ending, flow, pipe, reqs, range, cells,
                 book>>

\* Variant: the state is set whatever it was.
TimerSets ==
  /\ timer = "check" /\ timer' = "rearm"
  /\ gate' \in {"PREPARING", dflt} /\ RequestMore
  /\ UNCHANGED <<stopped, chkFinal, ending, processing, more, pipe, reqs, dflt,
                 fin, loaded, cells, book>>

\* Range::compacting_ifnot_applying, and request_more.
TimerChecks ==
  /\ timer = "check" /\ timer' = "rearm"
  /\ \/ gate = "APPLYING" /\ UNCHANGED <<gate, get, scan>>
     \/ gate # "APPLYING" /\ gate' \in {"PREPARING", dflt} /\ RequestMore
  /\ UNCHANGED <<stopped, chkFinal, ending, processing, more, pipe, reqs, dflt,
                 fin, loaded, cells, book>>

TimerRearms ==
  /\ timer = "rearm"
  /\ timer' = IF stopped \/ chkFinal THEN "none" ELSE "set"
  /\ UNCHANGED <<stopped, chkFinal, ending, flow, pipe, reqs, range, cells,
                 book>>

-----------------------------------------------------------------------------
(***************************************************************************)
(* process_interval, process_encode: the first item is worked on in the    *)
(* queue, popped, and then pushed to the next queue.                       *)
(***************************************************************************)

StageStart(s) ==
  /\ run[s] = "posted" /\ Free
  /\ run' = [run EXCEPT ![s] = "work"]
  /\ UNCHANGED <<ends, flow, q, hold, out, tails, reqs, range, cells, book>>

Pop(s) ==
  LET b == Head(q[s]) IN
  /\ run[s] = "work"
  /\ IF b = Last THEN UNCHANGED <<get, scan>> ELSE RequestMore
  /\ \/ s = "encode" /\ b # Last /\ Fault /\ bad' = bad \cup {b}
     \/ UNCHANGED <<bad, faults>>
  /\ q' = [q EXCEPT ![s] = Tail(@)]
  /\ \/ /\ Len(q[s]) > 1 /\ ~stopped
        /\ run' = [run EXCEPT ![s] = "hand"]
        /\ hold' = [hold EXCEPT ![s] = b] /\ UNCHANGED out
     \/ /\ Len(q[s]) = 1 \/ stopped
        /\ run' = [run EXCEPT ![s] = "idle"]
        /\ out' = [out EXCEPT ![s] = @ \cup {b}] /\ UNCHANGED hold
  /\ UNCHANGED <<ends, processing, more, tails, reqs, range, scanned, written,
                 tmp, applied, listed, ended, passed>>

\* The task has more to do.
PushHand(s) ==
  /\ run[s] = "hand"
  /\ Push(After(s), hold[s], [run EXCEPT ![s] = "work"])
  /\ hold' = [hold EXCEPT ![s] = 0]
  /\ passed' = (passed \/ \E c \in out[s] : c < hold[s])
  /\ UNCHANGED <<ends, flow, out, tails, reqs, range, cells, listed, ended,
                 faults>>

\* It has not, and a new one may have been posted since it popped.
PushOut(s) ==
  \E b \in out[s] :
  /\ Push(After(s), b, run)
  /\ out' = [out EXCEPT ![s] = @ \ {b}]
  /\ passed' = (passed \/ \E c \in out[s] \cup ({hold[s]} \ {0}) : c < b)
  /\ RequestMore
  /\ UNCHANGED <<ends, processing, more, hold, tails, reqs, range, cells,
                 listed, ended, faults>>

-----------------------------------------------------------------------------
(***************************************************************************)
(* process_write                                                           *)
(***************************************************************************)

\* An item with an error, or write_cells: create_cs, block_write and add_cs.
Write ==
  LET b == Head(q["write"]) IN
  /\ run["write"] = "work" /\ b # Last
  /\ \/ /\ b \in bad /\ Enter("write") /\ WriteQuits
        /\ UNCHANGED <<written, tmp, dflt, gate, faults>>
     \/ /\ b \notin bad /\ Fault /\ Enter("write") /\ WriteQuits
        /\ tmp' = TRUE /\ UNCHANGED <<written, dflt, gate>>
     \/ /\ b \notin bad
        /\ run' = [run EXCEPT !["write"] = "wrote"]
        /\ written' = Append(written, b) /\ tmp' = TRUE
        /\ \/ /\ ~chkFinal /\ StopTimer /\ dflt' = "PREPARING"
              /\ gate' = IF gate = "APPLYING" THEN gate ELSE "PREPARING"
           \/ UNCHANGED <<chkFinal, timer, dflt, gate>>
        /\ UNCHANGED <<stopped, ending, faults>>
  /\ UNCHANGED <<flow, q, hold, out, tails, reqs, fin, loaded, scanned, bad,
                 applied, listed, ended, passed>>

\* The range is unloaded or the ranger ends; or the item is done.
Wrote ==
  /\ run["write"] = "wrote"
  /\ \/ /\ ~loaded \/ stopper # "none"
        /\ Enter("write") /\ WriteQuits
        /\ UNCHANGED <<q, processing, tails>>
     \/ /\ loaded /\ stopper = "none"
        /\ q' = [q EXCEPT !["write"] = Tail(@)]
        /\ processing' = processing - 1
        /\ IF Len(q["write"]) > 1 /\ ~stopped
             THEN run' = [run EXCEPT !["write"] = "more"] /\ UNCHANGED tails
             ELSE run' = [run EXCEPT !["write"] = "idle"] /\ tails' = tails + 1
        /\ UNCHANGED <<stopped, chkFinal, timer, ending>>
  /\ UNCHANGED <<get, scan, more, hold, out, reqs, range, cells, book>>

\* Variant: the read-ahead is not made use of once an item is written.
WriteMoreNot ==
  /\ \/ run["write"] = "more" /\ run' = [run EXCEPT !["write"] = "work"]
        /\ UNCHANGED tails
     \/ tails > 0 /\ tails' = tails - 1 /\ UNCHANGED run
  /\ UNCHANGED <<ends, flow, q, hold, out, reqs, range, cells, book>>

WriteMore ==
  /\ \/ run["write"] = "more" /\ run' = [run EXCEPT !["write"] = "work"]
        /\ UNCHANGED tails
     \/ tails > 0 /\ tails' = tails - 1 /\ UNCHANGED run
  /\ RequestMore
  /\ UNCHANGED <<ends, processing, more, q, hold, out, reqs, range, cells,
                 book>>

\* is_last: the start of finalize.
Finalize ==
  /\ run["write"] = "work" /\ Head(q["write"]) = Last
  /\ \/ /\ ~stopped /\ loaded /\ StopTimer
        /\ run' = [run EXCEPT !["write"] = "final"]
        /\ UNCHANGED <<stopped, ending>>
     \/ /\ stopped \/ ~loaded
        /\ Enter("write") /\ WriteQuits
  /\ UNCHANGED <<flow, q, hold, out, tails, reqs, range, cells, book>>

\* finalize once the others have let go: the last cells, the last cell store.
FinalWait ==
  /\ run["write"] = "final"
  /\ \/ /\ stopped /\ WriteQuits
        /\ UNCHANGED <<stopped, chkFinal, timer, ending, tmp, gate, faults>>
     \/ /\ ~stopped /\ Refs <= 3 /\ tmp' = TRUE
        /\ \/ /\ Fault /\ Enter("write") /\ WriteQuits /\ UNCHANGED gate
           \/ /\ run' = [run EXCEPT !["write"] = "apply"]
              /\ gate' = "APPLYING"
              /\ UNCHANGED <<stopped, chkFinal, timer, ending, faults>>
  /\ UNCHANGED <<flow, q, hold, out, tails, reqs, dflt, fin, loaded, scanned,
                 bad, written, applied, listed, ended, passed>>

\* mngr_create_range, or apply_new.
Apply ==
  /\ run["write"] = "apply"
  /\ \/ /\ mng' = "create" /\ run' = [run EXCEPT !["write"] = "idle"]
        /\ UNCHANGED <<applied, stopped, chkFinal, timer, ending, faults>>
     \/ /\ applied' = TRUE /\ mng' = "meta"
        /\ run' = [run EXCEPT !["write"] = "idle"]
        /\ UNCHANGED <<stopped, chkFinal, timer, ending, faults>>
     \/ /\ Fault /\ Enter("write") /\ WriteQuits
        /\ UNCHANGED <<applied, mng>>
  /\ UNCHANGED <<flow, q, hold, out, tails, init, quitter, unl, done, stopper,
                 range, scanned, bad, written, tmp, listed, ended, passed>>

-----------------------------------------------------------------------------
(***************************************************************************)
(* Answers of the manager and of the meta column.                          *)
(***************************************************************************)

\* The callback of RangeCreate: split, or apply_new when there is no new range.
\* It is called always: ReqData.valid() only decides whether to ask again, and
\* a request that is given up is answered with an error.
Created ==
  /\ mng = "create" /\ mng' \in {"split", "apply"}
  /\ UNCHANGED <<ends, flow, pipe, init, quitter, unl, done, stopper, range,
                 cells, book>>

\* split, apply_new from there; the folders of the new range may fail.
Split ==
  /\ mng \in {"split", "apply"}
  /\ \/ /\ applied' = TRUE /\ mng' = "meta"
        /\ unl' = IF mng = "split" THEN "meta" ELSE unl
        /\ UNCHANGED <<stopped, chkFinal, timer, ending, faults>>
     \/ /\ mng = "split" /\ Fault /\ mng' = "apply"
        /\ UNCHANGED <<applied, unl, stopped, chkFinal, timer, ending>>
     \/ /\ Fault /\ Enter("mng") /\ mng' = Goes("quit")
        /\ UNCHANGED <<applied, unl>>
  /\ UNCHANGED <<flow, pipe, init, quitter, done, stopper, range, scanned, bad,
                 written, tmp, listed, ended, passed>>

\* The meta column has the range's interval: TaskFinished is posted.
Registered ==
  /\ mng = "meta" /\ mng' = "none" /\ done' = "posted"
  /\ UNCHANGED <<ends, flow, pipe, init, quitter, unl, stopper, range, cells,
                 book>>

\* The new range is registered and unloaded and the manager told so.
Unloaded ==
  /\ unl = "meta" /\ unl' = "none"
  /\ UNCHANGED <<ends, flow, pipe, init, quitter, mng, done, stopper, range,
                 cells, book>>

-----------------------------------------------------------------------------
(***************************************************************************)
(* The end.                                                                *)
(***************************************************************************)

\* finished, quit as tasks.
EndTask ==
  /\ Free
  /\ \/ /\ done = "posted" /\ Enter("done") /\ done' = Goes("end")
        /\ UNCHANGED quitter
     \/ /\ quitter = "posted" /\ Enter("quitter") /\ quitter' = Goes("quit")
        /\ UNCHANGED done
  /\ UNCHANGED <<flow, pipe, init, mng, unl, stopper, range, cells, book>>

Leave(w) ==
  /\ ending = w /\ ending' = "none" /\ Compacted
  /\ init' = IF w = "init" THEN "none" ELSE init
  /\ done' = IF w = "done" THEN "none" ELSE done
  /\ quitter' = IF w = "quitter" THEN "none" ELSE quitter
  /\ mng' = IF w = "mng" THEN "none" ELSE mng
  /\ run' = IF w = "write" THEN [run EXCEPT !["write"] = "idle"] ELSE run
  /\ stopper' = IF w = "stopper" THEN "tried" ELSE stopper
  /\ tmp' = (tmp /\ w \in {"init", "done"})
  /\ UNCHANGED <<stopped, chkFinal, timer, flow, q, hold, out, tails, unl,
                 dflt, fin, loaded, scanned, bad, written, applied, passed,
                 faults>>

\* Variant: completion does not wait.
CompletionAtOnce(w) == Leave(w)

\* completion has waited: quit or finished go on.
Completion(w) == Refs <= 3 /\ Leave(w)

\* Compaction::stop, for this compaction.
StopBegin ==
  /\ stopper = "none" /\ stopper' = "pick"
  /\ UNCHANGED <<ends, flow, pipe, init, quitter, mng, unl, done, range, cells,
                 book>>

Stop ==
  /\ \/ /\ stopper = "pick"
        /\ stopper' = IF listed THEN "req" ELSE "wait"
        /\ UNCHANGED <<stopped, chkFinal, timer, ending>>
     \/ /\ stopper = "req" /\ Enter("stopper")
        /\ stopper' = IF stopped THEN "tried" ELSE "quit"
     \/ /\ stopper = "tried" /\ stopper' = "wait"
        /\ UNCHANGED <<stopped, chkFinal, timer, ending>>
     \/ /\ stopper = "wait" /\ ~listed /\ stopper' = "end"
        /\ UNCHANGED <<stopped, chkFinal, timer, ending>>
  /\ UNCHANGED <<flow, pipe, init, quitter, mng, unl, done, range, cells,
                 book>>

\* Range::internal_unload sets the state, and waits for the compaction.
Unload ==
  /\ loaded /\ loaded' = FALSE
  /\ UNCHANGED <<ends, flow, pipe, reqs, dflt, gate, fin, cells, book>>

-----------------------------------------------------------------------------
\* What the compaction and its compactor do of themselves.
Work ==
  \/ Initialize \/ InitWaited \/ InitSplit \/ InitDone
  \/ ScanStart \/ ResponseEnd \/ Response \/ Finishing \/ Finished \/ LogDone
  \/ More
  \/ \E s \in Stages : StageStart(s)
  \/ \E s \in Passing : Pop(s) \/ PushHand(s) \/ PushOut(s)
  \/ Write \/ Wrote \/ WriteMore \/ Finalize \/ FinalWait \/ Apply
  \/ Created \/ Split \/ Registered \/ Unloaded
  \/ EndTask \/ (\E w \in Enders : Completion(w)) \/ Stop

Timer == TimerFires \/ TimerChecks \/ TimerRearms

Next ==
  \/ Work \/ Timer \/ InitTimeout \/ InitLogAgain \/ LogCompacted
  \/ StopBegin \/ Unload

Spec == Init /\ [][Next]_vars

\* Threads go on, posted tasks run when one is free, requests are answered in
\* the end, and the log does not stay in need of compaction for ever.  Nothing
\* is asked of the order in which this happens.
FairSpec == Spec /\ WF_vars(Work) /\ WF_vars(Timer)

-----------------------------------------------------------------------------
(***************************************************************************)
(* Properties.                                                             *)
(***************************************************************************)

\* The new cell stores have the scanned blocks in the order of their keys and,
\* when they are applied and the fragments they stand for are removed, all of
\* them, unless a block was passed by a later one between two queues; and they
\* are not removed by one who quits while they are about to be applied, here or
\* after an answer of the manager.
StoresComplete ==
  /\ ~passed =>
       /\ \A i \in 1 .. Len(written) : written[i] = i
       /\ applied => Len(written) = scanned
  /\ run["write"] = "apply" \/ mng \in {"create", "split", "apply"} => tmp

\* When the compaction is counted as ended and the range may be compacted anew
\* or unloaded, nothing of it is under way: no scan, no task, no timer, no
\* request, and nothing sets the state of the range any more.
EndsAlone ==
  /\ TypeOK
  /\ ended > 0 =>
       /\ scan = "none" /\ more = 0 /\ tails = 0 /\ timer = "none"
       /\ \A s \in Stages : run[s] = "idle"
       /\ \A s \in Passing : out[s] = {}
       /\ init = "none" /\ quitter = "none" /\ mng = "none" /\ unl = "none"
       /\ done = "none" /\ gate = "NONE"

\* From the end of the scan to the end of the compaction the range takes no
\* update: neither the timer nor the writer of cell stores lets them in again.
GateHeld == fin /\ listed => gate = "APPLYING"

\* A compaction ends, however it goes: no stage waits for another one, and no
\* wait for the others to let go lasts for ever.  A stop of the compactor ends.
Ends == <>[](ended > 0 /\ stopper \in {"none", "end"})

\* CHANGELOG.md:358 "added Ranger CompactRange use count barrier at finalize":
\* what is applied has all the blocks of the range.
BlocksKept == applied => Len(written) = scanned

=============================================================================
