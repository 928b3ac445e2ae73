----------------------------- MODULE BlockLoad ------------------------------
(***************************************************************************)
(* The blocks of a range: Ranger::Block, BlockLoader and Blocks, which     *)
(* cache the cells that scans read.                                        *)
(*                                                                         *)
(* A scan that meets a block in State::NONE starts its BlockLoader, which  *)
(* takes the cells of the cell stores, then those of the log's fragments,  *)
(* log_fragment_preload of them at once, and at last, when it finds no     *)
(* fragment it has not taken, those still in the log's memory.  Meanwhile  *)
(* updates put their cell in the log and then in the block that has its    *)
(* key, the log rolls cells from memory into fragments, blocks split when  *)
(* they are large and are released for memory.                             *)
(*                                                                         *)
(* There is one block, "A", and after its split a second, "B".  A cell of  *)
(* a block counts how many times it was applied: what a counter column     *)
(* adds up.                                                                *)
(***************************************************************************)
EXTENDS FiniteSets, Naturals

CONSTANTS
  Updates,   \* updates, each with one cell of its own key
  Stored,    \* cells of the cell stores
  Upper,     \* the cells whose key is in "B" after a split
  Scans,     \* scan requests for every key
  Preload    \* cfg->log_fragment_preload()

Blocks == {"A", "B"}
Cells == Updates \cup Stored

ASSUME BlockAssumption ==
  /\ Preload \in Nat \ {0}
  /\ Stored # {} /\ Updates \cap Stored = {}
  /\ Updates \cap Scans = {}
  /\ Upper \subseteq Cells

VARIABLES
  pc,       \* where each update and each scan is
  at,       \* the block it is at
  rev,      \* m_split_rev as an update has read it
  must,     \* history: the cells acknowledged when a scan began
  seen,     \* the cells a scan has read
  mem,      \* Fragments::m_cells
  frags,    \* the listed fragments, each a set of cells
  split,    \* "A" was split: m_split_rev, and the end of "A" is before Upper
  state,    \* Block::m_state
  got,      \* Block::m_cells: how many times each cell was applied
  lp,       \* where the loader of a block is; "none" when m_loader is null
  cs,       \* m_cs_blks: the run itself, the cell-store block to be read
  queue,    \* m_queue: what is to be applied; {} is the null item
  logs,     \* fragments asked for and not in m_queue yet: m_logs
  taken,    \* m_f_selected
  hand,     \* the item the loader has popped
  raced,    \* history: updates whose cell was loaded before they were done, into
            \* a block that was not released since
  left,     \* history: updates that ended at "A" when their key was in "B"
  overtaken \* history: scans that had read "A" when it was split

client == <<pc, at, rev, must, seen>>
log    == <<mem, frags>>
block  == <<split, state, got, raced, left, overtaken>>
loader == <<lp, cs, queue, logs, taken, hand>>
vars   == <<client, log, block, loader>>

None == [c \in Cells |-> 0]

Init ==
  /\ pc = [r \in Updates \cup Scans |-> "idle"]
  /\ at = [r \in Updates \cup Scans |-> "A"]
  /\ rev = [u \in Updates |-> FALSE]
  /\ must = [r \in Scans |-> {}] /\ seen = [r \in Scans |-> {}]
  /\ mem = {} /\ frags = {}
  /\ split = FALSE
  /\ state = [b \in Blocks |-> "NONE"]
  /\ got = [b \in Blocks |-> None]
  /\ raced = {} /\ left = {} /\ overtaken = {}
  /\ lp = [b \in Blocks |-> "none"] /\ cs = [b \in Blocks |-> {}]
  /\ queue = [b \in Blocks |-> {}] /\ logs = [b \in Blocks |-> {}]
  /\ taken = [b \in Blocks |-> {}] /\ hand = [b \in Blocks |-> {}]

\* The cells whose key is between m_prev_key_end and m_key_end.
Interval(b) ==
  IF b = "B" THEN Upper ELSE IF split THEN Cells \ Upper ELSE Cells

\* The blocks there are: m_block and its next.
Exists(b) == b = "A" \/ split

\* Block::m_processing: the scans that are at b.
Processing(b) ==
  {r \in Scans : at[r] = b /\ pc[r] \in {"enter", "queued", "read"}}

\* g with the cells of S applied once more.
Plus(g, S) == [c \in Cells |-> IF c \in S THEN g[c] + 1 ELSE g[c]]

Part(g, S) == [c \in Cells |-> IF c \in S THEN g[c] ELSE 0]

\* Variant: the cells of the new block stay in the old one, too.
SplitterCopies(b, g, how) ==
  \/ /\ how = "no"
     /\ got' = [got EXCEPT ![b] = g]
     /\ UNCHANGED <<split, overtaken>>
  \/ /\ how # "no" /\ b = "A" /\ ~split
     /\ \E c \in Upper : g[c] > 0
     /\ split' = TRUE
     /\ overtaken' = {r \in Scans : pc[r] = "next"}
     /\ got' = [got EXCEPT
                  !["A"] = g,
                  !["B"] = IF how = "kept" THEN Part(g, Upper) ELSE None]

-----------------------------------------------------------------------------
(***************************************************************************)
(* Block::splitter, Blocks::_split and Block::_split: block b, with g in   *)
(* m_cells, is split or not ("no").  The new block is LOADED with its part *)
(* of the cells ("kept"), or in State::NONE, without them ("dropped"):     *)
(* when b is not loaded yet, or memory is short.                           *)
(***************************************************************************)
Splitter(b, g, how) ==
  \/ /\ how = "no"
     /\ got' = [got EXCEPT ![b] = g]
     /\ UNCHANGED <<split, overtaken>>
  \/ /\ how # "no" /\ b = "A" /\ ~split
     /\ \E c \in Upper : g[c] > 0
     /\ \E c \in Cells \ Upper : g[c] > 0
     /\ split' = TRUE
     /\ overtaken' = {r \in Scans : pc[r] = "next"}
     /\ got' = [got EXCEPT
                  !["A"] = Part(g, Cells \ Upper),
                  !["B"] = IF how = "kept" THEN Part(g, Upper) ELSE None]

\* The state of the blocks after it.
SplitState(b, how, s) ==
  [state EXCEPT ![b] = s,
                !["B"] = IF b = "B" THEN s
                         ELSE IF how = "kept" THEN "LOADED" ELSE @]

-----------------------------------------------------------------------------
(***************************************************************************)
(* Updates: Blocks::add_logged, Block::add_logged.                         *)
(***************************************************************************)

\* commitlog.add(cell)
Log(u) ==
  /\ pc[u] = "idle"
  /\ mem' = mem \cup {u}
  /\ pc' = [pc EXCEPT ![u] = "check"]
  /\ UNCHANGED <<at, rev, must, seen, frags, block, loader>>

\* Under m_mutex_intval: the key is at or before the block's end, or the next
\* block is asked.
Check(u) ==
  /\ pc[u] = "check"
  /\ \/ /\ u \in Interval(at[u])
        /\ pc' = [pc EXCEPT ![u] = "test"]
        /\ rev' = [rev EXCEPT ![u] = split]
        /\ UNCHANGED at
     \/ /\ u \notin Interval(at[u])
        /\ at' = [at EXCEPT ![u] = "B"]
        /\ UNCHANGED <<pc, rev>>
  /\ UNCHANGED <<must, seen, log, block, loader>>

\* The end of Block::add_logged, and of its caller's blk and its own rev.
Return(u) ==
  /\ pc' = [pc EXCEPT ![u] = "done"]
  /\ at' = [at EXCEPT ![u] = "A"]
  /\ rev' = [rev EXCEPT ![u] = FALSE]

\* loaded(), before the lock.  When the block is not, the call ends: nobody
\* looks whether the key is still the block's.
Test(u) ==
  /\ pc[u] = "test"
  /\ \/ /\ state[at[u]] = "LOADED"
        /\ pc' = [pc EXCEPT ![u] = "put"]
        /\ UNCHANGED <<at, rev, left>>
     \/ /\ state[at[u]] # "LOADED"
        /\ Return(u)
        /\ left' = left \cup ({u} \ Interval(at[u]))
  /\ UNCHANGED <<must, seen, log, split, state, got, raced, overtaken, loader>>

\* Variant: a split since the key was compared is not noticed.
PutUnchecked(u, how) ==
  LET b == at[u] IN
  /\ pc[u] = "put"
  /\ \/ /\ state[b] = "LOADED"
        /\ Splitter(b, Plus(got[b], {u}), how)
        /\ state' = SplitState(b, how, "LOADED")
        /\ Return(u)
        /\ UNCHANGED <<raced, left>>
     \/ /\ state[b] # "LOADED" /\ how = "no"
        /\ Return(u)
        /\ UNCHANGED block
  /\ UNCHANGED <<must, seen, log, loader>>

\* Under m_mutex: after a split the key may be the next block's; otherwise the
\* cell is added if the block is still loaded, and the block may split.
Put(u, how) ==
  LET b == at[u] IN
  /\ pc[u] = "put"
  /\ \/ /\ rev[u] # split /\ u \notin Interval(b) /\ how = "no"
        /\ at' = [at EXCEPT ![u] = "B"]
        /\ pc' = [pc EXCEPT ![u] = "check"]
        /\ UNCHANGED <<rev, block>>
     \/ /\ rev[u] = split \/ u \in Interval(b)
        /\ state[b] = "LOADED"
        /\ Splitter(b, Plus(got[b], {u}), how)
        /\ state' = SplitState(b, how, "LOADED")
        /\ Return(u)
        /\ UNCHANGED <<raced, left>>
     \/ /\ rev[u] = split \/ u \in Interval(b)
        /\ state[b] # "LOADED" /\ how = "no"
        /\ Return(u)
        /\ UNCHANGED block
  /\ UNCHANGED <<must, seen, log, loader>>

\* Fragments::_commit: cells leave m_cells for a fragment under m_mutex and
\* m_mutex_cells.
Roll(S) ==
  /\ S # {} /\ S \subseteq mem
  /\ mem' = mem \ S
  /\ frags' = frags \cup {S}
  /\ UNCHANGED <<client, block, loader>>

-----------------------------------------------------------------------------
(***************************************************************************)
(* Scans: Blocks::scan, Block::scan, Block::_scan.                         *)
(***************************************************************************)

\* Blocks::scan: the first block, and its processing_increment.  The client
\* may scan again.
Scan(r) ==
  /\ pc[r] \in {"idle", "done"}
  /\ pc' = [pc EXCEPT ![r] = "enter"] /\ at' = [at EXCEPT ![r] = "A"]
  /\ must' = [must EXCEPT ![r] =
                Stored \cup {u \in Updates \ left : pc[u] = "done"}]
  /\ seen' = [seen EXCEPT ![r] = {}] /\ overtaken' = overtaken \ {r}
  /\ UNCHANGED <<rev, log, split, state, got, raced, left, loader>>

\* The loader of b starts: m_state is LOADING, and run() asks for the
\* cell-store blocks that overlap b.
StartLoader(b) ==
  /\ state' = [state EXCEPT ![b] = "LOADING"]
  /\ lp' = [lp EXCEPT ![b] = "pop"]
  /\ cs' = [cs EXCEPT ![b] = {"run"} \cup
              IF Stored \cap Interval(b) # {} THEN {"block"} ELSE {}]
  /\ UNCHANGED <<queue, logs, taken, hand>>

\* Block::scan, under m_mutex_state.
ScanState(r) ==
  LET b == at[r] IN
  /\ pc[r] = "enter"
  /\ pc' = [pc EXCEPT ![r] = IF state[b] = "LOADED" THEN "read" ELSE "queued"]
  /\ IF state[b] = "NONE"
       THEN StartLoader(b)
       ELSE UNCHANGED <<state, loader>>
  /\ UNCHANGED <<at, rev, must, seen, log, split, got, raced, left, overtaken>>

\* Block::preload of a block after the one that a scan waits for, or that was
\* split.
BlockPreload ==
  /\ split /\ state["B"] = "NONE"
  /\ StartLoader("B")
  /\ UNCHANGED <<client, log, split, got, raced, left, overtaken>>

\* Block::_scan: m_cells.scan and processing_decrement.
Read(r) ==
  /\ pc[r] = "read"
  /\ seen' = [seen EXCEPT ![r] = @ \cup {c \in Cells : got[at[r]][c] > 0}]
  /\ pc' = [pc EXCEPT ![r] = "next"]
  /\ UNCHANGED <<at, rev, must, log, block, loader>>

\* Blocks::scan goes on with the block's next, or answers.
NextBlock(r) ==
  /\ pc[r] = "next"
  /\ IF at[r] = "A" /\ split
       THEN at' = [at EXCEPT ![r] = "B"] /\ pc' = [pc EXCEPT ![r] = "enter"]
       ELSE pc' = [pc EXCEPT ![r] = "done"] /\ UNCHANGED at
  /\ UNCHANGED <<rev, must, seen, log, block, loader>>

\* Variant: the scans at the block are not looked at.
ReleaseBusy(b) ==
  /\ Exists(b) /\ state[b] = "LOADED" /\ lp[b] = "none"
  /\ state' = [state EXCEPT ![b] = "NONE"]
  /\ got' = [got EXCEPT ![b] = None]
  /\ raced' = raced \ Interval(b)
  /\ UNCHANGED <<client, log, split, left, overtaken, loader>>

\* Block::release
Release(b) ==
  /\ Exists(b) /\ state[b] = "LOADED" /\ lp[b] = "none"
  /\ Processing(b) = {}
  /\ state' = [state EXCEPT ![b] = "NONE"]
  /\ got' = [got EXCEPT ![b] = None]
  /\ raced' = raced \ Interval(b)
  /\ UNCHANGED <<client, log, split, left, overtaken, loader>>

-----------------------------------------------------------------------------
(***************************************************************************)
(* BlockLoader: load_cells of block b, on a thread of its own.             *)
(***************************************************************************)

\* loaded(CellStore::Block::Read)
CsLoaded(b) ==
  /\ "block" \in cs[b]
  /\ cs' = [cs EXCEPT ![b] = @ \ {"block"}]
  /\ queue' = [queue EXCEPT ![b] = @ \cup {Stored}]
  /\ UNCHANGED <<client, log, block, lp, logs, taken, hand>>

\* The end of run(): a null item wakes the loader.
RunEnd(b) ==
  /\ "run" \in cs[b]
  /\ cs' = [cs EXCEPT ![b] = @ \ {"run"}]
  /\ queue' = [queue EXCEPT ![b] = @ \cup {{}}]
  /\ UNCHANGED <<client, log, block, lp, logs, taken, hand>>

\* loaded(CommitLog::Fragment): it was read, or its write has ended.
FragmentLoaded(b, f) ==
  /\ f \in logs[b]
  /\ logs' = [logs EXCEPT ![b] = @ \ {f}]
  /\ queue' = [queue EXCEPT ![b] = @ \cup {f}]
  /\ UNCHANGED <<client, log, block, lp, cs, taken, hand>>

\* What is still to come when an item is popped: sz in the code.
Outstanding(b) == Cardinality(queue[b]) + Cardinality(logs[b])

\* m_queue.pop(), and whether there is room for more fragments ("select"), or
\* nothing else to come ("last").
Pop(b, i) ==
  /\ lp[b] = "pop" /\ i \in queue[b]
  /\ queue' = [queue EXCEPT ![b] = @ \ {i}]
  /\ hand' = [hand EXCEPT ![b] = i]
  /\ lp' = [lp EXCEPT ![b] =
              IF cs[b] # {} \/ Outstanding(b) - 1 >= Preload THEN "apply"
              ELSE IF Outstanding(b) = 1 THEN "last" ELSE "select"]
  /\ UNCHANGED <<client, log, block, cs, logs, taken>>

\* Block::load_cells of what is popped; the block may split in between.
Apply(b, how) ==
  LET S == hand[b] \cap Interval(b) IN
  /\ lp[b] \in {"last", "apply"} /\ how \in {"no", "dropped"}
  /\ Splitter(b, Plus(got[b], S), how)
  /\ raced' = raced \cup {u \in S \cap Updates : pc[u] # "done"}
  /\ hand' = [hand EXCEPT ![b] = {}]
  /\ lp' = [lp EXCEPT ![b] = IF lp[b] = "last" THEN "final" ELSE "pop"]
  /\ UNCHANGED <<client, log, state, left, cs, queue, logs, taken>>

\* Fragments::_load_cells: fragments with cells of the block, not taken yet.
Candidates(b) == {f \in frags \ taken[b] : f \cap Interval(b) # {}}

\* Variant: a fragment that was taken is not remembered.
SelectAgain(b, N) ==
  /\ lp[b] \in {"select", "final"} /\ N # {}
  /\ N \subseteq {f \in frags \ logs[b] : f \cap Interval(b) # {}}
  /\ Cardinality(N) <= Preload - Outstanding(b)
  /\ taken' = [taken EXCEPT ![b] = @ \cup N]
  /\ logs' = [logs EXCEPT ![b] = @ \cup N]
  /\ lp' = [lp EXCEPT ![b] = IF lp[b] = "final" THEN "pop" ELSE "apply"]
  /\ UNCHANGED <<client, log, block, cs, queue, hand>>

\* Fragments::load_cells finds fragments: as many as there is room for.
Select(b, N) ==
  /\ lp[b] \in {"select", "final"} /\ N # {}
  /\ N \subseteq Candidates(b)
  /\ \/ Cardinality(N) = Preload - Outstanding(b)
     \/ Cardinality(N) < Preload - Outstanding(b) /\ N = Candidates(b)
  /\ taken' = [taken EXCEPT ![b] = @ \cup N]
  /\ logs' = [logs EXCEPT ![b] = @ \cup N]
  /\ lp' = [lp EXCEPT ![b] = IF lp[b] = "final" THEN "pop" ELSE "apply"]
  /\ UNCHANGED <<client, log, block, cs, queue, hand>>

\* Fragments::load_cells finds none while something is still to come.
SelectNone(b) ==
  /\ lp[b] = "select" /\ Candidates(b) = {}
  /\ lp' = [lp EXCEPT ![b] = "apply"]
  /\ UNCHANGED <<client, log, block, cs, queue, logs, taken, hand>>

\* Variant: the loader waits for a commit to empty the memory.
LoadFinalWaits(b, how) ==
  /\ lp[b] = "final" /\ Candidates(b) = {}
  /\ \/ /\ mem \cap Interval(b) # {} /\ how = "no"
        /\ lp' = [lp EXCEPT ![b] = "pop"]
        /\ queue' = [queue EXCEPT ![b] = @ \cup {{}}]
        /\ UNCHANGED block
     \/ /\ mem \cap Interval(b) = {}
        /\ Splitter(b, got[b], how)
        /\ state' = SplitState(b, how, "LOADED")
        /\ lp' = [lp EXCEPT ![b] = "loaded"]
        /\ UNCHANGED <<raced, left, queue>>
  /\ UNCHANGED <<client, log, cs, logs, taken, hand>>

\* Fragments::load_cells finds none at the end: under the same m_mutex, and
\* under m_mutex_cells, Block::load_final.
LoadFinal(b, how) ==
  LET S == mem \cap Interval(b) IN
  /\ lp[b] = "final" /\ Candidates(b) = {}
  /\ Splitter(b, Plus(got[b], S), how)
  /\ state' = SplitState(b, how, "LOADED")
  /\ raced' = raced \cup {u \in S : pc[u] # "done"}
  /\ left' = left \ Interval(b)
  /\ lp' = [lp EXCEPT ![b] = "loaded"]
  /\ UNCHANGED <<client, log, cs, queue, logs, taken, hand>>

\* Block::loader_loaded: the scans that wait go on, m_loader is deleted.
LoaderLoaded(b) ==
  /\ lp[b] = "loaded"
  /\ pc' = [r \in DOMAIN pc |->
              IF r \in Scans /\ pc[r] = "queued" /\ at[r] = b THEN "read"
                                                            ELSE pc[r]]
  /\ lp' = [lp EXCEPT ![b] = "none"]
  /\ taken' = [taken EXCEPT ![b] = {}]
  /\ UNCHANGED <<at, rev, must, seen, log, block, cs, queue, logs, hand>>

-----------------------------------------------------------------------------
Hows == {"no", "kept", "dropped"}

UpdateStep(u) ==
  Log(u) \/ Check(u) \/ Test(u) \/ \E how \in Hows : Put(u, how)

ScanStep(r) == ScanState(r) \/ Read(r) \/ NextBlock(r)

LoaderStep(b) ==
  \/ \E i \in queue[b] : Pop(b, i)
  \/ \E how \in Hows : Apply(b, how) \/ LoadFinal(b, how)
  \/ \E N \in SUBSET frags : Select(b, N)
  \/ SelectNone(b) \/ LoaderLoaded(b)

ReadStep(b) ==
  CsLoaded(b) \/ RunEnd(b) \/ \E f \in logs[b] : FragmentLoaded(b, f)

Next ==
  \/ \E u \in Updates : UpdateStep(u)
  \/ \E S \in SUBSET mem : Roll(S)
  \/ \E r \in Scans : Scan(r) \/ ScanStep(r)
  \/ \E b \in Blocks :
       Release(b) \/ LoaderStep(b) \/ ReadStep(b)
  \/ BlockPreload

Spec == Init /\ [][Next]_vars

-----------------------------------------------------------------------------
(***************************************************************************)
(* Properties.                                                             *)
(***************************************************************************)

\* Types.  A loader is there exactly while the block is being loaded, and a
\* block that is not there is empty.
TypeOK ==
  /\ \A u \in Updates : pc[u] \in {"idle", "check", "test", "put", "done"}
  /\ \A r \in Scans :
       pc[r] \in {"idle", "enter", "queued", "read", "next", "done"}
  /\ \A b \in Blocks :
       /\ state[b] \in {"NONE", "LOADING", "LOADED"}
       /\ lp[b] \in {"none", "pop", "select", "last", "apply", "final",
                     "loaded"}
       /\ got[b] \in [Cells -> 0 .. 2]
       /\ state[b] = "LOADING" <=> lp[b] \notin {"none", "loaded"}
       /\ ~Exists(b) => state[b] = "NONE"
       /\ state[b] = "NONE" => got[b] = None
       /\ cs[b] \subseteq {"run", "block"}

\* A loaded block has every cell of its interval, those of the cell stores and
\* those of the updates that are done with the blocks, and no block has a cell
\* of another: a cell that was logged while the block loaded is in a fragment
\* or in memory when load_final looks, or the update finds the block loaded,
\* and a split while an update is on its way to the block, or while a fragment
\* is applied, does not misplace it.  The exception: an update that has compared
\* its key, and finds the block split by another update and released since,
\* leaves its cell to the log although the new block is loaded.
BlockComplete ==
  /\ TypeOK
  /\ \A b \in Blocks :
       /\ state[b] = "LOADED" => \A c \in Interval(b) :
            c \in Stored \/ (c \in Updates \ left /\ pc[c] = "done")
              => got[b][c] > 0
       /\ \A c \in Cells \ Interval(b) : got[b][c] = 0

\* A scan has read every cell that was acknowledged when it began, whatever
\* was loaded, split and released since (but for that exception).
ScanComplete == \A r \in Scans : pc[r] = "done" => must[r] \subseteq seen[r]

\* A cell is applied twice only when it was loaded from the log while its
\* update was between the log and the block: no fragment is taken twice, and
\* no cell is taken from a fragment and from memory.
OnceUnlessRaced ==
  \A b \in Blocks : \A c \in Cells : got[b][c] > 1 => c \in raced

\* A scan reads a cell from two blocks only when the first was split after the
\* scan had read it and before the scan took its next: a split while a scan
\* waits for a block, or of a block it is still to read, shows no cell twice.
ReadOnceUnlessSplit ==
  \A r \in Scans : pc[r] = "read" /\ r \notin overtaken =>
    \A c \in seen[r] : got[at[r]][c] = 0

\* Threads that can go on do, and reads end.
Fairness ==
  /\ \A r \in Scans : WF_vars(ScanStep(r))
  /\ \A b \in Blocks : WF_vars(LoaderStep(b) \/ ReadStep(b))

FairSpec == Spec /\ Fairness

\* A scan that waits for a block to load is answered: the loader comes to its
\* end although fragments are added while it works, and no scan is put in the
\* queue of a loader that has answered its scans.
ScanAnswered == \A r \in Scans : pc[r] = "queued" ~> pc[r] = "done"

=============================================================================
