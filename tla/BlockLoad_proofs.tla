-------------------------- MODULE BlockLoad_proofs --------------------------
(***************************************************************************)
(* Proofs about BlockLoad, for any updates, stored cells, scans and split  *)
(* key, and any log_fragment_preload.                                      *)
(*                                                                         *)
(* BlockInv is the inductive invariant.  Its core is LoadingInv: while a   *)
(* block loads, a cell was applied exactly once if its fragment was taken  *)
(* and is no longer on its way to the block, and not at all otherwise.     *)
(* That a fragment is on its way at one place at a time (PlaceInv), that   *)
(* fragments have no cell in common and none with the memory (LogInv), and *)
(* that the loader comes to its end with nothing on its way (IdleInv) make *)
(* load_final complete the block and apply no cell twice.                  *)
(*                                                                         *)
(* FedInv and WaitInv, at the end, say that no scan waits for nobody.      *)
(***************************************************************************)
EXTENDS BlockLoad, FiniteSetTheorems, TLAPS

Updating == {"idle", "check", "test", "put", "done"}
Scanning == {"idle", "enter", "queued", "read", "next", "done"}
Loading == {"pop", "select", "last", "apply", "final"}

ClientTypes ==
  /\ pc \in [Updates \cup Scans -> Updating \cup Scanning]
  /\ \A u \in Updates : pc[u] \in Updating
  /\ \A r \in Scans : pc[r] \in Scanning
  /\ at \in [Updates \cup Scans -> Blocks]
  /\ rev \in [Updates -> BOOLEAN]
  /\ must \in [Scans -> SUBSET Cells] /\ seen \in [Scans -> SUBSET Cells]

BlockTypes ==
  /\ split \in BOOLEAN
  /\ state \in [Blocks -> {"NONE", "LOADING", "LOADED"}]
  /\ got \in [Blocks -> [Cells -> Nat]]
  /\ raced \subseteq Updates /\ left \subseteq Updates
  /\ overtaken \subseteq Scans

LoaderTypes ==
  /\ lp \in [Blocks -> Loading \cup {"none", "loaded"}]
  /\ cs \in [Blocks -> SUBSET {"run", "block"}]
  /\ queue \in [Blocks -> SUBSET SUBSET Cells]
  /\ logs \in [Blocks -> SUBSET SUBSET Cells]
  /\ taken \in [Blocks -> SUBSET SUBSET Cells]
  /\ hand \in [Blocks -> SUBSET Cells]

\* The log has the cells of the updates that have begun, each at one place.
LogInv ==
  /\ mem \subseteq Updates
  /\ IsFiniteSet(frags)
  /\ \A f \in frags : f # {} /\ f \subseteq Updates /\ f \cap mem = {}
  /\ \A f, g \in frags : f # g => f \cap g = {}
  /\ \A u \in Updates : pc[u] = "idle" <=> u \notin mem /\ \A f \in frags : u \notin f

\* An update is at a block that its key was in, and is still when the block
\* was not split since.
UpdateInv ==
  \A u \in Updates :
    /\ at[u] = "B" => split /\ u \in Upper
    /\ pc[u] \in {"test", "put"} =>
         IF rev[u] THEN split /\ u \in Interval(at[u]) ELSE at[u] = "A"

\* What is on its way to b is at one place, and is the cells of the cell stores
\* or of a fragment that was taken.
PlaceInv(b) ==
  /\ taken[b] \subseteq frags /\ logs[b] \subseteq taken[b]
  /\ queue[b] \subseteq {{}, Stored} \cup taken[b]
  /\ hand[b] \in {{}, Stored} \cup taken[b]
  /\ logs[b] \cap queue[b] = {} /\ hand[b] \notin logs[b]
  /\ hand[b] # {} => hand[b] \notin queue[b]
  /\ "block" \in cs[b] => Stored \notin queue[b] /\ hand[b] # Stored
  /\ IsFiniteSet(queue[b])

\* A block is LOADING while its loader is at work, and nothing is on its way
\* when the loader is at its end.
IdleInv(b) ==
  /\ state[b] = "LOADING" <=> lp[b] \in Loading
  /\ lp[b] = "loaded" => state[b] = "LOADED"
  /\ ~Exists(b) => state[b] = "NONE"
  /\ lp[b] \in {"none", "last", "final", "loaded"} =>
       cs[b] = {} /\ queue[b] = {} /\ logs[b] = {}
  /\ lp[b] \in {"none", "pop", "final", "loaded"} => hand[b] = {}
  /\ lp[b] = "none" => taken[b] = {}

\* c was asked for, and it is on its way to b.
Asked(b, c) == c \in Stored \/ \E f \in taken[b] : c \in f

OnWay(b, c) ==
  \/ c \in hand[b]
  \/ \E i \in queue[b] \cup logs[b] : c \in i
  \/ "block" \in cs[b] /\ c \in Stored

Received(b, c) == Asked(b, c) /\ ~OnWay(b, c)

\* A block that loads has once what it asked for and has received; an update
\* that is not done with the blocks by then is raced.
LoadingInv(b) ==
  state[b] = "LOADING" =>
    /\ \A c \in Cells :
         got[b][c] = IF c \in Interval(b) /\ Received(b, c) THEN 1 ELSE 0
    /\ \A u \in Updates : got[b][u] > 0 /\ pc[u] # "done" => u \in raced

\* The cells g of a loaded block of interval I: they are complete, those twice
\* that were raced (rc), without those that were left (lf); p is where the
\* updates are.
Complete(g, I, p, rc, lf) ==
  /\ \A c \in I \cap Stored : g[c] = 1
  /\ \A u \in I \cap Updates :
       /\ g[u] \in 0 .. 2
       /\ p[u] = "idle" => g[u] = 0
       /\ p[u] # "done" => g[u] < 2
       /\ p[u] # "done" /\ g[u] > 0 => u \in rc
       /\ g[u] = 2 => u \in rc
       /\ p[u] = "done" /\ u \notin lf => g[u] > 0
  /\ \A c \in Cells \ I : g[c] = 0

LoadedInv(b) ==
  state[b] = "LOADED" => Complete(got[b], Interval(b), pc, raced, left)

NoneInv(b) == state[b] = "NONE" => got[b] = None

\* A scan has read what it must of the blocks before the one it is at, and
\* nothing of that one, unless it was overtaken.
ScanInv ==
  \A r \in Scans :
    /\ at[r] = "B" => split
    /\ pc[r] = "read" => state[at[r]] = "LOADED"
    /\ \A c \in must[r] :
         c \in Stored \/ (c \in Updates \ left /\ pc[c] = "done")
    /\ pc[r] \in {"enter", "queued", "read"} =>
         IF at[r] = "A" THEN seen[r] = {}
         ELSE must[r] \ Upper \subseteq seen[r]
    /\ pc[r] = "next" => must[r] \cap (IF at[r] = "A" THEN Interval("A") ELSE Cells) \subseteq seen[r]
    /\ pc[r] = "done" => must[r] \subseteq seen[r]
    /\ r \notin overtaken =>
         /\ pc[r] \in {"enter", "queued", "read"} /\ at[r] = "B" => seen[r] \cap Upper = {}
         /\ pc[r] = "next" /\ at[r] = "A" /\ split => seen[r] \cap Upper = {}

BlockInv ==
  /\ ClientTypes /\ BlockTypes /\ LoaderTypes
  /\ LogInv /\ UpdateInv /\ ScanInv
  /\ \A b \in Blocks :
       /\ PlaceInv(b) /\ IdleInv(b)
       /\ LoadingInv(b) /\ LoadedInv(b) /\ NoneInv(b)

-----------------------------------------------------------------------------
LEMMA BlockInit == Init => BlockInv
<1> SUFFICES ASSUME Init PROVE BlockInv
  OBVIOUS
<1> USE BlockAssumption DEF Init, Blocks
<1>1. ClientTypes
  BY DEF ClientTypes, Updating, Scanning
<1>2. BlockTypes
  BY DEF BlockTypes, None
<1>3. LoaderTypes
  BY DEF LoaderTypes
<1>4. LogInv
  BY FS_EmptySet DEF LogInv
<1>5. UpdateInv
  BY DEF UpdateInv
<1>6. ScanInv
  BY DEF ScanInv
<1>7. ASSUME NEW b \in Blocks
      PROVE  PlaceInv(b) /\ IdleInv(b) /\ LoadingInv(b) /\ LoadedInv(b) /\ NoneInv(b)
  BY <1>7, FS_EmptySet
  DEF PlaceInv, IdleInv, LoadingInv, LoadedInv, Complete, NoneInv, Exists, Loading
<1> QED BY <1>1, <1>2, <1>3, <1>4, <1>5, <1>6, <1>7 DEF BlockInv

LEMMA LogKeeps ==
  ASSUME BlockInv, NEW u \in Updates, Log(u)
  PROVE  BlockInv'
<1> USE BlockAssumption DEF BlockInv, Log, block, loader
<1>1. ClientTypes'
  BY DEF ClientTypes, Updating
<1>2. BlockTypes' /\ LoaderTypes'
  BY DEF BlockTypes, LoaderTypes
<1>3. LogInv'
  BY DEF LogInv, ClientTypes
<1>4. UpdateInv'
  BY DEF UpdateInv, ClientTypes, Interval
<1>5. ScanInv'
  BY DEF ScanInv, ClientTypes, Interval
<1>6. ASSUME NEW b \in Blocks
      PROVE  (PlaceInv(b) /\ IdleInv(b) /\ LoadingInv(b) /\ NoneInv(b))'
  BY <1>6 DEF PlaceInv, IdleInv, LoadingInv, NoneInv, Exists, Interval, Received, Asked, OnWay
<1>7. ASSUME NEW b \in Blocks PROVE LoadedInv(b)'
  BY <1>7 DEF LoadedInv, Complete, ClientTypes, Interval
<1> QED BY <1>1, <1>2, <1>3, <1>4, <1>5, <1>6, <1>7

LEMMA CheckKeeps ==
  ASSUME BlockInv, NEW u \in Updates, Check(u)
  PROVE  BlockInv'
<1> USE BlockAssumption DEF BlockInv, Check, block, loader, log
<1>1. ClientTypes'
  BY DEF ClientTypes, BlockTypes, Updating, Blocks
<1>2. BlockTypes' /\ LoaderTypes'
  BY DEF BlockTypes, LoaderTypes
<1>3. LogInv'
  BY DEF LogInv, ClientTypes
<1>4. UpdateInv'
  BY DEF UpdateInv, ClientTypes, BlockTypes, Interval, Blocks, Cells
<1>5. ScanInv'
  BY DEF ScanInv, ClientTypes, Interval
<1>6. ASSUME NEW b \in Blocks
      PROVE  (PlaceInv(b) /\ IdleInv(b) /\ LoadingInv(b) /\ NoneInv(b))'
  BY <1>6 DEF PlaceInv, IdleInv, LoadingInv, NoneInv, Exists, Interval, Received,
              Asked, OnWay, ClientTypes
<1>7. ASSUME NEW b \in Blocks PROVE LoadedInv(b)'
  BY <1>7 DEF LoadedInv, Complete, ClientTypes, Interval
<1> QED BY <1>1, <1>2, <1>3, <1>4, <1>5, <1>6, <1>7

LEMMA TestKeeps ==
  ASSUME BlockInv, NEW u \in Updates, Test(u)
  PROVE  BlockInv'
<1> USE BlockAssumption DEF BlockInv, Test, Return, loader, log
<1>1. ClientTypes'
  BY DEF ClientTypes, Updating, Blocks
<1>2. BlockTypes' /\ LoaderTypes'
  BY DEF BlockTypes, LoaderTypes
<1>3. LogInv'
  BY DEF LogInv, ClientTypes
<1>4. UpdateInv'
  BY DEF UpdateInv, ClientTypes, Interval, Blocks
<1>5. ScanInv'
  BY DEF ScanInv, ClientTypes, Interval
<1>6. ASSUME NEW b \in Blocks
      PROVE  (PlaceInv(b) /\ IdleInv(b) /\ LoadingInv(b) /\ NoneInv(b))'
  BY <1>6 DEF PlaceInv, IdleInv, LoadingInv, NoneInv, Exists, Interval, Received,
              Asked, OnWay, ClientTypes
<1>7. ASSUME NEW b \in Blocks PROVE LoadedInv(b)'
  <2>1. CASE state[at[u]] = "LOADED"
    BY <1>7, <2>1 DEF LoadedInv, Complete, ClientTypes, Interval
  <2>2. CASE state[at[u]] # "LOADED"
    <3>1. \A v \in Updates \ {u} : pc'[v] = pc[v]
      BY DEF ClientTypes
    <3>2. at[u] \in Blocks /\ pc'[u] = "done" /\ Interval(b)' = Interval(b)
      BY <2>2 DEF ClientTypes, Interval
    <3>3. ASSUME state[b] = "LOADED", u \in Interval(b) PROVE u \in left'
      <4>1. b # at[u] /\ split
        BY <1>7, <2>2, <3>2, <3>3 DEF IdleInv, UpdateInv, Exists, Blocks
      <4>2. u \notin Interval(at[u])
        BY <1>7, <3>2, <3>3, <4>1 DEF Interval, Blocks
      <4> QED BY <2>2, <4>2
    <3>4. LoadedInv(b) /\ left \subseteq left' /\ UNCHANGED <<state, got, raced>>
      BY <1>7, <2>2
    <3> QED BY ONLY <3>1, <3>2, <3>3, <3>4, BlockAssumption, pc[u] = "test" DEF LoadedInv, Complete
  <2> QED BY <2>1, <2>2
<1> QED BY <1>1, <1>2, <1>3, <1>4, <1>5, <1>6, <1>7

LEMMA RollKeeps ==
  ASSUME BlockInv, NEW S \in SUBSET mem, Roll(S)
  PROVE  BlockInv'
<1> USE BlockAssumption DEF BlockInv, Roll, client, block, loader
<1>1. ClientTypes' /\ BlockTypes' /\ LoaderTypes'
  BY DEF ClientTypes, BlockTypes, LoaderTypes
<1>2. LogInv'
  BY FS_AddElement DEF LogInv
<1>3. UpdateInv' /\ ScanInv'
  BY DEF UpdateInv, ScanInv, Interval
<1>4. ASSUME NEW b \in Blocks
      PROVE  (PlaceInv(b) /\ IdleInv(b) /\ LoadingInv(b) /\ NoneInv(b) /\ LoadedInv(b))'
  BY <1>4 DEF PlaceInv, IdleInv, LoadingInv, LoadedInv, Complete, NoneInv, Exists,
              Interval, Received, Asked, OnWay
<1> QED BY <1>1, <1>2, <1>3, <1>4

\* The steps of a scan leave the updates, the log and the blocks alone.
LEMMA ScanFrame ==
  ASSUME BlockInv, NEW r \in Scans, NEW p \in Scanning,
         pc' = [pc EXCEPT ![r] = p],
         UNCHANGED <<rev, log, split, got, raced, left, loader>>,
         NEW b \in Blocks, state'[b] = state[b],
         \A u \in Updates : at'[u] = at[u]
  PROVE  /\ LogInv' /\ UpdateInv'
         /\ (PlaceInv(b) /\ IdleInv(b) /\ LoadingInv(b) /\ LoadedInv(b) /\ NoneInv(b))'
<1> USE BlockAssumption DEF BlockInv, loader, log
<1>0. \A u \in Updates : pc'[u] = pc[u]
  BY DEF ClientTypes
<1>1. LogInv' /\ UpdateInv'
  BY <1>0 DEF LogInv, UpdateInv, Interval
<1>2. (PlaceInv(b) /\ IdleInv(b) /\ LoadingInv(b) /\ NoneInv(b))'
  BY DEF PlaceInv, IdleInv, LoadingInv, NoneInv, Exists, Interval, Received, Asked, OnWay
<1>3. LoadedInv(b)'
  <2>1. UNCHANGED <<split, got, raced, left>> /\ LoadedInv(b)
    OBVIOUS
  <2>2. Interval(b)' = Interval(b)
    BY <2>1 DEF Interval
  <2> QED BY ONLY <1>0, <2>1, <2>2, state'[b] = state[b] DEF LoadedInv, Complete
<1> QED BY <1>1, <1>2, <1>3

LEMMA ScanKeeps ==
  ASSUME BlockInv, NEW r \in Scans, Scan(r)
  PROVE  BlockInv'
<1> USE BlockAssumption DEF BlockInv, Scan
<1>1. ClientTypes'
  BY DEF ClientTypes, Scanning, Blocks, Cells
<1>2. BlockTypes' /\ LoaderTypes'
  BY DEF BlockTypes, LoaderTypes, loader
<1>3. "enter" \in Scanning /\ \A u \in Updates : at'[u] = at[u]
  BY DEF ClientTypes, Scanning
<1>4. ScanInv'
  BY DEF ScanInv, ClientTypes, Interval, Cells
<1>5. LogInv' /\ UpdateInv'
  BY <1>3, ScanFrame DEF Blocks
<1>6. ASSUME NEW b \in Blocks
      PROVE  (PlaceInv(b) /\ IdleInv(b) /\ LoadingInv(b) /\ LoadedInv(b) /\ NoneInv(b))'
  BY <1>3, <1>6, ScanFrame
<1> QED BY <1>1, <1>2, <1>4, <1>5, <1>6

LEMMA ReadKeeps ==
  ASSUME BlockInv, NEW r \in Scans, Read(r)
  PROVE  BlockInv'
<1> USE BlockAssumption DEF BlockInv, Read, block
<1>1. ClientTypes'
  BY DEF ClientTypes, Scanning
<1>2. BlockTypes' /\ LoaderTypes'
  BY DEF BlockTypes, LoaderTypes, loader
<1>3. "next" \in Scanning /\ \A u \in Updates : at'[u] = at[u]
  BY DEF Scanning
<1>4. ScanInv'
  <2> DEFINE b == at[r]
             G == {c \in Cells : got[b][c] > 0}
  <2>1. b \in Blocks /\ state[b] = "LOADED" /\ LoadedInv(b) /\ got[b] \in [Cells -> Nat]
    BY DEF ScanInv, ClientTypes, BlockTypes
  <2>2. must[r] \cap Interval(b) \subseteq G
    BY <2>1 DEF ScanInv, LoadedInv, Complete, Cells, ClientTypes
  <2>3. G \subseteq Interval(b)
    BY <2>1 DEF LoadedInv, Complete
  <2>4. /\ pc'[r] = "next" /\ seen'[r] = seen[r] \cup G
        /\ \A q \in Scans \ {r} : pc'[q] = pc[q] /\ seen'[q] = seen[q]
        /\ \A u \in Updates : pc'[u] = pc[u]
    BY DEF ClientTypes
  <2> HIDE DEF G
  <2>5. ASSUME b = "A"
        PROVE  must[r] \cap Interval("A") \subseteq seen'[r] /\ seen[r] = {}
    BY <2>2, <2>4, <2>5 DEF ScanInv
  <2>6. ASSUME b = "B"
        PROVE  must[r] \subseteq seen'[r]
    BY <2>2, <2>4, <2>6 DEF ScanInv, Interval
  <2>7. b = "A" /\ split => seen'[r] \cap Upper = {}
    BY <2>3, <2>4, <2>5 DEF Interval
  <2> QED BY <2>1, <2>4, <2>5, <2>6, <2>7 DEF ScanInv, Interval, Blocks
<1>5. LogInv' /\ UpdateInv'
  BY <1>3, ScanFrame DEF Blocks
<1>6. ASSUME NEW b \in Blocks
      PROVE  (PlaceInv(b) /\ IdleInv(b) /\ LoadingInv(b) /\ LoadedInv(b) /\ NoneInv(b))'
  BY <1>3, <1>6, ScanFrame
<1> QED BY <1>1, <1>2, <1>4, <1>5, <1>6

LEMMA NextBlockKeeps ==
  ASSUME BlockInv, NEW r \in Scans, NextBlock(r)
  PROVE  BlockInv'
<1> USE BlockAssumption DEF BlockInv, NextBlock, block
<1>0. /\ \A u \in Updates : at'[u] = at[u]
      /\ \E p \in Scanning : pc' = [pc EXCEPT ![r] = p]
  BY DEF ClientTypes, Scanning
<1>1. ClientTypes'
  BY DEF ClientTypes, Scanning, Blocks
<1>2. BlockTypes' /\ LoaderTypes'
  BY DEF BlockTypes, LoaderTypes, loader
<1>4. ScanInv'
  BY DEF ScanInv, ClientTypes, Interval, Cells, Blocks
<1>5. LogInv' /\ UpdateInv'
  BY <1>0, ScanFrame DEF Blocks
<1>6. ASSUME NEW b \in Blocks
      PROVE  (PlaceInv(b) /\ IdleInv(b) /\ LoadingInv(b) /\ LoadedInv(b) /\ NoneInv(b))'
  BY <1>0, <1>6, ScanFrame
<1> QED BY <1>1, <1>2, <1>4, <1>5, <1>6

LEMMA ReleaseKeeps ==
  ASSUME BlockInv, NEW b \in Blocks, Release(b)
  PROVE  BlockInv'
<1> USE BlockAssumption DEF BlockInv, Release, client, loader, log
<1>1. ClientTypes' /\ LoaderTypes'
  BY DEF ClientTypes, LoaderTypes
<1>2. BlockTypes'
  BY DEF BlockTypes, None
<1>3. LogInv' /\ UpdateInv'
  BY DEF LogInv, UpdateInv, Interval
<1>4. ScanInv'
  BY DEF ScanInv, BlockTypes, ClientTypes, Processing, Interval
<1>5. ASSUME NEW x \in Blocks
      PROVE  (PlaceInv(x) /\ IdleInv(x) /\ LoadingInv(x) /\ NoneInv(x) /\ LoadedInv(x))'
  <2>1. state'[x] = (IF x = b THEN "NONE" ELSE state[x]) /\ got'[x] = IF x = b THEN None ELSE got[x]
    BY <1>5 DEF BlockTypes
  <2>2. PlaceInv(x)' /\ IdleInv(x)' /\ NoneInv(x)'
    BY <1>5, <2>1 DEF PlaceInv, IdleInv, NoneInv, Exists, Loading
  <2>3. x = b => LoadingInv(x)' /\ LoadedInv(x)'
    BY <2>1 DEF LoadingInv, LoadedInv
  <2>4. ASSUME x # b, state[x] # "NONE"
        PROVE  Interval(x) \cap Interval(b) = {}
    BY <1>5, <2>4 DEF IdleInv, Exists, Interval, Blocks
  <2>5. Interval(x)' = Interval(x) /\ \A c \in Cells : Received(x, c)' <=> Received(x, c)
    BY DEF Interval, Received, Asked, OnWay
  <2>6. x # b => LoadingInv(x)'
    BY <1>5, <2>1, <2>4, <2>5 DEF LoadingInv, Cells
  <2>7. x # b => LoadedInv(x)'
    BY <1>5, <2>1, <2>4, <2>5 DEF LoadedInv, Complete
  <2> QED BY <2>2, <2>3, <2>6, <2>7
<1> QED BY <1>1, <1>2, <1>3, <1>4, <1>5

-----------------------------------------------------------------------------
(***************************************************************************)
(* The loader.                                                             *)
(***************************************************************************)

\* A step of the loader of b that applies nothing, and receives what it has
\* received.
LEMMA LoaderFrame ==
  ASSUME BlockInv, NEW b \in Blocks, UNCHANGED <<client, log, block>>,
         LoaderTypes',
         \A x \in Blocks \ {b} :
           /\ lp'[x] = lp[x] /\ cs'[x] = cs[x] /\ queue'[x] = queue[x]
           /\ logs'[x] = logs[x] /\ taken'[x] = taken[x] /\ hand'[x] = hand[x],
         PlaceInv(b)', IdleInv(b)',
         \A c \in Cells : Received(b, c)' <=> Received(b, c)
  PROVE  BlockInv'
<1> USE DEF BlockInv
<1>0. /\ UNCHANGED <<pc, at, rev, must, seen, mem, frags>>
      /\ UNCHANGED <<split, state, got, raced, left, overtaken>>
  BY DEF client, log, block
<1>1. ClientTypes' /\ BlockTypes'
  BY <1>0 DEF ClientTypes, BlockTypes
<1>2. LogInv' /\ UpdateInv' /\ ScanInv'
  BY <1>0 DEF LogInv, UpdateInv, ScanInv, Interval
<1>3. ASSUME NEW x \in Blocks PROVE LoadedInv(x)' /\ NoneInv(x)'
  BY <1>0, <1>3 DEF LoadedInv, Complete, NoneInv, Interval
<1>4. ASSUME NEW x \in Blocks PROVE (PlaceInv(x) /\ IdleInv(x) /\ LoadingInv(x))'
  <2>1. CASE x = b
    BY <1>0, <2>1 DEF LoadingInv, Interval
  <2>2. CASE x # b
    BY <1>0, <1>4, <2>2
    DEF PlaceInv, IdleInv, LoadingInv, Received, Asked, OnWay, Exists, Interval
  <2> QED BY <2>1, <2>2
<1> QED BY <1>1, <1>2, <1>3, <1>4

\* A fragment is not empty and not the cells of the cell stores, and two have
\* no cell in common.
LEMMA Apart ==
  ASSUME LogInv
  PROVE  /\ {} \notin frags /\ Stored \notin frags /\ Stored # {}
         /\ \A f \in frags : \A c \in f : c \notin Stored /\ c \notin mem
         /\ \A f, g \in frags : \A c : c \in f /\ c \in g => f = g
BY BlockAssumption DEF LogInv

\* loaded(CellStore::Block::Read)
LEMMA CsLoadedKeeps ==
  ASSUME BlockInv, NEW b \in Blocks, CsLoaded(b)
  PROVE  BlockInv'
<1> USE DEF BlockInv, CsLoaded
<1>1. LoaderTypes'
  BY DEF LoaderTypes, Cells
<1>2. /\ cs'[b] = cs[b] \ {"block"} /\ queue'[b] = queue[b] \cup {Stored}
      /\ \A x \in Blocks \ {b} : cs'[x] = cs[x] /\ queue'[x] = queue[x]
  BY DEF LoaderTypes
<1>3. PlaceInv(b)'
  BY <1>2, Apart, FS_AddElement DEF PlaceInv, log
<1>4. IdleInv(b)'
  BY <1>2 DEF IdleInv, Exists, block
<1>5. \A c \in Cells : Received(b, c)' <=> Received(b, c)
  BY <1>2 DEF Received, Asked, OnWay
<1> QED BY <1>1, <1>2, <1>3, <1>4, <1>5, LoaderFrame

\* The end of BlockLoader::run
LEMMA RunEndKeeps ==
  ASSUME BlockInv, NEW b \in Blocks, RunEnd(b)
  PROVE  BlockInv'
<1> USE DEF BlockInv, RunEnd
<1>1. LoaderTypes'
  BY DEF LoaderTypes
<1>2. /\ cs'[b] = cs[b] \ {"run"} /\ queue'[b] = queue[b] \cup {{}}
      /\ \A x \in Blocks \ {b} : cs'[x] = cs[x] /\ queue'[x] = queue[x]
  BY DEF LoaderTypes
<1>3. PlaceInv(b)'
  <2>1. IsFiniteSet(queue'[b])
    <3>1. IsFiniteSet(queue[b])
      BY DEF PlaceInv
    <3>2. IsFiniteSet(queue[b] \cup {{}})
      BY ONLY <3>1, FS_AddElement
    <3> QED BY <1>2, <3>2
  <2>2. {} \notin logs[b] /\ Stored # {}
    BY Apart DEF PlaceInv
  <2>3. UNCHANGED <<frags, logs, taken, hand>> /\ PlaceInv(b)
    BY DEF log
  <2> QED BY ONLY <1>2, <2>1, <2>2, <2>3 DEF PlaceInv
<1>4. IdleInv(b)'
  BY <1>2 DEF IdleInv, Exists, block
<1>5. \A c \in Cells : Received(b, c)' <=> Received(b, c)
  BY <1>2 DEF Received, Asked, OnWay
<1> QED BY <1>1, <1>2, <1>3, <1>4, <1>5, LoaderFrame

\* loaded(CommitLog::Fragment)
LEMMA FragmentLoadedKeeps ==
  ASSUME BlockInv, NEW b \in Blocks, NEW f \in logs[b], FragmentLoaded(b, f)
  PROVE  BlockInv'
<1> USE DEF BlockInv, FragmentLoaded
<1>1. LoaderTypes'
  BY DEF LoaderTypes
<1>2. /\ logs'[b] = logs[b] \ {f} /\ queue'[b] = queue[b] \cup {f}
      /\ \A x \in Blocks \ {b} : logs'[x] = logs[x] /\ queue'[x] = queue[x]
  BY DEF LoaderTypes
<1>3. PlaceInv(b)'
  BY <1>2, Apart, FS_AddElement DEF PlaceInv, log
<1>4. IdleInv(b)'
  BY <1>2 DEF IdleInv, Exists, block
<1>5. \A c \in Cells : Received(b, c)' <=> Received(b, c)
  BY <1>2 DEF Received, Asked, OnWay
<1> QED BY <1>1, <1>2, <1>3, <1>4, <1>5, LoaderFrame

\* sz in BlockLoader::load_cells is one when the item popped is the last.
LEMMA LastPopped ==
  ASSUME NEW q, NEW l, IsFiniteSet(q), IsFiniteSet(l), NEW i \in q,
         Cardinality(q) + Cardinality(l) = 1
  PROVE  q \ {i} = {} /\ l = {}
<1>1. Cardinality(q) \in Nat /\ Cardinality(l) \in Nat
  BY FS_CardinalityType
<1>2. Cardinality(q) # 0
  BY FS_EmptySet
<1>3. Cardinality(l) = 0 /\ Cardinality(q) = 1
  BY <1>1, <1>2
<1>4. IsFiniteSet(q \ {i}) /\ Cardinality(q \ {i}) = 0
  BY <1>3, FS_RemoveElement
<1> QED BY <1>3, <1>4, FS_EmptySet

\* m_queue.pop()
LEMMA PopKeeps ==
  ASSUME BlockInv, NEW b \in Blocks, NEW i \in queue[b], Pop(b, i)
  PROVE  BlockInv'
<1> USE DEF BlockInv, Pop
<1>0. lp'[b] \in {"apply", "last", "select"} /\ lp[b] = "pop"
  BY DEF LoaderTypes
<1>1. LoaderTypes'
  BY DEF LoaderTypes, Loading
<1>2. /\ queue'[b] = queue[b] \ {i} /\ hand'[b] = i
      /\ \A x \in Blocks \ {b} :
           lp'[x] = lp[x] /\ hand'[x] = hand[x] /\ queue'[x] = queue[x]
  BY DEF LoaderTypes
<1>3. PlaceInv(b)'
  <2>1. IsFiniteSet(queue'[b])
    BY <1>2, FS_RemoveElement DEF PlaceInv
  <2> QED BY <1>2, <2>1, Apart DEF PlaceInv, log
<1>4. IdleInv(b)'
  <2>1. ASSUME lp'[b] = "last" PROVE cs[b] = {} /\ queue'[b] = {} /\ logs[b] = {}
    <3>1. cs[b] = {} /\ Outstanding(b) = 1
      BY <2>1 DEF LoaderTypes
    <3>2. IsFiniteSet(queue[b]) /\ IsFiniteSet(logs[b])
      BY FS_Subset DEF PlaceInv, LogInv
    <3> QED BY <1>2, <3>1, <3>2, LastPopped DEF Outstanding
  <2> QED BY <1>0, <2>1 DEF IdleInv, Exists, block, Loading
<1>5. \A c \in Cells : Received(b, c)' <=> Received(b, c)
  <2>1. hand[b] = {}
    BY <1>0 DEF IdleInv
  <2> QED BY <1>2, <2>1 DEF Received, Asked, OnWay
<1> QED BY <1>1, <1>2, <1>3, <1>4, <1>5, LoaderFrame

\* Fragments::load_cells finds fragments.
LEMMA SelectKeeps ==
  ASSUME BlockInv, NEW b \in Blocks, NEW N \in SUBSET frags, Select(b, N)
  PROVE  BlockInv'
<1> USE DEF BlockInv, Select
<1>0. N \subseteq frags \ taken[b]
  BY DEF Candidates
<1>1. LoaderTypes'
  BY <1>0 DEF LoaderTypes, Loading, LogInv, Cells
<1>2. /\ taken'[b] = taken[b] \cup N /\ logs'[b] = logs[b] \cup N
      /\ lp'[b] = (IF lp[b] = "final" THEN "pop" ELSE "apply")
      /\ \A x \in Blocks \ {b} :
           lp'[x] = lp[x] /\ taken'[x] = taken[x] /\ logs'[x] = logs[x]
  BY DEF LoaderTypes
<1>3. PlaceInv(b)'
  <2>1. N \cap (queue[b] \cup {hand[b]}) = {}
    <3>1. /\ queue[b] \subseteq {{}, Stored} \cup taken[b]
          /\ hand[b] \in {{}, Stored} \cup taken[b]
      BY DEF PlaceInv
    <3>2. {} \notin frags /\ Stored \notin frags
      BY Apart
    <3> QED BY ONLY <1>0, <3>1, <3>2
  <2>2. UNCHANGED <<frags, cs, queue, hand>> /\ PlaceInv(b)
    BY DEF log
  <2> QED BY ONLY <1>0, <1>2, <2>1, <2>2 DEF PlaceInv
<1>4. IdleInv(b)'
  BY <1>2 DEF IdleInv, Exists, block, Loading
<1>5. ASSUME NEW c \in Cells PROVE Received(b, c)' <=> Received(b, c)
  <2>1. CASE \E f \in N : c \in f
    <3>1. ~Asked(b, c)
      BY <1>0, <2>1, Apart DEF Asked, PlaceInv
    <3>2. OnWay(b, c)'
      BY <1>2, <2>1 DEF OnWay
    <3> QED BY <3>1, <3>2 DEF Received
  <2>2. CASE ~\E f \in N : c \in f
    BY <1>2, <2>2 DEF Received, Asked, OnWay
  <2> QED BY <2>1, <2>2
<1> QED BY <1>1, <1>2, <1>3, <1>4, <1>5, LoaderFrame

\* Fragments::load_cells finds none.
LEMMA SelectNoneKeeps ==
  ASSUME BlockInv, NEW b \in Blocks, SelectNone(b)
  PROVE  BlockInv'
<1> USE DEF BlockInv, SelectNone
<1>1. LoaderTypes'
  BY DEF LoaderTypes, Loading
<1>2. lp'[b] = "apply" /\ \A x \in Blocks \ {b} : lp'[x] = lp[x]
  BY DEF LoaderTypes
<1>3. PlaceInv(b)'
  BY DEF PlaceInv, log
<1>4. IdleInv(b)'
  BY <1>2 DEF IdleInv, Exists, block, Loading
<1>5. \A c \in Cells : Received(b, c)' <=> Received(b, c)
  BY DEF Received, Asked, OnWay
<1> QED BY <1>1, <1>2, <1>3, <1>4, <1>5, LoaderFrame

\* Block::loader_loaded
LEMMA LoaderLoadedKeeps ==
  ASSUME BlockInv, NEW b \in Blocks, LoaderLoaded(b)
  PROVE  BlockInv'
<1> USE BlockAssumption DEF BlockInv, LoaderLoaded, log, block
<1>0. /\ \A u \in Updates : pc'[u] = pc[u]
      /\ \A r \in Scans : pc'[r] = IF pc[r] = "queued" /\ at[r] = b THEN "read" ELSE pc[r]
      /\ lp'[b] = "none" /\ taken'[b] = {}
      /\ \A x \in Blocks \ {b} : lp'[x] = lp[x] /\ taken'[x] = taken[x]
  BY DEF ClientTypes, LoaderTypes
<1>1. ClientTypes'
  <2>1. pc' \in [Updates \cup Scans -> Updating \cup Scanning]
    BY DEF ClientTypes, Scanning
  <2> QED BY <1>0, <2>1 DEF ClientTypes, Scanning
<1>2. BlockTypes' /\ LoaderTypes'
  BY DEF BlockTypes, LoaderTypes
<1>3. LogInv' /\ UpdateInv'
  BY <1>0 DEF LogInv, UpdateInv, Interval
<1>4. ScanInv'
  <2>1. state[b] = "LOADED"
    BY DEF IdleInv
  <2> QED BY <1>0, <2>1 DEF ScanInv, ClientTypes, Interval
<1>5. ASSUME NEW x \in Blocks
      PROVE  (PlaceInv(x) /\ IdleInv(x) /\ LoadingInv(x) /\ NoneInv(x))'
  <2>1. CASE x = b
    BY <1>0, <1>5, <2>1
    DEF PlaceInv, IdleInv, LoadingInv, NoneInv, Exists, Loading
  <2>2. CASE x # b
    BY <1>0, <1>5, <2>2 DEF PlaceInv, IdleInv, LoadingInv, NoneInv, Exists, Interval,
                            Received, Asked, OnWay
  <2> QED BY <2>1, <2>2
<1>6. ASSUME NEW x \in Blocks PROVE LoadedInv(x)'
  <2>1. UNCHANGED <<split, state, got, raced, left>> /\ LoadedInv(x)
    BY <1>6
  <2>2. Interval(x)' = Interval(x)
    BY <2>1 DEF Interval
  <2> QED BY ONLY <1>0, <2>1, <2>2 DEF LoadedInv, Complete
<1> QED BY <1>1, <1>2, <1>3, <1>4, <1>5, <1>6

\* BlockLoader::run: nothing is received yet.
LEMMA StartLoaderIs ==
  ASSUME BlockInv, NEW b \in Blocks, state[b] = "NONE", Exists(b), StartLoader(b),
         UNCHANGED <<log, split, got, raced, left>>,
         \A u \in Updates : pc'[u] = pc[u]
  PROVE  /\ LoaderTypes'
         /\ state' \in [Blocks -> {"NONE", "LOADING", "LOADED"}]
         /\ \A x \in Blocks : state[x] = "LOADED" => state'[x] = "LOADED"
         /\ \A x \in Blocks :
              (PlaceInv(x) /\ IdleInv(x) /\ LoadingInv(x) /\ LoadedInv(x) /\ NoneInv(x))'
<1> USE BlockAssumption DEF BlockInv, StartLoader, log
<1>0. /\ state'[b] = "LOADING" /\ lp'[b] = "pop" /\ "run" \in cs'[b]
      /\ "block" \in cs'[b] <=> Stored \cap Interval(b) # {}
      /\ \A x \in Blocks \ {b} : state'[x] = state[x] /\ lp'[x] = lp[x] /\ cs'[x] = cs[x]
  BY DEF BlockTypes, LoaderTypes
<1>1. LoaderTypes'
  BY DEF LoaderTypes, Loading
<1>2. state' \in [Blocks -> {"NONE", "LOADING", "LOADED"}]
  BY DEF BlockTypes
<1>3. lp[b] = "none"
  BY DEF IdleInv, LoaderTypes
<1>4. \A c \in Cells : c \in Interval(b) => ~Received(b, c)'
  BY <1>0, <1>3 DEF IdleInv, Received, Asked, OnWay
<1>5. (PlaceInv(b) /\ IdleInv(b) /\ LoadingInv(b) /\ LoadedInv(b) /\ NoneInv(b))'
  <2>1. PlaceInv(b)'
    BY <1>0, <1>3 DEF PlaceInv, IdleInv
  <2>2. IdleInv(b)'
    BY <1>0, <1>3 DEF IdleInv, Exists, Loading
  <2>3. LoadingInv(b)'
    BY <1>0, <1>4 DEF LoadingInv, NoneInv, None, Interval, Cells
  <2>4. LoadedInv(b)' /\ NoneInv(b)'
    BY <1>0 DEF LoadedInv, Complete, NoneInv
  <2> QED BY <2>1, <2>2, <2>3, <2>4
<1>6. ASSUME NEW x \in Blocks \ {b}
      PROVE  (PlaceInv(x) /\ IdleInv(x) /\ LoadingInv(x) /\ LoadedInv(x) /\ NoneInv(x))'
  <2>1. (PlaceInv(x) /\ IdleInv(x) /\ LoadingInv(x) /\ NoneInv(x))'
    BY <1>0, <1>6 DEF PlaceInv, IdleInv, LoadingInv, NoneInv, Exists, Interval,
                      Received, Asked, OnWay
  <2>2. UNCHANGED <<split, got, raced, left>> /\ LoadedInv(x)
    BY <1>6
  <2>3. Interval(x)' = Interval(x)
    BY <2>2 DEF Interval
  <2>4. LoadedInv(x)'
    BY ONLY <1>0, <1>6, <2>2, <2>3, \A u \in Updates : pc'[u] = pc[u] DEF LoadedInv, Complete
  <2> QED BY <2>1, <2>4
<1> QED BY <1>0, <1>1, <1>2, <1>5, <1>6

\* Block::scan
LEMMA ScanStateKeeps ==
  ASSUME BlockInv, NEW r \in Scans, ScanState(r)
  PROVE  BlockInv'
<1> USE BlockAssumption DEF BlockInv, ScanState
<1> DEFINE b == at[r]
           p == IF state[b] = "LOADED" THEN "read" ELSE "queued"
<1>0. /\ b \in Blocks /\ p \in Scanning /\ pc' = [pc EXCEPT ![r] = p]
      /\ \A u \in Updates : pc'[u] = pc[u]
      /\ \A u \in Updates : at'[u] = at[u]
  BY DEF ClientTypes, Scanning
<1>1. ClientTypes'
  BY <1>0 DEF ClientTypes, Scanning
<1>2. LogInv' /\ UpdateInv'
  BY <1>0 DEF LogInv, UpdateInv, Interval, log
<1>3. CASE state[b] = "NONE"
  <2>1. StartLoader(b) /\ Exists(b)
    BY <1>0, <1>3 DEF ScanInv, Exists, Blocks
  <2>2. /\ LoaderTypes'
        /\ state' \in [Blocks -> {"NONE", "LOADING", "LOADED"}]
        /\ \A x \in Blocks : state[x] = "LOADED" => state'[x] = "LOADED"
        /\ \A x \in Blocks :
             (PlaceInv(x) /\ IdleInv(x) /\ LoadingInv(x) /\ LoadedInv(x) /\ NoneInv(x))'
    BY <1>0, <1>3, <2>1, StartLoaderIs
  <2>3. BlockTypes'
    BY <2>2 DEF BlockTypes
  <2>4. ScanInv'
    BY <1>0, <1>3, <2>2 DEF ScanInv, ClientTypes, Interval
  <2> QED BY <1>1, <1>2, <2>2, <2>3, <2>4
<1>4. CASE state[b] # "NONE"
  <2>0. UNCHANGED <<state, loader>>
    BY <1>4
  <2>1. BlockTypes' /\ LoaderTypes'
    BY <2>0 DEF BlockTypes, LoaderTypes, loader
  <2>2. ScanInv'
    BY <1>0, <2>0 DEF ScanInv, ClientTypes, Interval
  <2>3. ASSUME NEW x \in Blocks
        PROVE  (PlaceInv(x) /\ IdleInv(x) /\ LoadingInv(x) /\ LoadedInv(x) /\ NoneInv(x))'
    BY <1>0, <2>0, <2>3, ScanFrame
  <2> QED BY <1>1, <1>2, <2>1, <2>2, <2>3
<1> QED BY <1>3, <1>4

\* Block::preload
LEMMA BlockPreloadKeeps ==
  ASSUME BlockInv, BlockPreload
  PROVE  BlockInv'
<1> USE BlockAssumption DEF BlockInv, BlockPreload, client
<1>1. /\ LoaderTypes'
      /\ state' \in [Blocks -> {"NONE", "LOADING", "LOADED"}]
      /\ \A x \in Blocks : state[x] = "LOADED" => state'[x] = "LOADED"
      /\ \A x \in Blocks :
           (PlaceInv(x) /\ IdleInv(x) /\ LoadingInv(x) /\ LoadedInv(x) /\ NoneInv(x))'
  BY StartLoaderIs DEF Blocks, Exists
<1>2. ClientTypes' /\ BlockTypes'
  BY <1>1 DEF ClientTypes, BlockTypes
<1>3. LogInv' /\ UpdateInv'
  BY DEF LogInv, UpdateInv, Interval, log
<1>4. ScanInv'
  BY <1>1 DEF ScanInv, ClientTypes, Interval
<1> QED BY <1>1, <1>2, <1>3, <1>4

-----------------------------------------------------------------------------
(***************************************************************************)
(* Splits.                                                                 *)
(***************************************************************************)

\* Block::splitter: b has g, or "A" is split at the key.
LEMMA SplitterIs ==
  ASSUME BlockTypes, NEW b \in Blocks, NEW g \in [Cells -> Nat], NEW how \in Hows,
         Splitter(b, g, how)
  PROVE  /\ got' \in [Blocks -> [Cells -> Nat]]
         /\ split' \in BOOLEAN /\ overtaken' \subseteq Scans
         /\ \/ /\ how = "no" /\ UNCHANGED <<split, overtaken>>
               /\ got'[b] = g /\ \A x \in Blocks \ {b} : got'[x] = got[x]
            \/ /\ how # "no" /\ b = "A" /\ ~split /\ split'
               /\ overtaken' = {r \in Scans : pc[r] = "next"}
               /\ got'["A"] = Part(g, Cells \ Upper)
               /\ got'["B"] = IF how = "kept" THEN Part(g, Upper) ELSE None
<1>1. CASE how = "no"
  BY <1>1 DEF Splitter, BlockTypes
<1>2. CASE how # "no"
  <2>1. /\ Part(g, Cells \ Upper) \in [Cells -> Nat]
        /\ Part(g, Upper) \in [Cells -> Nat] /\ None \in [Cells -> Nat]
    BY DEF Part, None
  <2> DEFINE L == Part(g, Cells \ Upper)
             U == IF how = "kept" THEN Part(g, Upper) ELSE None
  <2>2. /\ b = "A" /\ ~split /\ split' = TRUE
        /\ overtaken' = {r \in Scans : pc[r] = "next"}
        /\ got' = [got EXCEPT !["A"] = L, !["B"] = U]
    BY <1>2 DEF Splitter
  <2>3. L \in [Cells -> Nat] /\ U \in [Cells -> Nat]
    BY <2>1
  <2> HIDE DEF L, U
  <2>4. got' \in [Blocks -> [Cells -> Nat]] /\ got'["A"] = L /\ got'["B"] = U
    BY <2>2, <2>3 DEF BlockTypes, Blocks
  <2> QED BY <1>2, <2>2, <2>4 DEF L, U
<1> QED BY <1>1, <1>2

\* A split keeps what is said of the scans.
LEMMA SplitScans ==
  ASSUME BlockInv, NEW b \in Blocks, NEW g \in [Cells -> Nat], NEW how \in Hows,
         Splitter(b, g, how), UNCHANGED <<must, seen>>,
         \A r \in Scans : pc'[r] = pc[r] /\ at'[r] = at[r],
         \A x \in Blocks : state[x] = "LOADED" => state'[x] = "LOADED",
         \A u \in Updates \ left : pc[u] = "done" => pc'[u] = "done" /\ u \notin left'
  PROVE  ScanInv'
<1> USE DEF BlockInv
<1>1. \/ how = "no" /\ UNCHANGED <<split, overtaken>>
      \/ ~split /\ split' /\ overtaken' = {r \in Scans : pc[r] = "next"}
  BY SplitterIs
<1>2. Interval("A")' \subseteq Interval("A")
  BY <1>1 DEF Interval, BlockTypes
<1>3. CASE how = "no" /\ UNCHANGED <<split, overtaken>>
  BY <1>2, <1>3 DEF ScanInv, ClientTypes
<1>4. CASE ~split /\ split' /\ overtaken' = {r \in Scans : pc[r] = "next"}
  BY <1>2, <1>4 DEF ScanInv, ClientTypes
<1> QED BY <1>1, <1>3, <1>4

\* A part of complete cells is complete.
LEMMA PartComplete ==
  ASSUME NEW g \in [Cells -> Nat], NEW I \in SUBSET Cells, NEW p, NEW rc, NEW lf,
         Complete(g, Cells, p, rc, lf)
  PROVE  Complete(Part(g, I), I, p, rc, lf)
BY DEF Complete, Part, Cells

\* A block that is loaded, and may be split, leaves both blocks as they should
\* be.
LEMMA LoadedSplit ==
  ASSUME BlockInv, NEW b \in Blocks, NEW g \in [Cells -> Nat], NEW how \in Hows,
         Splitter(b, g, how), state' = SplitState(b, how, "LOADED"), Exists(b),
         Complete(g, Interval(b), pc', raced', left'),
         \A x \in Blocks \ {b} : state[x] = "LOADED" =>
           Complete(got[x], Interval(x), pc', raced', left'),
         UNCHANGED <<log, cs, queue, logs, taken, hand>>,
         lp' \in [Blocks -> Loading \cup {"none", "loaded"}],
         lp'[b] \in {"none", "loaded"}, lp[b] \in {"none", "final", "loaded"},
         lp'[b] = "none" => lp[b] = "none",
         \A x \in Blocks \ {b} : lp'[x] = lp[x],
         raced \subseteq raced', raced' \subseteq Updates, left' \subseteq Updates,
         \A u \in Updates : pc[u] = "done" => pc'[u] = "done"
  PROVE  /\ BlockTypes' /\ LoaderTypes'
         /\ \A x \in Blocks : state[x] = "LOADED" => state'[x] = "LOADED"
         /\ \A x \in Blocks :
              (PlaceInv(x) /\ IdleInv(x) /\ LoadingInv(x) /\ LoadedInv(x) /\ NoneInv(x))'
<1> USE BlockAssumption DEF BlockInv
<1>0. /\ got' \in [Blocks -> [Cells -> Nat]]
      /\ split' \in BOOLEAN /\ overtaken' \subseteq Scans
      /\ \/ /\ how = "no" /\ UNCHANGED <<split, overtaken>>
            /\ got'[b] = g /\ \A x \in Blocks \ {b} : got'[x] = got[x]
         \/ /\ how # "no" /\ b = "A" /\ ~split /\ split'
            /\ overtaken' = {r \in Scans : pc[r] = "next"}
            /\ got'["A"] = Part(g, Cells \ Upper)
            /\ got'["B"] = IF how = "kept" THEN Part(g, Upper) ELSE None
  BY SplitterIs
<1>1. /\ state' \in [Blocks -> {"NONE", "LOADING", "LOADED"}]
      /\ state'[b] = "LOADED"
      /\ \A x \in Blocks \ {b} : state'[x] = IF b = "A" /\ how = "kept" THEN "LOADED" ELSE state[x]
  BY DEF SplitState, BlockTypes, Blocks
<1>2. BlockTypes' /\ LoaderTypes'
  BY <1>0, <1>1 DEF BlockTypes, LoaderTypes
<1>3. ASSUME NEW x \in Blocks PROVE PlaceInv(x)'
  BY <1>3 DEF PlaceInv, log
<1>4. (IdleInv(b) /\ LoadingInv(b) /\ NoneInv(b))'
  <2>1. Exists(b)'
    BY <1>0 DEF Exists
  <2>2. IdleInv(b)'
    BY <1>1, <2>1 DEF IdleInv, Loading
  <2> QED BY <1>1, <2>2 DEF LoadingInv, NoneInv
<1>5. CASE how = "no"
  <2>0. UNCHANGED split /\ \A x \in Blocks : Interval(x)' = Interval(x)
    BY <1>0, <1>5 DEF Interval
  <2>1. LoadedInv(b)'
    BY <1>0, <1>5, <2>0 DEF LoadedInv
  <2>2. ASSUME NEW x \in Blocks \ {b}
        PROVE  (IdleInv(x) /\ LoadingInv(x) /\ LoadedInv(x) /\ NoneInv(x))'
    <3>1. state'[x] = state[x] /\ got'[x] = got[x]
      BY <1>0, <1>1, <1>5
    <3>2. IdleInv(x)' /\ NoneInv(x)'
      BY <2>0, <3>1 DEF IdleInv, NoneInv, Exists
    <3>3. LoadedInv(x)'
      BY <2>0, <3>1 DEF LoadedInv
    <3>4. LoadingInv(x)'
      <4>1. LoadingInv(x) /\ Interval(x)' = Interval(x)
        BY <2>0, <2>2
      <4>2. \A c \in Cells : Received(x, c)' <=> Received(x, c)
        BY DEF Received, Asked, OnWay
      <4> QED BY <3>1, <4>1, <4>2 DEF LoadingInv
    <3> QED BY <3>2, <3>3, <3>4
  <2> QED BY <1>1, <1>2, <1>3, <1>4, <2>1, <2>2
<1>6. CASE how # "no"
  <2>0. b = "A" /\ ~split /\ split' /\ Interval("A") = Cells
    BY <1>0, <1>6 DEF Interval
  <2>1. Interval("A")' = Cells \ Upper /\ Interval("B")' = Upper /\ Upper \subseteq Cells
    BY <2>0 DEF Interval
  <2>2. /\ Complete(Part(g, Cells \ Upper), Cells \ Upper, pc', raced', left')
        /\ Complete(Part(g, Upper), Upper, pc', raced', left')
    BY <2>0, <2>1, PartComplete
  <2>3. LoadedInv("A")'
    BY <1>0, <1>6, <2>1, <2>2 DEF LoadedInv
  <2>4. state["B"] = "NONE" /\ lp["B"] = "none"
    BY <2>0 DEF IdleInv, Exists, LoaderTypes, Blocks
  <2>5. LoadedInv("B")'
    <3>1. CASE how = "kept"
      <4>1. got'["B"] = Part(g, Upper)
        BY <1>0, <3>1
      <4> QED BY <2>1, <2>2, <4>1 DEF LoadedInv
    <3>2. CASE how # "kept"
      <4>1. state'["B"] = "NONE"
        BY <1>1, <2>0, <2>4, <3>2 DEF Blocks
      <4> QED BY <4>1 DEF LoadedInv
    <3> QED BY <3>1, <3>2
  <2>6. IdleInv("B")'
    BY <1>1, <2>0, <2>4 DEF IdleInv, Exists, Blocks, Loading
  <2>7. LoadingInv("B")' /\ NoneInv("B")'
    BY <1>0, <1>1, <1>6, <2>0, <2>4 DEF LoadingInv, NoneInv, Blocks
  <2> QED BY <1>1, <1>2, <1>3, <1>4, <2>0, <2>3, <2>4, <2>5, <2>6, <2>7 DEF Blocks
<1> QED BY <1>5, <1>6

\* Block::load_cells
LEMMA ApplyKeeps ==
  ASSUME BlockInv, NEW b \in Blocks, NEW how \in Hows, Apply(b, how)
  PROVE  BlockInv'
<1> USE BlockAssumption DEF BlockInv
<1> DEFINE S == hand[b] \cap Interval(b)
           g == Plus(got[b], S)
<1>0. /\ lp[b] \in {"last", "apply"} /\ how \in {"no", "dropped"}
      /\ Splitter(b, g, how)
      /\ raced' = raced \cup {u \in S \cap Updates : pc[u] # "done"}
      /\ hand' = [hand EXCEPT ![b] = {}]
      /\ lp' = [lp EXCEPT ![b] = IF lp[b] = "last" THEN "final" ELSE "pop"]
      /\ UNCHANGED <<pc, at, rev, must, seen, mem, frags>>
      /\ UNCHANGED <<state, left, cs, queue, logs, taken>>
  BY DEF Apply, client, log
<1>1. g \in [Cells -> Nat]
  BY DEF Plus, BlockTypes
<1> HIDE DEF g
<1>2. /\ got' \in [Blocks -> [Cells -> Nat]]
      /\ split' \in BOOLEAN /\ overtaken' \subseteq Scans
      /\ \/ /\ how = "no" /\ UNCHANGED <<split, overtaken>>
            /\ got'[b] = g /\ \A x \in Blocks \ {b} : got'[x] = got[x]
         \/ /\ how # "no" /\ b = "A" /\ ~split /\ split'
            /\ overtaken' = {r \in Scans : pc[r] = "next"}
            /\ got'["A"] = Part(g, Cells \ Upper)
            /\ got'["B"] = IF how = "kept" THEN Part(g, Upper) ELSE None
  BY <1>0, <1>1, SplitterIs
<1>3. ClientTypes' /\ LoaderTypes'
  BY <1>0 DEF ClientTypes, LoaderTypes, Loading
<1>4. BlockTypes'
  BY <1>0, <1>2 DEF BlockTypes
<1>5. LogInv'
  BY <1>0 DEF LogInv
<1>6. UpdateInv'
  BY <1>0, <1>2 DEF UpdateInv, ClientTypes, Interval
<1>7. ScanInv'
  BY <1>0, <1>1, SplitScans
<1>8. /\ hand'[b] = {} /\ lp'[b] = (IF lp[b] = "last" THEN "final" ELSE "pop")
      /\ \A x \in Blocks \ {b} : lp'[x] = lp[x] /\ hand'[x] = hand[x]
  BY <1>0 DEF LoaderTypes
<1>9. state[b] = "LOADING"
  BY <1>0 DEF IdleInv, Loading
<1>10. ASSUME NEW x \in Blocks PROVE PlaceInv(x)'
  BY <1>0, <1>8, <1>10, Apart DEF PlaceInv
<1>11. IdleInv(b)'
  BY <1>0, <1>2, <1>8 DEF IdleInv, Exists, Loading
<1>12. LoadedInv(b)' /\ NoneInv(b)'
  BY <1>0, <1>9 DEF LoadedInv, NoneInv
<1>13. LoadingInv(b)'
  <2>1. ASSUME NEW c \in hand[b]
        PROVE  c \in Cells /\ Asked(b, c) /\ OnWay(b, c) /\ ~OnWay(b, c)'
    <3>1. c \in Cells /\ Asked(b, c) /\ OnWay(b, c)
      BY DEF LoaderTypes, PlaceInv, Asked, OnWay
    <3>2. /\ hand[b] \in {Stored} \cup frags /\ hand[b] \notin queue[b] \cup logs[b]
          /\ queue[b] \cup logs[b] \subseteq {{}, Stored} \cup frags
          /\ "block" \in cs[b] => hand[b] # Stored
      BY <2>1 DEF PlaceInv
    <3>3. \A i \in queue[b] \cup logs[b] : c \notin i
      BY <2>1, <3>2, Apart
    <3>4. "block" \in cs[b] => c \notin Stored
      BY <2>1, <3>2, Apart
    <3> QED BY <1>0, <1>8, <3>1, <3>3, <3>4 DEF OnWay
  <2>2. ASSUME NEW c \in Cells
        PROVE  Received(b, c)' <=> Received(b, c) \/ c \in hand[b]
    <3>1. Asked(b, c)' <=> Asked(b, c)
      BY <1>0 DEF Asked
    <3>2. CASE c \in hand[b]
      BY <2>1, <3>1, <3>2 DEF Received
    <3>3. CASE c \notin hand[b]
      BY <1>0, <1>8, <3>1, <3>3 DEF Received, OnWay
    <3> QED BY <3>2, <3>3
  <2>3. ASSUME NEW c \in Cells
        PROVE  g[c] = IF c \in Interval(b) /\ Received(b, c)' THEN 1 ELSE 0
    <3>1. got[b][c] = IF c \in Interval(b) /\ Received(b, c) THEN 1 ELSE 0
      BY <1>9 DEF LoadingInv
    <3>2. g[c] = IF c \in S THEN got[b][c] + 1 ELSE got[b][c]
      BY DEF g, Plus
    <3>3. c \in hand[b] => ~Received(b, c)
      BY <2>1 DEF Received
    <3> QED BY <2>2, <3>1, <3>2, <3>3
  <2> DEFINE Raced(h) == \A u \in Updates : h[u] > 0 /\ pc[u] # "done" => u \in raced'
  <2>6. Raced(g)
    BY <1>0, <1>9 DEF g, Plus, LoadingInv, Cells
  <2>4. CASE how = "no"
    <3>1. Interval(b)' = Interval(b) /\ got'[b] = g
      BY <1>2, <2>4 DEF Interval
    <3> QED BY <1>0, <2>3, <2>6, <3>1 DEF LoadingInv
  <2>5. CASE how # "no"
    <3>1. b = "A" /\ Interval(b) = Cells /\ Interval(b)' = Cells \ Upper
      BY <1>2, <2>5 DEF Interval
    <3>2. \A c \in Cells : got'[b][c] = IF c \in Cells \ Upper THEN g[c] ELSE 0
      BY <1>2, <2>5 DEF Part
    <3>3. Raced(got'[b])
      BY <2>6, <3>2 DEF Cells
    <3> QED BY <1>0, <2>3, <3>1, <3>2, <3>3 DEF LoadingInv
  <2> QED BY <2>4, <2>5
<1>14. ASSUME NEW x \in Blocks \ {b}
       PROVE  (IdleInv(x) /\ LoadingInv(x) /\ LoadedInv(x) /\ NoneInv(x))'
  <2>1. CASE how = "no"
    <3>1. /\ UNCHANGED split /\ Interval(x)' = Interval(x) /\ got'[x] = got[x]
          /\ UNCHANGED <<pc, left, state>> /\ raced \subseteq raced'
      BY <1>0, <1>2, <2>1 DEF Interval
    <3>2. IdleInv(x)' /\ NoneInv(x)'
      BY <1>0, <1>8, <3>1 DEF IdleInv, NoneInv, Exists
    <3>3. LoadedInv(x)'
      <4>1. LoadedInv(x)
        BY <1>14
      <4> QED BY ONLY <3>1, <4>1 DEF LoadedInv, Complete
    <3>4. LoadingInv(x)'
      <4>1. LoadingInv(x)
        BY <1>14
      <4>2. \A c \in Cells : Received(x, c)' <=> Received(x, c)
        BY <1>0, <1>8 DEF Received, Asked, OnWay
      <4> QED BY ONLY <3>1, <4>1, <4>2 DEF LoadingInv
    <3> QED BY <3>2, <3>3, <3>4
  <2>2. CASE how # "no"
    <3>1. x = "B" /\ ~split /\ split'
      BY <1>2, <2>2 DEF Blocks
    <3>2. state[x] = "NONE" /\ got'[x] = None
      BY <1>0, <1>2, <2>2, <3>1 DEF IdleInv, Exists
    <3> QED BY <1>0, <1>8, <3>1, <3>2 DEF IdleInv, Exists, LoadingInv, LoadedInv, NoneInv
  <2> QED BY <2>1, <2>2
<1> QED BY <1>3, <1>4, <1>5, <1>6, <1>7, <1>10, <1>11, <1>12, <1>13, <1>14

\* Block::load_final: what is in no fragment that was taken is in memory.
LEMMA LoadFinalKeeps ==
  ASSUME BlockInv, NEW b \in Blocks, NEW how \in Hows, LoadFinal(b, how)
  PROVE  BlockInv'
<1> USE BlockAssumption DEF BlockInv
<1> DEFINE S == mem \cap Interval(b)
           g == Plus(got[b], S)
<1>0. /\ lp[b] = "final" /\ Candidates(b) = {}
      /\ Splitter(b, g, how)
      /\ state' = SplitState(b, how, "LOADED")
      /\ raced' = raced \cup {u \in S : pc[u] # "done"}
      /\ left' = left \ Interval(b)
      /\ lp' = [lp EXCEPT ![b] = "loaded"]
      /\ UNCHANGED <<pc, at, rev, must, seen, mem, frags>>
      /\ UNCHANGED <<cs, queue, logs, taken, hand>>
  BY DEF LoadFinal, client, log
<1>1. g \in [Cells -> Nat]
  BY DEF Plus, BlockTypes
<1>2. /\ lp' \in [Blocks -> Loading \cup {"none", "loaded"}] /\ lp'[b] = "loaded"
      /\ \A x \in Blocks \ {b} : lp'[x] = lp[x]
  BY <1>0 DEF LoaderTypes
<1>3. state[b] = "LOADING" /\ Exists(b)
  BY <1>0 DEF IdleInv, Loading
<1>4. \A c \in Cells : ~OnWay(b, c)
  BY <1>0 DEF IdleInv, OnWay
<1>5. raced \subseteq raced' /\ raced' \subseteq Updates /\ left' \subseteq Updates
  BY <1>0 DEF BlockTypes, LogInv
<1>6. Complete(g, Interval(b), pc', raced', left')
  <2>1. ASSUME NEW c \in Cells
        PROVE  /\ got[b][c] = IF c \in Interval(b) /\ Asked(b, c) THEN 1 ELSE 0
               /\ g[c] = IF c \in S THEN got[b][c] + 1 ELSE got[b][c]
    BY <1>3, <1>4 DEF LoadingInv, Received, Plus
  <2> HIDE DEF g
  <2>2. ASSUME NEW c \in Interval(b) \cap Stored PROVE g[c] = 1
    BY <2>1, <2>2 DEF Asked, LogInv, Cells
  <2>3. ASSUME NEW u \in Interval(b) \cap Updates
        PROVE  IF pc[u] = "idle" THEN g[u] = 0
               ELSE g[u] = 1 /\ (pc[u] # "done" => u \in raced')
    <3>1. CASE u \in mem
      <4>1. ~Asked(b, u) /\ pc[u] # "idle"
        BY <2>3, <3>1, Apart DEF Asked, PlaceInv, LogInv
      <4> QED BY <1>0, <2>1, <2>3, <3>1, <4>1 DEF Cells
    <3>2. CASE u \notin mem /\ \E f \in frags : u \in f
      <4>1. PICK f \in frags : u \in f
        BY <3>2
      <4>2. f \in taken[b]
        BY <1>0, <2>3, <4>1 DEF Candidates
      <4>3. Asked(b, u) /\ pc[u] # "idle"
        BY <2>3, <4>1, <4>2 DEF Asked, LogInv
      <4>4. g[u] = 1 /\ got[b][u] = 1
        BY <2>1, <2>3, <3>2, <4>3 DEF Cells
      <4> QED BY <1>3, <1>5, <2>3, <4>3, <4>4 DEF LoadingInv
    <3>3. CASE u \notin mem /\ ~\E f \in frags : u \in f
      <4>1. ~Asked(b, u) /\ pc[u] = "idle"
        BY <2>3, <3>3 DEF Asked, PlaceInv, LogInv
      <4> QED BY <2>1, <2>3, <3>3, <4>1 DEF Cells
    <3> QED BY <3>1, <3>2, <3>3
  <2>4. ASSUME NEW c \in Cells \ Interval(b) PROVE g[c] = 0
    BY <2>1, <2>4
  <2> QED BY <1>0, <2>2, <2>3, <2>4 DEF Complete
<1>7. ASSUME NEW x \in Blocks \ {b}, state[x] = "LOADED"
      PROVE  Complete(got[x], Interval(x), pc', raced', left')
  <2>1. Interval(x) \cap Interval(b) = {}
    <3>1. split
      BY <1>3, <1>7 DEF IdleInv, Exists, Blocks
    <3> QED BY <1>7, <3>1 DEF Interval, Blocks
  <2>2. Complete(got[x], Interval(x), pc, raced, left)
    BY <1>7 DEF LoadedInv
  <2>3. UNCHANGED pc /\ left' = left \ Interval(b)
    BY <1>0
  <2> QED BY ONLY <1>5, <2>1, <2>2, <2>3 DEF Complete
<1> HIDE DEF g
<1>8. /\ BlockTypes' /\ LoaderTypes'
      /\ \A x \in Blocks : state[x] = "LOADED" => state'[x] = "LOADED"
      /\ \A x \in Blocks :
           (PlaceInv(x) /\ IdleInv(x) /\ LoadingInv(x) /\ LoadedInv(x) /\ NoneInv(x))'
  BY <1>0, <1>1, <1>2, <1>3, <1>5, <1>6, <1>7, LoadedSplit DEF log
<1>9. ClientTypes' /\ LogInv'
  BY <1>0 DEF ClientTypes, LogInv
<1>10. ScanInv'
  BY <1>0, <1>1, <1>8, SplitScans
<1>11. UpdateInv'
  <2>1. split => split'
    BY <1>0, <1>1, SplitterIs
  <2> QED BY <1>0, <2>1 DEF UpdateInv, Interval
<1> QED BY <1>8, <1>9, <1>10, <1>11

\* Block::add_logged, under m_mutex
LEMMA PutKeeps ==
  ASSUME BlockInv, NEW u \in Updates, NEW how \in Hows, Put(u, how)
  PROVE  BlockInv'
<1> USE BlockAssumption DEF BlockInv
<1> DEFINE b == at[u]
           g == Plus(got[b], {u})
<1>0. pc[u] = "put" /\ b \in Blocks /\ UNCHANGED <<must, seen, mem, frags, loader>>
  BY DEF Put, ClientTypes, log
<1>1. CASE /\ rev[u] # split /\ u \notin Interval(b)
           /\ at' = [at EXCEPT ![u] = "B"] /\ pc' = [pc EXCEPT ![u] = "check"]
           /\ UNCHANGED <<rev, block>>
  <2> USE <1>0, <1>1 DEF block, loader
  <2>1. ClientTypes' /\ LogInv'
    BY DEF ClientTypes, LogInv, Updating, Blocks
  <2>2. BlockTypes' /\ LoaderTypes'
    BY DEF BlockTypes, LoaderTypes
  <2>3. UpdateInv'
    BY DEF UpdateInv, ClientTypes, BlockTypes, Interval, Cells, Blocks
  <2>4. ScanInv'
    BY DEF ScanInv, ClientTypes, Interval
  <2>5. ASSUME NEW x \in Blocks
        PROVE  (PlaceInv(x) /\ IdleInv(x) /\ LoadingInv(x) /\ NoneInv(x))'
    BY <2>5 DEF PlaceInv, IdleInv, LoadingInv, NoneInv, Exists, Interval, Received,
                Asked, OnWay, ClientTypes
  <2>6. ASSUME NEW x \in Blocks PROVE LoadedInv(x)'
    BY <2>6 DEF LoadedInv, Complete, ClientTypes, Interval
  <2> QED BY <2>1, <2>2, <2>3, <2>4, <2>5, <2>6
<1>2. ASSUME rev[u] = split \/ u \in Interval(b), Return(u)
      PROVE  /\ u \in Interval(b) /\ pc'[u] = "done" /\ ClientTypes' /\ LogInv'
             /\ \A v \in Updates \ {u} : pc'[v] = pc[v] /\ at'[v] = at[v] /\ rev'[v] = rev[v]
             /\ \A r \in Scans : pc'[r] = pc[r] /\ at'[r] = at[r]
             /\ at'[u] = "A" /\ rev'[u] = FALSE
  <2>1. ClientTypes'
    BY <1>0, <1>2 DEF ClientTypes, Return, Updating, Blocks
  <2>2. LogInv'
    BY <1>0, <1>2 DEF ClientTypes, LogInv, Return
  <2>3. u \in Interval(b)
    BY <1>0, <1>2 DEF UpdateInv, ClientTypes, BlockTypes, Interval, Cells
  <2>4. /\ pc'[u] = "done" /\ at'[u] = "A" /\ rev'[u] = FALSE
        /\ \A v \in Updates \ {u} : pc'[v] = pc[v] /\ at'[v] = at[v] /\ rev'[v] = rev[v]
        /\ \A r \in Scans : pc'[r] = pc[r] /\ at'[r] = at[r]
    BY <1>2 DEF ClientTypes, Return
  <2> QED BY <2>1, <2>2, <2>3, <2>4
<1>3. CASE /\ rev[u] = split \/ u \in Interval(b)
           /\ state[b] # "LOADED" /\ Return(u) /\ UNCHANGED block
  <2>0. /\ u \in Interval(b) /\ pc'[u] = "done" /\ ClientTypes' /\ LogInv'
        /\ \A v \in Updates \ {u} : pc'[v] = pc[v] /\ at'[v] = at[v] /\ rev'[v] = rev[v]
        /\ \A r \in Scans : pc'[r] = pc[r] /\ at'[r] = at[r]
        /\ at'[u] = "A" /\ rev'[u] = FALSE
    BY <1>2, <1>3
  <2> USE <1>0, <1>3, <2>0 DEF block, loader
  <2>1. BlockTypes' /\ LoaderTypes'
    BY DEF BlockTypes, LoaderTypes
  <2>2. UpdateInv'
    BY DEF UpdateInv, Interval
  <2>3. ScanInv'
    BY DEF ScanInv, Interval
  <2>4. ASSUME NEW x \in Blocks
        PROVE  (PlaceInv(x) /\ IdleInv(x) /\ LoadingInv(x) /\ NoneInv(x))'
    BY <2>4 DEF PlaceInv, IdleInv, LoadingInv, NoneInv, Exists, Interval, Received,
                Asked, OnWay
  <2>5. ASSUME NEW x \in Blocks PROVE LoadedInv(x)'
    <3>1. ASSUME state[x] = "LOADED" PROVE u \notin Interval(x)
      <4>1. split /\ x # b
        BY <2>5, <3>1 DEF IdleInv, UpdateInv, Exists, Blocks
      <4> QED BY <2>5, <4>1 DEF Interval, Blocks
    <3>2. LoadedInv(x) /\ Interval(x)' = Interval(x)
      BY <2>5 DEF Interval
    <3> QED BY <3>1, <3>2 DEF LoadedInv, Complete
  <2> QED BY <2>1, <2>2, <2>3, <2>4, <2>5
<1>4. CASE /\ rev[u] = split \/ u \in Interval(b)
           /\ state[b] = "LOADED"
           /\ Splitter(b, g, how) /\ state' = SplitState(b, how, "LOADED")
           /\ Return(u) /\ UNCHANGED <<raced, left>>
  <2>1. g \in [Cells -> Nat]
    BY <1>0 DEF Plus, BlockTypes
  <2>2. lp[b] \in {"none", "loaded"} /\ Exists(b) /\ UNCHANGED <<lp, cs, queue, logs, taken, hand>>
    BY <1>0, <1>4 DEF IdleInv, LoaderTypes, loader
  <2>3. Complete(g, Interval(b), pc', raced', left')
    <3>1. Complete(got[b], Interval(b), pc, raced, left)
      BY <1>0, <1>4 DEF LoadedInv
    <3>2. \A c \in Cells : g[c] = IF c = u THEN got[b][c] + 1 ELSE got[b][c]
      BY DEF Plus
    <3>3. u \notin Stored /\ u \in Interval(b) /\ Interval(b) \subseteq Cells
      BY <1>2, <1>4 DEF Interval
    <3> HIDE DEF g, b
    <3> QED BY <1>0, <1>2, <1>4, <3>1, <3>2, <3>3 DEF Complete, Cells
  <2>4. ASSUME NEW x \in Blocks \ {b}, state[x] = "LOADED"
        PROVE  Complete(got[x], Interval(x), pc', raced', left')
    <3>1. u \notin Interval(x)
      <4>1. split
        BY <1>0, <2>2, <2>4 DEF IdleInv, Exists, Blocks
      <4> QED BY <1>0, <1>2, <1>4, <2>4, <4>1 DEF Interval, Blocks
    <3>2. Complete(got[x], Interval(x), pc, raced, left)
      BY <2>4 DEF LoadedInv
    <3> QED BY <1>2, <1>4, <3>1, <3>2 DEF Complete
  <2> HIDE DEF g
  <2>5. /\ BlockTypes' /\ LoaderTypes'
        /\ \A x \in Blocks : state[x] = "LOADED" => state'[x] = "LOADED"
        /\ \A x \in Blocks :
             (PlaceInv(x) /\ IdleInv(x) /\ LoadingInv(x) /\ LoadedInv(x) /\ NoneInv(x))'
    <3>1. /\ raced' \subseteq Updates /\ left' \subseteq Updates
          /\ lp' \in [Blocks -> Loading \cup {"none", "loaded"}]
          /\ \A v \in Updates : pc[v] = "done" => pc'[v] = "done"
      BY <1>2, <1>4, <2>2 DEF BlockTypes, LoaderTypes
    <3> QED BY <1>0, <1>4, <2>1, <2>2, <2>3, <2>4, <3>1, LoadedSplit DEF log
  <2>6. ScanInv'
    BY <1>0, <1>2, <1>4, <2>1, <2>5, SplitScans
  <2>7. UpdateInv'
    <3>1. split => split'
      BY <1>0, <1>4, <2>1, SplitterIs
    <3> QED BY <1>2, <1>4, <3>1 DEF UpdateInv, Interval
  <2> QED BY <1>2, <1>4, <2>5, <2>6, <2>7
<1> QED BY <1>0, <1>1, <1>3, <1>4 DEF Put

-----------------------------------------------------------------------------
(***************************************************************************)
(* The theorems.                                                           *)
(***************************************************************************)

\* Every step of an update, a scan, a loader or the log keeps the invariant.
LEMMA BlockStep == BlockInv /\ [Next]_vars => BlockInv'
<1> SUFFICES ASSUME BlockInv, [Next]_vars PROVE BlockInv'
  OBVIOUS
<1>1. CASE \E u \in Updates : UpdateStep(u)
  BY <1>1, LogKeeps, CheckKeeps, TestKeeps, PutKeeps DEF UpdateStep
<1>2. CASE \E S \in SUBSET mem : Roll(S)
  BY <1>2, RollKeeps
<1>3. CASE \E r \in Scans : Scan(r) \/ ScanStep(r)
  BY <1>3, ScanKeeps, ScanStateKeeps, ReadKeeps, NextBlockKeeps DEF ScanStep
<1>4. CASE \E b \in Blocks : Release(b)
  BY <1>4, ReleaseKeeps
<1>5. CASE \E b \in Blocks : LoaderStep(b)
  BY <1>5, PopKeeps, ApplyKeeps, LoadFinalKeeps, SelectKeeps, SelectNoneKeeps,
     LoaderLoadedKeeps DEF LoaderStep
<1>6. CASE \E b \in Blocks : ReadStep(b)
  BY <1>6, CsLoadedKeeps, RunEndKeeps, FragmentLoadedKeeps DEF ReadStep
<1>7. CASE BlockPreload
  BY <1>7, BlockPreloadKeeps
<1>8. CASE UNCHANGED vars
  <2>1. /\ UNCHANGED <<client, log, block>>
        /\ UNCHANGED <<lp, cs, queue, logs, taken, hand>>
    BY <1>8 DEF vars, loader
  <2>2. LoaderTypes' /\ PlaceInv("A")' /\ IdleInv("A")'
    BY <2>1 DEF BlockInv, LoaderTypes, PlaceInv, IdleInv, Exists, Blocks, block, log
  <2>3. \A c \in Cells : Received("A", c)' <=> Received("A", c)
    BY <2>1 DEF Received, Asked, OnWay
  <2> QED BY <2>1, <2>2, <2>3, LoaderFrame DEF Blocks
<1> QED BY <1>1, <1>2, <1>3, <1>4, <1>5, <1>6, <1>7, <1>8 DEF Next

\* The inductive invariant holds in every reachable state.
THEOREM BlockInvariant == Spec => []BlockInv
<1> QED BY BlockInit, BlockStep, PTL DEF Spec

\* A loaded block has every cell of its interval, and no block has a cell of
\* another: Block::load_final, Block::add_logged and Block::_split.
THEOREM BlockCompleteHolds == Spec => []BlockComplete
<1>1. BlockInv => BlockComplete
  <2> SUFFICES ASSUME BlockInv PROVE BlockComplete
    OBVIOUS
  <2> USE BlockAssumption DEF BlockInv
  <2>1. ASSUME NEW b \in Blocks
        PROVE  got[b] \in [Cells -> 0 .. 2] /\ \A c \in Cells \ Interval(b) : got[b][c] = 0
    <3>1. CASE state[b] = "NONE"
      BY <2>1, <3>1 DEF NoneInv, None
    <3>2. CASE state[b] = "LOADING"
      BY <2>1, <3>2 DEF LoadingInv, BlockTypes
    <3>3. CASE state[b] = "LOADED"
      <4>1. Complete(got[b], Interval(b), pc, raced, left)
        BY <3>3 DEF LoadedInv
      <4>2. ASSUME NEW c \in Cells PROVE got[b][c] \in 0 .. 2
        <5>1. CASE c \in Interval(b) \cap Stored
          BY <4>1, <5>1 DEF Complete
        <5>2. CASE c \in Interval(b) \cap Updates
          BY <4>1, <5>2 DEF Complete
        <5>3. CASE c \notin Interval(b)
          BY <4>1, <5>3 DEF Complete
        <5> QED BY <5>1, <5>2, <5>3 DEF Cells
      <4> QED BY <4>1, <4>2 DEF Complete, BlockTypes
    <3> QED BY <2>1, <3>1, <3>2, <3>3 DEF BlockTypes
  <2>2. TypeOK
    BY <2>1 DEF TypeOK, ClientTypes, BlockTypes, LoaderTypes, IdleInv, NoneInv, Updating,
               Scanning, Loading
  <2>3. ASSUME NEW b \in Blocks, state[b] = "LOADED", NEW c \in Interval(b),
               c \in Stored \/ (c \in Updates \ left /\ pc[c] = "done")
        PROVE  got[b][c] > 0
    BY <2>3 DEF LoadedInv, Complete
  <2> QED BY <2>1, <2>2, <2>3 DEF BlockComplete
<1> QED BY <1>1, BlockInvariant, PTL

\* A scan has read every cell that was acknowledged when it began: Blocks::scan
\* over blocks that are loaded, split and released.
THEOREM ScanCompleteHolds == Spec => []ScanComplete
<1>1. BlockInv => ScanComplete
  BY DEF BlockInv, ScanInv, ScanComplete
<1> QED BY <1>1, BlockInvariant, PTL

\* No fragment is applied twice, and no cell from a fragment and from memory:
\* BlockLoader::load_cells and Fragments::load_cells.
THEOREM AppliedOnce == Spec => []OnceUnlessRaced
<1>1. BlockInv => OnceUnlessRaced
  <2> SUFFICES ASSUME BlockInv, NEW b \in Blocks, NEW c \in Cells, got[b][c] > 1
               PROVE  c \in raced
    BY DEF OnceUnlessRaced
  <2> USE DEF BlockInv
  <2>1. state[b] = "LOADED"
    BY DEF NoneInv, None, LoadingInv, BlockTypes
  <2>2. Complete(got[b], Interval(b), pc, raced, left)
    BY <2>1 DEF LoadedInv
  <2>3. c \in Interval(b) \cap Updates
    BY <2>2 DEF Complete, Cells
  <2> QED BY <2>2, <2>3 DEF Complete
<1> QED BY <1>1, BlockInvariant, PTL

\* A scan that was not overtaken by a split reads no cell twice.
THEOREM ReadOnce == Spec => []ReadOnceUnlessSplit
<1>1. BlockInv => ReadOnceUnlessSplit
  <2> SUFFICES ASSUME BlockInv, NEW r \in Scans, pc[r] = "read", r \notin overtaken,
                      NEW c \in seen[r]
               PROVE  got[at[r]][c] = 0
    BY DEF ReadOnceUnlessSplit
  <2> USE DEF BlockInv
  <2>1. at[r] = "B" /\ c \in Cells /\ c \notin Upper /\ state["B"] = "LOADED"
    BY DEF ScanInv, ClientTypes, Blocks
  <2> QED BY <2>1 DEF LoadedInv, Complete, Interval, Blocks
<1> QED BY <1>1, BlockInvariant, PTL

-----------------------------------------------------------------------------
(***************************************************************************)
(* No scan waits for nobody.  ScanAnswered is this, and fairness.          *)
(***************************************************************************)

\* Something is asked for that will be in m_queue, or is there.
Coming(b) == cs[b] # {} \/ queue[b] # {} \/ logs[b] # {}

\* A loader that works on an item with more to come goes back to m_queue.
FedInv == \A b \in Blocks : lp[b] \in {"pop", "select", "apply"} => Coming(b)

\* A scan in a block's queue is there before loader_loaded has emptied it.
WaitInv == \A r \in Scans : pc[r] = "queued" => lp[at[r]] # "none"

\* A scan that waits for its block has a loader that is to answer it, and no
\* loader is at an empty m_queue to which nothing is to come: of the tests of
\* sz in BlockLoader::load_cells, of the fragments it asks for before it
\* applies an item, and of the null item at the end of run(), none leaves it
\* waiting.
ScanAttended ==
  \A r \in Scans : pc[r] = "queued" =>
    /\ state[at[r]] = "LOADING" \/ lp[at[r]] = "loaded"
    /\ lp[at[r]] = "pop" => Coming(at[r])

\* What is popped is not the last unless the loader is told so.
LEMMA PopLeaves ==
  ASSUME BlockInv, NEW b \in Blocks, NEW i \in queue[b], Pop(b, i), lp'[b] # "last"
  PROVE  Coming(b)'
<1> USE BlockAssumption DEF BlockInv, Pop, LoaderTypes
<1>1. queue'[b] = queue[b] \ {i} /\ cs'[b] = cs[b] /\ logs'[b] = logs[b]
  OBVIOUS
<1>2. SUFFICES ASSUME queue[b] \ {i} = {}, logs[b] = {}, cs[b] = {} PROVE FALSE
  BY <1>1 DEF Coming
<1>3. queue[b] = {i}
  BY <1>2
<1>4. Cardinality(queue[b]) = 1 /\ Cardinality(logs[b]) = 0
  BY <1>2, <1>3, FS_Singleton, FS_EmptySet
<1>5. Outstanding(b) = 1
  BY <1>4 DEF Outstanding
<1>6. ~(Outstanding(b) - 1 >= Preload)
  BY <1>5
<1> QED BY <1>2, <1>5, <1>6

\* A step that adds to what is to come, or moves it on, leaves b fed.
LEMMA FedStep == BlockInv /\ FedInv /\ [Next]_vars => FedInv'
<1> SUFFICES ASSUME BlockInv, FedInv, [Next]_vars PROVE FedInv'
  OBVIOUS
<1>0. LoaderTypes
  BY DEF BlockInv
<1>1. CASE UNCHANGED loader
  BY <1>1 DEF FedInv, Coming, loader
<1>2. ASSUME NEW x \in Blocks, StartLoader(x) PROVE FedInv'
  BY <1>0, <1>2 DEF StartLoader, FedInv, Coming, LoaderTypes
<1>3. ASSUME NEW x \in Blocks, NEW i \in queue[x], Pop(x, i) PROVE FedInv'
  BY <1>0, <1>3, PopLeaves DEF Pop, FedInv, Coming, LoaderTypes
<1>4. ASSUME NEW x \in Blocks, NEW how \in Hows, Apply(x, how) \/ LoadFinal(x, how)
      PROVE  FedInv'
  BY <1>0, <1>4 DEF Apply, LoadFinal, FedInv, Coming, LoaderTypes
<1>5. ASSUME NEW x \in Blocks, NEW N \in SUBSET frags, Select(x, N) PROVE FedInv'
  <2>1. logs'[x] # {}
    BY <1>0, <1>5 DEF Select, LoaderTypes
  <2> QED BY <1>0, <1>5, <2>1 DEF Select, FedInv, Coming, LoaderTypes
<1>6. ASSUME NEW x \in Blocks, SelectNone(x) \/ LoaderLoaded(x) PROVE FedInv'
  BY <1>0, <1>6 DEF SelectNone, LoaderLoaded, FedInv, Coming, LoaderTypes
<1>7. ASSUME NEW x \in Blocks, ReadStep(x) PROVE FedInv'
  <2>1. PICK i : queue' = [queue EXCEPT ![x] = @ \cup {i}]
    BY <1>7 DEF ReadStep, CsLoaded, RunEnd, FragmentLoaded
  <2>2. queue'[x] # {} /\ \A y \in Blocks \ {x} : queue'[y] = queue[y]
    BY <1>0, <2>1 DEF LoaderTypes
  <2>3. /\ lp' = lp
        /\ \A y \in Blocks \ {x} : cs'[y] = cs[y] /\ logs'[y] = logs[y]
    BY <1>0, <1>7 DEF ReadStep, CsLoaded, RunEnd, FragmentLoaded, LoaderTypes
  <2> QED BY <2>2, <2>3 DEF FedInv, Coming
<1>8. CASE \E u \in Updates : UpdateStep(u)
  BY <1>1, <1>8 DEF UpdateStep, Log, Check, Test, Put
<1>9. CASE \E r \in Scans : Scan(r) \/ ScanStep(r)
  BY <1>1, <1>2, <1>9 DEF Scan, ScanStep, ScanState, Read, NextBlock, BlockInv, ClientTypes
<1>10. CASE (\E S \in SUBSET mem : Roll(S)) \/ (\E b \in Blocks : Release(b)) \/ UNCHANGED vars
  BY <1>1, <1>10 DEF Roll, Release, vars
<1>11. CASE BlockPreload
  BY <1>2, <1>11 DEF BlockPreload, Blocks
<1>12. CASE \E b \in Blocks : LoaderStep(b)
  BY <1>3, <1>4, <1>5, <1>6, <1>12 DEF LoaderStep
<1> QED BY <1>7, <1>8, <1>9, <1>10, <1>11, <1>12 DEF Next

\* A scan is put in the queue of a loader that is there, which goes only with
\* the scans of its queue.
LEMMA WaitStep == BlockInv /\ WaitInv /\ [Next]_vars => WaitInv'
<1> SUFFICES ASSUME BlockInv, WaitInv, [Next]_vars, NEW r \in Scans, pc'[r] = "queued"
             PROVE  lp'[at'[r]] # "none"
  BY DEF WaitInv
<1> USE BlockAssumption DEF BlockInv
<1>0. ClientTypes /\ LoaderTypes /\ at[r] \in Blocks
  BY DEF ClientTypes
<1>1. ASSUME UNCHANGED <<lp, pc, at>> PROVE lp'[at'[r]] # "none"
  BY <1>1 DEF WaitInv
<1>2. CASE \E u \in Updates : UpdateStep(u)
  BY <1>0, <1>2 DEF UpdateStep, Log, Check, Test, Put, Return, loader, WaitInv, ClientTypes
<1>3. CASE \E x \in Scans : Scan(x) \/ Read(x) \/ NextBlock(x)
  BY <1>0, <1>3 DEF Scan, Read, NextBlock, loader, WaitInv, ClientTypes
<1>4. ASSUME NEW x \in Scans, ScanState(x) PROVE lp'[at'[r]] # "none"
  <2>1. at' = at /\ at[x] \in Blocks
    BY <1>0, <1>4 DEF ScanState, ClientTypes
  <2>2. lp[at[r]] # "none" => lp'[at[r]] # "none"
    BY <1>0, <1>4, <2>1 DEF ScanState, StartLoader, loader, LoaderTypes
  <2>3. CASE x = r
    <3>1. state[at[r]] # "LOADED"
      BY <1>0, <1>4, <2>3 DEF ScanState, ClientTypes
    <3>2. CASE state[at[r]] = "NONE"
      BY <1>0, <1>4, <2>1, <2>3, <3>2 DEF ScanState, StartLoader, LoaderTypes
    <3>3. CASE state[at[r]] = "LOADING"
      BY <1>0, <2>1, <2>2, <3>3 DEF IdleInv, Loading
    <3> QED BY <1>0, <3>1, <3>2, <3>3 DEF BlockTypes
  <2>4. CASE x # r
    BY <1>0, <1>4, <2>1, <2>2, <2>4 DEF ScanState, WaitInv, ClientTypes
  <2> QED BY <2>3, <2>4
<1>5. CASE BlockPreload
  BY <1>0, <1>5 DEF BlockPreload, StartLoader, client, WaitInv, LoaderTypes, Blocks
<1>6. CASE (\E S \in SUBSET mem : Roll(S)) \/ (\E b \in Blocks : Release(b) \/ ReadStep(b))
           \/ UNCHANGED vars
  BY <1>1, <1>6 DEF Roll, Release, ReadStep, CsLoaded, RunEnd, FragmentLoaded, vars, client,
                    loader
<1>7. ASSUME NEW b \in Blocks, LoaderStep(b) PROVE lp'[at'[r]] # "none"
  <2>1. CASE LoaderLoaded(b)
    BY <1>0, <2>1 DEF LoaderLoaded, WaitInv, ClientTypes, LoaderTypes
  <2>2. CASE ~LoaderLoaded(b)
    <3>1. UNCHANGED <<pc, at>> /\ lp'[b] # "none"
          /\ \A x \in Blocks \ {b} : lp'[x] = lp[x]
      BY <1>0, <1>7, <2>2
      DEF LoaderStep, Pop, Apply, LoadFinal, Select, SelectNone, client, LoaderTypes
    <3> QED BY <1>0, <3>1 DEF WaitInv
  <2> QED BY <2>1, <2>2
<1> QED BY <1>2, <1>3, <1>4, <1>5, <1>6, <1>7 DEF Next, ScanStep

\* No scan waits for a loader that is gone, or that waits for nothing: Block::scan
\* against Block::loader_loaded, and BlockLoader::load_cells against its queue.
THEOREM ScansAttended == Spec => []ScanAttended
<1>1. Init => FedInv /\ WaitInv
  BY BlockAssumption DEF Init, FedInv, WaitInv, Blocks
<1>2. BlockInv /\ FedInv /\ WaitInv => ScanAttended
  <2> SUFFICES ASSUME BlockInv, FedInv, WaitInv, NEW r \in Scans, pc[r] = "queued"
               PROVE  /\ state[at[r]] = "LOADING" \/ lp[at[r]] = "loaded"
                      /\ lp[at[r]] = "pop" => Coming(at[r])
    BY DEF ScanAttended
  <2>1. at[r] \in Blocks /\ lp[at[r]] # "none"
    BY DEF BlockInv, ClientTypes, WaitInv
  <2>2. lp[at[r]] \in Loading \cup {"loaded"}
    BY <2>1 DEF BlockInv, LoaderTypes
  <2> QED BY <2>1, <2>2 DEF BlockInv, IdleInv, FedInv
<1> QED BY <1>1, <1>2, FedStep, WaitStep, BlockInvariant, PTL DEF Spec

=============================================================================
