-------------------------- MODULE RangeGate_proofs --------------------------
(***************************************************************************)
(* Proofs about RangeGate, for any finite sets of requests and any limit   *)
(* of workers.  CountInv is the inductive invariant: TypeOK is not         *)
(* inductive alone, because that a counter does not become negative        *)
(* depends on its units having owners.  GateInv adds who serves a queue    *)
(* and what an unload leaves behind, which rest on the counts.             *)
(***************************************************************************)
EXTENDS RangeGate, FiniteSetTheorems, TLAPS

\* The requests at given places form a finite set.
LEMMA PlacesFinite ==
  /\ IsFiniteSet(Held) /\ IsFiniteSet(Tokens) /\ IsFiniteSet(Scanning)
  /\ Cardinality(Held) \in Nat
  /\ Cardinality(Tokens) \in Nat
  /\ Cardinality(Scanning) \in Nat
<1>1. Held \subseteq Adds /\ Tokens \subseteq Adds /\ Scanning \subseteq Scans
  BY DEF Held, Tokens, Scanning
<1>2. IsFiniteSet(Held) /\ IsFiniteSet(Tokens) /\ IsFiniteSet(Scanning)
  BY <1>1, RequestsFinite, FS_Subset
<1> QED BY <1>2, FS_CardinalityType

\* One request more or less at given places is one more or less in number.
LEMMA OneMore ==
  ASSUME NEW S, IsFiniteSet(S), NEW x, x \notin S
  PROVE  Cardinality(S \cup {x}) = Cardinality(S) + 1
BY FS_AddElement

LEMMA OneLess ==
  ASSUME NEW S, IsFiniteSet(S), NEW x, x \in S
  PROVE  /\ Cardinality(S \ {x}) = Cardinality(S) - 1
         /\ Cardinality(S \ {x}) \in Nat
BY FS_RemoveElement, FS_CardinalityType

\* The initial state satisfies the invariant.
LEMMA CountInit == Init => CountInv
<1> SUFFICES ASSUME Init PROVE CountInv
  OBVIOUS
<1>1. Held = {} /\ Tokens = {} /\ Scanning = {}
  BY DEF Init, Held, Tokens, Scanning
<1>2. Cardinality({}) = 0
  BY FS_EmptySet
<1>3. TypeOK
  <2>1. runAdd \in BOOLEAN /\ runScan \in BOOLEAN /\ lapped \in BOOLEAN
    BY DEF Init
  <2>2. /\ wk \in [WkPlaces -> Nat]
        /\ upd \in [Adds -> UpdPlaces]
        /\ scan \in [Scans -> ScanPlaces]
        /\ drain \in [{"posted", "draining"} -> Nat]
        /\ lpc \in [{"load", "again"} -> {"idle", "busy", "done"}]
    BY DEF Init, UpdPlaces, ScanPlaces
  <2> QED
    BY <2>1, <2>2 DEF Init, TypeOK, States, NONE, APPLYING, CompactPlaces
<1>4. WorkersBounded /\ ProcessingCounted
  BY <1>1, <1>2, ConcurrencyPositive
     DEF Init, WorkersBounded, Workers, ProcessingCounted, LoadUnits,
         UnloadUnits, WkPlaces
<1>5. GateClosed /\ GateEmpty
  BY <1>1 DEF Init, GateClosed, GateEmpty, Window
<1> QED BY <1>3, <1>4, <1>5 DEF CountInv

-----------------------------------------------------------------------------
\* Steps that move no request between places of interest keep the counts.
LEMMA SameUpd == upd' = upd => Held' = Held /\ Tokens' = Tokens
BY DEF Held, Tokens

LEMMA SameScan == scan' = scan => Scanning' = Scanning
BY DEF Scanning

\* The parts of the invariant that every step below is checked against.
USE DEF CountInv, TypeOK, WorkersBounded, Workers, ProcessingCounted,
        GateClosed, GateEmpty, WkPlaces, LoadUnits, UnloadUnits

\* The steps of the worker threads.
LEMMA WorkerCounts == CountInv /\ Worker => CountInv'
<1> SUFFICES ASSUME CountInv, Worker PROVE CountInv'
  OBVIOUS
<1> USE PlacesFinite, ConcurrencyPositive
<1>1. CASE RunAddQueue
  <2>1. Held' = Held /\ Tokens' = Tokens /\ Scanning' = Scanning
    BY <1>1, SameUpd, SameScan DEF RunAddQueue
  <2> QED BY <1>1, <2>1 DEF RunAddQueue, Moved
<1>2. CASE RunAddOver
  <2>1. Held' = Held /\ Tokens' = Tokens /\ Scanning' = Scanning
    BY <1>2, SameUpd, SameScan DEF RunAddOver
  <2> QED BY <1>2, <2>1 DEF RunAddOver, Gone
<1>3. CASE WorkerHead
  <2>1. Held' = Held /\ Tokens' = Tokens /\ Scanning' = Scanning
    BY <1>3, SameUpd, SameScan DEF WorkerHead
  <2> QED BY <1>3, <2>1 DEF WorkerHead, Moved, gate
<1>4. CASE WorkerHold
  <2>1. Held' = Held /\ Tokens' = Tokens
    BY <1>4 DEF WorkerHold, QAdd, Held, Tokens, UpdPlaces
  <2>2. Scanning' = Scanning
    BY <1>4, SameScan DEF WorkerHold
  <2>3. upd' \in [Adds -> UpdPlaces]
    BY <1>4 DEF WorkerHold, UpdPlaces
  <2> QED BY <1>4, <2>1, <2>2, <2>3 DEF WorkerHold, Gone
<1>5. CASE WorkerEnter
  <2>1. Held' = Held /\ Tokens' = Tokens /\ Scanning' = Scanning
    BY <1>5, SameUpd, SameScan DEF WorkerEnter
  <2> QED BY <1>5, <2>1 DEF WorkerEnter, Moved, PREPARING, APPLYING, Window
<1>6. CASE WorkerNext
  <2>1. Scanning' = Scanning
    BY <1>6, SameScan DEF WorkerNext
  <2>2. CASE QAdd = {} /\ UNCHANGED upd /\ processing' = processing - 1
             /\ wk' = Moved("next", "ending")
    <3>1. Held' = Held /\ Tokens' = Tokens
      BY <2>2, SameUpd
    <3> QED BY <1>6, <2>1, <2>2, <3>1 DEF WorkerNext, Moved
  <2>3. ASSUME NEW r \in QAdd, upd' = [upd EXCEPT ![r] = "exec"],
               wk' = Gone("next"), UNCHANGED processing
        PROVE  CountInv'
    <3>1. r \in Adds /\ upd[r] = "queued"
      BY DEF QAdd
    <3>2. Held' = Held \cup {r} /\ Tokens' = Tokens \cup {r}
      BY <2>3, <3>1 DEF Held, Tokens
    <3>3. r \notin Held /\ r \notin Tokens
      BY <3>1 DEF Held, Tokens
    <3>4. /\ Cardinality(Held') = Cardinality(Held) + 1
          /\ Cardinality(Tokens') = Cardinality(Tokens) + 1
      BY <3>2, <3>3, OneMore
    <3>5. upd' \in [Adds -> UpdPlaces]
      BY <2>3 DEF UpdPlaces
    <3> QED BY <1>6, <2>1, <2>3, <3>4, <3>5 DEF WorkerNext, Gone
  <2> QED BY <1>6, <2>2, <2>3 DEF WorkerNext
<1>7. CASE WorkerEnd
  <2>1. Held' = Held /\ Tokens' = Tokens /\ Scanning' = Scanning
    BY <1>7, SameUpd, SameScan DEF WorkerEnd
  <2> QED BY <1>7, <2>1 DEF WorkerEnd, Moved, Gone
<1>8. CASE WorkerRecheck
  <2>1. Held' = Held /\ Tokens' = Tokens /\ Scanning' = Scanning
    BY <1>8, SameUpd, SameScan DEF WorkerRecheck
  <2> QED BY <1>8, <2>1 DEF WorkerRecheck, Moved, Gone, gate
<1> QED
  BY <1>1, <1>2, <1>3, <1>4, <1>5, <1>6, <1>7, <1>8 DEF Worker

\* The steps of one update request.
LEMMA RequestCounts ==
  ASSUME CountInv, NEW r \in Adds, AddChecked(r) \/ Request(r)
  PROVE  CountInv'
<1> USE PlacesFinite
<1>1. CASE AddChecked(r)
  <2>1. Held' = Held /\ Tokens' = Tokens
    BY <1>1 DEF AddChecked, Held, Tokens, UpdPlaces
  <2>2. Scanning' = Scanning
    BY <1>1, SameScan DEF AddChecked
  <2> QED BY <1>1, <2>1, <2>2 DEF AddChecked, UpdPlaces, gate
<1>2. CASE AddPush(r)
  <2>1. Held' = Held /\ Tokens' = Tokens
    BY <1>2 DEF AddPush, Held, Tokens, UpdPlaces
  <2>2. Scanning' = Scanning
    BY <1>2, SameScan DEF AddPush
  <2> QED BY <1>2, <2>1, <2>2 DEF AddPush, UpdPlaces, gate
<1>3. CASE AddRefused(r)
  <2>1. Held' = Held \ {r} /\ Tokens' = Tokens \ {r}
    BY <1>3 DEF AddRefused, Held, Tokens
  <2>2. r \in Held /\ r \in Tokens
    BY <1>3 DEF AddRefused, Held, Tokens
  <2>3. /\ Cardinality(Held') = Cardinality(Held) - 1
        /\ Cardinality(Held') \in Nat
        /\ Cardinality(Tokens') = Cardinality(Tokens) - 1
        /\ Held # {}
    BY <2>1, <2>2, OneLess
  <2>4. Scanning' = Scanning
    BY <1>3, SameScan DEF AddRefused
  <2>5. upd' \in [Adds -> UpdPlaces]
    BY <1>3 DEF AddRefused, UpdPlaces
  <2> QED BY <1>3, <2>3, <2>4, <2>5 DEF AddRefused
<1>4. CASE AddLogged(r)
  <2>1. Held' = Held /\ Tokens' = Tokens
    BY <1>4 DEF AddLogged, Held, Tokens, UpdPlaces
  <2>2. Scanning' = Scanning
    BY <1>4, SameScan DEF AddLogged
  <2> QED BY <1>4, <2>1, <2>2 DEF AddLogged, UpdPlaces, gate
<1>5. CASE AddAnswered(r)
  <2>1. Held' = Held \ {r} /\ Tokens' = Tokens \ {r}
    BY <1>5 DEF AddAnswered, Held, Tokens
  <2>2. r \in Held /\ r \in Tokens
    BY <1>5 DEF AddAnswered, Held, Tokens
  <2>3. /\ Cardinality(Held') = Cardinality(Held) - 1
        /\ Cardinality(Held') \in Nat
        /\ Cardinality(Tokens') = Cardinality(Tokens) - 1
        /\ Held # {}
    BY <2>1, <2>2, OneLess
  <2>4. Scanning' = Scanning
    BY <1>5, SameScan DEF AddAnswered
  <2>5. upd' \in [Adds -> UpdPlaces]
    BY <1>5 DEF AddAnswered, UpdPlaces
  <2> QED BY <1>5, <2>3, <2>4, <2>5 DEF AddAnswered
<1>6. CASE MetaCallback(r)
  <2>1. Held' = Held /\ Tokens' = Tokens \ {r} /\ r \in Tokens /\ r \in Held
    BY <1>6 DEF MetaCallback, Held, Tokens
  <2>2. Cardinality(Tokens') = Cardinality(Tokens) - 1
    BY <2>1, OneLess
  <2>3. Scanning' = Scanning
    BY <1>6, SameScan DEF MetaCallback
  <2> QED BY <1>6, <2>1, <2>2, <2>3 DEF MetaCallback, UpdPlaces, gate
<1>7. CASE MetaAnswered(r)
  <2>1. Held' = Held \ {r} /\ Tokens' = Tokens /\ r \in Held
    BY <1>7 DEF MetaAnswered, Held, Tokens
  <2>2. Cardinality(Held') = Cardinality(Held) - 1 /\ Cardinality(Held') \in Nat
    BY <2>1, OneLess
  <2>3. Scanning' = Scanning
    BY <1>7, SameScan DEF MetaAnswered
  <2>4. upd' \in [Adds -> UpdPlaces]
    BY <1>7 DEF MetaAnswered, UpdPlaces
  <2> QED BY <1>7, <2>1, <2>2, <2>3, <2>4 DEF MetaAnswered
<1> QED
  BY <1>1, <1>2, <1>3, <1>4, <1>5, <1>6, <1>7 DEF Request

\* The steps of one scan request.
LEMMA ScanCounts ==
  ASSUME CountInv, NEW s \in Scans, ScanChecked(s) \/ Scanner(s)
  PROVE  CountInv'
<1> USE PlacesFinite
<1>1. CASE ScanChecked(s)
  <2>1. Held' = Held /\ Tokens' = Tokens
    BY <1>1, SameUpd DEF ScanChecked
  <2>2. Scanning' = Scanning
    BY <1>1 DEF ScanChecked, Scanning
  <2> QED BY <1>1, <2>1, <2>2 DEF ScanChecked, ScanPlaces, gate
<1>2. CASE ScanHeld(s)
  <2>1. Held' = Held /\ Tokens' = Tokens
    BY <1>2, SameUpd DEF ScanHeld
  <2>2. Scanning' = Scanning
    BY <1>2 DEF ScanHeld, Scanning, QScan
  <2>3. scan' \in [Scans -> ScanPlaces]
    BY <1>2 DEF ScanHeld, ScanPlaces
  <2> QED BY <1>2, <2>1, <2>2, <2>3 DEF ScanHeld
<1>3. CASE ScanEnter(s)
  <2>1. Held' = Held /\ Tokens' = Tokens
    BY <1>3, SameUpd DEF ScanEnter
  <2>2. Scanning' = Scanning \cup {s} /\ s \notin Scanning
    BY <1>3 DEF ScanEnter, Scanning
  <2>3. Cardinality(Scanning') = Cardinality(Scanning) + 1
    BY <2>2, OneMore
  <2>4. scan' \in [Scans -> ScanPlaces]
    BY <1>3 DEF ScanEnter, ScanPlaces
  <2> QED BY <1>3, <2>1, <2>2, <2>3, <2>4 DEF ScanEnter, Window
<1>4. CASE ScanDone(s)
  <2>1. Held' = Held /\ Tokens' = Tokens
    BY <1>4, SameUpd DEF ScanDone
  <2>2. Scanning' = Scanning \ {s} /\ s \in Scanning
    BY <1>4 DEF ScanDone, Scanning
  <2>3. /\ Cardinality(Scanning') = Cardinality(Scanning) - 1
        /\ Cardinality(Scanning') \in Nat
    BY <2>2, OneLess
  <2>4. scan' \in [Scans -> ScanPlaces]
    BY <1>4 DEF ScanDone, ScanPlaces
  <2> QED BY <1>4, <2>1, <2>2, <2>3, <2>4 DEF ScanDone, Window
<1> QED BY <1>1, <1>2, <1>3, <1>4 DEF Scanner

\* The steps of the tasks that drain the scan queue.
LEMMA DrainCounts == CountInv /\ Drain => CountInv'
<1> SUFFICES ASSUME CountInv, Drain PROVE CountInv'
  OBVIOUS
<1> USE PlacesFinite
<1>1. CASE DrainBegin
  <2>1. Held' = Held /\ Tokens' = Tokens /\ Scanning' = Scanning
    BY <1>1, SameUpd, SameScan DEF DrainBegin
  <2>2. CASE compacting = APPLYING
    BY <1>1, <2>1, <2>2 DEF DrainBegin
  <2>3. CASE compacting # APPLYING
    BY <1>1, <2>1, <2>3 DEF DrainBegin, Window
  <2> QED BY <2>2, <2>3
<1>2. CASE DrainPop
  <2>1. Held' = Held /\ Tokens' = Tokens
    BY <1>2, SameUpd DEF DrainPop
  <2>2. PICK s \in QScan :
          \/ /\ \/ scan' = [scan EXCEPT ![s] = "dropped"]
                \/ scan' = [scan EXCEPT ![s] = "done"]
             /\ UNCHANGED processing
          \/ /\ scan' = [scan EXCEPT ![s] = "run"]
             /\ processing' = processing + 1
    BY <1>2 DEF DrainPop
  <2>3. s \in Scans /\ scan[s] = "queued" /\ s \notin Scanning
    BY DEF QScan, Scanning
  <2>4. scan' \in [Scans -> ScanPlaces]
    BY <2>2, <2>3 DEF ScanPlaces
  <2>5. CASE UNCHANGED processing
    <3>1. Scanning' = Scanning
      BY <2>2, <2>3, <2>5 DEF Scanning
    <3> QED BY <1>2, <2>1, <2>4, <2>5, <3>1 DEF DrainPop
  <2>6. CASE scan' = [scan EXCEPT ![s] = "run"] /\ processing' = processing + 1
    <3>1. Scanning' = Scanning \cup {s}
      BY <2>3, <2>6 DEF Scanning
    <3>2. Cardinality(Scanning') = Cardinality(Scanning) + 1
      BY <2>3, <3>1, OneMore
    <3> QED BY <1>2, <2>1, <2>4, <2>6, <3>2 DEF DrainPop
  <2> QED BY <2>2, <2>5, <2>6
<1>3. CASE DrainEnd
  <2>1. Held' = Held /\ Tokens' = Tokens /\ Scanning' = Scanning
    BY <1>3, SameUpd, SameScan DEF DrainEnd
  <2> QED BY <1>3, <2>1 DEF DrainEnd
<1> QED BY <1>1, <1>2, <1>3 DEF Drain

-----------------------------------------------------------------------------
\* A call of compacting(s) changes no count.  A place that stands for a
\* returned wait_processing() is not entered by it, and a place that waits is
\* entered with the gate closed.
LEMMA CompactStepCounts ==
  ASSUME CountInv, NEW from \in CompactPlaces, NEW to \in CompactPlaces,
         NEW s \in NONE..APPLYING, CompactStep(from, s, to), UNCHANGED back \/ back' = "idle",
         to \notin Window,
         to \in {"logWait", "initWait", "endWait", "applyWait"} => s = APPLYING
  PROVE  CountInv'
<1> USE PlacesFinite
<1>1. Held' = Held /\ Tokens' = Tokens /\ Scanning' = Scanning
  BY SameUpd, SameScan DEF CompactStep
<1>2. /\ wk' \in [WkPlaces -> Nat]
      /\ \A p \in WkPlaces \ {"call"} : wk'[p] = wk[p]
  BY DEF CompactStep, Compacting
<1>3. /\ drain' \in [{"posted", "draining"} -> Nat]
      /\ drain'["draining"] = drain["draining"]
  BY DEF CompactStep, Compacting
<1>4. runAdd' \in BOOLEAN /\ runScan' \in BOOLEAN
  BY DEF CompactStep, Compacting
<1>5. TypeOK'
  BY <1>2, <1>3, <1>4 DEF CompactStep, Compacting
<1>6. WorkersBounded' /\ ProcessingCounted'
  BY <1>1, <1>2, <1>3 DEF CompactStep
<1>7. GateClosed' /\ GateEmpty'
  BY DEF CompactStep, Compacting
<1> QED BY <1>5, <1>6, <1>7

\* wait_processing() returns: nobody is past the gate, which is closed.
LEMMA WaitProcessingCounts ==
  ASSUME CountInv,
         NEW from \in {"logWait", "initWait", "applyWait"}, NEW to \in Window,
         WaitProcessing(from, to)
  PROVE  CountInv'
<1> USE PlacesFinite
<1>1. Held' = Held /\ Tokens' = Tokens /\ Scanning' = Scanning
  BY SameUpd, SameScan DEF WaitProcessing
<1>2. /\ wk["next"] = 0 /\ drain["draining"] = 0
      /\ Cardinality(Held) = 0 /\ Cardinality(Scanning) = 0
  <2>1. LoadUnits \in Nat /\ UnloadUnits \in Nat
    OBVIOUS
  <2>2. wk["next"] \in Nat /\ drain["draining"] \in Nat
    OBVIOUS
  <2>3. 0 = wk["next"] + Cardinality(Held) + Cardinality(Scanning)
              + drain["draining"] + LoadUnits + UnloadUnits
    BY DEF WaitProcessing
  <2> DEFINE n == wk["next"]
             d == drain["draining"]
             h == Cardinality(Held)
             c == Cardinality(Scanning)
             u == LoadUnits
             v == UnloadUnits
  <2>4. n \in Nat /\ d \in Nat /\ h \in Nat /\ c \in Nat /\ u \in Nat /\ v \in Nat
        /\ 0 = n + h + c + d + u + v
    BY <2>1, <2>2, <2>3
  <2> HIDE DEF n, d, h, c, u, v
  <2>5. n = 0 /\ d = 0 /\ h = 0 /\ c = 0
    BY <2>4
  <2> QED BY <2>5 DEF n, d, h, c
<1>3. Held = {} /\ Scanning = {}
  BY <1>2, FS_EmptySet
<1> QED BY <1>1, <1>2, <1>3 DEF WaitProcessing, gate, Window, CompactPlaces

\* The steps of a compaction.
LEMMA CompactionCounts == CountInv /\ (CompactPossible \/ Compaction) => CountInv'
<1> SUFFICES ASSUME CountInv, CompactPossible \/ Compaction PROVE CountInv'
  OBVIOUS
<1> USE DEF NONE, CHECKING, COMPACTING, PREPARING, APPLYING, CompactPlaces, Window
<1> HIDE DEF CountInv
<1>0. cpc \in CompactPlaces
  BY DEF CountInv
<1>1. CASE CompactPossible
  <2>1. Held' = Held /\ Tokens' = Tokens /\ Scanning' = Scanning
    BY <1>1, SameUpd, SameScan DEF CompactPossible
  <2> QED BY <1>1, <2>1, PlacesFinite DEF CountInv, CompactPossible
<1>2. CASE InnerLogCompact
  <2>1. Held' = Held /\ Tokens' = Tokens /\ Scanning' = Scanning
    BY <1>2, SameUpd, SameScan DEF InnerLogCompact
  <2> QED BY <1>2, <2>1, PlacesFinite DEF CountInv, InnerLogCompact, gate
<1>3. CASE LogWaited \/ RangeWaited \/ RangeApply
  BY <1>3, WaitProcessingCounts DEF LogWaited, RangeWaited, RangeApply
<1>4. CASE CompactCancel
  BY <1>0, <1>4, CompactStepCounts DEF CompactCancel
<1>5. CASE LogCompact
  BY <1>0, <1>5, CompactStepCounts DEF LogCompact
<1>6. CASE LogFinished
  BY <1>0, <1>6, CompactStepCounts DEF LogFinished
<1>7. CASE LogFinalized
  BY <1>0, <1>7, CompactStepCounts DEF LogFinalized
<1>8. CASE LogRepeat
  BY <1>0, <1>8, CompactStepCounts DEF LogRepeat
<1>9. CASE RangeCompact
  BY <1>0, <1>9, CompactStepCounts DEF RangeCompact
<1>10. CASE RangeWaitTimeout
  BY <1>0, <1>10, CompactStepCounts DEF RangeWaitTimeout
<1>11. CASE RangeSplitDone
  BY <1>0, <1>11, CompactStepCounts DEF RangeSplitDone
<1>12. CASE RangeScan
  BY <1>0, <1>12, CompactStepCounts DEF RangeScan
<1>13. CASE RangeMitigate
  BY <1>0, <1>13, CompactStepCounts DEF RangeMitigate
<1>14. CASE RangeFinishing
  BY <1>0, <1>14, CompactStepCounts DEF RangeFinishing
<1>15. CASE RangeFinalize
  BY <1>0, <1>15, CompactStepCounts DEF RangeFinalize
<1>16. CASE Compacted
  BY <1>0, <1>16, CompactStepCounts DEF Compacted
<1> QED
  BY <1>1, <1>2, <1>3, <1>4, <1>5, <1>6, <1>7, <1>8, <1>9,
     <1>10, <1>11, <1>12, <1>13, <1>14, <1>15, <1>16 DEF Compaction

\* The steps of loading, unloading and committing.
LEMMA LifeCounts ==
  ASSUME CountInv,
         LoadBegin \/ (\E l \in {"load", "again"} : Loaded(l)) \/ Commit
           \/ UnloadBegin \/ Unload
  PROVE  CountInv'
<1> USE PlacesFinite DEF States
<1>1. CASE LoadBegin
  <2>1. Held' = Held /\ Tokens' = Tokens /\ Scanning' = Scanning
    BY <1>1, SameUpd, SameScan DEF LoadBegin
  <2> QED BY <1>1, <2>1 DEF LoadBegin
<1>2. ASSUME NEW l \in {"load", "again"}, Loaded(l) PROVE CountInv'
  <2>1. Held' = Held /\ Tokens' = Tokens /\ Scanning' = Scanning
    BY <1>2, SameUpd, SameScan DEF Loaded
  <2>2. lpc' \in [{"load", "again"} -> {"idle", "busy", "done"}]
    BY <1>2 DEF Loaded
  <2>3. LoadUnits' = LoadUnits - 1 /\ LoadUnits \in Nat
    BY <1>2 DEF Loaded
  <2>4. processing' \in Nat
    BY <1>2, <2>3 DEF Loaded
  <2>5. state' \in States
    BY <1>2 DEF Loaded
  <2>6. ProcessingCounted'
    BY <1>2, <2>1, <2>3 DEF Loaded
  <2>7. WorkersBounded' /\ GateClosed' /\ GateEmpty'
    BY <1>2, <2>1 DEF Loaded
  <2>8. TypeOK'
    BY <1>2, <2>2, <2>4, <2>5 DEF Loaded
  <2> QED BY <2>6, <2>7, <2>8
<1>3. CASE Commit
  <2>1. Held' = Held /\ Tokens' = Tokens /\ Scanning' = Scanning
    BY <1>3, SameUpd, SameScan DEF Commit
  <2> QED BY <1>3, <2>1 DEF Commit, gate
<1>4. CASE UnloadBegin
  <2>1. Held' = Held /\ Tokens' = Tokens /\ Scanning' = Scanning
    BY <1>4, SameUpd, SameScan DEF UnloadBegin
  <2> QED BY <1>4, <2>1 DEF UnloadBegin
<1>5. CASE Unload
  <2>1. Held' = Held /\ Tokens' = Tokens /\ Scanning' = Scanning
    BY <1>5, SameUpd, SameScan
       DEF Unload, UnloadWait, UnloadAdding, UnloadQueues, UnloadProcessing,
           UnloadFinalize, UnloadDrop, UnloadStep
  <2>2. CASE UnloadWait \/ UnloadAdding \/ UnloadQueues
    BY <2>1, <2>2 DEF UnloadWait, UnloadAdding, UnloadQueues, UnloadStep
  <2>3. CASE UnloadProcessing
    <3>1. UnloadUnits = 0 /\ UnloadUnits' = 1 /\ LoadUnits' = LoadUnits
      BY <2>3 DEF UnloadProcessing, UnloadStep
    <3>2. ProcessingCounted'
      BY <2>1, <2>3, <3>1 DEF UnloadProcessing, UnloadStep
    <3>3. WorkersBounded' /\ GateClosed' /\ GateEmpty'
      BY <2>1, <2>3 DEF UnloadProcessing, UnloadStep
    <3>4. TypeOK'
      BY <2>3 DEF UnloadProcessing, UnloadStep
    <3> QED BY <3>2, <3>3, <3>4
  <2>4. CASE UnloadFinalize
    BY <2>1, <2>4 DEF UnloadFinalize, UnloadStep
  <2>5. CASE UnloadDrop
    BY <2>1, <2>5 DEF UnloadDrop, UnloadStep
  <2> QED BY <1>5, <2>2, <2>3, <2>4, <2>5 DEF Unload
<1> QED BY <1>1, <1>2, <1>3, <1>4, <1>5

\* A stuttering step changes nothing.
LEMMA StutterCounts == CountInv /\ UNCHANGED vars => CountInv'
<1> SUFFICES ASSUME CountInv, UNCHANGED vars PROVE CountInv'
  OBVIOUS
<1>1. Held' = Held /\ Tokens' = Tokens /\ Scanning' = Scanning
  BY SameUpd, SameScan DEF vars
<1> QED BY <1>1 DEF vars

-----------------------------------------------------------------------------
\* The two counters of the gate are exact in every reachable state.
THEOREM Counted == Spec => []CountInv
<1>1. CountInv /\ [Next]_vars => CountInv'
  BY WorkerCounts, RequestCounts, ScanCounts, DrainCounts, CompactionCounts,
     LifeCounts, StutterCounts DEF Next
<1> QED BY CountInit, <1>1, PTL DEF Spec

\* Every variable of the gate keeps its type: no counter becomes negative.
THEOREM TypeCorrect == Spec => []TypeOK
<1>1. CountInv => TypeOK
  BY DEF CountInv
<1> QED BY Counted, <1>1, PTL

\* While a compaction rewrites the range no update and no scan is at work
\* (Compaction::apply_new and CommitLog::Compact::finalized against
\* Range::_run_add_queue and Range::scan).
THEOREM AppliesAlone == Spec => []ApplyAlone
<1>1. CountInv => ApplyAlone
  BY DEF CountInv, GateEmpty, ApplyAlone
<1> QED BY Counted, <1>1, PTL

\* Range::run_add_queue and the hand-over of MetaRegOnAddReq never run more
\* than the configured number of workers.
THEOREM WorkersWithinLimit == Spec => []WorkersBounded
<1>1. CountInv => WorkersBounded
  BY DEF CountInv
<1> QED BY Counted, <1>1, PTL

-----------------------------------------------------------------------------
(***************************************************************************)
(* Who serves the queues, and what an unload leaves.                       *)
(***************************************************************************)
HIDE DEF CountInv, TypeOK, WorkersBounded, Workers, ProcessingCounted,
         GateClosed, GateEmpty, WkPlaces, LoadUnits, UnloadUnits

\* The cell of an update that is past add_logged.
Logged(r) == upd[r] \in {"applied", "meta", "metaRsp", "ok"}

\* A range that is being unloaded is neither loaded nor compacted, and what is
\* still at work on it then was pushed late.
LifeInv ==
  /\ compacting = NONE <=> cpc = "idle"
  /\ upc # "idle" => /\ state \notin {"LOADED", "LOADING"}
                     /\ lpc["load"] # "busy" /\ lpc["again"] # "busy"
  /\ upc \notin {"idle", "wait"} => cpc = "idle"
  /\ upc \in {"processing", "finalize", "drop", "done"} => QAdd \subseteq late
  /\ upc \in {"finalize", "drop", "done"} => Held \subseteq late

\* What is logged in time stays in the log, and is in its fragments when the
\* memory is dropped.
KeptInv ==
  state # "DELETED" => \A r \in Adds \ late : Logged(r) =>
    /\ r \in mem \cup disk
    /\ upc \in {"drop", "done"} => r \in disk

GateInv == CountInv /\ AddNotStranded /\ ScanNotStranded /\ LifeInv /\ KeptInv

\* A step of the compaction is a call of compacting(s), or leaves the gate
\* alone; the state is COMPACT_NONE when it has ended.
CompactionStep ==
  /\ cpc # "idle"
  /\ cpc' = "idle" <=> compacting' = NONE
  /\ UNCHANGED <<state, upd, scan, lpc, upc, mem, disk, late, lapped>>
  /\ \/ \E s \in NONE .. APPLYING : Compacting(s)
     \/ UNCHANGED <<compacting, runAdd, runScan, wk, drain>>

LEMMA CompactionIs ==
  ASSUME LifeInv, Compaction
  PROVE  CompactionStep
<1> USE DEF NONE, COMPACTING, PREPARING, APPLYING
<1>0. ASSUME NEW f, NEW t, NEW s \in NONE .. APPLYING, CompactStep(f, s, t),
             f # "idle", t = "idle" <=> s = NONE
      PROVE  CompactionStep
  BY <1>0 DEF CompactStep, CompactionStep, Compacting
<1>1. ASSUME NEW f, NEW t, WaitProcessing(f, t), f # "idle", t # "idle"
      PROVE  CompactionStep
  BY <1>1 DEF WaitProcessing, CompactionStep, LifeInv, gate
<1>2. CASE CompactCancel \/ LogCompact \/ LogFinished
  BY <1>0, <1>2 DEF CompactCancel, LogCompact, LogFinished
<1>3. CASE LogFinalized \/ LogRepeat
  BY <1>0, <1>3 DEF LogFinalized, LogRepeat
<1>4. CASE RangeCompact \/ RangeWaitTimeout \/ RangeSplitDone \/ RangeScan
  BY <1>0, <1>4 DEF RangeCompact, RangeWaitTimeout, RangeSplitDone, RangeScan
<1>5. CASE RangeMitigate
  BY <1>0, <1>5 DEF RangeMitigate
<1>6. CASE RangeFinishing \/ RangeFinalize \/ Compacted
  BY <1>0, <1>6 DEF RangeFinishing, RangeFinalize, Compacted
<1>7. CASE LogWaited \/ RangeWaited \/ RangeApply
  BY <1>1, <1>7 DEF LogWaited, RangeWaited, RangeApply
<1>8. CASE InnerLogCompact
  BY <1>8 DEF InnerLogCompact, CompactionStep, LifeInv, gate
<1> QED BY <1>2, <1>3, <1>4, <1>5, <1>6, <1>7, <1>8 DEF Compaction

\* m_adding counts workers and callers that met the limit: when there are more
\* than the latter there is a worker.
LEMMA SomeWorker ==
  ASSUME CountInv, adding > wk["over"] + 1 \/ (adding > wk["over"] /\ wk["ending"] = 0)
  PROVE  \/ Tokens # {}
         \/ wk["head"] > 0 \/ wk["lock"] > 0 \/ wk["next"] > 0 \/ wk["ending"] > 1
<1>1. Cardinality(Tokens) \in Nat /\ (Tokens = {} => Cardinality(Tokens) = 0)
  BY PlacesFinite, FS_EmptySet
<1>2. /\ wk["over"] \in Nat /\ wk["head"] \in Nat /\ wk["lock"] \in Nat
      /\ wk["next"] \in Nat /\ wk["ending"] \in Nat
  BY DEF CountInv, TypeOK, WkPlaces
<1> QED BY <1>1, <1>2 DEF CountInv, WorkersBounded, Workers

\* The threads of run_add_queue and _run_add_queue.
LEMMA WorkerServes ==
  ASSUME CountInv, AddNotStranded, Worker
  PROVE  AddNotStranded'
<1> USE DEF AddNotStranded, WkPlaces
<1>0. wk \in [WkPlaces -> Nat] /\ upd \in [Adds -> UpdPlaces] /\ adding \in Nat
  BY DEF CountInv, TypeOK
<1>1. CASE RunAddQueue
  <2>1. QAdd' = QAdd /\ Tokens' = Tokens
    BY <1>1 DEF RunAddQueue, QAdd, Tokens
  <2>2. CASE adding < Concurrency
    <3>1. wk'["head"] > 0
      BY <1>0, <1>1, <2>2 DEF RunAddQueue, Moved
    <3> QED BY <3>1
  <2>3. CASE adding >= Concurrency /\ adding = wk["over"]
    BY <1>1, <2>3 DEF RunAddQueue
  <2>4. CASE adding >= Concurrency /\ adding # wk["over"]
    <3>0. wk' = Moved("call", "over")
      BY <1>0, <1>1, <2>4, ConcurrencyPositive DEF RunAddQueue
    <3>1. \A p \in WkPlaces \ {"call", "over"} : wk'[p] = wk[p]
      BY <1>0, <3>0 DEF Moved
    <3>2. adding > wk["over"]
      <4>1. Cardinality(Tokens) \in Nat
        BY PlacesFinite
      <4> QED BY <1>0, <2>4, <4>1 DEF CountInv, WorkersBounded, Workers
    <3>3. CASE wk["ending"] > 0
      BY <3>1, <3>3
    <3>4. CASE wk["ending"] = 0
      <4>1. Tokens # {} \/ wk["head"] > 0 \/ wk["lock"] > 0 \/ wk["next"] > 0
        BY <3>2, <3>4, SomeWorker
      <4> QED BY <2>1, <3>1, <4>1
    <3> QED BY <1>0, <3>3, <3>4
  <2> QED BY <1>0, <2>2, <2>3, <2>4, ConcurrencyPositive
<1>2. CASE RunAddOver
  <2>1. QAdd' = QAdd /\ Tokens' = Tokens
    BY <1>2 DEF RunAddOver, QAdd, Tokens
  <2> QED BY <1>0, <1>2, <2>1 DEF RunAddOver, Gone
<1>3. CASE WorkerHead
  <2>1. wk'["ending"] > 0 \/ wk'["lock"] > 0
    BY <1>0, <1>3 DEF WorkerHead, Moved
  <2> QED BY <2>1
<1>4. CASE WorkerHold
  BY <1>4 DEF WorkerHold
<1>5. CASE WorkerEnter
  <2>1. wk'["next"] > 0
    BY <1>0, <1>5 DEF WorkerEnter, Moved
  <2> QED BY <2>1
<1>6. CASE WorkerNext
  <2>1. CASE QAdd = {} /\ UNCHANGED upd
    BY <2>1 DEF QAdd
  <2>2. ASSUME NEW r \in QAdd, upd' = [upd EXCEPT ![r] = "exec"] PROVE r \in Tokens'
    BY <1>0, <2>2 DEF QAdd, Tokens
  <2> QED BY <1>6, <2>1, <2>2 DEF WorkerNext
<1>7. CASE WorkerEnd
  <2>1. QAdd' = QAdd /\ Tokens' = Tokens
    BY <1>7 DEF WorkerEnd, QAdd, Tokens
  <2>2. CASE adding = 1
    <3>1. wk'["recheck"] > 0
      BY <1>0, <1>7, <2>2 DEF WorkerEnd, Moved
    <3> QED BY <3>1
  <2>3. CASE adding # 1 /\ wk["over"] = adding - 1
    <3>1. adding > 1
      BY <1>0, <2>3
    <3> QED BY <1>7, <2>1, <2>3, <3>1 DEF WorkerEnd
  <2>4. CASE adding # 1 /\ wk["over"] # adding - 1
    <3>1. adding >= wk["over"] + 1
      <4>1. Cardinality(Tokens) \in Nat
        BY PlacesFinite
      <4> QED BY <1>0, <1>7, <4>1 DEF CountInv, WorkersBounded, Workers, WorkerEnd
    <3>2. Tokens # {} \/ wk["head"] > 0 \/ wk["lock"] > 0 \/ wk["next"] > 0 \/ wk["ending"] > 1
      BY <1>0, <2>4, <3>1, SomeWorker
    <3>3. wk'["ending"] = wk["ending"] - 1 /\ \A p \in WkPlaces \ {"ending"} : wk'[p] = wk[p]
      BY <1>0, <1>7, <2>4 DEF WorkerEnd, Gone
    <3> QED BY <1>0, <2>1, <3>2, <3>3
  <2> QED BY <2>2, <2>3, <2>4
<1>8. CASE WorkerRecheck
  <2>1. QAdd' = QAdd
    BY <1>8 DEF WorkerRecheck, QAdd
  <2>2. QAdd # {} => wk'["call"] > 0
    BY <1>0, <1>8 DEF WorkerRecheck, Moved
  <2> QED BY <2>1, <2>2
<1> QED BY <1>1, <1>2, <1>3, <1>4, <1>5, <1>6, <1>7, <1>8 DEF Worker

\* One update request.
LEMMA RequestServes ==
  ASSUME CountInv, AddNotStranded, NEW r \in Adds, AddChecked(r) \/ Request(r)
  PROVE  AddNotStranded'
<1> USE DEF AddNotStranded, WkPlaces
<1>0. wk \in [WkPlaces -> Nat] /\ upd \in [Adds -> UpdPlaces]
  BY DEF CountInv, TypeOK
<1>1. CASE AddChecked(r)
  BY <1>0, <1>1 DEF AddChecked, QAdd, Tokens, gate
<1>2. CASE AddPush(r)
  <2>1. wk'["call"] > 0
    BY <1>0, <1>2 DEF AddPush
  <2> QED BY <2>1
<1>3. CASE AddRefused(r) \/ AddAnswered(r) \/ MetaCallback(r)
  <2>1. wk'["head"] > 0
    BY <1>0, <1>3 DEF AddRefused, AddAnswered, MetaCallback
  <2> QED BY <2>1
<1>4. CASE AddLogged(r)
  <2>1. r \in Tokens'
    BY <1>0, <1>4 DEF AddLogged, Tokens
  <2> QED BY <2>1
<1>5. CASE MetaAnswered(r)
  BY <1>0, <1>5 DEF MetaAnswered, QAdd, Tokens
<1> QED BY <1>1, <1>2, <1>3, <1>4, <1>5 DEF Request

\* Range::compacting starts what was held back.
LEMMA CompactionServes ==
  ASSUME CountInv, AddNotStranded, ScanNotStranded, CompactionStep
  PROVE  AddNotStranded' /\ ScanNotStranded'
<1> USE DEF WkPlaces, NONE, PREPARING, APPLYING
<1>0. /\ wk \in [WkPlaces -> Nat] /\ drain \in [{"posted", "draining"} -> Nat]
      /\ compacting \in NONE .. APPLYING
      /\ QAdd' = QAdd /\ Tokens' = Tokens /\ QScan' = QScan /\ lapped' = lapped
  BY DEF CountInv, TypeOK, CompactionStep, QAdd, QScan, Tokens
<1>1. CASE UNCHANGED <<compacting, runAdd, runScan, wk, drain>>
  BY <1>0, <1>1 DEF AddNotStranded, ScanNotStranded
<1>2. ASSUME NEW s \in NONE .. APPLYING, Compacting(s)
      PROVE  AddNotStranded' /\ ScanNotStranded'
  <2>1. \A p \in WkPlaces : wk'[p] >= wk[p]
    BY <1>0, <1>2 DEF Compacting
  <2>2. runAdd /\ s < PREPARING => wk'["call"] > 0
    BY <1>0, <1>2 DEF Compacting
  <2>3. runAdd /\ s >= PREPARING => runAdd' /\ compacting' >= PREPARING
    BY <1>2 DEF Compacting
  <2>4. AddNotStranded'
    <3>1. SUFFICES ASSUME QAdd # {} PROVE AddNotStranded'
      BY <1>0 DEF AddNotStranded
    <3>2. CASE Tokens # {} \/ lapped
      BY <1>0, <3>2 DEF AddNotStranded
    <3>3. ASSUME NEW p \in WkPlaces \ {"over"}, wk[p] > 0
          PROVE  AddNotStranded'
      <4>1. wk'[p] > 0
        BY <1>0, <1>2, <3>3 DEF Compacting
      <4> QED BY <4>1 DEF AddNotStranded
    <3>4. CASE runAdd
      BY <2>2, <2>3, <3>4 DEF AddNotStranded
    <3> QED BY <3>1, <3>2, <3>3, <3>4 DEF AddNotStranded
  <2>5. ScanNotStranded'
    <3>1. SUFFICES ASSUME QScan # {} PROVE ScanNotStranded'
      BY <1>0 DEF ScanNotStranded
    <3>2. CASE drain["posted"] + drain["draining"] > 0
      <4>1. drain'["posted"] + drain'["draining"] > 0
        BY <1>0, <1>2, <3>2 DEF Compacting
      <4> QED BY <4>1 DEF ScanNotStranded
    <3>3. CASE runScan /\ s = APPLYING
      <4>1. runScan' = runScan /\ compacting' = APPLYING
        BY <1>2, <3>3 DEF Compacting
      <4> QED BY <3>3, <4>1 DEF ScanNotStranded
    <3>4. CASE runScan /\ s # APPLYING
      <4>1. drain' = [drain EXCEPT !["posted"] = @ + 1]
        BY <1>2, <3>4 DEF Compacting
      <4>2. drain'["posted"] + drain'["draining"] > 0
        BY <1>0, <4>1
      <4> QED BY <4>2 DEF ScanNotStranded
    <3> QED BY <3>1, <3>2, <3>3, <3>4 DEF ScanNotStranded
  <2> QED BY <2>4, <2>5
<1> QED BY <1>1, <1>2 DEF CompactionStep

\* The scans and the tasks of _run_scan_queue.
LEMMA ScanServes ==
  ASSUME CountInv, ScanNotStranded,
         (\E s \in Scans : ScanChecked(s) \/ Scanner(s)) \/ Drain
  PROVE  ScanNotStranded'
<1> USE DEF ScanNotStranded
<1>0. drain \in [{"posted", "draining"} -> Nat] /\ scan \in [Scans -> ScanPlaces]
  BY DEF CountInv, TypeOK
<1>1. ASSUME NEW s \in Scans, ScanChecked(s) \/ ScanEnter(s) \/ ScanDone(s)
      PROVE  ScanNotStranded'
  BY <1>0, <1>1 DEF ScanChecked, ScanEnter, ScanDone, QScan, gate
<1>2. ASSUME NEW s \in Scans, ScanHeld(s)
      PROVE  ScanNotStranded'
  BY <1>2 DEF ScanHeld
<1>3. CASE DrainBegin
  <2>1. QScan' = QScan
    BY <1>3 DEF DrainBegin, QScan
  <2> QED BY <1>0, <1>3, <2>1 DEF DrainBegin
<1>4. CASE DrainPop
  <2>1. UNCHANGED drain /\ drain["draining"] > 0
    BY <1>4 DEF DrainPop
  <2> QED BY <1>0, <2>1
<1>5. CASE DrainEnd
  BY <1>5 DEF DrainEnd, QScan
<1> QED BY <1>1, <1>2, <1>3, <1>4, <1>5 DEF Scanner, Drain

\* Steps that touch neither the queues nor what serves them.
LEMMA OthersServe ==
  ASSUME CountInv, AddNotStranded, ScanNotStranded,
         UNCHANGED <<upd, scan, wk, drain, runAdd, runScan, lapped>>,
         compacting' = compacting
  PROVE  AddNotStranded' /\ ScanNotStranded'
<1>1. QAdd' = QAdd /\ Tokens' = Tokens /\ QScan' = QScan
  BY DEF QAdd, QScan, Tokens
<1> QED BY <1>1 DEF AddNotStranded, ScanNotStranded

\* compact_possible leaves COMPACT_NONE, in which nothing is held back.
LEMMA PossibleServes ==
  ASSUME CountInv, AddNotStranded, ScanNotStranded, CompactPossible
  PROVE  AddNotStranded' /\ ScanNotStranded'
<1>1. QAdd' = QAdd /\ Tokens' = Tokens /\ QScan' = QScan
  BY DEF QAdd, QScan, Tokens, CompactPossible
<1> QED BY <1>1 DEF AddNotStranded, ScanNotStranded, CompactPossible, NONE,
                    CHECKING, PREPARING, APPLYING

-----------------------------------------------------------------------------
\* Nobody is at work on an update when wait_processing() finds zero.
LEMMA NoneHeld ==
  ASSUME CountInv, processing = 0
  PROVE  Held = {}
<1>1. /\ wk["next"] \in Nat /\ drain["draining"] \in Nat
      /\ LoadUnits \in Nat /\ UnloadUnits \in Nat
  BY DEF CountInv, TypeOK, WkPlaces, LoadUnits, UnloadUnits
<1>2. Cardinality(Held) \in Nat /\ Cardinality(Scanning) \in Nat
  BY PlacesFinite
<1>3. Cardinality(Held) = 0
  BY <1>1, <1>2 DEF CountInv, ProcessingCounted
<1> QED BY <1>3, PlacesFinite, FS_EmptySet

\* The queue and the work in progress only take in what is pushed late once
\* wait_queue() has returned; what is logged was at work before.
UpdateStep ==
  /\ UNCHANGED <<state, compacting, cpc, lpc, upc, disk>>
  /\ mem \subseteq mem' /\ late \subseteq late'
  /\ upc \in {"processing", "finalize", "drop", "done"} => QAdd' \subseteq QAdd \cup late'
  /\ Held' \subseteq Held \cup QAdd
  /\ \A r \in Adds : Logged(r)' => Logged(r) \/ (r \in Held /\ r \in mem')

LEMMA UpdateStepLives ==
  ASSUME LifeInv, KeptInv, UpdateStep
  PROVE  LifeInv' /\ KeptInv'
<1>1. LifeInv'
  BY DEF LifeInv, UpdateStep
<1>2. KeptInv'
  <2> SUFFICES ASSUME state # "DELETED", NEW r \in Adds \ late', Logged(r)'
               PROVE  r \in mem' \cup disk' /\ (upc' \in {"drop", "done"} => r \in disk')
    BY DEF KeptInv, UpdateStep
  <2>1. r \in Adds \ late
    BY DEF UpdateStep
  <2>2. CASE Logged(r)
    BY <2>1, <2>2 DEF KeptInv, UpdateStep
  <2>3. CASE r \in Held /\ r \in mem'
    BY <2>1, <2>3 DEF LifeInv, UpdateStep
  <2> QED BY <2>1, <2>2, <2>3 DEF UpdateStep
<1> QED BY <1>1, <1>2

LEMMA UpdatesLive ==
  ASSUME CountInv, Worker \/ \E r \in Adds : AddChecked(r) \/ Request(r)
  PROVE  UpdateStep
<1> USE DEF UpdateStep, QAdd, Held, Logged, gate
<1>0. upd \in [Adds -> UpdPlaces]
  BY DEF CountInv, TypeOK
<1>1. CASE RunAddQueue \/ RunAddOver \/ WorkerHead \/ WorkerEnter \/ WorkerEnd
             \/ WorkerRecheck
  BY <1>1 DEF RunAddQueue, RunAddOver, WorkerHead, WorkerEnter, WorkerEnd,
              WorkerRecheck
<1>2. CASE WorkerHold
  BY <1>0, <1>2 DEF WorkerHold
<1>3. CASE WorkerNext
  BY <1>0, <1>3 DEF WorkerNext
<1>4. ASSUME NEW r \in Adds, AddChecked(r)
      PROVE  UpdateStep
  BY <1>0, <1>4 DEF AddChecked
<1>5. ASSUME NEW r \in Adds, AddPush(r)
      PROVE  UpdateStep
  BY <1>0, <1>5 DEF AddPush
<1>6. ASSUME NEW r \in Adds, AddRefused(r) \/ AddAnswered(r) \/ MetaCallback(r)
      PROVE  UpdateStep
  BY <1>0, <1>6 DEF AddRefused, AddAnswered, MetaCallback
<1>7. ASSUME NEW r \in Adds, AddLogged(r)
      PROVE  UpdateStep
  BY <1>0, <1>7 DEF AddLogged
<1>8. ASSUME NEW r \in Adds, MetaAnswered(r)
      PROVE  UpdateStep
  BY <1>0, <1>8 DEF MetaAnswered
<1> QED BY <1>1, <1>2, <1>3, <1>4, <1>5, <1>6, <1>7, <1>8 DEF Worker, Request

\* The scans, and a compaction, leave updates and the log alone.
LEMMA ScansLive ==
  ASSUME LifeInv, KeptInv,
         (\E s \in Scans : ScanChecked(s) \/ Scanner(s)) \/ Drain
  PROVE  LifeInv' /\ KeptInv'
<1>1. UNCHANGED <<state, compacting, cpc, lpc, upc, upd, mem, disk, late>>
  BY DEF ScanChecked, Scanner, ScanHeld, ScanEnter, ScanDone, Drain,
         DrainBegin, DrainPop, DrainEnd, gate
<1>2. QAdd' = QAdd /\ Held' = Held /\ \A r \in Adds : Logged(r)' = Logged(r)
  BY <1>1 DEF QAdd, Held, Logged
<1> QED BY <1>1, <1>2 DEF LifeInv, KeptInv

LEMMA CompactionLives ==
  ASSUME LifeInv, KeptInv, CompactPossible \/ CompactionStep
  PROVE  LifeInv' /\ KeptInv'
<1>1. UNCHANGED <<state, lpc, upc, upd, mem, disk, late>>
  BY DEF CompactPossible, CompactionStep
<1>2. QAdd' = QAdd /\ Held' = Held /\ \A r \in Adds : Logged(r)' = Logged(r)
  BY <1>1 DEF QAdd, Held, Logged
<1>3. compacting' = NONE <=> cpc' = "idle"
  BY DEF CompactPossible, CompactionStep, NONE, CHECKING
<1>4. upc' \notin {"idle", "wait"} => cpc' = "idle"
  BY DEF CompactPossible, CompactionStep, LifeInv
<1> QED BY <1>1, <1>2, <1>3, <1>4 DEF LifeInv, KeptInv

\* Loading, committing, unloading.
LEMMA RangeLives ==
  ASSUME CountInv, LifeInv, KeptInv,
         LoadBegin \/ (\E l \in {"load", "again"} : Loaded(l)) \/ Commit
           \/ UnloadBegin \/ Unload
  PROVE  LifeInv' /\ KeptInv'
<1>0. lpc \in [{"load", "again"} -> {"idle", "busy", "done"}]
  BY DEF CountInv, TypeOK
<1>1. UNCHANGED <<upd, cpc, compacting, late>>
  BY DEF LoadBegin, Loaded, Commit, UnloadBegin, Unload, UnloadWait,
         UnloadAdding, UnloadQueues, UnloadProcessing, UnloadFinalize,
         UnloadDrop, UnloadStep, gate
<1>2. QAdd' = QAdd /\ Held' = Held /\ \A r \in Adds : Logged(r)' = Logged(r)
  BY <1>1 DEF QAdd, Held, Logged
<1>3. CASE LoadBegin
  BY <1>0, <1>1, <1>2, <1>3 DEF LifeInv, KeptInv, LoadBegin
<1>4. ASSUME NEW l \in {"load", "again"}, Loaded(l)
      PROVE  LifeInv' /\ KeptInv'
  BY <1>0, <1>1, <1>2, <1>4 DEF LifeInv, KeptInv, Loaded
<1>5. CASE Commit
  BY <1>1, <1>2, <1>5 DEF LifeInv, KeptInv, Commit, gate
<1>6. CASE UnloadBegin
  <2>1. lpc["load"] # "busy" /\ lpc["again"] # "busy"
    BY <1>0, <1>6 DEF UnloadBegin
  <2> QED BY <1>1, <1>2, <1>6, <2>1 DEF LifeInv, KeptInv, UnloadBegin
<1>7. CASE UnloadWait
  BY <1>1, <1>2, <1>7 DEF LifeInv, KeptInv, UnloadWait, UnloadStep
<1>8. CASE UnloadAdding
  BY <1>1, <1>2, <1>8 DEF LifeInv, KeptInv, UnloadAdding, UnloadStep
<1>9. CASE UnloadQueues
  BY <1>1, <1>2, <1>9 DEF LifeInv, KeptInv, UnloadQueues, UnloadStep
<1>10. CASE UnloadProcessing
  <2>1. Held = {}
    BY <1>10, NoneHeld DEF UnloadProcessing
  <2> QED BY <1>1, <1>2, <1>10, <2>1 DEF LifeInv, KeptInv, UnloadProcessing, UnloadStep
<1>11. CASE UnloadFinalize
  BY <1>1, <1>2, <1>11 DEF LifeInv, KeptInv, UnloadFinalize, UnloadStep
<1>12. CASE UnloadDrop
  BY <1>1, <1>2, <1>12 DEF LifeInv, KeptInv, UnloadDrop, UnloadStep
<1> QED
  BY <1>3, <1>4, <1>5, <1>6, <1>7, <1>8, <1>9, <1>10, <1>11, <1>12 DEF Unload

-----------------------------------------------------------------------------
LEMMA GateInit == Init => GateInv
<1> SUFFICES ASSUME Init PROVE GateInv
  OBVIOUS
<1>1. QAdd = {} /\ QScan = {} /\ Held = {} /\ \A r \in Adds : ~Logged(r)
  BY DEF Init, QAdd, QScan, Held, Logged
<1>2. LifeInv /\ KeptInv
  BY <1>1 DEF Init, LifeInv, KeptInv
<1> QED
  BY <1>1, <1>2, CountInit DEF GateInv, AddNotStranded, ScanNotStranded

\* CountInv, LifeInv and KeptInv carry the two claims about the queues.
LEMMA GateStep == GateInv /\ [Next]_vars => GateInv'
<1> SUFFICES ASSUME GateInv, [Next]_vars PROVE GateInv'
  OBVIOUS
<1>0. CountInv /\ AddNotStranded /\ ScanNotStranded /\ LifeInv /\ KeptInv
  BY DEF GateInv
<1>1. CountInv'
  BY <1>0, WorkerCounts, RequestCounts, ScanCounts, DrainCounts,
     CompactionCounts, LifeCounts, StutterCounts DEF Next
<1>2. CASE LoadBegin \/ (\E l \in {"load", "again"} : Loaded(l)) \/ Commit
             \/ UnloadBegin \/ Unload
  <2>1. UNCHANGED <<upd, scan, wk, drain, runAdd, runScan, lapped>>
          /\ compacting' = compacting
    BY <1>2 DEF LoadBegin, Loaded, Commit, UnloadBegin, Unload, UnloadWait,
         UnloadAdding, UnloadQueues, UnloadProcessing, UnloadFinalize,
         UnloadDrop, UnloadStep, gate
  <2> QED BY <1>0, <1>1, <1>2, <2>1, OthersServe, RangeLives DEF GateInv
<1>3. CASE Worker \/ \E r \in Adds : AddChecked(r) \/ Request(r)
  <2>1. UNCHANGED <<scan, drain, runScan, compacting>>
    BY <1>3 DEF Worker, RunAddQueue, RunAddOver, WorkerHead, WorkerHold,
         WorkerEnter, WorkerNext, WorkerEnd, WorkerRecheck, Request,
         AddChecked, AddPush, AddRefused, AddLogged, AddAnswered,
         MetaCallback, MetaAnswered, gate
  <2>2. ScanNotStranded'
    BY <1>0, <2>1 DEF ScanNotStranded, QScan
  <2>3. AddNotStranded'
    BY <1>0, <1>3, WorkerServes, RequestServes
  <2> QED BY <1>0, <1>1, <1>3, <2>2, <2>3, UpdatesLive, UpdateStepLives DEF GateInv
<1>4. CASE (\E s \in Scans : ScanChecked(s) \/ Scanner(s)) \/ Drain
  <2>1. UNCHANGED <<upd, wk, runAdd, compacting, lapped>>
    BY <1>4 DEF ScanChecked, Scanner, ScanHeld, ScanEnter, ScanDone, Drain,
         DrainBegin, DrainPop, DrainEnd, gate
  <2>2. AddNotStranded'
    BY <1>0, <2>1 DEF AddNotStranded, QAdd, Tokens
  <2> QED BY <1>0, <1>1, <1>4, <2>2, ScanServes, ScansLive DEF GateInv
<1>5. CASE CompactPossible
  BY <1>0, <1>1, <1>5, PossibleServes, CompactionLives DEF GateInv
<1>6. CASE Compaction
  BY <1>0, <1>1, <1>6, CompactionIs, CompactionServes, CompactionLives DEF GateInv
<1>7. CASE UNCHANGED vars
  <2>1. UNCHANGED <<state, compacting, cpc, lpc, upc, upd, mem, disk, late>>
    BY <1>7 DEF vars
  <2>2. QAdd' = QAdd /\ Held' = Held /\ \A r \in Adds : Logged(r)' = Logged(r)
    BY <2>1 DEF QAdd, Held, Logged
  <2>3. LifeInv' /\ KeptInv'
    BY <1>0, <2>1, <2>2 DEF LifeInv, KeptInv
  <2> QED BY <1>0, <1>1, <1>7, <2>3, OthersServe DEF GateInv, vars
<1> QED BY <1>2, <1>3, <1>4, <1>5, <1>6, <1>7 DEF Next

\* The inductive invariant of the gate with its queues, its compaction and
\* its unload.
THEOREM GateInvariant == Spec => []GateInv
BY GateInit, GateStep, PTL DEF Spec

\* An update in m_q_add is served by a worker, a caller or the end of the
\* compaction (Range::run_add_queue, _run_add_queue, compacting), unless a
\* caller that met the limit was taken for a worker.
THEOREM AddServed == Spec => []AddNotStranded
<1>1. GateInv => AddNotStranded
  BY DEF GateInv
<1> QED BY GateInvariant, <1>1, PTL

\* A scan in m_q_scan is served by a task of _run_scan_queue or by the end of
\* COMPACT_APPLYING (Range::scan, _run_scan_queue, compacting).
THEOREM ScanServed == Spec => []ScanNotStranded
<1>1. GateInv => ScanNotStranded
  BY DEF GateInv
<1> QED BY GateInvariant, <1>1, PTL

\* An update acknowledged and pushed in time is in the log, before and after
\* Range::internal_unload (Blocks::unload, CommitLog commit_finalize).
THEOREM AckedIsKept == Spec => []AckedKept
<1>1. GateInv => AckedKept
  BY DEF GateInv, KeptInv, AckedKept, Logged
<1> QED BY GateInvariant, <1>1, PTL

\* When Blocks::unload or Blocks::remove drops the content of the range no
\* compaction runs, and only updates pushed late are at work.
THEOREM UnloadsAlone == Spec => []UnloadAlone
<1>1. GateInv => UnloadAlone
  BY DEF GateInv, LifeInv, UnloadAlone
<1> QED BY GateInvariant, <1>1, PTL
=============================================================================
