-------------------------- MODULE CommitLog_proofs --------------------------
(***************************************************************************)
(* Proofs about CommitLog, for any sets of updates, posted tasks and       *)
(* threads in try_compact, and any size of m_sem.  LogInv is the inductive *)
(* invariant: that a finalized log is complete depends on who may commit   *)
(* beside a range compaction or an unload (Alone), which depends on which  *)
(* compaction has the range (OneCompaction) and on m_commit excluding the  *)
(* committers (OneCommitter).                                              *)
(***************************************************************************)
EXTENDS CommitLog, TLAPS

\* The names of the single threads.
LEMMA Distinct ==
  /\ {"fin", "rel", "unl"} \subseteq Committers
  /\ Tasks \subseteq Committers
  /\ Updates \subseteq Threads /\ Triers \subseteq Threads
  /\ Committers \subseteq Threads /\ "cmp" \in Threads
  /\ \A u \in Updates : u \notin Triers /\ u \notin Committers /\ u # "cmp"
  /\ \A t \in Triers : t \notin Committers /\ t # "cmp"
  /\ \A k \in Tasks : k \notin {"fin", "rel", "unl", "cmp"}
  /\ "cmp" \notin Committers
  /\ \A t \in Committers : t \in Tasks \/ t \in {"fin", "rel", "unl"}
BY LogAssumption DEF Committers, Threads

USE DEF LogInv, TypeOK, PlacesOK, FlagsOK, DataOK, OneCommitter,
        OneCompaction, Alone, StateOf, WrittenOut, CompactingHeld,
        NotStranded,
        Holders, HoldPlaces, Owners,
        FinAlone, PastQueue, UnlWritten, RollPlaces, UpdatePlaces,
        FinPlaces, RelPlaces,
        UnlPlaces, CmpPlaces, TryPlaces, Places, data, flags, rng

\* When an unload finds m_commit set, the one that has set it will notify, or
\* is a late update.
LEMMA SleeperHeld ==
  ASSUME LogInv, commit, PastQueue,
         pc["unl"] \notin HoldPlaces \cup {"sync"}
  PROVE  \/ \E t \in Committers \ (asleep \cup {"unl"}) : pc[t] \in RollPlaces
         \/ \E u \in late : pc[u] = "held"
<1> USE Distinct
<1>1. PICK t \in Threads : pc[t] \in HoldPlaces
  OBVIOUS
<1>2. t # "unl" /\ t \notin Triers /\ t # "cmp"
  BY <1>1
<1>3. CASE t \in Updates
  BY <1>1, <1>3
<1>4. CASE t \in Committers
  BY <1>1, <1>2, <1>4
<1> QED BY <1>2, <1>3, <1>4 DEF Threads

\* The steps of an update.
LEMMA UpdateKeeps ==
  ASSUME LogInv, NEW u \in Updates, Enter(u) \/ UpdateStep(u)
  PROVE  LogInv'
<1> USE Distinct
<1>1. CASE Enter(u)
  <2>1. PlacesOK'
    BY <1>1 DEF Enter, Go
  <2>2. FlagsOK'
    BY <1>1, Zenon DEF Enter, Go
  <2>3. DataOK'
    BY <1>1 DEF Enter, Go
  <2>4. OneCommitter'
    BY <1>1 DEF Enter, Go
  <2>5. OneCompaction'
    BY <1>1 DEF Enter, Go
  <2>6. Alone'
    BY <1>1 DEF Enter, Go
  <2>7. StateOf'
    BY <1>1 DEF Enter, Go
  <2>8. WrittenOut'
    BY <1>1 DEF Enter, Go
  <2>9. CompactingHeld'
    BY <1>1 DEF Enter, Go
  <2>10. NotStranded'
    BY <1>1 DEF Enter, Go
  <2> QED BY <2>1, <2>2, <2>3, <2>4, <2>5, <2>6, <2>7, <2>8, <2>9, <2>10
<1>2. CASE Serve(u)
  <2>1. PlacesOK'
    BY <1>2 DEF Serve, Go
  <2>2. FlagsOK'
    BY <1>2, Zenon DEF Serve, Go
  <2>3. DataOK'
    BY <1>2 DEF Serve, Go
  <2>4. OneCommitter'
    BY <1>2 DEF Serve, Go
  <2>5. OneCompaction'
    BY <1>2 DEF Serve, Go
  <2>6. Alone'
    BY <1>2 DEF Serve, Go
  <2>7. StateOf'
    BY <1>2 DEF Serve, Go
  <2>8. WrittenOut'
    BY <1>2 DEF Serve, Go
  <2>9. CompactingHeld'
    BY <1>2 DEF Serve, Go
  <2>10. NotStranded'
    BY <1>2 DEF Serve, Go
  <2> QED BY <2>1, <2>2, <2>3, <2>4, <2>5, <2>6, <2>7, <2>8, <2>9, <2>10
<1>3. CASE Add(u)
  <2>1. PlacesOK'
    BY <1>3 DEF Add, Go
  <2>2. FlagsOK'
    BY <1>3, Zenon DEF Add, Go
  <2>3. DataOK'
    BY <1>3 DEF Add, Go
  <2>4. OneCommitter'
    BY <1>3 DEF Add, Go
  <2>5. OneCompaction'
    BY <1>3 DEF Add, Go
  <2>6. Alone'
    BY <1>3 DEF Add, Go
  <2>7. StateOf'
    BY <1>3 DEF Add, Go
  <2>8. WrittenOut'
    BY <1>3 DEF Add, Go
  <2>9. CompactingHeld'
    BY <1>3 DEF Add, Go
  <2>10. NotStranded'
    BY <1>3 DEF Add, Go
  <2> QED BY <2>1, <2>2, <2>3, <2>4, <2>5, <2>6, <2>7, <2>8, <2>9, <2>10
<1>4. CASE CommitTry(u)
  <2>1. PlacesOK'
    BY <1>4 DEF CommitTry, Go
  <2>2. FlagsOK'
    BY <1>4, Zenon DEF CommitTry, Go
  <2>3. DataOK'
    BY <1>4 DEF CommitTry, Go
  <2>4. OneCommitter'
    BY <1>4 DEF CommitTry, Go
  <2>5. OneCompaction'
    BY <1>4 DEF CommitTry, Go
  <2>6. Alone'
    BY <1>4 DEF CommitTry, Go
  <2>7. StateOf'
    BY <1>4 DEF CommitTry, Go
  <2>8. WrittenOut'
    BY <1>4 DEF CommitTry, Go
  <2>9. CompactingHeld'
    BY <1>4 DEF CommitTry, Go
  <2>10. NotStranded'
    BY <1>4 DEF CommitTry, Go
  <2> QED BY <2>1, <2>2, <2>3, <2>4, <2>5, <2>6, <2>7, <2>8, <2>9, <2>10
<1>5. CASE CommitSkip(u)
  <2>1. PlacesOK'
    BY <1>5 DEF CommitSkip, Go
  <2>2. FlagsOK'
    BY <1>5, Zenon DEF CommitSkip, Go
  <2>3. DataOK'
    BY <1>5 DEF CommitSkip, Go
  <2>4. OneCommitter'
    BY <1>5 DEF CommitSkip, Go
  <2>5. OneCompaction'
    BY <1>5 DEF CommitSkip, Go
  <2>6. Alone'
    BY <1>5 DEF CommitSkip, Go
  <2>7. StateOf'
    BY <1>5 DEF CommitSkip, Go
  <2>8. WrittenOut'
    BY <1>5 DEF CommitSkip, Go
  <2>9. CompactingHeld'
    BY <1>5 DEF CommitSkip, Go
  <2>10. NotStranded'
    BY <1>5 DEF CommitSkip, Go
  <2> QED BY <2>1, <2>2, <2>3, <2>4, <2>5, <2>6, <2>7, <2>8, <2>9, <2>10
<1>6. CASE Leave(u)
  <2>1. PlacesOK'
    BY <1>6 DEF Leave, Go
  <2>2. FlagsOK'
    BY <1>6, Zenon DEF Leave, Go
  <2>3. DataOK'
    BY <1>6 DEF Leave, Go
  <2>4. OneCommitter'
    BY <1>6 DEF Leave, Go
  <2>5. OneCompaction'
    BY <1>6 DEF Leave, Go
  <2>6. Alone'
    BY <1>6 DEF Leave, Go
  <2>7. StateOf'
    BY <1>6 DEF Leave, Go
  <2>8. WrittenOut'
    BY <1>6 DEF Leave, Go
  <2>9. CompactingHeld'
    BY <1>6 DEF Leave, Go
  <2>10. NotStranded'
    BY <1>6 DEF Leave, Go
  <2> QED BY <2>1, <2>2, <2>3, <2>4, <2>5, <2>6, <2>7, <2>8, <2>9, <2>10
<1>7. CASE \E k \in Tasks : CommitPost(u, k)
  <2>1. PlacesOK'
    BY <1>7 DEF CommitPost, Go
  <2>2. FlagsOK'
    BY <1>7, Zenon DEF CommitPost, Go
  <2>3. DataOK'
    BY <1>7 DEF CommitPost, Go
  <2>4. OneCommitter'
    BY <1>7 DEF CommitPost, Go
  <2>5. OneCompaction'
    BY <1>7 DEF CommitPost, Go
  <2>6. Alone'
    BY <1>7 DEF CommitPost, Go
  <2>7. StateOf'
    BY <1>7 DEF CommitPost, Go
  <2>8. WrittenOut'
    BY <1>7 DEF CommitPost, Go
  <2>9. CompactingHeld'
    BY <1>7 DEF CommitPost, Go
  <2>10. NotStranded'
    BY <1>7 DEF CommitPost, Go
  <2> QED BY <2>1, <2>2, <2>3, <2>4, <2>5, <2>6, <2>7, <2>8, <2>9, <2>10
<1> QED BY <1>1, <1>2, <1>3, <1>4, <1>5, <1>6, <1>7 DEF UpdateStep

\* The steps of a thread in _commit, and of one that waits to be.
LEMMA CommitKeeps ==
  ASSUME LogInv, NEW t \in Committers, CommitStep(t)
  PROVE  LogInv'
<1> USE Distinct
<1>1. CASE Loop(t)
  <2>1. PlacesOK'
    BY <1>1 DEF Loop, Go
  <2>2. FlagsOK'
    BY <1>1, Zenon DEF Loop, Go
  <2>3. DataOK'
    BY <1>1 DEF Loop, Go
  <2>4. OneCommitter'
    BY <1>1 DEF Loop, Go
  <2>5. OneCompaction'
    BY <1>1 DEF Loop, Go
  <2>6. Alone'
    BY <1>1 DEF Loop, Go
  <2>7. StateOf'
    BY <1>1 DEF Loop, Go
  <2>8. WrittenOut'
    BY <1>1 DEF Loop, Go
  <2>9. CompactingHeld'
    BY <1>1 DEF Loop, Go
  <2>10. NotStranded'
    BY <1>1 DEF Loop, Go
  <2> QED BY <2>1, <2>2, <2>3, <2>4, <2>5, <2>6, <2>7, <2>8, <2>9, <2>10
<1>2. CASE \E S \in SUBSET cells : Take(t, S)
  <2>1. PlacesOK'
    BY <1>2 DEF Take, Go
  <2>2. FlagsOK'
    BY <1>2, Zenon DEF Take, Go
  <2>3. DataOK'
    BY <1>2 DEF Take, Go
  <2>4. OneCommitter'
    BY <1>2 DEF Take, Go
  <2>5. OneCompaction'
    BY <1>2 DEF Take, Go
  <2>6. Alone'
    BY <1>2 DEF Take, Go
  <2>7. StateOf'
    BY <1>2 DEF Take, Go
  <2>8. WrittenOut'
    BY <1>2 DEF Take, Go
  <2>9. CompactingHeld'
    BY <1>2 DEF Take, Go
  <2>10. NotStranded'
    BY <1>2 DEF Take, Go
  <2> QED BY <2>1, <2>2, <2>3, <2>4, <2>5, <2>6, <2>7, <2>8, <2>9, <2>10
<1>3. CASE Write(t)
  <2>1. PlacesOK'
    BY <1>3 DEF Write, Go
  <2>2. FlagsOK'
    BY <1>3, Zenon DEF Write, Go
  <2>3. DataOK'
    BY <1>3 DEF Write, Go
  <2>4. OneCommitter'
    BY <1>3 DEF Write, Go
  <2>5. OneCompaction'
    BY <1>3 DEF Write, Go
  <2>6. Alone'
    BY <1>3 DEF Write, Go
  <2>7. StateOf'
    BY <1>3 DEF Write, Go
  <2>8. WrittenOut'
    BY <1>3 DEF Write, Go
  <2>9. CompactingHeld'
    BY <1>3 DEF Write, Go
  <2>10. NotStranded'
    BY <1>3 DEF Write, Go
  <2> QED BY <2>1, <2>2, <2>3, <2>4, <2>5, <2>6, <2>7, <2>8, <2>9, <2>10
<1>4. CASE Available(t)
  <2>1. PlacesOK'
    BY <1>4 DEF Available, Go
  <2>2. FlagsOK'
    BY <1>4, Zenon DEF Available, Go
  <2>3. DataOK'
    BY <1>4 DEF Available, Go
  <2>4. OneCommitter'
    BY <1>4 DEF Available, Go
  <2>5. OneCompaction'
    BY <1>4 DEF Available, Go
  <2>6. Alone'
    BY <1>4 DEF Available, Go
  <2>7. StateOf'
    BY <1>4 DEF Available, Go
  <2>8. WrittenOut'
    BY <1>4 DEF Available, Go
  <2>9. CompactingHeld'
    BY <1>4 DEF Available, Go
  <2>10. NotStranded'
    BY <1>4 DEF Available, Go
  <2> QED BY <2>1, <2>2, <2>3, <2>4, <2>5, <2>6, <2>7, <2>8, <2>9, <2>10
<1>5. CASE End(t)
  <2>1. PlacesOK'
    BY <1>5 DEF End, Go
  <2>2. FlagsOK'
    BY <1>5, Zenon DEF End, Go
  <2>3. DataOK'
    BY <1>5 DEF End, Go
  <2>4. OneCommitter'
    BY <1>5 DEF End, Go
  <2>5. OneCompaction'
    BY <1>5 DEF End, Go
  <2>6. Alone'
    BY <1>5 DEF End, Go
  <2>7. StateOf'
    BY <1>5 DEF End, Go
  <2>8. WrittenOut'
    BY <1>5 DEF End, Go
  <2>9. CompactingHeld'
    BY <1>5 DEF End, Go
  <2>10. NotStranded'
    BY <1>5 DEF End, Go
  <2> QED BY <2>1, <2>2, <2>3, <2>4, <2>5, <2>6, <2>7, <2>8, <2>9, <2>10
<1>6. CASE Stop(t)
  <2>1. PlacesOK'
    BY <1>6 DEF Stop, Go
  <2>2. FlagsOK'
    BY <1>6, Zenon DEF Stop, Go
  <2>3. DataOK'
    BY <1>6 DEF Stop, Go
  <2>4. OneCommitter'
    BY <1>6 DEF Stop, Go
  <2>5. OneCompaction'
    BY <1>6 DEF Stop, Go
  <2>6. Alone'
    BY <1>6 DEF Stop, Go
  <2>7. StateOf'
    BY <1>6 DEF Stop, Go
  <2>8. WrittenOut'
    BY <1>6 DEF Stop, Go
  <2>9. CompactingHeld'
    BY <1>6 DEF Stop, Go
  <2>10. NotStranded'
    BY <1>6 DEF Stop, Go
  <2> QED BY <2>1, <2>2, <2>3, <2>4, <2>5, <2>6, <2>7, <2>8, <2>9, <2>10
<1>7. CASE Notify(t)
  <2>1. PlacesOK'
    BY <1>7 DEF Notify, Return, Go
  <2>2. FlagsOK'
    BY <1>7, Zenon DEF Notify, Return, Go
  <2>3. DataOK'
    BY <1>7 DEF Notify, Return, Go
  <2>4. OneCommitter'
    BY <1>7 DEF Notify, Return, Go
  <2>5. OneCompaction'
    BY <1>7 DEF Notify, Return, Go
  <2>6. Alone'
    BY <1>7 DEF Notify, Return, Go
  <2>7. StateOf'
    BY <1>7 DEF Notify, Return, Go
  <2>8. WrittenOut'
    BY <1>7 DEF Notify, Return, Go
  <2>9. CompactingHeld'
    BY <1>7 DEF Notify, Return, Go
  <2>10. NotStranded'
    BY <1>7 DEF Notify, Return, Go
  <2> QED BY <2>1, <2>2, <2>3, <2>4, <2>5, <2>6, <2>7, <2>8, <2>9, <2>10
<1>8. CASE CommitFinalize(t)
  <2>1. CASE t = "fin"
    <3>1. PlacesOK' /\ DataOK'
      BY <1>8, <2>1 DEF CommitFinalize, Claim, Go
    <3>2. FlagsOK'
      BY <1>8, Zenon DEF CommitFinalize, Claim, Go
    <3>3. /\ pc["fin"] \in {"enter", "wait"}
          /\ UNCHANGED <<data, compacting, bound, state, rc, deleting>>
      BY <1>8, <2>1 DEF CommitFinalize, Claim
    <3>4. CASE compacting \/ commit
      <4>1. commit' = commit /\ pc' = [pc EXCEPT !["fin"] = "wait"]
        BY <1>8, <2>1, <3>4 DEF CommitFinalize, Claim, Go
      <4>2. OneCommitter' /\ OneCompaction'
        BY <3>3, <4>1
      <4>3. Alone' /\ StateOf' /\ WrittenOut' /\ CompactingHeld'
        BY <3>3, <4>1
      <4>4. NotStranded'
        BY <1>8, <3>3, <3>4, <4>1 DEF CommitFinalize, Claim
      <4> QED BY <3>1, <3>2, <4>2, <4>3, <4>4
    <3>5. CASE ~compacting /\ ~commit
      <4>1. commit' = TRUE /\ pc' = [pc EXCEPT !["fin"] = "loop"]
        BY <1>8, <2>1, <3>5 DEF CommitFinalize, Claim, Go
      <4>2. OneCommitter' /\ OneCompaction'
        BY <3>3, <3>5, <4>1
      <4>3. Alone' /\ StateOf' /\ WrittenOut' /\ CompactingHeld'
        BY <3>3, <3>5, <4>1
      <4>4. NotStranded'
        <5>1. /\ "fin" \notin asleep
              /\ UNCHANGED <<asleep, unheard, late>>
          BY <1>8, <2>1, <3>3, <3>5 DEF CommitFinalize, Claim
        <5>2. pc'["fin"] = "loop"
          BY <4>1
        <5>3. unheard # {} => unheard = {"unl"} /\ late # {}
          OBVIOUS
        <5> QED BY <5>1, <5>2, <5>3
      <4> QED BY <3>1, <3>2, <4>2, <4>3, <4>4
    <3> QED BY <3>4, <3>5
  <2>2. CASE t = "unl"
    <3>1. PlacesOK' /\ DataOK'
      BY <1>8, <2>2 DEF CommitFinalize, Claim, Go
    <3>2. FlagsOK'
      BY <1>8, Zenon DEF CommitFinalize, Claim, Go
    <3>3. /\ pc["unl"] \in {"enter", "wait"}
          /\ UNCHANGED <<data, compacting, bound, state, rc, deleting>>
      BY <1>8, <2>2 DEF CommitFinalize, Claim
    <3>4. CASE compacting \/ commit
      <4>1. commit' = commit /\ pc' = [pc EXCEPT !["unl"] = "wait"]
        BY <1>8, <2>2, <3>4 DEF CommitFinalize, Claim, Go
      <4>2. OneCommitter' /\ OneCompaction'
        BY <3>3, <4>1
      <4>3. Alone' /\ StateOf' /\ WrittenOut' /\ CompactingHeld'
        BY <3>3, <4>1
      <4>4. NotStranded'
        <5>1. UNCHANGED <<late, unheard>>
          BY <1>8, <3>3 DEF CommitFinalize, Claim
        <5>2. CASE compacting
          BY <3>3, <4>1, <5>1, <5>2
        <5>3. CASE commit
          <6>1. PastQueue /\ pc["unl"] \notin HoldPlaces \cup {"sync"}
            BY <3>3
          <6>2. asleep' = asleep \cup {"unl"}
            BY <1>8, <2>2, <3>4 DEF CommitFinalize, Claim
          <6> QED BY <3>3, <4>1, <5>1, <5>3, <6>1, <6>2, SleeperHeld
        <5> QED BY <3>4, <5>2, <5>3
      <4> QED BY <3>1, <3>2, <4>2, <4>3, <4>4
    <3>5. CASE ~compacting /\ ~commit
      <4>1. commit' = TRUE /\ pc' = [pc EXCEPT !["unl"] = "loop"]
        BY <1>8, <2>2, <3>5 DEF CommitFinalize, Claim, Go
      <4>2. OneCommitter' /\ OneCompaction'
        BY <3>3, <3>5, <4>1
      <4>3. Alone' /\ StateOf' /\ WrittenOut' /\ CompactingHeld'
        BY <3>3, <3>5, <4>1
      <4>4. NotStranded'
        <5>1. /\ "unl" \notin asleep
              /\ UNCHANGED <<asleep, unheard, late>>
          BY <1>8, <2>2, <3>3, <3>5 DEF CommitFinalize, Claim
        <5>2. pc'["unl"] = "loop"
          BY <4>1
        <5>3. unheard # {} => unheard = {"unl"} /\ late # {}
          OBVIOUS
        <5> QED BY <5>1, <5>2, <5>3
      <4> QED BY <3>1, <3>2, <4>2, <4>3, <4>4
    <3> QED BY <3>4, <3>5
  <2> QED BY <1>8, <2>1, <2>2 DEF CommitFinalize
<1> QED BY <1>1, <1>2, <1>3, <1>4, <1>5, <1>6, <1>7, <1>8 DEF CommitStep

\* The release of memory.
LEMMA ReleaseKeeps ==
  ASSUME LogInv, Release \/ ReleaseStep
  PROVE  LogInv'
<1> USE Distinct
<1>1. CASE Release
  <2>1. PlacesOK'
    BY <1>1 DEF Release, Go
  <2>2. FlagsOK'
    BY <1>1, Zenon DEF Release, Go
  <2>3. DataOK'
    BY <1>1 DEF Release, Go
  <2>4. OneCommitter'
    BY <1>1 DEF Release, Go
  <2>5. OneCompaction'
    BY <1>1 DEF Release, Go
  <2>6. Alone'
    BY <1>1 DEF Release, Go
  <2>7. StateOf'
    BY <1>1 DEF Release, Go
  <2>8. WrittenOut'
    BY <1>1 DEF Release, Go
  <2>9. CompactingHeld'
    BY <1>1 DEF Release, Go
  <2>10. NotStranded'
    BY <1>1 DEF Release, Go
  <2> QED BY <2>1, <2>2, <2>3, <2>4, <2>5, <2>6, <2>7, <2>8, <2>9, <2>10
<1>2. CASE ReleaseEnter
  <2>1. PlacesOK'
    BY <1>2 DEF ReleaseEnter, Go
  <2>2. FlagsOK'
    BY <1>2, Zenon DEF ReleaseEnter, Go
  <2>3. DataOK'
    BY <1>2 DEF ReleaseEnter, Go
  <2>4. OneCommitter'
    BY <1>2 DEF ReleaseEnter, Go
  <2>5. OneCompaction'
    BY <1>2 DEF ReleaseEnter, Go
  <2>6. Alone'
    BY <1>2 DEF ReleaseEnter, Go
  <2>7. StateOf'
    BY <1>2 DEF ReleaseEnter, Go
  <2>8. WrittenOut'
    BY <1>2 DEF ReleaseEnter, Go
  <2>9. CompactingHeld'
    BY <1>2 DEF ReleaseEnter, Go
  <2>10. NotStranded'
    BY <1>2 DEF ReleaseEnter, Go
  <2> QED BY <2>1, <2>2, <2>3, <2>4, <2>5, <2>6, <2>7, <2>8, <2>9, <2>10
<1>3. CASE ReleaseAsk
  <2>1. PlacesOK'
    BY <1>3 DEF ReleaseAsk, Go
  <2>2. FlagsOK'
    BY <1>3, Zenon DEF ReleaseAsk, Go
  <2>3. DataOK'
    BY <1>3 DEF ReleaseAsk, Go
  <2>4. OneCommitter'
    BY <1>3 DEF ReleaseAsk, Go
  <2>5. OneCompaction'
    BY <1>3 DEF ReleaseAsk, Go
  <2>6. Alone'
    BY <1>3 DEF ReleaseAsk, Go
  <2>7. StateOf'
    BY <1>3 DEF ReleaseAsk, Go
  <2>8. WrittenOut'
    BY <1>3 DEF ReleaseAsk, Go
  <2>9. CompactingHeld'
    BY <1>3 DEF ReleaseAsk, Go
  <2>10. NotStranded'
    BY <1>3 DEF ReleaseAsk, Go
  <2> QED BY <2>1, <2>2, <2>3, <2>4, <2>5, <2>6, <2>7, <2>8, <2>9, <2>10
<1>4. CASE CommitRelease
  <2>1. PlacesOK'
    BY <1>4 DEF CommitRelease, Go
  <2>2. FlagsOK'
    BY <1>4, Zenon DEF CommitRelease, Go
  <2>3. DataOK'
    BY <1>4 DEF CommitRelease, Go
  <2>4. OneCommitter'
    BY <1>4 DEF CommitRelease, Go
  <2>5. OneCompaction'
    BY <1>4 DEF CommitRelease, Go
  <2>6. Alone'
    BY <1>4 DEF CommitRelease, Go
  <2>7. StateOf'
    BY <1>4 DEF CommitRelease, Go
  <2>8. WrittenOut'
    BY <1>4 DEF CommitRelease, Go
  <2>9. CompactingHeld'
    BY <1>4 DEF CommitRelease, Go
  <2>10. NotStranded'
    BY <1>4 DEF CommitRelease, Go
  <2> QED BY <2>1, <2>2, <2>3, <2>4, <2>5, <2>6, <2>7, <2>8, <2>9, <2>10
<1> QED BY <1>1, <1>2, <1>3, <1>4 DEF ReleaseStep

\* The steps of a thread in try_compact.
LEMMA TryKeeps ==
  ASSUME LogInv, NEW t \in Triers, Try(t) \/ TryStep(t)
  PROVE  LogInv'
<1> USE Distinct
<1>1. CASE Try(t)
  <2>1. PlacesOK'
    BY <1>1 DEF Try, Go
  <2>2. FlagsOK'
    BY <1>1, Zenon DEF Try, Go
  <2>3. DataOK'
    BY <1>1 DEF Try, Go
  <2>4. OneCommitter'
    BY <1>1 DEF Try, Go
  <2>5. OneCompaction'
    BY <1>1 DEF Try, Go
  <2>6. Alone'
    BY <1>1 DEF Try, Go
  <2>7. StateOf'
    BY <1>1 DEF Try, Go
  <2>8. WrittenOut'
    BY <1>1 DEF Try, Go
  <2>9. CompactingHeld'
    BY <1>1 DEF Try, Go
  <2>10. NotStranded'
    BY <1>1 DEF Try, Go
  <2> QED BY <2>1, <2>2, <2>3, <2>4, <2>5, <2>6, <2>7, <2>8, <2>9, <2>10
<1>2. CASE TryCheck(t)
  <2>1. PlacesOK'
    BY <1>2 DEF TryCheck, Go
  <2>2. FlagsOK'
    BY <1>2, Zenon DEF TryCheck, Go
  <2>3. DataOK'
    BY <1>2 DEF TryCheck, Go
  <2>4. OneCommitter'
    BY <1>2 DEF TryCheck, Go
  <2>5. OneCompaction'
    BY <1>2 DEF TryCheck, Go
  <2>6. Alone'
    BY <1>2 DEF TryCheck, Go
  <2>7. StateOf'
    BY <1>2 DEF TryCheck, Go
  <2>8. WrittenOut'
    BY <1>2 DEF TryCheck, Go
  <2>9. CompactingHeld'
    BY <1>2 DEF TryCheck, Go
  <2>10. NotStranded'
    BY <1>2 DEF TryCheck, Go
  <2> QED BY <2>1, <2>2, <2>3, <2>4, <2>5, <2>6, <2>7, <2>8, <2>9, <2>10
<1>3. CASE TryClaim(t)
  <2>1. PlacesOK'
    BY <1>3 DEF TryClaim, Go
  <2>2. FlagsOK'
    BY <1>3, Zenon DEF TryClaim, Go
  <2>3. DataOK'
    BY <1>3 DEF TryClaim, Go
  <2>4. OneCommitter'
    BY <1>3 DEF TryClaim, Go
  <2>5. OneCompaction'
    BY <1>3 DEF TryClaim, Go
  <2>6. Alone'
    BY <1>3 DEF TryClaim, Go
  <2>7. StateOf'
    BY <1>3 DEF TryClaim, Go
  <2>8. WrittenOut'
    BY <1>3 DEF TryClaim, Go
  <2>9. CompactingHeld'
    BY <1>3 DEF TryClaim, Go
  <2>10. NotStranded'
    BY <1>3 DEF TryClaim, Go
  <2> QED BY <2>1, <2>2, <2>3, <2>4, <2>5, <2>6, <2>7, <2>8, <2>9, <2>10
<1>4. CASE TryPossible(t)
  <2>1. PlacesOK'
    BY <1>4 DEF TryPossible, Go
  <2>2. FlagsOK'
    BY <1>4, Zenon DEF TryPossible, Go
  <2>3. DataOK'
    BY <1>4 DEF TryPossible, Go
  <2>4. OneCommitter'
    BY <1>4 DEF TryPossible, Go
  <2>5. OneCompaction'
    BY <1>4 DEF TryPossible, Go
  <2>6. Alone'
    BY <1>4 DEF TryPossible, Go
  <2>7. StateOf'
    BY <1>4 DEF TryPossible, Go
  <2>8. WrittenOut'
    BY <1>4 DEF TryPossible, Go
  <2>9. CompactingHeld'
    BY <1>4 DEF TryPossible, Go
  <2>10. NotStranded'
    BY <1>4 DEF TryPossible, Go
  <2> QED BY <2>1, <2>2, <2>3, <2>4, <2>5, <2>6, <2>7, <2>8, <2>9, <2>10
<1>5. CASE TryNeed(t)
  <2>1. PlacesOK'
    BY <1>5 DEF TryNeed, Go
  <2>2. FlagsOK'
    BY <1>5, Zenon DEF TryNeed, Go
  <2>3. DataOK'
    BY <1>5 DEF TryNeed, Go
  <2>4. OneCommitter'
    BY <1>5 DEF TryNeed, Go
  <2>5. OneCompaction'
    BY <1>5 DEF TryNeed, Go
  <2>6. Alone'
    BY <1>5 DEF TryNeed, Go
  <2>7. StateOf'
    BY <1>5 DEF TryNeed, Go
  <2>8. WrittenOut'
    BY <1>5 DEF TryNeed, Go
  <2>9. CompactingHeld'
    BY <1>5 DEF TryNeed, Go
  <2>10. NotStranded'
    BY <1>5 DEF TryNeed, Go
  <2> QED BY <2>1, <2>2, <2>3, <2>4, <2>5, <2>6, <2>7, <2>8, <2>9, <2>10
<1> QED BY <1>1, <1>2, <1>3, <1>4, <1>5 DEF TryStep

\* The end of a log compaction.
LEMMA FinishKeeps ==
  ASSUME LogInv, NEW t \in Triers \cup {"cmp"}, FinishStep(t)
  PROVE  LogInv'
<1> USE Distinct
<1>1. CASE FinishStore(t)
  <2>1. PlacesOK'
    BY <1>1 DEF FinishStore, Go
  <2>2. FlagsOK'
    BY <1>1, Zenon DEF FinishStore, Go
  <2>3. DataOK'
    BY <1>1 DEF FinishStore, Go
  <2>4. OneCommitter'
    BY <1>1 DEF FinishStore, Go
  <2>5. OneCompaction'
    BY <1>1 DEF FinishStore, Go
  <2>6. Alone'
    BY <1>1 DEF FinishStore, Go
  <2>7. StateOf'
    BY <1>1 DEF FinishStore, Go
  <2>8. WrittenOut'
    BY <1>1 DEF FinishStore, Go
  <2>9. CompactingHeld'
    BY <1>1 DEF FinishStore, Go
  <2>10. NotStranded'
    BY <1>1 DEF FinishStore, Go
  <2> QED BY <2>1, <2>2, <2>3, <2>4, <2>5, <2>6, <2>7, <2>8, <2>9, <2>10
<1>2. CASE FinishNotify(t)
  <2>1. PlacesOK'
    BY <1>2 DEF FinishNotify, Go
  <2>2. FlagsOK'
    BY <1>2, Zenon DEF FinishNotify, Go
  <2>3. DataOK'
    BY <1>2 DEF FinishNotify, Go
  <2>4. OneCommitter'
    BY <1>2 DEF FinishNotify, Go
  <2>5. OneCompaction'
    BY <1>2 DEF FinishNotify, Go
  <2>6. Alone'
    BY <1>2 DEF FinishNotify, Go
  <2>7. StateOf'
    BY <1>2 DEF FinishNotify, Go
  <2>8. WrittenOut'
    BY <1>2 DEF FinishNotify, Go
  <2>9. CompactingHeld'
    BY <1>2 DEF FinishNotify, Go
  <2>10. NotStranded'
    BY <1>2 DEF FinishNotify, Go
  <2> QED BY <2>1, <2>2, <2>3, <2>4, <2>5, <2>6, <2>7, <2>8, <2>9, <2>10
<1>3. CASE FinishOpen(t)
  <2>1. PlacesOK'
    BY <1>3 DEF FinishOpen, Go
  <2>2. FlagsOK'
    BY <1>3, Zenon DEF FinishOpen, Go
  <2>3. DataOK'
    BY <1>3 DEF FinishOpen, Go
  <2>4. OneCommitter'
    BY <1>3 DEF FinishOpen, Go
  <2>5. OneCompaction'
    BY <1>3 DEF FinishOpen, Go
  <2>6. Alone'
    BY <1>3 DEF FinishOpen, Go
  <2>7. StateOf'
    BY <1>3 DEF FinishOpen, Go
  <2>8. WrittenOut'
    BY <1>3 DEF FinishOpen, Go
  <2>9. CompactingHeld'
    BY <1>3 DEF FinishOpen, Go
  <2>10. NotStranded'
    BY <1>3 DEF FinishOpen, Go
  <2> QED BY <2>1, <2>2, <2>3, <2>4, <2>5, <2>6, <2>7, <2>8, <2>9, <2>10
<1> QED BY <1>1, <1>2, <1>3 DEF FinishStep

\* The steps of log and range compactions.
LEMMA CompactKeeps ==
  ASSUME LogInv, CompactStep \/ RangeBegin \/ RangeStep
  PROVE  LogInv'
<1> USE Distinct
<1>1. CASE CompactApply
  <2>1. PlacesOK'
    BY <1>1 DEF CompactApply, Go
  <2>2. FlagsOK'
    BY <1>1, Zenon DEF CompactApply, Go
  <2>3. DataOK'
    BY <1>1 DEF CompactApply, Go
  <2>4. OneCommitter'
    BY <1>1 DEF CompactApply, Go
  <2>5. OneCompaction'
    BY <1>1 DEF CompactApply, Go
  <2>6. Alone'
    BY <1>1 DEF CompactApply, Go
  <2>7. StateOf'
    BY <1>1 DEF CompactApply, Go
  <2>8. WrittenOut'
    BY <1>1 DEF CompactApply, Go
  <2>9. CompactingHeld'
    BY <1>1 DEF CompactApply, Go
  <2>10. NotStranded'
    BY <1>1 DEF CompactApply, Go
  <2> QED BY <2>1, <2>2, <2>3, <2>4, <2>5, <2>6, <2>7, <2>8, <2>9, <2>10
<1>2. CASE CompactOwn
  <2>1. PlacesOK'
    BY <1>2 DEF CompactOwn, Go
  <2>2. FlagsOK'
    BY <1>2, Zenon DEF CompactOwn, Go
  <2>3. DataOK'
    BY <1>2 DEF CompactOwn, Go
  <2>4. OneCommitter'
    BY <1>2 DEF CompactOwn, Go
  <2>5. OneCompaction'
    BY <1>2 DEF CompactOwn, Go
  <2>6. Alone'
    BY <1>2 DEF CompactOwn, Go
  <2>7. StateOf'
    BY <1>2 DEF CompactOwn, Go
  <2>8. WrittenOut'
    BY <1>2 DEF CompactOwn, Go
  <2>9. CompactingHeld'
    BY <1>2 DEF CompactOwn, Go
  <2>10. NotStranded'
    BY <1>2 DEF CompactOwn, Go
  <2> QED BY <2>1, <2>2, <2>3, <2>4, <2>5, <2>6, <2>7, <2>8, <2>9, <2>10
<1>3. CASE RangeBegin
  <2>1. PlacesOK'
    BY <1>3 DEF RangeBegin, Go
  <2>2. FlagsOK'
    BY <1>3, Zenon DEF RangeBegin, Go
  <2>3. DataOK'
    BY <1>3 DEF RangeBegin, Go
  <2>4. OneCommitter'
    BY <1>3 DEF RangeBegin, Go
  <2>5. OneCompaction'
    BY <1>3 DEF RangeBegin, Go
  <2>6. Alone'
    BY <1>3 DEF RangeBegin, Go
  <2>7. StateOf'
    BY <1>3 DEF RangeBegin, Go
  <2>8. WrittenOut'
    BY <1>3 DEF RangeBegin, Go
  <2>9. CompactingHeld'
    BY <1>3 DEF RangeBegin, Go
  <2>10. NotStranded'
    BY <1>3 DEF RangeBegin, Go
  <2> QED BY <2>1, <2>2, <2>3, <2>4, <2>5, <2>6, <2>7, <2>8, <2>9, <2>10
<1>4. CASE RangeApply
  <2>1. PlacesOK'
    BY <1>4 DEF RangeApply, Go
  <2>2. FlagsOK'
    BY <1>4, Zenon DEF RangeApply, Go
  <2>3. DataOK'
    BY <1>4 DEF RangeApply, Go
  <2>4. OneCommitter'
    BY <1>4 DEF RangeApply, Go
  <2>5. OneCompaction'
    BY <1>4 DEF RangeApply, Go
  <2>6. Alone'
    BY <1>4 DEF RangeApply, Go
  <2>7. StateOf'
    BY <1>4 DEF RangeApply, Go
  <2>8. WrittenOut'
    BY <1>4 DEF RangeApply, Go
  <2>9. CompactingHeld'
    BY <1>4 DEF RangeApply, Go
  <2>10. NotStranded'
    BY <1>4 DEF RangeApply, Go
  <2> QED BY <2>1, <2>2, <2>3, <2>4, <2>5, <2>6, <2>7, <2>8, <2>9, <2>10
<1>5. CASE RangeSync
  <2>1. PlacesOK'
    BY <1>5 DEF RangeSync, Synced, Processing, Go
  <2>2. FlagsOK'
    BY <1>5, Zenon DEF RangeSync, Synced, Processing, Go
  <2>3. DataOK'
    BY <1>5 DEF RangeSync, Synced, Processing, Go
  <2>4. OneCommitter'
    BY <1>5 DEF RangeSync, Synced, Processing, Go
  <2>5. OneCompaction'
    BY <1>5 DEF RangeSync, Synced, Processing, Go
  <2>6. Alone'
    BY <1>5 DEF RangeSync, Synced, Processing, Go
  <2>7. StateOf'
    BY <1>5 DEF RangeSync, Synced, Processing, Go
  <2>8. WrittenOut'
    BY <1>5 DEF RangeSync, Synced, Processing, Go
  <2>9. CompactingHeld'
    BY <1>5 DEF RangeSync, Synced, Processing, Go
  <2>10. NotStranded'
    BY <1>5 DEF RangeSync, Synced, Processing, Go
  <2> QED BY <2>1, <2>2, <2>3, <2>4, <2>5, <2>6, <2>7, <2>8, <2>9, <2>10
<1>6. CASE RangeTimeout
  <2>1. PlacesOK'
    BY <1>6 DEF RangeTimeout, Go
  <2>2. FlagsOK'
    BY <1>6, Zenon DEF RangeTimeout, Go
  <2>3. DataOK'
    BY <1>6 DEF RangeTimeout, Go
  <2>4. OneCommitter'
    BY <1>6 DEF RangeTimeout, Go
  <2>5. OneCompaction'
    BY <1>6 DEF RangeTimeout, Go
  <2>6. Alone'
    BY <1>6 DEF RangeTimeout, Go
  <2>7. StateOf'
    BY <1>6 DEF RangeTimeout, Go
  <2>8. WrittenOut'
    BY <1>6 DEF RangeTimeout, Go
  <2>9. CompactingHeld'
    BY <1>6 DEF RangeTimeout, Go
  <2>10. NotStranded'
    BY <1>6 DEF RangeTimeout, Go
  <2> QED BY <2>1, <2>2, <2>3, <2>4, <2>5, <2>6, <2>7, <2>8, <2>9, <2>10
<1>7. CASE RangeGo
  <2>1. PlacesOK'
    BY <1>7 DEF RangeGo, Go
  <2>2. FlagsOK'
    BY <1>7, Zenon DEF RangeGo, Go
  <2>3. DataOK'
    BY <1>7 DEF RangeGo, Go
  <2>4. OneCommitter'
    BY <1>7 DEF RangeGo, Go
  <2>5. OneCompaction'
    BY <1>7 DEF RangeGo, Go
  <2>6. Alone'
    BY <1>7 DEF RangeGo, Go
  <2>7. StateOf'
    BY <1>7 DEF RangeGo, Go
  <2>8. WrittenOut'
    BY <1>7 DEF RangeGo, Go
  <2>9. CompactingHeld'
    BY <1>7 DEF RangeGo, Go
  <2>10. NotStranded'
    BY <1>7 DEF RangeGo, Go
  <2> QED BY <2>1, <2>2, <2>3, <2>4, <2>5, <2>6, <2>7, <2>8, <2>9, <2>10
<1> QED BY <1>1, <1>2, <1>3, <1>4, <1>5, <1>6, <1>7 DEF CompactStep, RangeStep

\* The steps of an unload or a removal.
LEMMA UnloadKeeps ==
  ASSUME LogInv, UnloadBegin \/ UnloadStep
  PROVE  LogInv'
<1> USE Distinct
<1>1. CASE UnloadBegin
  <2>1. PlacesOK'
    BY <1>1 DEF UnloadBegin, Go
  <2>2. FlagsOK'
    BY <1>1, Zenon DEF UnloadBegin, Go
  <2>3. DataOK'
    BY <1>1 DEF UnloadBegin, Go
  <2>4. OneCommitter'
    BY <1>1 DEF UnloadBegin, Go
  <2>5. OneCompaction'
    BY <1>1 DEF UnloadBegin, Go
  <2>6. Alone'
    BY <1>1 DEF UnloadBegin, Go
  <2>7. StateOf'
    BY <1>1 DEF UnloadBegin, Go
  <2>8. WrittenOut'
    BY <1>1 DEF UnloadBegin, Go
  <2>9. CompactingHeld'
    BY <1>1 DEF UnloadBegin, Go
  <2>10. NotStranded'
    BY <1>1 DEF UnloadBegin, Go
  <2> QED BY <2>1, <2>2, <2>3, <2>4, <2>5, <2>6, <2>7, <2>8, <2>9, <2>10
<1>2. CASE UnloadFlag
  <2>1. PlacesOK'
    BY <1>2 DEF UnloadFlag, Go
  <2>2. FlagsOK'
    BY <1>2, Zenon DEF UnloadFlag, Go
  <2>3. DataOK'
    BY <1>2 DEF UnloadFlag, Go
  <2>4. OneCommitter'
    BY <1>2 DEF UnloadFlag, Go
  <2>5. OneCompaction'
    BY <1>2 DEF UnloadFlag, Go
  <2>6. Alone'
    BY <1>2 DEF UnloadFlag, Go
  <2>7. StateOf'
    BY <1>2 DEF UnloadFlag, Go
  <2>8. WrittenOut'
    BY <1>2 DEF UnloadFlag, Go
  <2>9. CompactingHeld'
    BY <1>2 DEF UnloadFlag, Go
  <2>10. NotStranded'
    BY <1>2 DEF UnloadFlag, Go
  <2> QED BY <2>1, <2>2, <2>3, <2>4, <2>5, <2>6, <2>7, <2>8, <2>9, <2>10
<1>3. CASE UnloadWait
  <2>1. PlacesOK'
    BY <1>3 DEF UnloadWait, NoneAdding, Go
  <2>2. FlagsOK'
    BY <1>3, Zenon DEF UnloadWait, NoneAdding, Go
  <2>3. DataOK'
    BY <1>3 DEF UnloadWait, NoneAdding, Go
  <2>4. OneCommitter'
    BY <1>3 DEF UnloadWait, NoneAdding, Go
  <2>5. OneCompaction'
    BY <1>3 DEF UnloadWait, NoneAdding, Go
  <2>6. Alone'
    BY <1>3 DEF UnloadWait, NoneAdding, Go
  <2>7. StateOf'
    BY <1>3 DEF UnloadWait, NoneAdding, Go
  <2>8. WrittenOut'
    BY <1>3 DEF UnloadWait, NoneAdding, Go
  <2>9. CompactingHeld'
    BY <1>3 DEF UnloadWait, NoneAdding, Go
  <2>10. NotStranded'
    BY <1>3 DEF UnloadWait, NoneAdding, Go
  <2> QED BY <2>1, <2>2, <2>3, <2>4, <2>5, <2>6, <2>7, <2>8, <2>9, <2>10
<1>4. CASE UnloadSync
  <2>1. PlacesOK'
    BY <1>4 DEF UnloadSync, Synced, Processing, Go
  <2>2. FlagsOK'
    BY <1>4, Zenon DEF UnloadSync, Synced, Processing, Go
  <2>3. DataOK'
    BY <1>4 DEF UnloadSync, Synced, Processing, Go
  <2>4. OneCommitter'
    BY <1>4 DEF UnloadSync, Synced, Processing, Go
  <2>5. OneCompaction'
    BY <1>4 DEF UnloadSync, Synced, Processing, Go
  <2>6. Alone'
    BY <1>4 DEF UnloadSync, Synced, Processing, Go
  <2>7. StateOf'
    BY <1>4 DEF UnloadSync, Synced, Processing, Go
  <2>8. WrittenOut'
    BY <1>4 DEF UnloadSync, Synced, Processing, Go
  <2>9. CompactingHeld'
    BY <1>4 DEF UnloadSync, Synced, Processing, Go
  <2>10. NotStranded'
    BY <1>4 DEF UnloadSync, Synced, Processing, Go
  <2> QED BY <2>1, <2>2, <2>3, <2>4, <2>5, <2>6, <2>7, <2>8, <2>9, <2>10
<1>5. CASE UnloadLog
  <2>1. PlacesOK'
    BY <1>5 DEF UnloadLog, Claim, Go
  <2>2. FlagsOK'
    BY <1>5, Zenon DEF UnloadLog, Claim, Go
  <2>3. DataOK'
    BY <1>5 DEF UnloadLog, Claim, Go
  <2>4. OneCommitter'
    BY <1>5 DEF UnloadLog, Claim, Go
  <2>5. OneCompaction'
    BY <1>5 DEF UnloadLog, Claim, Go
  <2>6. Alone'
    BY <1>5 DEF UnloadLog, Claim, Go
  <2>7. StateOf'
    BY <1>5 DEF UnloadLog, Claim, Go
  <2>8. WrittenOut'
    BY <1>5 DEF UnloadLog, Claim, Go
  <2>9. CompactingHeld'
    BY <1>5 DEF UnloadLog, Claim, Go
  <2>10. NotStranded'
    <3>1. /\ UNCHANGED <<late, unheard>> /\ PastQueue
          /\ pc["unl"] \notin HoldPlaces \cup {"sync"}
      BY <1>5 DEF UnloadLog, Claim
    <3>2. CASE compacting \/ commit
      <4>1. /\ asleep' = asleep \cup {"unl"}
            /\ pc' = [pc EXCEPT !["unl"] = "lastWait"]
        BY <1>5, <3>2 DEF UnloadLog, Claim, Go
      <4>2. CASE compacting
        BY <3>1, <4>1, <4>2
      <4>3. CASE commit
        BY <3>1, <4>1, <4>3, SleeperHeld
      <4> QED BY <3>2, <4>2, <4>3
    <3>3. CASE ~compacting /\ ~commit
      <4>1. asleep = {} /\ asleep' = {} /\ unheard' = {}
        BY <1>5, <3>1, <3>3 DEF UnloadLog, Claim
      <4> QED BY <4>1
    <3> QED BY <3>2, <3>3
  <2> QED BY <2>1, <2>2, <2>3, <2>4, <2>5, <2>6, <2>7, <2>8, <2>9, <2>10
<1>6. CASE RemoveLog
  <2>1. PlacesOK'
    BY <1>6 DEF RemoveLog, Claim, Go
  <2>2. FlagsOK'
    BY <1>6, Zenon DEF RemoveLog, Claim, Go
  <2>3. DataOK'
    BY <1>6 DEF RemoveLog, Claim, Go
  <2>4. OneCommitter'
    BY <1>6 DEF RemoveLog, Claim, Go
  <2>5. OneCompaction'
    BY <1>6 DEF RemoveLog, Claim, Go
  <2>6. Alone'
    BY <1>6 DEF RemoveLog, Claim, Go
  <2>7. StateOf'
    BY <1>6 DEF RemoveLog, Claim, Go
  <2>8. WrittenOut'
    BY <1>6 DEF RemoveLog, Claim, Go
  <2>9. CompactingHeld'
    BY <1>6 DEF RemoveLog, Claim, Go
  <2>10. NotStranded'
    <3>1. /\ UNCHANGED <<late, unheard>> /\ PastQueue
          /\ pc["unl"] \notin HoldPlaces \cup {"sync"}
      BY <1>6 DEF RemoveLog, Claim
    <3>2. CASE compacting \/ commit
      <4>1. /\ asleep' = asleep \cup {"unl"}
            /\ pc' = [pc EXCEPT !["unl"] = "lastWait"]
        BY <1>6, <3>2 DEF RemoveLog, Claim, Go
      <4>2. CASE compacting
        BY <3>1, <4>1, <4>2
      <4>3. CASE commit
        BY <3>1, <4>1, <4>3, SleeperHeld
      <4> QED BY <3>2, <4>2, <4>3
    <3>3. CASE ~compacting /\ ~commit
      <4>1. asleep = {} /\ asleep' = {} /\ unheard' = {}
        BY <1>6, <3>1, <3>3 DEF RemoveLog, Claim
      <4> QED BY <4>1
    <3> QED BY <3>2, <3>3
  <2> QED BY <2>1, <2>2, <2>3, <2>4, <2>5, <2>6, <2>7, <2>8, <2>9, <2>10
<1>7. CASE UnloadClear
  <2>1. PlacesOK'
    BY <1>7 DEF UnloadClear, Go
  <2>2. FlagsOK'
    BY <1>7, Zenon DEF UnloadClear, Go
  <2>3. DataOK'
    BY <1>7 DEF UnloadClear, Go
  <2>4. OneCommitter'
    BY <1>7 DEF UnloadClear, Go
  <2>5. OneCompaction'
    BY <1>7 DEF UnloadClear, Go
  <2>6. Alone'
    BY <1>7 DEF UnloadClear, Go
  <2>7. StateOf'
    BY <1>7 DEF UnloadClear, Go
  <2>8. WrittenOut'
    BY <1>7 DEF UnloadClear, Go
  <2>9. CompactingHeld'
    BY <1>7 DEF UnloadClear, Go
  <2>10. NotStranded'
    BY <1>7 DEF UnloadClear, Go
  <2> QED BY <2>1, <2>2, <2>3, <2>4, <2>5, <2>6, <2>7, <2>8, <2>9, <2>10
<1>8. CASE UnloadEnd
  <2>1. PlacesOK'
    BY <1>8 DEF UnloadEnd, Go
  <2>2. FlagsOK'
    BY <1>8, Zenon DEF UnloadEnd, Go
  <2>3. DataOK'
    BY <1>8 DEF UnloadEnd, Go
  <2>4. OneCommitter'
    BY <1>8 DEF UnloadEnd, Go
  <2>5. OneCompaction'
    BY <1>8 DEF UnloadEnd, Go
  <2>6. Alone'
    BY <1>8 DEF UnloadEnd, Go
  <2>7. StateOf'
    BY <1>8 DEF UnloadEnd, Go
  <2>8. WrittenOut'
    BY <1>8 DEF UnloadEnd, Go
  <2>9. CompactingHeld'
    BY <1>8 DEF UnloadEnd, Go
  <2>10. NotStranded'
    BY <1>8 DEF UnloadEnd, Go
  <2> QED BY <2>1, <2>2, <2>3, <2>4, <2>5, <2>6, <2>7, <2>8, <2>9, <2>10
<1> QED BY <1>1, <1>2, <1>3, <1>4, <1>5, <1>6, <1>7, <1>8 DEF UnloadStep

-----------------------------------------------------------------------------
\* The initial state satisfies the invariant.
LEMMA LogInit == Init => LogInv
<1> SUFFICES ASSUME Init PROVE LogInv
  OBVIOUS
<1> USE Distinct
<1>1. PlacesOK /\ DataOK
  BY DEF Init
<1>2. FlagsOK
  BY Zenon DEF Init
<1>3. OneCommitter /\ OneCompaction
  BY DEF Init
<1>4. Alone /\ StateOf /\ WrittenOut /\ CompactingHeld /\ NotStranded
  BY DEF Init
<1> QED BY <1>1, <1>2, <1>3, <1>4

\* A write ends, or nothing happens.
LEMMA WrittenKeeps ==
  ASSUME LogInv, NEW S \in writing, Written(S)
  PROVE  LogInv'
<1> USE Distinct
<1>1. /\ UNCHANGED <<pc, take, cells, late, flags, rng>>
      /\ writing' = writing \ {S}
  BY DEF Written
<1>2. PlacesOK' /\ FlagsOK' /\ DataOK'
  BY <1>1
<1>3. OneCommitter' /\ OneCompaction'
  BY <1>1
<1>4. Alone' /\ StateOf' /\ WrittenOut' /\ CompactingHeld' /\ NotStranded'
  BY <1>1
<1> QED BY <1>2, <1>3, <1>4

LEMMA StutterKeeps == LogInv /\ UNCHANGED vars => LogInv'
<1> SUFFICES ASSUME LogInv, UNCHANGED vars PROVE LogInv'
  OBVIOUS
<1>1. PlacesOK' /\ FlagsOK' /\ DataOK'
  BY DEF vars
<1>2. OneCommitter' /\ OneCompaction'
  BY DEF vars
<1>3. Alone' /\ StateOf' /\ WrittenOut' /\ CompactingHeld' /\ NotStranded'
  BY DEF vars
<1> QED BY <1>1, <1>2, <1>3

-----------------------------------------------------------------------------
HIDE DEF LogInv, TypeOK, PlacesOK, FlagsOK, DataOK, OneCommitter,
        OneCompaction, Alone, StateOf, WrittenOut, CompactingHeld,
        NotStranded,
        Holders, HoldPlaces, Owners,
        FinAlone, PastQueue, UnlWritten, RollPlaces, UpdatePlaces,
        FinPlaces, RelPlaces,
        UnlPlaces, CmpPlaces, TryPlaces, Places, data, flags, rng

\* LogInv is an invariant of the commit log.
THEOREM LogInvariant == Spec => []LogInv
<1>1. LogInv /\ [Next]_vars => LogInv'
  BY UpdateKeeps, CommitKeeps, WrittenKeeps, ReleaseKeeps, TryKeeps,
     FinishKeeps, CompactKeeps, UnloadKeeps, StutterKeeps
     DEF Next
<1> QED BY LogInit, <1>1, PTL DEF Spec

\* The flags, the places of the threads and what they have in hand keep
\* their types.
THEOREM LogTypes == Spec => []TypeOK
<1>1. LogInv => TypeOK
  BY DEF LogInv
<1> QED BY LogInvariant, <1>1, PTL

\* m_commit is set exactly while one thread holds it.
THEOREM CommitsExclude == Spec => []OneCommitter
<1>1. LogInv => OneCommitter
  BY DEF LogInv
<1> QED BY LogInvariant, <1>1, PTL

\* When commit_finalize returns to a range compaction, nothing of the log is
\* left in memory or in an unfinished write.
THEOREM FinalizeIsComplete == Spec => []FinalizeComplete
<1>1. LogInv => FinalizeComplete
  BY DEF LogInv, WrittenOut, FinalizeComplete
<1> QED BY LogInvariant, <1>1, PTL

\* A thread that sleeps on m_cv has somebody to notify it, unless it is an
\* unload that a late update's commit() did not tell.
THEOREM SleepersNotified == Spec => []NotStranded
<1>1. LogInv => NotStranded
  BY DEF LogInv
<1> QED BY LogInvariant, <1>1, PTL

\* An unloaded log is empty, and neither commits nor compactions that the
\* unload waits for are at work on it, those of late updates apart.
THEOREM UnloadLeavesQuiet == Spec => []UnloadedQuiet
<1>1. LogInv => UnloadedQuiet
  <2> SUFFICES ASSUME LogInv, ~bound
               PROVE  /\ deleting \/ cells \subseteq late
                      /\ UNION writing \subseteq late
                      /\ Holders \subseteq {"rel"} \cup late
                      /\ deleting => late = {}
                      /\ pc["cmp"] = "idle"
                      /\ \A t \in Triers :
                           pc[t] \notin {"need", "store", "notice", "open"}
    BY DEF UnloadedQuiet
  <2>1. pc["unl"] \in {"closed", "done"}
    BY DEF LogInv, StateOf
  <2>2. deleting \/ cells \subseteq late
    BY <2>1 DEF LogInv, WrittenOut, UnlWritten
  <2>3. UNION writing \subseteq late
    BY <2>1 DEF LogInv, WrittenOut, UnlWritten
  <2>4. deleting => late = {}
    BY DEF LogInv, Alone, StateOf
  <2>5. Owners = {}
    BY <2>1 DEF LogInv, Alone, OneCompaction, PastQueue
  <2>6. Holders \subseteq {"rel"} \cup late
    <3> SUFFICES ASSUME NEW t \in Holders PROVE t \in {"rel"} \cup late
      OBVIOUS
    <3>1. t \in Threads /\ pc[t] \in HoldPlaces
      BY DEF Holders
    <3>2. t \notin Tasks
      BY DEF LogInv, Alone
    <3>3. t # "unl" /\ t # "fin"
      BY <2>1, <2>5, <3>1 DEF Owners, HoldPlaces, RollPlaces
    <3>4. t \notin Triers /\ t # "cmp"
      BY <3>1 DEF LogInv, TypeOK, PlacesOK, HoldPlaces, RollPlaces, TryPlaces,
                  CmpPlaces
    <3>5. t \in Updates => t \in late
      BY <2>1, <3>1 DEF LogInv, Alone, PastQueue, HoldPlaces, RollPlaces
    <3> QED BY <3>1, <3>2, <3>3, <3>4, <3>5 DEF Threads, Committers
  <2> QED BY <2>2, <2>3, <2>4, <2>5, <2>6 DEF Owners
<1> QED BY LogInvariant, <1>1, PTL


=============================================================================
