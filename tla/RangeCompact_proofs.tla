------------------------ MODULE RangeCompact_proofs -------------------------
(***************************************************************************)
(* Proofs about RangeCompact, for any number of blocks, any read-ahead,    *)
(* any number of threads and any number of errors.                         *)
(***************************************************************************)
EXTENDS RangeCompact, FiniteSetTheorems, SequenceTheorems, TLAPS

-----------------------------------------------------------------------------
(***************************************************************************)
(* The inductive invariant.                                                *)
(***************************************************************************)

\* The items of a queue, none twice, in the order of their keys.
Elems(s) == {s[i] : i \in 1 .. Len(s)}
Once(s) == \A i, j \in 1 .. Len(s) : s[i] = s[j] => i = j
Rising(s) == \A i, j \in 1 .. Len(s) : i < j => s[i] < s[j]

\* Sets of blocks, one for each of five places: a block is in one of them, and
\* those in one place come before those in the next.
Apart(P) == \A i, j \in 1 .. 5 : \A b \in P[i] : b \in P[j] => i = j
Ahead(P) == \A i, j \in 1 .. 5 : i < j => \A b \in P[i], c \in P[j] : b < c
All(P) == UNION {P[i] : i \in 1 .. 5}

\* Between two queues: popped from the one and not yet pushed to the next.
Between(s) == out[s] \cup ({hold[s]} \ {0})

\* The parts of the way that a block goes, from its end to its start.
Part == [i \in 1 .. 5 |-> CASE i = 1 -> Elems(q["write"])
                            [] i = 2 -> Between("encode")
                            [] i = 3 -> Elems(q["encode"])
                            [] i = 4 -> Between("intval")
                            [] i = 5 -> Elems(q["intval"])]
Pipe == All(Part)

\* A block is in one place.
DistinctInv ==
  /\ Apart(Part)
  /\ \A s \in Stages : Once(q[s])
  /\ \A s \in Passing : hold[s] \notin out[s]

\* Blocks keep their order as long as none has passed another.
OrderInv ==
  ~passed =>
    /\ Ahead(Part)
    /\ \A s \in Stages : Rising(q[s])

\* m_processing is the number of blocks on their way.
CountInv ==
  /\ Pipe \subseteq (1 .. scanned) \cup {Last}
  /\ processing = Cardinality(Pipe \ {Last})

\* A queue has a task only for its items; a task holds an item in between.
RunInv ==
  /\ \A s \in Stages : run[s] # "idle" => q[s] # <<>>
  /\ \A s \in Passing : /\ run[s] \in {"idle", "posted", "work", "hand"}
                        /\ run[s] = "hand" <=> hold[s] # 0

\* Nothing is under way, initialize and completion apart.
Still ==
  /\ scan = "none" /\ more = 0 /\ tails = 0 /\ timer = "none"
  /\ \A s \in Stages : run[s] = "idle"
  /\ \A s \in Passing : out[s] = {}
  /\ quitter = "none" /\ mng = "none" /\ unl = "none" /\ done = "none"

\* m_get is held while there is a scan, and for good after is_last.
ScanInv ==
  /\ scan # "none" => get
  /\ Last \in Pipe => scan = "none" /\ get /\ init = "none"
  /\ init # "none" => Still /\ get /\ ~fin

\* The writer has the item of its queue, and what is applied follows is_last.
ApplyInv ==
  /\ run["write"] = "wrote" => Head(q["write"]) # Last
  /\ run["write"] \in {"final", "apply"} => Head(q["write"]) = Last
  /\ mng # "none" \/ done # "none" \/ applied =>
       run["write"] = "idle" /\ q["write"] # <<>> /\ Head(q["write"]) = Last
  /\ done # "none" => mng = "none"
  /\ run["write"] = "apply" \/ mng \in {"create", "split", "apply"} => tmp

\* The new cell stores have the blocks that were scanned and are not on their
\* way; only the first of the last queue may be both.
Unwritten == {"posted", "work", "more", "final", "apply"}
CoverInv ==
  ~passed =>
    /\ \A i \in 1 .. Len(written) : written[i] = i
    /\ 1 .. scanned = (1 .. Len(written)) \cup (Pipe \ {Last})
    /\ run["write"] \in Unwritten => \A b \in Pipe : b > Len(written)
    /\ run["write"] = "wrote" => Head(q["write"]) = Len(written)
    /\ \A b \in Pipe : b > Len(written) \/ (q["write"] # <<>> /\ b = Head(q["write"]))

\* The one in completion, and what it holds.
EndInv ==
  /\ ended = One(~listed)
  /\ ending # "none" => stopped
  /\ ending = "init" => init = "end"
  /\ ending = "quitter" => quitter = "quit"
  /\ ending = "write" => run["write"] = "quit"
  /\ ending = "mng" => mng = "quit"
  /\ ending = "done" => done = "end"
  /\ ending = "stopper" => stopper = "quit"

FinInv == fin => chkFinal /\ (listed => gate = "APPLYING")

WayInv == DistinctInv /\ OrderInv /\ CountInv

CompactInv ==
  EndsAlone /\ WayInv /\ RunInv /\ ScanInv /\ ApplyInv /\ CoverInv /\ EndInv
  /\ FinInv
-----------------------------------------------------------------------------
(***************************************************************************)
(* Sequences without repetition.                                           *)
(***************************************************************************)
\* The head of a sequence leaves it.
LEMMA HeadGoes ==
  ASSUME NEW s \in Seq(Nat), s # <<>>, Once(s)
  PROVE  /\ Head(s) \in Elems(s) /\ Head(s) = s[1] /\ Len(s) \in Nat \ {0}
         /\ Elems(Tail(s)) = Elems(s) \ {Head(s)}
         /\ Tail(s) \in Seq(Nat) /\ Once(Tail(s))
         /\ Rising(s) => Rising(Tail(s)) /\ \A b \in Elems(s) : b = Head(s) \/ Head(s) < b
<1>1. /\ Len(s) \in Nat \ {0} /\ Tail(s) \in Seq(Nat) /\ Len(Tail(s)) = Len(s) - 1
      /\ \A i \in 1 .. Len(Tail(s)) : Tail(s)[i] = s[i + 1]
      /\ Head(s) = s[1]
  BY HeadTailProperties, LenProperties, EmptySeq
<1>2. Head(s) \in Elems(s)
  BY <1>1 DEF Elems
<1>3. Elems(Tail(s)) \subseteq Elems(s) \ {Head(s)}
  BY <1>1 DEF Elems, Once
<1>4. ASSUME NEW b \in Elems(s) \ {Head(s)}
      PROVE  b \in Elems(Tail(s))
  <2>1. PICK i \in 1 .. Len(s) : b = s[i]
    BY DEF Elems
  <2>2. i # 1 /\ i - 1 \in 1 .. Len(Tail(s)) /\ Tail(s)[i - 1] = b
    BY <1>1, <2>1
  <2> QED BY <2>2 DEF Elems
<1>5. Once(Tail(s))
  BY <1>1 DEF Once
<1>6. Rising(s) => Rising(Tail(s))
  BY <1>1 DEF Rising
<1>7. Rising(s) => \A b \in Elems(s) : b = Head(s) \/ Head(s) < b
  BY <1>1 DEF Rising, Elems
<1> QED BY <1>1, <1>2, <1>3, <1>4, <1>5, <1>6, <1>7

\* Something is left of a sequence of more than one.
LEMMA SomeLeft ==
  ASSUME NEW S, NEW s \in Seq(S), Len(s) > 1
  PROVE  Tail(s) # <<>>
<1>1. s # <<>>
  OBVIOUS
<1> DEFINE t == Tail(s)
           n == Len(s)
<1>2. t \in Seq(S) /\ Len(t) = n - 1 /\ n \in Nat /\ n > 1
  BY <1>1, HeadTailProperties, LenProperties
<1> HIDE DEF t, n
<1>3. Len(t) # 0
  BY <1>2
<1>4. t # <<>>
  BY <1>2, <1>3, EmptySeq
<1> QED BY <1>4 DEF t

\* Nothing is left of a sequence of one.
LEMMA NoneLeft ==
  ASSUME NEW S, NEW s \in Seq(S), s # <<>>, ~(Len(s) > 1)
  PROVE  Len(s) = 1 /\ Tail(s) = <<>>
<1> DEFINE t == Tail(s)
           n == Len(s)
<1>1. t \in Seq(S) /\ Len(t) = n - 1 /\ n \in Nat \ {0} /\ ~(n > 1)
  BY HeadTailProperties, EmptySeq
<1> HIDE DEF t, n
<1>2. n = 1 /\ Len(t) = 0
  BY <1>1
<1>3. t = <<>>
  BY <1>1, <1>2, EmptySeq
<1> QED BY <1>2, <1>3 DEF t, n

\* A new item goes to the end of a sequence.
LEMMA ItemComes ==
  ASSUME NEW s \in Seq(Nat), Once(s), NEW b \in Nat, b \notin Elems(s)
  PROVE  /\ Elems(Append(s, b)) = Elems(s) \cup {b}
         /\ Append(s, b) \in Seq(Nat) /\ Append(s, b) # <<>>
         /\ Once(Append(s, b))
         /\ Rising(s) /\ (\A c \in Elems(s) : c < b) => Rising(Append(s, b))
         /\ s # <<>> => Head(Append(s, b)) = Head(s)
<1>1. /\ Append(s, b) \in Seq(Nat) /\ Len(Append(s, b)) = Len(s) + 1
      /\ Append(s, b) # <<>>
      /\ \A i \in 1 .. Len(s) : Append(s, b)[i] = s[i]
      /\ Append(s, b)[Len(s) + 1] = b /\ Len(s) \in Nat
      /\ \A i \in 1 .. Len(s) : s[i] \in Nat
  BY AppendProperties, LenProperties, ElementOfSeq
<1>2. Elems(Append(s, b)) = Elems(s) \cup {b}
  BY <1>1 DEF Elems
<1>3. Once(Append(s, b))
  BY <1>1 DEF Once, Elems
<1>4. Rising(s) /\ (\A c \in Elems(s) : c < b) => Rising(Append(s, b))
  BY <1>1 DEF Rising, Elems
<1>5. s # <<>> => Head(Append(s, b)) = Head(s)
  BY <1>1, EmptySeq
<1> QED BY <1>1, <1>2, <1>3, <1>4, <1>5

(***************************************************************************)
(* Parts of the way of a block.                                            *)
(***************************************************************************)
\* A block goes from one part to the one ahead of it.
LEMMA BlockMoves ==
  ASSUME NEW P \in [1 .. 5 -> SUBSET Nat], NEW k \in 2 .. 5, NEW b \in P[k],
         Apart(P),
         NEW R, R[k] = P[k] \ {b}, R[k - 1] = P[k - 1] \cup {b},
         \A i \in 1 .. 5 : i # k /\ i # k - 1 => R[i] = P[i]
  PROVE  /\ Apart(R) /\ All(R) = All(P)
         /\ Ahead(P) /\ (\A c \in P[k] : c = b \/ b < c) => Ahead(R)
<1>1. /\ R[k] = P[k] \ {b} /\ R[k - 1] = P[k - 1] \cup {b}
      /\ \A i \in 1 .. 5 : i # k /\ i # k - 1 => R[i] = P[i]
  OBVIOUS
<1>2. k - 1 \in 1 .. 5 /\ k \in 1 .. 5 /\ k # k - 1
  OBVIOUS
<1>3. \A i \in 1 .. 5 : \A c \in R[i] : (c = b /\ i = k - 1) \/ (c # b /\ c \in P[i])
  <2> SUFFICES ASSUME NEW i \in 1 .. 5, NEW c \in R[i]
               PROVE  (c = b /\ i = k - 1) \/ (c # b /\ c \in P[i])
    OBVIOUS
  <2>1. CASE i = k
    BY <1>1, <2>1
  <2>2. CASE i = k - 1
    <3>1. R[i] = P[i] \cup {b}
      BY <1>1, <2>2
    <3> QED BY <2>2, <3>1
  <2>3. CASE i # k /\ i # k - 1
    BY <1>1, <2>3 DEF Apart
  <2> QED BY <2>1, <2>2, <2>3
<1>4. Apart(R)
  BY <1>3 DEF Apart
<1>5. All(R) = All(P)
  <2>1. All(R) \subseteq All(P)
    BY <1>2, <1>3 DEF All
  <2>2. ASSUME NEW i \in 1 .. 5, NEW c \in P[i] PROVE c \in All(R)
    <3>1. CASE c = b
      BY <1>1, <1>2, <3>1 DEF All
    <3>2. CASE c # b
      <4>1. c \in R[i]
        BY <1>1, <3>2
      <4> QED BY <4>1 DEF All
    <3> QED BY <3>1, <3>2
  <2> QED BY <2>1, <2>2 DEF All
<1>6. ASSUME Ahead(P), \A c \in P[k] : c = b \/ b < c
      PROVE  Ahead(R)
  <2> SUFFICES ASSUME NEW i \in 1 .. 5, NEW j \in 1 .. 5, i < j,
                      NEW c \in R[i], NEW d \in R[j]
               PROVE  c < d
    BY DEF Ahead
  <2>1. CASE c # b /\ d # b
    BY <1>3, <1>6, <2>1 DEF Ahead
  <2>2. CASE c = b
    <3>1. i = k - 1 /\ d \in P[j] /\ d # b
      BY <1>3, <2>2
    <3>2. CASE j = k
      BY <1>6, <2>2, <3>1, <3>2
    <3>3. CASE j # k
      BY <1>6, <2>2, <3>1, <3>3 DEF Ahead
    <3> QED BY <3>2, <3>3
  <2>3. CASE d = b
    <3>1. j = k - 1 /\ c \in P[i]
      BY <1>3, <2>3
    <3> QED BY <1>6, <2>3, <3>1 DEF Ahead
  <2> QED BY <2>1, <2>2, <2>3
<1> QED BY <1>4, <1>5, <1>6

-----------------------------------------------------------------------------
(***************************************************************************)
(* The parts of the state.                                                 *)
(***************************************************************************)
LEMMA PartIs ==
  /\ Part[1] = Elems(q["write"]) /\ Part[2] = Between("encode")
  /\ Part[3] = Elems(q["encode"]) /\ Part[4] = Between("intval")
  /\ Part[5] = Elems(q["intval"])
  /\ Part'[1] = Elems(q'["write"]) /\ Part'[2] = Between("encode")'
  /\ Part'[3] = Elems(q'["encode"]) /\ Part'[4] = Between("intval")'
  /\ Part'[5] = Elems(q'["intval"])
BY DEF Part

LEMMA PartTypes ==
  ASSUME TypeOK
  PROVE  /\ Part \in [1 .. 5 -> SUBSET Nat]
         /\ \A s \in Stages : q[s] \in Seq(Nat) /\ q[s] \in Seq(1 .. Last)
         /\ \A s \in Passing : out[s] \subseteq Nat /\ hold[s] \in Nat /\ 0 \notin out[s]
         /\ scanned \in Nat /\ Last \in Nat /\ N < Last /\ N \in Nat /\ scanned <= N
         /\ Pipe \subseteq 1 .. Last
<1>1. N \in Nat /\ Last \in Nat /\ N < Last /\ scanned \in Nat /\ scanned <= N
  BY CompactAssumption DEF TypeOK, Last
<1>2. \A s \in Stages : q[s] \in Seq(1 .. Last)
  BY DEF TypeOK
<1>3. \A s \in Stages : q[s] \in Seq(Nat)
  <2>1. 1 .. Last \subseteq Nat
    BY <1>1
  <2> QED BY <1>2, <2>1, SeqMonotonic
<1>4. \A s \in Passing : out[s] \subseteq 1 .. Last /\ hold[s] \in 0 .. Last
  BY DEF TypeOK
<1>5. \A s \in Stages : Elems(q[s]) \subseteq 1 .. Last
  BY <1>2, ElementOfSeq DEF Elems
<1>6. \A s \in Passing : Between(s) \subseteq 1 .. Last
  BY <1>1, <1>4 DEF Between
<1>7. \A i \in 1 .. 5 : Part[i] \subseteq 1 .. Last
  BY <1>5, <1>6, PartIs DEF Stages, Passing
<1>8. Part \in [1 .. 5 -> SUBSET Nat]
  <2>1. Part = [i \in 1 .. 5 |-> Part[i]]
    BY DEF Part
  <2> QED BY <1>1, <1>7, <2>1
<1>9. Pipe \subseteq 1 .. Last
  BY <1>7 DEF Pipe, All
<1> QED BY <1>1, <1>2, <1>3, <1>4, <1>8, <1>9

\* The places of a stage and of the way to the next one.
At(s) == IF s = "intval" THEN 5 ELSE 3

LEMMA AtIs ==
  ASSUME NEW s \in Passing
  PROVE  /\ At(s) \in 3 .. 5 /\ At(s) - 1 \in 2 .. 5 /\ At(s) - 2 \in 1 .. 5
         /\ s \in Stages /\ After(s) \in Stages /\ s # After(s)
         /\ Part[At(s)] = Elems(q[s]) /\ Part'[At(s)] = Elems(q'[s])
         /\ Part[At(s) - 1] = Between(s) /\ Part'[At(s) - 1] = Between(s)'
         /\ Part[At(s) - 2] = Elems(q[After(s)]) /\ Part'[At(s) - 2] = Elems(q'[After(s)])
         /\ (\A t \in Stages \ {s, After(s)} : q'[t] = q[t])
              /\ (\A t \in Passing \ {s} : Between(t)' = Between(t))
              => \A i \in 1 .. 5 : i \notin {At(s), At(s) - 1, At(s) - 2} => Part'[i] = Part[i]
<1> USE DEF Stages, Passing, After, At
<1>0. \A i \in 1 .. 5 : i = 1 \/ i = 2 \/ i = 3 \/ i = 4 \/ i = 5
  OBVIOUS
<1>1. CASE s = "intval"
  BY <1>0, <1>1, PartIs
<1>2. CASE s = "encode"
  BY <1>0, <1>2, PartIs
<1> QED BY <1>1, <1>2

\* What leaves the queues alone leaves the parts alone.
LEMMA PipeStays ==
  ASSUME UNCHANGED <<q, hold, out>>
  PROVE  Part' = Part /\ Pipe' = Pipe
BY DEF Part, Pipe, All, Between

\* Blocks on their way are at most as many as were scanned.
LEMMA PipeCount ==
  ASSUME TypeOK, CountInv
  PROVE  /\ IsFiniteSet(Pipe \ {Last}) /\ Cardinality(Pipe \ {Last}) \in 0 .. scanned
         /\ processing \in 0 .. N
<1>1. scanned \in Nat /\ N \in Nat /\ scanned <= N
  BY PartTypes
<1>2. Pipe \ {Last} \subseteq 1 .. scanned
  BY DEF CountInv
<1>3. IsFiniteSet(1 .. scanned) /\ Cardinality(1 .. scanned) = scanned
  BY <1>1, FS_Interval
<1>4. /\ IsFiniteSet(Pipe \ {Last})
      /\ Cardinality(Pipe \ {Last}) <= Cardinality(1 .. scanned)
      /\ Cardinality(Pipe \ {Last}) \in Nat
  BY <1>2, <1>3, FS_Subset, FS_CardinalityType
<1> QED BY <1>1, <1>3, <1>4 DEF CountInv

\* A block leaves a queue and is between this one and the next.
LEMMA PopOrders ==
  ASSUME TypeOK, WayInv, RunInv, NEW s \in Passing, Pop(s)
  PROVE  WayInv' /\ Pipe' = Pipe
<1> USE DEF Stages, Passing
<1> DEFINE b == Head(q[s])
           k == At(s)
<1>0. /\ q[s] \in Seq(Nat) /\ q[s] # <<>> /\ Once(q[s]) /\ run[s] = "work"
      /\ hold[s] = 0 /\ 0 \notin out[s]
      /\ q \in [Stages -> Seq(1 .. Last)] /\ hold \in [Passing -> 0 .. Last]
      /\ out \in [Passing -> SUBSET (1 .. Last)]
  BY PartTypes DEF Pop, RunInv, WayInv, DistinctInv, TypeOK
<1>1. /\ b \in Elems(q[s]) /\ Elems(Tail(q[s])) = Elems(q[s]) \ {b}
      /\ Once(Tail(q[s]))
      /\ Rising(q[s]) => Rising(Tail(q[s])) /\ \A c \in Elems(q[s]) : c = b \/ b < c
  BY <1>0, HeadGoes
<1>2. /\ q' = [q EXCEPT ![s] = Tail(q[s])] /\ b \in 1 .. Last
      /\ UNCHANGED <<processing, scanned, passed>>
  BY <1>0, HeadTailProperties DEF Pop
<1>3. Between(s)' = Between(s) \cup {b} /\ \A t \in Passing : t # s => Between(t)' = Between(t)
  <2>1. b # 0
    BY <1>2
  <2>2. CASE hold' = [hold EXCEPT ![s] = b] /\ UNCHANGED out
    BY <1>0, <2>1, <2>2 DEF Between
  <2>3. CASE out' = [out EXCEPT ![s] = @ \cup {b}] /\ UNCHANGED hold
    BY <1>0, <2>3 DEF Between
  <2> QED BY <2>2, <2>3 DEF Pop
<1>4. /\ Elems(q'[s]) = Elems(q[s]) \ {b}
      /\ \A t \in Stages : t # s => q'[t] = q[t]
  BY <1>0, <1>1, <1>2
<1>5. /\ k \in 2 .. 5 /\ b \in Part[k] /\ Part[k] = Elems(q[s])
      /\ Part'[k] = Part[k] \ {b} /\ Part'[k - 1] = Part[k - 1] \cup {b}
  BY <1>1, <1>3, <1>4, AtIs
<1>6. \A i \in 1 .. 5 : i # k /\ i # k - 1 => Part'[i] = Part[i]
  <2>1. q'[After(s)] = q[After(s)]
    BY <1>4, AtIs
  <2> QED BY <1>3, <1>4, <2>1, AtIs
<1>7. /\ Apart(Part') /\ All(Part') = All(Part)
      /\ Ahead(Part) /\ Rising(q[s]) => Ahead(Part')
  <2>1. Part \in [1 .. 5 -> SUBSET Nat]
    BY PartTypes
  <2> HIDE DEF b, k
  <2> QED BY <1>1, <1>5, <1>6, <2>1, BlockMoves DEF WayInv, DistinctInv
<1>8. DistinctInv'
  <2>1. \A t \in Stages : Once(q'[t])
    BY <1>0, <1>1, <1>2 DEF WayInv, DistinctInv
  <2>2. \A t \in Passing : hold'[t] \notin out'[t]
    <3>1. b \notin out[s]
      <4>1. b \notin Part[k - 1]
        BY <1>5 DEF WayInv, DistinctInv, Apart
      <4>2. Part[k - 1] = Between(s)
        BY AtIs
      <4> QED BY <4>1, <4>2 DEF Between
    <3> QED BY <1>0, <1>2, <3>1 DEF Pop, WayInv, DistinctInv
  <2> QED BY <1>7, <2>1, <2>2 DEF DistinctInv
<1>9. OrderInv'
  <2> SUFFICES ASSUME ~passed' PROVE OrderInv'
    BY DEF OrderInv
  <2>1. Ahead(Part) /\ \A t \in Stages : Rising(q[t])
    BY <1>2 DEF WayInv, OrderInv
  <2> QED BY <1>0, <1>1, <1>2, <1>7, <2>1 DEF OrderInv
<1>10. CountInv'
  BY <1>2, <1>7 DEF WayInv, CountInv, Pipe
<1> QED BY <1>8, <1>9, <1>10, <1>7 DEF WayInv, Pipe

\* A block between two queues goes to the end of the next one.
LEMMA PushOrders ==
  ASSUME TypeOK, WayInv, NEW s \in Passing, NEW b \in Between(s),
         q' = [q EXCEPT ![After(s)] = Append(@, b)],
         Between(s)' = Between(s) \ {b},
         \A t \in Passing \ {s} : Between(t)' = Between(t),
         \A t \in Passing : hold'[t] \notin out'[t],
         ~passed' => ~passed /\ \A c \in Between(s) : c = b \/ b < c,
         UNCHANGED <<processing, scanned>>
  PROVE  WayInv' /\ Pipe' = Pipe
<1> DEFINE k == At(s) - 1
           n == After(s)
<1>0. /\ q[n] \in Seq(Nat) /\ Once(q[n]) /\ n \in Stages
      /\ q \in [Stages -> Seq(1 .. Last)] /\ b \in Nat
      /\ k \in 2 .. 5 /\ Part \in [1 .. 5 -> SUBSET Nat]
      /\ Part[k] = Between(s) /\ Part[k - 1] = Elems(q[n])
      /\ k \in 1 .. 5 /\ k - 1 \in 1 .. 5
  <2>1. /\ k \in 2 .. 5 /\ k - 1 = At(s) - 2 /\ n \in Stages
        /\ Part[k] = Between(s) /\ Part[At(s) - 2] = Elems(q[n])
    BY AtIs
  <2>2. Part \in [1 .. 5 -> SUBSET Nat] /\ \A t \in Stages : q[t] \in Seq(Nat)
    BY PartTypes
  <2>3. b \in Nat
    BY <2>1, <2>2
  <2> QED BY <2>1, <2>2, <2>3 DEF WayInv, DistinctInv, TypeOK
<1>1. b \notin Elems(q[n])
  BY <1>0 DEF WayInv, DistinctInv, Apart
<1>2. /\ Elems(q'[n]) = Elems(q[n]) \cup {b} /\ Once(q'[n])
      /\ Rising(q[n]) /\ (\A c \in Elems(q[n]) : c < b) => Rising(q'[n])
      /\ \A t \in Stages \ {n} : q'[t] = q[t]
  <2>1. q'[n] = Append(q[n], b)
    BY <1>0
  <2> HIDE DEF n
  <2> QED BY <1>0, <1>1, <2>1, ItemComes
<1>3. /\ Part'[k] = Part[k] \ {b} /\ Part'[k - 1] = Part[k - 1] \cup {b}
      /\ \A i \in 1 .. 5 : i # k /\ i # k - 1 => Part'[i] = Part[i]
  <2>1. Part'[k] = Between(s)' /\ Part'[k - 1] = Elems(q'[n])
    BY AtIs
  <2>2. q'[s] = q[s] /\ Part'[At(s)] = Part[At(s)]
    BY <1>2, AtIs
  <2>3. \A i \in 1 .. 5 : i \notin {At(s), At(s) - 1, At(s) - 2} => Part'[i] = Part[i]
    BY <1>2, AtIs
  <2> QED BY <1>0, <1>2, <2>1, <2>2, <2>3
<1>4. /\ Apart(Part') /\ All(Part') = All(Part)
      /\ Ahead(Part) /\ (\A c \in Part[k] : c = b \/ b < c) => Ahead(Part')
  <2>1. b \in Part[k]
    BY <1>0
  <2> HIDE DEF k
  <2> QED BY <1>0, <1>3, <2>1, BlockMoves DEF WayInv, DistinctInv
<1>5. DistinctInv'
  BY <1>0, <1>2, <1>4 DEF WayInv, DistinctInv
<1>6. OrderInv'
  <2> SUFFICES ASSUME ~passed' PROVE OrderInv'
    BY DEF OrderInv
  <2>1. Ahead(Part) /\ \A t \in Stages : Rising(q[t])
    BY DEF WayInv, OrderInv
  <2>2. \A c \in Elems(q[n]) : c < b
    BY <1>0, <2>1 DEF Ahead
  <2> QED BY <1>0, <1>2, <1>4, <2>1, <2>2 DEF OrderInv
<1>7. CountInv'
  BY <1>4 DEF WayInv, CountInv, Pipe
<1> QED BY <1>5, <1>6, <1>7, <1>4 DEF WayInv, Pipe

LEMMA PushHandOrders ==
  ASSUME TypeOK, WayInv, RunInv, NEW s \in Passing, PushHand(s)
  PROVE  WayInv' /\ Pipe' = Pipe
<1> DEFINE b == hold[s]
<1>0. /\ b # 0 /\ b \notin out[s] /\ hold \in [Passing -> 0 .. Last]
      /\ \A t \in Passing : 0 \notin out[t]
  BY PartTypes DEF PushHand, RunInv, WayInv, DistinctInv, TypeOK
<1>1. /\ Between(s)' = Between(s) \ {b} /\ b \in Between(s)
      /\ \A t \in Passing \ {s} : Between(t)' = Between(t)
      /\ \A t \in Passing : hold'[t] \notin out'[t]
  BY <1>0 DEF PushHand, Between, WayInv, DistinctInv
<1>2. passed' = (passed \/ \E c \in out[s] : c < b)
  BY DEF PushHand
<1>3. ~passed' => ~passed /\ \A c \in Between(s) : c = b \/ b < c
  <2>1. \A c \in Between(s) : c = b \/ c \in out[s]
    BY DEF Between
  <2>2. b \in Nat /\ \A c \in out[s] : c \in Nat
    BY PartTypes
  <2>3. ASSUME ~passed' PROVE ~passed /\ \A c \in out[s] : ~(c < b)
    BY <1>2, <2>3, Zenon
  <2> HIDE DEF b
  <2> QED BY <1>0, <2>1, <2>2, <2>3
<1>4. q' = [q EXCEPT ![After(s)] = Append(@, b)] /\ UNCHANGED <<processing, scanned>>
  BY DEF PushHand, Push, flow, cells
<1> HIDE DEF b
<1> QED BY <1>1, <1>3, <1>4, PushOrders

LEMMA PushOutOrders ==
  ASSUME TypeOK, WayInv, RunInv, NEW s \in Passing, PushOut(s)
  PROVE  WayInv' /\ Pipe' = Pipe
<1>0. PICK b \in out[s] :
        /\ Push(After(s), b, run) /\ out' = [out EXCEPT ![s] = @ \ {b}]
        /\ passed' = (passed \/ \E c \in out[s] \cup ({hold[s]} \ {0}) : c < b)
        /\ UNCHANGED <<processing, scanned, hold>>
  BY DEF PushOut, cells
<1>1. out \in [Passing -> SUBSET (1 .. Last)] /\ b # hold[s]
  BY DEF TypeOK, WayInv, DistinctInv
<1>2. /\ Between(s)' = Between(s) \ {b} /\ b \in Between(s)
      /\ \A t \in Passing \ {s} : Between(t)' = Between(t)
      /\ \A t \in Passing : hold'[t] \notin out'[t]
  BY <1>0, <1>1 DEF Between, WayInv, DistinctInv
<1>3. ~passed' => ~passed /\ \A c \in Between(s) : c = b \/ b < c
  <2>1. b \in Nat /\ \A c \in Between(s) : c \in Nat
    BY <1>2, PartTypes DEF Between
  <2>2. ASSUME ~passed' PROVE ~passed /\ \A c \in Between(s) : ~(c < b)
    BY <1>0, <2>2, Zenon DEF Between
  <2> QED BY <2>1, <2>2
<1> QED BY <1>0, <1>2, <1>3, PushOrders DEF Push

\* A new item comes to the first queue: it is after all others.
LEMMA ItemOrders ==
  ASSUME TypeOK, WayInv, NEW b \in 1 .. Last, \A c \in Pipe : c < b,
         Push("intval", b, run), UNCHANGED <<hold, out, passed>>
  PROVE  /\ DistinctInv' /\ OrderInv' /\ b \notin Pipe /\ Pipe' = Pipe \cup {b}
<1> USE DEF Stages, Passing
<1>0. /\ q["intval"] \in Seq(Nat) /\ Once(q["intval"]) /\ b \in Nat
      /\ q \in [Stages -> Seq(1 .. Last)] /\ Part \in [1 .. 5 -> SUBSET Nat]
  <2>1. b \in Nat
    BY PartTypes
  <2> QED BY <2>1, PartTypes DEF WayInv, DistinctInv, TypeOK
<1>1. \A i \in 1 .. 5 : \A c \in Part[i] : c \in Nat /\ c < b
  BY <1>0 DEF Pipe, All
<1>2. b \notin Pipe
  BY <1>0, <1>1 DEF Pipe, All
<1>3. q' = [q EXCEPT !["intval"] = Append(@, b)]
  BY DEF Push
<1>4. /\ Elems(q'["intval"]) = Elems(q["intval"]) \cup {b} /\ Once(q'["intval"])
      /\ Rising(q["intval"]) => Rising(q'["intval"])
      /\ q'["encode"] = q["encode"] /\ q'["write"] = q["write"]
  <2>1. Part[5] = Elems(q["intval"])
    BY PartIs
  <2>2. b \notin Elems(q["intval"]) /\ \A c \in Elems(q["intval"]) : c < b
    BY <1>0, <1>1, <2>1
  <2> QED BY <1>0, <1>3, <2>2, ItemComes
<1>5. Part'[5] = Part[5] \cup {b} /\ \A i \in 1 .. 4 : Part'[i] = Part[i]
  <2>1. \A i \in 1 .. 4 : i = 1 \/ i = 2 \/ i = 3 \/ i = 4
    OBVIOUS
  <2>2. Between("intval")' = Between("intval") /\ Between("encode")' = Between("encode")
    BY DEF Between
  <2> QED BY <1>4, <2>1, <2>2, PartIs
<1>6. \A i \in 1 .. 5 : \A c \in Part'[i] : (i = 5 /\ c = b) \/ (c \in Part[i] /\ c # b /\ c < b)
  <2>1. \A i \in 1 .. 5 : i = 5 \/ i \in 1 .. 4
    OBVIOUS
  <2> QED BY <1>0, <1>1, <1>5, <2>1
<1>7. Apart(Part')
  BY <1>6 DEF Apart, WayInv, DistinctInv
<1>8. Ahead(Part) => Ahead(Part')
  BY <1>6 DEF Ahead
<1>9. Pipe' = Pipe \cup {b}
  <2>1. Pipe' \subseteq Pipe \cup {b}
    BY <1>6 DEF Pipe, All
  <2>2. \A i \in 1 .. 5 : Part[i] \subseteq Part'[i]
    <3>1. \A i \in 1 .. 5 : i = 5 \/ i \in 1 .. 4
      OBVIOUS
    <3> QED BY <1>5, <3>1
  <2>3. Pipe \subseteq Pipe'
    BY <2>2 DEF Pipe, All
  <2>4. b \in Pipe'
    BY <1>5 DEF Pipe, All
  <2> QED BY <2>1, <2>3, <2>4
<1>10. DistinctInv'
  BY <1>4, <1>7 DEF WayInv, DistinctInv
<1>11. OrderInv'
  BY <1>4, <1>8 DEF WayInv, OrderInv
<1> QED BY <1>2, <1>9, <1>10, <1>11

\* One block more on its way.
LEMMA BlockOrders ==
  ASSUME TypeOK, WayInv, Last \notin Pipe, Block, UNCHANGED <<hold, out, passed>>
  PROVE  WayInv' /\ Pipe' = Pipe \cup {scanned + 1} /\ scanned' = scanned + 1
<1> DEFINE b == scanned + 1
<1>0. /\ scanned \in Nat /\ N \in Nat /\ Last = N + 1 /\ scanned < N
      /\ scanned' = b /\ processing' = processing + 1 /\ Push("intval", b, run)
  BY PartTypes DEF Block, Last
<1>1. b \in 1 .. Last /\ \A c \in Pipe : c < b
  BY <1>0 DEF WayInv, CountInv
<1>2. DistinctInv' /\ OrderInv' /\ b \notin Pipe /\ Pipe' = Pipe \cup {b}
  BY <1>0, <1>1, ItemOrders
<1>3. CountInv'
  <2>1. IsFiniteSet(Pipe \ {Last}) /\ processing = Cardinality(Pipe \ {Last})
    BY PipeCount DEF WayInv, CountInv
  <2>2. Pipe' \ {Last} = (Pipe \ {Last}) \cup {b} /\ b \notin Pipe \ {Last}
    BY <1>0, <1>2
  <2>3. Cardinality(Pipe' \ {Last}) = Cardinality(Pipe \ {Last}) + 1
    BY <2>1, <2>2, FS_AddElement
  <2>4. Pipe' \subseteq (1 .. scanned') \cup {Last}
    BY <1>0, <1>2 DEF WayInv, CountInv
  <2>5. Last' = Last
    BY DEF Last
  <2> QED BY <1>0, <2>1, <2>3, <2>4, <2>5 DEF CountInv
<1> QED BY <1>0, <1>2, <1>3 DEF WayInv

\* is_last comes after all blocks.
LEMMA LastOrders ==
  ASSUME TypeOK, WayInv, Last \notin Pipe, Push("intval", Last, run),
         UNCHANGED <<hold, out, passed, scanned, processing>>
  PROVE  WayInv' /\ Pipe' = Pipe \cup {Last}
<1>0. scanned \in Nat /\ N \in Nat /\ Last = N + 1 /\ scanned <= N
  BY PartTypes DEF Last
<1>1. Last \in 1 .. Last /\ \A c \in Pipe : c < Last
  BY <1>0 DEF WayInv, CountInv
<1>2. DistinctInv' /\ OrderInv' /\ Pipe' = Pipe \cup {Last}
  BY <1>1, ItemOrders
<1>3. CountInv'
  <2>1. Pipe' \ {Last} = Pipe \ {Last} /\ Last' = Last
    BY <1>2 DEF Last
  <2> QED BY <1>2, <2>1 DEF WayInv, CountInv
<1> QED BY <1>2, <1>3 DEF WayInv

\* A block that is written leaves the last queue.
LEMMA WroteOrders ==
  ASSUME TypeOK, WayInv, q["write"] # <<>>, Head(q["write"]) # Last,
         q' = [q EXCEPT !["write"] = Tail(@)], processing' = processing - 1,
         UNCHANGED <<hold, out, passed, scanned>>
  PROVE  WayInv' /\ Pipe' = Pipe \ {Head(q["write"])} /\ Head(q["write"]) \in Pipe
<1> USE DEF Stages, Passing
<1> DEFINE b == Head(q["write"])
<1>0. /\ q["write"] \in Seq(Nat) /\ Once(q["write"])
      /\ q \in [Stages -> Seq(1 .. Last)] /\ Part \in [1 .. 5 -> SUBSET Nat]
  BY PartTypes DEF WayInv, DistinctInv, TypeOK
<1>1. /\ b \in Elems(q["write"])
      /\ Elems(q'["write"]) = Elems(q["write"]) \ {b} /\ Once(q'["write"])
      /\ Rising(q["write"]) => Rising(q'["write"])
      /\ q'["encode"] = q["encode"] /\ q'["intval"] = q["intval"]
  BY <1>0, HeadGoes
<1>2. Part'[1] = Part[1] \ {b} /\ b \in Part[1] /\ \A i \in 2 .. 5 : Part'[i] = Part[i]
  <2>1. \A i \in 2 .. 5 : i = 2 \/ i = 3 \/ i = 4 \/ i = 5
    OBVIOUS
  <2>2. Between("intval")' = Between("intval") /\ Between("encode")' = Between("encode")
    BY DEF Between
  <2> QED BY <1>1, <2>1, <2>2, PartIs
<1> HIDE DEF b
<1>3. \A i \in 1 .. 5 : Part'[i] = Part[i] \ {b}
  <2>1. \A i \in 1 .. 5 : i = 1 \/ i \in 2 .. 5
    OBVIOUS
  <2>2. \A i \in 2 .. 5 : b \notin Part[i]
    BY <1>2 DEF WayInv, DistinctInv, Apart
  <2> QED BY <1>2, <2>1, <2>2
<1>4. Apart(Part') /\ (Ahead(Part) => Ahead(Part'))
  BY <1>3 DEF Apart, Ahead, WayInv, DistinctInv
<1>5. Pipe' = Pipe \ {b} /\ b \in Pipe
  BY <1>2, <1>3 DEF Pipe, All
<1>6. DistinctInv' /\ OrderInv'
  BY <1>1, <1>4 DEF WayInv, DistinctInv, OrderInv
<1>7. CountInv'
  <2>1. IsFiniteSet(Pipe \ {Last}) /\ processing = Cardinality(Pipe \ {Last})
    BY PipeCount DEF WayInv, CountInv
  <2>2. Pipe' \ {Last} = (Pipe \ {Last}) \ {b} /\ b \in Pipe \ {Last} /\ Last' = Last
    BY <1>5 DEF b, Last
  <2>3. Cardinality(Pipe' \ {Last}) = Cardinality(Pipe \ {Last}) - 1
    BY <2>1, <2>2, FS_RemoveElement
  <2> QED BY <1>5, <2>1, <2>2, <2>3 DEF WayInv, CountInv
<1> QED BY <1>5, <1>6, <1>7 DEF WayInv, b

-----------------------------------------------------------------------------
(***************************************************************************)
(* Types, by the groups of variables.                                      *)
(***************************************************************************)
TypeEnds ==
  /\ stopped \in BOOLEAN /\ chkFinal \in BOOLEAN
  /\ timer \in {"none", "set", "aborted", "check", "rearm"}
  /\ ending \in Enders \cup {"none"}
TypeFlow ==
  /\ get \in BOOLEAN /\ more \in Nat
  /\ scan \in {"none", "posted", "scan", "finish", "log"}
TypePipe ==
  /\ q \in [Stages -> Seq(1 .. Last)]
  /\ run \in [Stages -> {"idle", "posted", "work", "hand", "wrote", "more",
                         "final", "apply", "quit"}]
  /\ hold \in [Passing -> 0 .. Last]
  /\ out \in [Passing -> SUBSET (1 .. Last)]
  /\ tails \in Nat
TypeReqs ==
  /\ init \in {"none", "posted", "wait", "split", "log", "end"}
  /\ quitter \in {"none", "posted", "quit"}
  /\ mng \in {"none", "create", "split", "apply", "meta", "quit"}
  /\ unl \in {"none", "meta"}
  /\ done \in {"none", "posted", "end"}
  /\ stopper \in {"none", "pick", "req", "quit", "tried", "wait", "end"}
TypeRange ==
  dflt \in States /\ gate \in States /\ loaded \in BOOLEAN /\ fin \in BOOLEAN
TypeCells ==
  /\ scanned \in 0 .. N /\ bad \subseteq 1 .. N
  /\ written \in Seq(1 .. N)
  /\ tmp \in BOOLEAN /\ applied \in BOOLEAN
TypeBook ==
  /\ listed \in BOOLEAN /\ ended \in Nat
  /\ passed \in BOOLEAN /\ faults \in 0 .. MaxFaults
Types == TypeEnds /\ TypeFlow /\ TypePipe /\ TypeReqs /\ TypeRange /\ TypeCells
           /\ TypeBook

LEMMA TypesAre == TypeOK <=> Types /\ processing \in 0 .. N
BY DEF TypeOK, Types, TypeEnds, TypeFlow, TypePipe, TypeReqs, TypeRange,
       TypeCells, TypeBook

\* The parts of steps keep the types.
LEMMA EnterTypes ==
  ASSUME Types, NEW w \in Enders, Enter(w)
  PROVE  TypeEnds'
BY DEF Types, TypeEnds, Enter, StopTimer

LEMMA RequestTypes ==
  ASSUME Types, RequestMore, UNCHANGED more
  PROVE  TypeFlow'
BY DEF Types, TypeFlow, RequestMore

LEMMA FaultTypes ==
  ASSUME Types, Fault \/ UNCHANGED faults
  PROVE  faults' \in 0 .. MaxFaults
BY CompactAssumption DEF Types, TypeBook, Fault

LEMMA PushTypes ==
  ASSUME Types, NEW s \in Stages, NEW b \in 1 .. Last, NEW r,
         r \in [Stages -> {"idle", "posted", "work", "hand", "wrote", "more",
                           "final", "apply", "quit"}],
         Push(s, b, r)
  PROVE  /\ q' \in [Stages -> Seq(1 .. Last)]
         /\ run' \in [Stages -> {"idle", "posted", "work", "hand", "wrote",
                                 "more", "final", "apply", "quit"}]
<1>1. q \in [Stages -> Seq(1 .. Last)]
  BY DEF Types, TypePipe
<1>2. Append(q[s], b) \in Seq(1 .. Last)
  BY <1>1, AppendProperties
<1>3. q' \in [Stages -> Seq(1 .. Last)]
  BY <1>1, <1>2 DEF Push
<1>4. run' \in [Stages -> {"idle", "posted", "work", "hand", "wrote", "more",
                           "final", "apply", "quit"}]
  BY DEF Push
<1> QED BY <1>3, <1>4

LEMMA InitTypes ==
  ASSUME Types,
         Initialize \/ InitTimeout \/ InitWaited \/ InitSplit \/ InitLogAgain
           \/ InitDone
  PROVE  Types'
<1> USE DEF Types, TypeEnds, TypeFlow, TypePipe, TypeReqs, TypeRange, TypeCells,
            TypeBook, ends, flow, pipe, reqs, range, cells, book, States
<1>1. CASE Initialize
  BY <1>1 DEF Initialize
<1>2. CASE InitTimeout
  <2>1. ended' \in Nat
    BY <1>2 DEF InitTimeout, Compacted, One
  <2>2. faults' \in 0 .. MaxFaults
    BY <1>2, FaultTypes DEF InitTimeout
  <2>3. TypeRange' /\ TypeReqs'
    BY <1>2 DEF InitTimeout, Compacted
  <2>4. listed' \in BOOLEAN
    BY <1>2 DEF InitTimeout, Compacted
  <2> QED BY <1>2, <2>1, <2>2, <2>3, <2>4 DEF InitTimeout
<1>3. CASE InitWaited
  BY <1>3 DEF InitWaited
<1>4. CASE InitSplit
  <2>1. TypeEnds'
    BY <1>4, EnterTypes DEF InitSplit, Enders
  <2> QED BY <1>4, <2>1 DEF InitSplit, Goes
<1>5. CASE InitLogAgain
  BY <1>5 DEF InitLogAgain
<1>6. CASE InitDone
  BY <1>6 DEF InitDone
<1> QED BY <1>1, <1>2, <1>3, <1>4, <1>5, <1>6

LEMMA ScanTypes ==
  ASSUME Types,
         ScanStart \/ ResponseEnd \/ Response \/ Finishing \/ Finished
           \/ LogCompacted \/ LogDone \/ More
  PROVE  Types'
<1> USE DEF Types, TypeEnds, TypeFlow, TypeReqs, TypeRange, TypeCells,
            TypeBook, ends, flow, pipe, reqs, range, cells, book, States
<1>0. N \in Nat /\ Last = N + 1
  BY CompactAssumption DEF Last
<1>1. CASE ScanStart
  BY <1>1 DEF ScanStart, TypePipe
<1>2. CASE ResponseEnd
  <2>1. faults' \in 0 .. MaxFaults
    BY <1>2, FaultTypes DEF ResponseEnd
  <2> QED BY <1>2, <2>1 DEF ResponseEnd, TypePipe
<1>3. CASE Response
  <2>1. Push("intval", scanned + 1, run) /\ scanned + 1 \in 1 .. Last
    BY <1>0, <1>3 DEF Response, Block
  <2>2. TypePipe'
    BY <1>3, <2>1, PushTypes DEF Response, TypePipe, Stages
  <2> QED BY <1>0, <1>3, <2>2 DEF Response, Block
<1>4. CASE Finishing
  BY <1>4 DEF Finishing, StopTimer, TypePipe
<1>5. CASE Finished
  <2>1. PICK b \in 1 .. Last : Push("intval", b, run)
    BY <1>0, <1>5 DEF Finished, Block
  <2>2. TypePipe'
    BY <1>5, <2>1, PushTypes DEF Finished, TypePipe, Stages
  <2>3. TypeFlow' /\ scanned' \in 0 .. N
    <3>1. more' \in Nat
      BY <1>5 DEF Finished
    <3>2. get' \in BOOLEAN
      BY <1>5 DEF Finished
    <3>3. scanned' \in 0 .. N
      BY <1>0, <1>5 DEF Finished, Block
    <3> QED BY <1>5, <3>1, <3>2, <3>3 DEF Finished
  <2> QED BY <1>5, <2>2, <2>3 DEF Finished
<1>6. CASE LogCompacted
  <2>1. TypeEnds' /\ TypeRange'
    BY <1>6 DEF LogCompacted, StopTimer
  <2> QED BY <1>6, <2>1 DEF LogCompacted, TypePipe
<1>7. CASE LogDone
  <2>1. TypeFlow'
    <3>1. more' \in Nat
      BY <1>7 DEF LogDone
    <3>2. get' \in BOOLEAN
      BY <1>7 DEF LogDone
    <3> QED BY <1>7, <3>1, <3>2 DEF LogDone
  <2> QED BY <1>7, <2>1 DEF LogDone, TypePipe
<1>8. CASE More
  <2>1. TypeFlow'
    <3>1. more' \in Nat
      BY <1>8 DEF More
    <3>2. get' \in BOOLEAN /\ scan' \in {"none", "posted", "scan", "finish", "log"}
      BY <1>8 DEF More, RequestMore
    <3> QED BY <3>1, <3>2
  <2> QED BY <1>8, <2>1 DEF More, TypePipe
<1> QED BY <1>1, <1>2, <1>3, <1>4, <1>5, <1>6, <1>7, <1>8

LEMMA StageTypes ==
  ASSUME Types, RunInv,
         (\E s \in Stages : StageStart(s))
           \/ (\E s \in Passing : Pop(s) \/ PushHand(s) \/ PushOut(s))
  PROVE  Types'
<1> USE DEF Types, TypeEnds, TypeFlow, TypePipe, TypeReqs, TypeRange, TypeCells,
            TypeBook, ends, flow, pipe, reqs, range, cells, book
<1>0. N \in Nat /\ Last = N + 1
  BY CompactAssumption DEF Last
<1>1. ASSUME NEW s \in Stages, StageStart(s) PROVE Types'
  BY <1>1 DEF StageStart
<1>2. ASSUME NEW s \in Passing, Pop(s) PROVE Types'
  <2>1. /\ Head(q[s]) \in 1 .. Last /\ Tail(q[s]) \in Seq(1 .. Last)
        /\ s \in Stages
    <3>1. s \in Stages /\ q[s] # <<>>
      BY <1>2 DEF Pop, RunInv, Stages, Passing
    <3> QED BY <3>1, HeadTailProperties
  <2>2. TypePipe'
    <3>1. q' \in [Stages -> Seq(1 .. Last)] /\ tails' \in Nat
      BY <1>2, <2>1 DEF Pop
    <3>2. CASE /\ run' = [run EXCEPT ![s] = "hand"]
               /\ hold' = [hold EXCEPT ![s] = Head(q[s])] /\ UNCHANGED out
      BY <1>0, <2>1, <3>1, <3>2
    <3>3. CASE /\ run' = [run EXCEPT ![s] = "idle"]
               /\ out' = [out EXCEPT ![s] = @ \cup {Head(q[s])}] /\ UNCHANGED hold
      BY <1>0, <2>1, <3>1, <3>3
    <3> QED BY <1>2, <3>2, <3>3 DEF Pop
  <2>3. TypeFlow'
    BY <1>2, RequestTypes DEF Pop
  <2>4. bad' \subseteq 1 .. N /\ faults' \in 0 .. MaxFaults
    <3>1. faults' \in 0 .. MaxFaults
      BY <1>2, FaultTypes DEF Pop
    <3>2. Head(q[s]) # Last => Head(q[s]) \in 1 .. N
      BY <1>0, <2>1
    <3> QED BY <1>2, <3>1, <3>2 DEF Pop
  <2> QED BY <1>2, <2>2, <2>3, <2>4 DEF Pop
<1>3. ASSUME NEW s \in Passing, PushHand(s) PROVE Types'
  <2>1. hold[s] \in 1 .. Last /\ After(s) \in Stages
    BY <1>0, <1>3 DEF PushHand, RunInv, After, Stages, Passing
  <2>2. [run EXCEPT ![s] = "work"] \in
          [Stages -> {"idle", "posted", "work", "hand", "wrote", "more",
                      "final", "apply", "quit"}]
    OBVIOUS
  <2>3. TypePipe'
    <3>1. /\ q' \in [Stages -> Seq(1 .. Last)]
          /\ run' \in [Stages -> {"idle", "posted", "work", "hand", "wrote",
                                  "more", "final", "apply", "quit"}]
      BY <1>3, <2>1, <2>2, PushTypes DEF PushHand
    <3>2. hold' \in [Passing -> 0 .. Last]
      BY <1>0, <1>3 DEF PushHand
    <3> QED BY <1>3, <3>1, <3>2 DEF PushHand
  <2>4. passed' \in BOOLEAN
    BY <1>3 DEF PushHand
  <2> QED BY <1>3, <2>3, <2>4 DEF PushHand
<1>4. ASSUME NEW s \in Passing, PushOut(s) PROVE Types'
  <2>1. PICK b \in out[s] : Push(After(s), b, run) /\ out' = [out EXCEPT ![s] = @ \ {b}]
    BY <1>4 DEF PushOut
  <2>2. b \in 1 .. Last /\ After(s) \in Stages
    BY DEF After, Stages, Passing
  <2>3. TypePipe'
    BY <1>4, <2>1, <2>2, PushTypes DEF PushOut
  <2>4. passed' \in BOOLEAN
    BY <1>4 DEF PushOut
  <2>5. TypeFlow'
    BY <1>4, RequestTypes DEF PushOut
  <2> QED BY <1>4, <2>3, <2>4, <2>5 DEF PushOut
<1> QED BY <1>1, <1>2, <1>3, <1>4

LEMMA QuitTypes ==
  ASSUME Types, WriteQuits
  PROVE  run' \in [Stages -> {"idle", "posted", "work", "hand", "wrote", "more",
                              "final", "apply", "quit"}]
BY DEF Types, TypePipe, WriteQuits

LEMMA WriteTypes ==
  ASSUME Types, RunInv,
         Write \/ Wrote \/ WriteMore \/ Finalize \/ FinalWait \/ Apply
  PROVE  Types'
<1> DEFINE Runs == {"idle", "posted", "work", "hand", "wrote", "more", "final",
                    "apply", "quit"}
<1>0. /\ N \in Nat /\ Last = N + 1 /\ run \in [Stages -> Runs]
      /\ q \in [Stages -> Seq(1 .. Last)] /\ tails \in Nat /\ "write" \in Stages
  BY CompactAssumption DEF Last, Types, TypePipe, Stages
<1>1. CASE Write
  <2>1. TypeEnds'
    <3>1. CASE Enter("write")
      BY <3>1, EnterTypes DEF Enders
    <3>2. CASE StopTimer /\ UNCHANGED <<stopped, ending>>
      BY <3>2 DEF StopTimer, Types, TypeEnds
    <3>3. CASE UNCHANGED <<stopped, ending, chkFinal, timer>>
      BY <3>3 DEF Types, TypeEnds
    <3> QED BY <1>1, <3>1, <3>2, <3>3 DEF Write
  <2>2. TypePipe'
    <3>1. run' \in [Stages -> Runs]
      BY <1>0, <1>1, QuitTypes DEF Write
    <3> QED BY <1>1, <3>1 DEF Write, Types, TypePipe
  <2>3. TypeRange'
    BY <1>1 DEF Write, Types, TypeRange, States
  <2>4. written' \in Seq(1 .. N)
    <3>1. q["write"] # <<>>
      BY <1>0, <1>1 DEF Write, RunInv
    <3>2. Head(q["write"]) \in 1 .. Last /\ Head(q["write"]) # Last
      BY <1>0, <1>1, <3>1, HeadTailProperties DEF Write
    <3>3. Head(q["write"]) \in 1 .. N
      BY <1>0, <3>2
    <3>4. written \in Seq(1 .. N)
      BY DEF Types, TypeCells
    <3>5. Append(written, Head(q["write"])) \in Seq(1 .. N)
      BY <3>3, <3>4, AppendProperties
    <3> QED BY <1>1, <3>4, <3>5 DEF Write
  <2>5. TypeCells'
    <3>1. tmp' \in BOOLEAN
      BY <1>1 DEF Write, Types, TypeCells
    <3> QED BY <1>1, <2>4, <3>1 DEF Write, Types, TypeCells
  <2>6. TypeBook'
    <3>1. faults' \in 0 .. MaxFaults
      BY <1>1, FaultTypes DEF Write
    <3> QED BY <1>1, <3>1 DEF Write, Types, TypeBook
  <2> QED BY <1>1, <2>1, <2>2, <2>3, <2>5, <2>6 DEF Write, Types, TypeFlow,
             TypeReqs, flow, reqs
<1>2. CASE Wrote
  <2>1. TypeEnds'
    <3>1. CASE Enter("write")
      BY <3>1, EnterTypes DEF Enders
    <3>2. CASE UNCHANGED <<stopped, ending, chkFinal, timer>>
      BY <3>2 DEF Types, TypeEnds
    <3> QED BY <1>2, <3>1, <3>2 DEF Wrote
  <2>2. TypePipe'
    <3>1. run' \in [Stages -> Runs]
      BY <1>0, <1>2, QuitTypes DEF Wrote
    <3>2. tails' \in Nat
      BY <1>0, <1>2 DEF Wrote
    <3>3. q' \in [Stages -> Seq(1 .. Last)]
      <4>1. q["write"] # <<>>
        BY <1>0, <1>2 DEF Wrote, RunInv
      <4>2. Tail(q["write"]) \in Seq(1 .. Last)
        BY <1>0, <4>1, HeadTailProperties
      <4> QED BY <1>0, <1>2, <4>2 DEF Wrote
    <3> QED BY <1>2, <3>1, <3>2, <3>3 DEF Wrote, Types, TypePipe
  <2> QED BY <1>2, <2>1, <2>2 DEF Wrote, Types, TypeFlow, TypeReqs, TypeRange,
             TypeCells, TypeBook, reqs, range, cells, book
<1>3. CASE WriteMore
  <2>1. TypePipe'
    <3>1. run' \in [Stages -> Runs]
      BY <1>0, <1>3 DEF WriteMore
    <3>2. tails' \in Nat
      BY <1>0, <1>3 DEF WriteMore
    <3> QED BY <1>3, <3>1, <3>2 DEF WriteMore, Types, TypePipe
  <2>2. TypeFlow'
    BY <1>3, RequestTypes DEF WriteMore
  <2> QED BY <1>3, <2>1, <2>2 DEF WriteMore, Types, TypeEnds, TypeReqs,
             TypeRange, TypeCells, TypeBook, ends, reqs, range, cells, book
<1>4. CASE Finalize
  <2>1. TypeEnds'
    <3>1. CASE Enter("write")
      BY <3>1, EnterTypes DEF Enders
    <3>2. CASE StopTimer /\ UNCHANGED <<stopped, ending>>
      BY <3>2 DEF StopTimer, Types, TypeEnds
    <3> QED BY <1>4, <3>1, <3>2 DEF Finalize
  <2>2. TypePipe'
    <3>1. run' \in [Stages -> Runs]
      BY <1>0, <1>4, QuitTypes DEF Finalize
    <3> QED BY <1>4, <3>1 DEF Finalize, Types, TypePipe
  <2> QED BY <1>4, <2>1, <2>2 DEF Finalize, Types, TypeFlow, TypeReqs,
             TypeRange, TypeCells, TypeBook, flow, reqs, range, cells, book
<1>5. CASE FinalWait
  <2>1. TypeEnds'
    <3>1. CASE Enter("write")
      BY <3>1, EnterTypes DEF Enders
    <3>2. CASE UNCHANGED <<stopped, ending, chkFinal, timer>>
      BY <3>2 DEF Types, TypeEnds
    <3> QED BY <1>5, <3>1, <3>2 DEF FinalWait
  <2>2. TypePipe'
    <3>1. run' \in [Stages -> Runs]
      BY <1>0, <1>5, QuitTypes DEF FinalWait
    <3> QED BY <1>5, <3>1 DEF FinalWait, Types, TypePipe
  <2>3. TypeCells'
    BY <1>5 DEF FinalWait, Types, TypeCells
  <2>4. TypeBook'
    <3>1. faults' \in 0 .. MaxFaults
      BY <1>5, FaultTypes DEF FinalWait
    <3> QED BY <1>5, <3>1 DEF FinalWait, Types, TypeBook
  <2>5. TypeRange'
    BY <1>5 DEF FinalWait, Types, TypeRange, States
  <2> QED BY <1>5, <2>1, <2>2, <2>3, <2>4, <2>5 DEF FinalWait, Types, TypeFlow,
             TypeReqs, flow, reqs
<1>6. CASE Apply
  <2>1. TypeEnds'
    <3>1. CASE Enter("write")
      BY <3>1, EnterTypes DEF Enders
    <3>2. CASE UNCHANGED <<stopped, ending, chkFinal, timer>>
      BY <3>2 DEF Types, TypeEnds
    <3> QED BY <1>6, <3>1, <3>2 DEF Apply
  <2>2. TypePipe'
    <3>1. run' \in [Stages -> Runs]
      BY <1>0, <1>6, QuitTypes DEF Apply
    <3> QED BY <1>6, <3>1 DEF Apply, Types, TypePipe
  <2>3. TypeCells' /\ TypeReqs'
    <3>1. TypeReqs'
      BY <1>6 DEF Apply, Types, TypeReqs
    <3>2. TypeCells'
      BY <1>6 DEF Apply, Types, TypeCells
    <3> QED BY <3>1, <3>2
  <2>4. TypeBook'
    <3>1. faults' \in 0 .. MaxFaults
      BY <1>6, FaultTypes DEF Apply
    <3> QED BY <1>6, <3>1 DEF Apply, Types, TypeBook
  <2> QED BY <1>6, <2>1, <2>2, <2>3, <2>4 DEF Apply, Types, TypeFlow, TypeRange,
             flow, range
<1> QED BY <1>1, <1>2, <1>3, <1>4, <1>5, <1>6

LEMMA EndTypes ==
  ASSUME Types,
         Created \/ Split \/ Registered \/ Unloaded \/ EndTask
           \/ (\E w \in Enders : Leave(w)) \/ StopBegin \/ Stop \/ Unload \/ Timer
  PROVE  Types'
<1> USE DEF ends, flow, pipe, reqs, range, cells, book
<1>1. CASE Created \/ Registered \/ Unloaded \/ StopBegin
  <2>1. TypeReqs'
    BY <1>1 DEF Created, Registered, Unloaded, StopBegin, Types, TypeReqs
  <2>2. UNCHANGED <<ends, flow, pipe, range, cells, book>>
    BY <1>1 DEF Created, Registered, Unloaded, StopBegin
  <2> QED BY <2>1, <2>2 DEF Types, TypeEnds, TypeFlow, TypePipe, TypeRange,
             TypeCells, TypeBook
<1>2. CASE Split
  <2>1. TypeEnds'
    <3>1. CASE Enter("mng")
      BY <3>1, EnterTypes DEF Enders
    <3>2. CASE UNCHANGED <<stopped, ending, chkFinal, timer>>
      BY <3>2 DEF Types, TypeEnds
    <3> QED BY <1>2, <3>1, <3>2 DEF Split
  <2>2. TypeReqs'
    BY <1>2 DEF Split, Goes, Types, TypeReqs
  <2>3. TypeCells'
    BY <1>2 DEF Split, Types, TypeCells
  <2>4. TypeBook'
    <3>1. faults' \in 0 .. MaxFaults
      BY <1>2, FaultTypes DEF Split
    <3> QED BY <1>2, <3>1 DEF Split, Types, TypeBook
  <2> QED BY <1>2, <2>1, <2>2, <2>3, <2>4 DEF Split, Types, TypeFlow, TypePipe,
             TypeRange
<1>3. CASE EndTask
  <2>1. TypeEnds'
    BY <1>3, EnterTypes DEF EndTask, Enders
  <2>2. TypeReqs'
    BY <1>3 DEF EndTask, Goes, Types, TypeReqs
  <2> QED BY <1>3, <2>1, <2>2 DEF EndTask, Types, TypeFlow, TypePipe, TypeRange,
             TypeCells, TypeBook
<1>4. ASSUME NEW w \in Enders, Leave(w) PROVE Types'
  <2>1. TypeEnds'
    BY <1>4 DEF Leave, Types, TypeEnds
  <2>2. TypeReqs'
    BY <1>4 DEF Leave, Types, TypeReqs
  <2>3. TypePipe'
    BY <1>4 DEF Leave, Types, TypePipe, Stages
  <2>4. TypeCells'
    <3>1. tmp' \in BOOLEAN
      BY <1>4 DEF Leave
    <3> QED BY <1>4, <3>1 DEF Leave, Types, TypeCells
  <2>5. TypeBook'
    <3>1. ended' \in Nat
      BY <1>4 DEF Leave, Compacted, One, Types, TypeBook
    <3>2. listed' \in BOOLEAN
      BY <1>4 DEF Leave, Compacted
    <3> QED BY <1>4, <3>1, <3>2 DEF Leave, Types, TypeBook
  <2>6. TypeRange'
    BY <1>4 DEF Leave, Compacted, Types, TypeRange, States
  <2> QED BY <1>4, <2>1, <2>2, <2>3, <2>4, <2>5, <2>6 DEF Leave, Types, TypeFlow
<1>5. CASE Stop
  <2>1. TypeEnds'
    <3>1. CASE Enter("stopper")
      BY <3>1, EnterTypes DEF Enders
    <3>2. CASE UNCHANGED <<stopped, ending, chkFinal, timer>>
      BY <3>2 DEF Types, TypeEnds
    <3> QED BY <1>5, <3>1, <3>2 DEF Stop
  <2>2. TypeReqs'
    BY <1>5 DEF Stop, Types, TypeReqs
  <2> QED BY <1>5, <2>1, <2>2 DEF Stop, Types, TypeFlow, TypePipe, TypeRange,
             TypeCells, TypeBook
<1>6. CASE Unload
  <2>1. TypeRange'
    BY <1>6 DEF Unload, Types, TypeRange
  <2> QED BY <1>6, <2>1 DEF Unload, Types, TypeEnds, TypeFlow, TypePipe, TypeReqs,
             TypeCells, TypeBook
<1>7. CASE TimerFires \/ TimerRearms
  <2>1. TypeEnds'
    BY <1>7 DEF TimerFires, TimerRearms, Types, TypeEnds
  <2>2. UNCHANGED <<flow, pipe, reqs, range, cells, book>>
    BY <1>7 DEF TimerFires, TimerRearms
  <2> QED BY <2>1, <2>2 DEF Types, TypeFlow, TypePipe, TypeReqs, TypeRange,
             TypeCells, TypeBook
<1>8. CASE TimerChecks
  <2>1. TypeEnds' /\ TypeRange'
    BY <1>8 DEF TimerChecks, Types, TypeEnds, TypeRange, States
  <2>2. TypeFlow'
    <3>1. CASE RequestMore
      BY <1>8, <3>1, RequestTypes DEF TimerChecks
    <3>2. CASE UNCHANGED <<get, scan>>
      BY <1>8, <3>2 DEF TimerChecks, Types, TypeFlow
    <3> QED BY <1>8, <3>1, <3>2 DEF TimerChecks
  <2> QED BY <1>8, <2>1, <2>2 DEF TimerChecks, Types, TypePipe, TypeReqs,
             TypeCells, TypeBook
<1> QED BY <1>1, <1>2, <1>3, <1>4, <1>5, <1>6, <1>7, <1>8 DEF Timer

-----------------------------------------------------------------------------
(***************************************************************************)
(* The queues and their tasks.                                             *)
(***************************************************************************)

\* Every step that moves no block.
Keeps ==
  \/ Initialize \/ InitTimeout \/ InitWaited \/ InitSplit \/ InitLogAgain
  \/ InitDone \/ ScanStart \/ ResponseEnd \/ Finishing \/ LogCompacted
  \/ LogDone \/ More \/ (\E s \in Stages : StageStart(s))
  \/ Write \/ WriteMore \/ Finalize \/ FinalWait \/ Apply
  \/ Created \/ Split \/ Registered \/ Unloaded \/ EndTask
  \/ (\E w \in Enders : Completion(w)) \/ StopBegin \/ Stop \/ Unload \/ Timer

LEMMA KeepsWay ==
  ASSUME Keeps
  PROVE  UNCHANGED <<q, hold, out, processing, scanned, passed>>
<1> USE DEF ends, flow, pipe, reqs, range, cells, book
<1>1. CASE Initialize \/ InitTimeout \/ InitWaited \/ InitSplit \/ InitLogAgain
             \/ InitDone
  BY <1>1 DEF Initialize, InitTimeout, InitWaited, InitSplit, InitLogAgain, InitDone
<1>2. CASE ScanStart \/ ResponseEnd \/ Finishing \/ LogCompacted \/ LogDone \/ More
             \/ (\E s \in Stages : StageStart(s))
  BY <1>2 DEF ScanStart, ResponseEnd, Finishing, LogCompacted, LogDone, More,
              StageStart
<1>3. CASE Write \/ WriteMore \/ Finalize \/ FinalWait \/ Apply
  BY <1>3 DEF Write, WriteMore, Finalize, FinalWait, Apply
<1>4. CASE Created \/ Split \/ Registered \/ Unloaded \/ EndTask
  BY <1>4 DEF Created, Split, Registered, Unloaded, EndTask
<1>5. CASE (\E w \in Enders : Completion(w)) \/ StopBegin \/ Stop \/ Unload
  BY <1>5 DEF Completion, Leave, StopBegin, Stop, Unload
<1>6. CASE Timer
  BY <1>6 DEF Timer, TimerFires, TimerChecks, TimerRearms
<1> QED BY <1>1, <1>2, <1>3, <1>4, <1>5, <1>6 DEF Keeps

LEMMA NextIs ==
  ASSUME Next
  PROVE  \/ Keeps \/ Response \/ Finished \/ Wrote
         \/ \E s \in Passing : Pop(s) \/ PushHand(s) \/ PushOut(s)
BY DEF Next, Work, Keeps

\* Blocks stay distinct, in order and counted.
LEMMA WayStep ==
  ASSUME TypeOK, WayInv, RunInv, ScanInv, ApplyInv, Next
  PROVE  WayInv'
<1>1. CASE Keeps
  <2>1. UNCHANGED <<q, hold, out, processing, scanned, passed>>
    BY <1>1, KeepsWay
  <2>2. Part' = Part /\ Pipe' = Pipe /\ Last' = Last
    BY <2>1, PipeStays DEF Last
  <2>3. DistinctInv'
    BY <2>1, <2>2 DEF WayInv, DistinctInv
  <2>4. OrderInv'
    BY <2>1, <2>2 DEF WayInv, OrderInv
  <2>5. CountInv'
    BY <2>1, <2>2 DEF WayInv, CountInv
  <2> QED BY <2>3, <2>4, <2>5 DEF WayInv
<1>2. CASE Response
  <2>1. Last \notin Pipe
    BY <1>2 DEF ScanInv, Response
  <2> QED BY <1>2, <2>1, BlockOrders DEF Response, book
<1>3. CASE Finished
  <2>1. Last \notin Pipe
    BY <1>3 DEF ScanInv, Finished
  <2>2. CASE Block
    BY <1>3, <2>1, <2>2, BlockOrders DEF Finished, book
  <2>3. CASE Push("intval", Last, run) /\ UNCHANGED <<scanned, processing, get, more>>
    BY <1>3, <2>1, <2>3, LastOrders DEF Finished, book
  <2> QED BY <1>3, <2>2, <2>3 DEF Finished
<1>4. CASE Wrote
  <2>1. CASE UNCHANGED <<q, processing, tails>>
    <3>1. UNCHANGED <<q, hold, out, processing, scanned, passed>>
      BY <1>4, <2>1 DEF Wrote, cells, book
    <3>2. Part' = Part /\ Pipe' = Pipe /\ Last' = Last
      BY <3>1, PipeStays DEF Last
    <3>3. DistinctInv'
      BY <3>1, <3>2 DEF WayInv, DistinctInv
    <3>4. OrderInv'
      BY <3>1, <3>2 DEF WayInv, OrderInv
    <3>5. CountInv'
      BY <3>1, <3>2 DEF WayInv, CountInv
    <3> QED BY <3>3, <3>4, <3>5 DEF WayInv
  <2>2. CASE q' = [q EXCEPT !["write"] = Tail(@)] /\ processing' = processing - 1
    <3>1. q["write"] # <<>> /\ Head(q["write"]) # Last
      BY <1>4 DEF Wrote, RunInv, ApplyInv, Stages
    <3> QED BY <1>4, <2>2, <3>1, WroteOrders DEF Wrote, cells, book
  <2> QED BY <1>4, <2>1, <2>2 DEF Wrote
<1>5. ASSUME NEW s \in Passing, Pop(s) \/ PushHand(s) \/ PushOut(s)
      PROVE  WayInv'
  BY <1>5, PopOrders, PushHandOrders, PushOutOrders
<1> QED BY <1>1, <1>2, <1>3, <1>4, <1>5, NextIs

\* The types, m_processing included.
LEMMA TypeStep ==
  ASSUME TypeOK, WayInv, RunInv, ScanInv, ApplyInv, Next
  PROVE  TypeOK'
<1>1. Types
  BY TypesAre
<1>2. Types'
  BY <1>1, InitTypes, ScanTypes, StageTypes, WriteTypes, EndTypes
     DEF Next, Work, Completion
<1>3. processing' \in 0 .. N
  <2>1. scanned' \in 0 .. N /\ N \in Nat
    BY <1>2, CompactAssumption DEF Types, TypeCells
  <2>2. Pipe' \ {Last} \subseteq 1 .. scanned' /\ processing' = Cardinality(Pipe' \ {Last})
    BY WayStep DEF WayInv, CountInv, Last
  <2>3. IsFiniteSet(1 .. scanned') /\ Cardinality(1 .. scanned') = scanned'
    BY <2>1, FS_Interval
  <2>4. /\ Cardinality(Pipe' \ {Last}) <= Cardinality(1 .. scanned')
        /\ Cardinality(Pipe' \ {Last}) \in Nat
    BY <2>2, <2>3, FS_Subset, FS_CardinalityType
  <2> QED BY <2>1, <2>2, <2>3, <2>4
<1>4. Types' /\ processing' \in 0 .. N => TypeOK'
  BY DEF TypeOK, Types, TypeEnds, TypeFlow, TypePipe, TypeReqs, TypeRange,
         TypeCells, TypeBook
<1> QED BY <1>2, <1>3, <1>4

\* A queue has a task only for its items.
LEMMA RunStep ==
  ASSUME TypeOK, RunInv, Next
  PROVE  RunInv'
<1> USE DEF Stages, Passing
<1>0. /\ q \in [Stages -> Seq(1 .. Last)] /\ hold \in [Passing -> 0 .. Last]
      /\ run \in [Stages -> {"idle", "posted", "work", "hand", "wrote", "more",
                             "final", "apply", "quit"}]
      /\ "write" \in Stages /\ "write" \notin Passing /\ Passing \subseteq Stages
  BY DEF TypeOK
<1>1. CASE UNCHANGED <<q, run, hold>>
  BY <1>1 DEF RunInv
<1>2. ASSUME UNCHANGED <<q, hold>>, run["write"] # "idle", NEW to,
             run' = [run EXCEPT !["write"] = to]
      PROVE  RunInv'
  BY <1>0, <1>2 DEF RunInv
<1>3. ASSUME NEW b, Push("intval", b, run), UNCHANGED hold, b \in 1 .. Last
      PROVE  RunInv'
  <2>1. q'["intval"] # <<>> /\ \A s \in Stages : s # "intval" => q'[s] = q[s]
    <3>1. Append(q["intval"], b) # <<>>
      BY <1>0, <1>3, AppendProperties
    <3> QED BY <1>0, <1>3, <3>1 DEF Push
  <2>2. run' = run \/ (q["intval"] = <<>> /\ run' = [run EXCEPT !["intval"] = "posted"])
    BY <1>3 DEF Push
  <2> QED BY <1>0, <1>3, <2>1, <2>2 DEF RunInv
<1>4. CASE Response
  <2>1. scanned + 1 \in 1 .. Last
    BY <1>4, CompactAssumption DEF Response, Block, Last, TypeOK
  <2> QED BY <1>3, <1>4, <2>1 DEF Response, Block
<1>5. CASE Finished
  <2>1. scanned < N => scanned + 1 \in 1 .. Last
    BY CompactAssumption DEF Last, TypeOK
  <2>2. Last \in 1 .. Last
    BY CompactAssumption DEF Last
  <2> QED BY <1>3, <1>5, <2>1, <2>2 DEF Finished, Block
<1>6. ASSUME NEW s \in Stages, StageStart(s) PROVE RunInv'
  BY <1>0, <1>6 DEF StageStart, RunInv
<1>7. ASSUME NEW s \in Passing, Pop(s) PROVE RunInv'
  <2>1. /\ q[s] # <<>> /\ Len(Tail(q[s])) = Len(q[s]) - 1 /\ Tail(q[s]) \in Seq(1 .. Last)
        /\ Head(q[s]) \in 1 .. Last /\ Len(q[s]) \in Nat
    BY <1>0, <1>7, HeadTailProperties, LenProperties DEF Pop, RunInv
  <2>2. Len(q[s]) > 1 => Tail(q[s]) # <<>>
    BY <1>0, SomeLeft
  <2>3. Head(q[s]) # 0
    BY <2>1
  <2>4. q' = [q EXCEPT ![s] = Tail(@)] /\ run[s] = "work"
    BY <1>7 DEF Pop
  <2>5. CASE /\ Len(q[s]) > 1 /\ run' = [run EXCEPT ![s] = "hand"]
             /\ hold' = [hold EXCEPT ![s] = Head(q[s])]
    BY <1>0, <2>2, <2>3, <2>4, <2>5 DEF RunInv
  <2>6. CASE run' = [run EXCEPT ![s] = "idle"] /\ UNCHANGED hold
    BY <1>0, <2>4, <2>6 DEF RunInv
  <2> QED BY <1>7, <2>5, <2>6 DEF Pop
<1>8. ASSUME NEW s \in Passing, NEW b \in 1 .. Last, NEW r, Push(After(s), b, r),
             r \in [Stages -> {"idle", "posted", "work", "hand", "wrote",
                               "more", "final", "apply", "quit"}],
             \A t \in Stages : r[t] # "idle" => q[t] # <<>>,
             \A t \in Passing : /\ r[t] \in {"idle", "posted", "work", "hand"}
                                /\ r[t] = "hand" <=> hold'[t] # 0
      PROVE  RunInv'
  <2>0. After(s) \in Stages
    BY DEF After
  <2>1. q'[After(s)] # <<>> /\ \A t \in Stages : t # After(s) => q'[t] = q[t]
    <3>0. q[After(s)] \in Seq(1 .. Last)
      BY <1>0, <2>0
    <3>1. Append(q[After(s)], b) # <<>>
      BY <1>8, <3>0, AppendProperties
    <3> QED BY <1>0, <1>8, <2>0, <3>1 DEF Push
  <2>2. run' = r \/ (q[After(s)] = <<>> /\ run' = [r EXCEPT ![After(s)] = "posted"])
    BY <1>8 DEF Push
  <2> QED BY <1>0, <1>8, <2>0, <2>1, <2>2 DEF RunInv
<1>9. ASSUME NEW s \in Passing, PushHand(s) PROVE RunInv'
  <2>1. hold[s] \in 1 .. Last
    BY <1>0, <1>9, CompactAssumption DEF PushHand, RunInv, Last
  <2>2. hold' = [hold EXCEPT ![s] = 0] /\ Push(After(s), hold[s], [run EXCEPT ![s] = "work"])
    BY <1>9 DEF PushHand
  <2>3. run[s] = "hand"
    BY <1>9 DEF PushHand
  <2> DEFINE r == [run EXCEPT ![s] = "work"]
  <2>4. /\ r \in [Stages -> {"idle", "posted", "work", "hand", "wrote",
                             "more", "final", "apply", "quit"}]
        /\ \A t \in Stages : r[t] # "idle" => q[t] # <<>>
        /\ \A t \in Passing : /\ r[t] \in {"idle", "posted", "work", "hand"}
                              /\ r[t] = "hand" <=> hold'[t] # 0
    BY <1>0, <2>2, <2>3 DEF RunInv
  <2> HIDE DEF r
  <2> QED BY <1>8, <2>1, <2>2, <2>4 DEF r
<1>10. ASSUME NEW s \in Passing, PushOut(s) PROVE RunInv'
  <2>1. PICK b \in out[s] : Push(After(s), b, run) /\ UNCHANGED hold
    BY <1>10 DEF PushOut
  <2>2. b \in 1 .. Last
    BY DEF TypeOK
  <2> QED BY <1>0, <1>8, <2>1, <2>2 DEF RunInv
<1>11. CASE Write \/ Finalize \/ FinalWait \/ Apply
  BY <1>2, <1>11 DEF Write, Finalize, FinalWait, Apply, WriteQuits
<1>12. CASE Wrote
  <2>1. CASE UNCHANGED q
    BY <1>2, <1>12, <2>1 DEF Wrote, WriteQuits
  <2>2. CASE q' = [q EXCEPT !["write"] = Tail(@)]
    <3>1. /\ q["write"] # <<>> /\ Len(Tail(q["write"])) = Len(q["write"]) - 1
          /\ Tail(q["write"]) \in Seq(1 .. Last) /\ Len(q["write"]) \in Nat
      BY <1>0, <1>12, HeadTailProperties, LenProperties DEF Wrote, RunInv
    <3>2. Len(q["write"]) > 1 => Tail(q["write"]) # <<>>
      BY <1>0, SomeLeft
    <3>3. \/ Len(q["write"]) > 1 /\ run' = [run EXCEPT !["write"] = "more"]
          \/ run' = [run EXCEPT !["write"] = "idle"]
          \/ UNCHANGED q
      BY <1>12, <2>2 DEF Wrote
    <3> QED BY <1>0, <1>12, <2>1, <2>2, <3>2, <3>3 DEF Wrote, RunInv
  <2> QED BY <1>12, <2>1, <2>2 DEF Wrote
<1>13. CASE WriteMore
  BY <1>1, <1>2, <1>13 DEF WriteMore
<1>14. ASSUME NEW w \in Enders, Leave(w) PROVE RunInv'
  BY <1>0, <1>14 DEF Leave, RunInv
<1>15. CASE \/ Initialize \/ InitTimeout \/ InitWaited \/ InitSplit \/ InitLogAgain
            \/ InitDone \/ ScanStart \/ ResponseEnd \/ Finishing \/ LogCompacted
            \/ LogDone \/ More
  BY <1>1, <1>15 DEF Initialize, InitTimeout, InitWaited, InitSplit, InitLogAgain,
     InitDone, ScanStart, ResponseEnd, Finishing, LogCompacted, LogDone, More, pipe
<1>16. CASE \/ Created \/ Split \/ Registered \/ Unloaded \/ EndTask \/ StopBegin
            \/ Stop \/ Unload \/ Timer
  BY <1>1, <1>16 DEF Created, Split, Registered, Unloaded, EndTask, StopBegin, Stop,
     Unload, Timer, TimerFires, TimerChecks, TimerRearms, pipe
<1> QED BY <1>4, <1>5, <1>6, <1>7, <1>9, <1>10, <1>11, <1>12, <1>13, <1>14, <1>15,
           <1>16 DEF Next, Work, Completion

-----------------------------------------------------------------------------
(***************************************************************************)
(* The end of the compaction.                                              *)
(***************************************************************************)

\* What is possible when nothing is under way.
LEMMA StillSteps ==
  ASSUME TypeOK, Still, Next
  PROVE  \/ Initialize \/ InitTimeout \/ InitWaited \/ InitSplit \/ InitLogAgain
         \/ InitDone \/ (\E w \in Enders : Completion(w)) \/ StopBegin \/ Stop
         \/ Unload
<1> USE DEF Still
<1>1. ~(ScanStart \/ ResponseEnd \/ Response \/ Finishing \/ Finished
          \/ LogCompacted \/ LogDone \/ More)
  BY DEF ScanStart, ResponseEnd, Response, Finishing, Finished, LogCompacted,
         LogDone, More
<1>2. \A s \in Stages : ~StageStart(s)
  BY DEF StageStart
<1>3. \A s \in Passing : ~Pop(s) /\ ~PushHand(s) /\ ~PushOut(s)
  BY DEF Pop, PushHand, PushOut, Stages, Passing
<1>4. ~(Write \/ Wrote \/ WriteMore \/ Finalize \/ FinalWait \/ Apply)
  BY DEF Write, Wrote, WriteMore, Finalize, FinalWait, Apply, Stages
<1>5. ~(Created \/ Split \/ Registered \/ Unloaded \/ EndTask)
  BY DEF Created, Split, Registered, Unloaded, EndTask
<1>6. ~Timer
  BY DEF Timer, TimerFires, TimerChecks, TimerRearms
<1> QED BY <1>1, <1>2, <1>3, <1>4, <1>5, <1>6 DEF Next, Work

\* It stays so until the scan starts.
LEMMA StillStays ==
  ASSUME TypeOK, Still, Next, ~InitDone
  PROVE  Still'
<1> USE DEF flow, pipe, reqs
<1>1. CASE Initialize \/ InitTimeout \/ InitWaited \/ InitLogAgain
  BY <1>1 DEF Initialize, InitTimeout, InitWaited, InitLogAgain, Still, ends
<1>2. CASE InitSplit
  BY <1>2 DEF InitSplit, Enter, StopTimer, Still
<1>3. ASSUME NEW w \in Enders, Completion(w) PROVE Still'
  <2>1. run' = run
    <3>1. run \in [Stages -> {"idle", "posted", "work", "hand", "wrote", "more",
                              "final", "apply", "quit"}] /\ "write" \in Stages
      BY DEF TypeOK, Stages
    <3>2. run["write"] = "idle"
      BY <3>1 DEF Still
    <3> QED BY <1>3, <3>1, <3>2 DEF Completion, Leave
  <2> QED BY <1>3, <2>1 DEF Completion, Leave, Still
<1>4. CASE StopBegin \/ Unload
  BY <1>4 DEF StopBegin, Unload, Still, ends
<1>5. CASE Stop
  BY <1>5 DEF Stop, Enter, StopTimer, Still
<1> QED BY <1>1, <1>2, <1>3, <1>4, <1>5, StillSteps

\* Those in completion leave when no one but them holds the compaction.
LEMMA LeaveStill ==
  ASSUME TypeOK, EndInv, NEW w \in Enders, Completion(w), listed
  PROVE  Still' /\ init' = "none" /\ run["write"] # "apply"
           /\ mng \notin {"create", "split", "apply"}
<1>0. /\ run \in [Stages -> {"idle", "posted", "work", "hand", "wrote", "more",
                             "final", "apply", "quit"}] /\ "write" \in Stages
      /\ more \in Nat /\ tails \in Nat
  BY DEF TypeOK, Stages
<1> DEFINE Rs == {s \in Stages : run[s] # "idle"}
<1>1. /\ IsFiniteSet(Rs) /\ Cardinality(Rs) \in Nat
      /\ IsFiniteSet(out["intval"]) /\ Cardinality(out["intval"]) \in Nat
      /\ IsFiniteSet(out["encode"]) /\ Cardinality(out["encode"]) \in Nat
  <2>1. IsFiniteSet(Stages)
    <3>1. IsFiniteSet({"intval"} \cup {"encode"})
      BY FS_Singleton, FS_AddElement
    <3>2. IsFiniteSet(({"intval"} \cup {"encode"}) \cup {"write"})
      BY <3>1, FS_AddElement
    <3>3. Stages = ({"intval"} \cup {"encode"}) \cup {"write"}
      BY DEF Stages
    <3> QED BY <3>2, <3>3
  <2>2. Last \in Nat
    BY CompactAssumption DEF Last
  <2>3. IsFiniteSet(1 .. Last)
    BY <2>2, FS_Interval
  <2>4. out["intval"] \subseteq 1 .. Last /\ out["encode"] \subseteq 1 .. Last
    BY DEF TypeOK, Passing
  <2> QED BY <2>1, <2>3, <2>4, FS_Subset, FS_CardinalityType
<1>2. ending = w /\ ending # "none" /\ Refs <= 3
  BY DEF Completion, Leave, Enders
<1> DEFINE a0 == One(init # "none")
           a1 == One(scan # "none")
           a2 == One(timer # "none")
           a3 == One(quitter # "none")
           a4 == One(mng # "none")
           a5 == One(unl # "none")
           a6 == One(done # "none")
           a7 == One(stopper \in {"req", "quit"})
           a8 == One(run["write"] = "final")
           c0 == Cardinality(Rs)
           c1 == Cardinality(out["intval"])
           c2 == Cardinality(out["encode"])
<1>4. /\ a0 \in Nat /\ a1 \in Nat /\ a2 \in Nat /\ a3 \in Nat /\ a4 \in Nat
      /\ a5 \in Nat /\ a6 \in Nat /\ a7 \in Nat /\ a8 \in Nat
      /\ c0 \in Nat /\ c1 \in Nat /\ c2 \in Nat
  BY <1>1 DEF One
<1>5. /\ init # "none" <=> a0 > 0
      /\ scan # "none" <=> a1 > 0
      /\ timer # "none" <=> a2 > 0
      /\ quitter # "none" <=> a3 > 0
      /\ mng # "none" <=> a4 > 0
      /\ unl # "none" <=> a5 > 0
      /\ done # "none" <=> a6 > 0
      /\ stopper \in {"req", "quit"} <=> a7 > 0
      /\ c0 = 0 => Rs = {}
      /\ c1 = 0 => out["intval"] = {}
      /\ c2 = 0 => out["encode"] = {}
  BY <1>1, FS_EmptySet DEF One
<1>6. 2 + a0 + a1 + more + tails + a2 + a3 + a4 + a5 + a6 + a7 + a8 + c0 + c1 + c2 <= 3
  <2>1. One(listed) = 1 /\ One(ending # "none") = 1
    BY <1>2 DEF One
  <2>2. Refs = 2 + a0 + a1 + more + tails + a2 + a3 + a4 + a5 + a6 + a7 + a8 + c0 + c1 + c2
    <3> HIDE DEF a0, a1, a2, a3, a4, a5, a6, a7, a8, c0, c1, c2
    <3>1. Refs = One(listed) + a0 + a1 + more + tails + a2 + a3 + a4 + a5 + a6
                 + One(ending # "none") + a7 + a8 + c0 + c1 + c2
      BY DEF Refs, a0, a1, a2, a3, a4, a5, a6, a7, a8, c0, c1, c2
    <3> QED BY <1>0, <1>4, <2>1, <3>1
  <2> QED BY <1>2, <2>2
<1>7. run["write"] # "idle" => c0 > 0
  <2>1. run["write"] # "idle" => Rs # {}
    BY <1>0
  <2> QED BY <1>1, <1>5, <2>1
<1>8. /\ w = "init" => init = "end"
      /\ w = "quitter" => quitter = "quit"
      /\ w = "write" => run["write"] = "quit"
      /\ w = "mng" => mng = "quit"
      /\ w = "done" => done = "end"
      /\ w = "stopper" => stopper = "quit"
  BY <1>2 DEF EndInv
<1> HIDE DEF a0, a1, a2, a3, a4, a5, a6, a7, a8, c0, c1, c2
<1>9. a0 + a3 + a4 + a6 + a7 + c0 > 0
  BY <1>4, <1>5, <1>7, <1>8 DEF Enders
<1>10. more = 0 /\ tails = 0 /\ a1 = 0 /\ a2 = 0 /\ a5 = 0 /\ c1 = 0 /\ c2 = 0 /\ a8 = 0
  BY <1>0, <1>4, <1>6, <1>9
<1>11. a0 + a3 + a4 + a6 + a7 + c0 <= 1
  BY <1>0, <1>4, <1>6
<1>12. /\ scan = "none" /\ timer = "none" /\ unl = "none" /\ more = 0 /\ tails = 0
       /\ out["intval"] = {} /\ out["encode"] = {}
  BY <1>5, <1>10
<1>13. /\ w # "init" => init = "none"
       /\ w # "quitter" => quitter = "none"
       /\ w # "mng" => mng = "none"
       /\ w # "done" => done = "none"
       /\ w # "write" => Rs = {}
  <2>1. CASE w = "init"
    BY <1>4, <1>5, <1>8, <1>11, <2>1
  <2>2. CASE w = "quitter"
    BY <1>4, <1>5, <1>8, <1>11, <2>2
  <2>3. CASE w = "write"
    BY <1>4, <1>5, <1>7, <1>8, <1>11, <2>3
  <2>4. CASE w = "mng"
    BY <1>4, <1>5, <1>8, <1>11, <2>4
  <2>5. CASE w = "done"
    BY <1>4, <1>5, <1>8, <1>11, <2>5
  <2>6. CASE w = "stopper"
    BY <1>4, <1>5, <1>8, <1>11, <2>6
  <2> QED BY <2>1, <2>2, <2>3, <2>4, <2>5, <2>6 DEF Enders
<1>14. \A s \in Stages : run'[s] = "idle"
  <2>1. CASE w # "write"
    BY <1>0, <1>13, <2>1 DEF Completion, Leave
  <2>2. CASE w = "write"
    <3>1. Cardinality(Rs) <= 1 /\ "write" \in Rs
      <4>1. c0 <= 1
        BY <1>4, <1>11
      <4> QED BY <1>0, <1>8, <2>2, <4>1 DEF c0
    <3>2. Rs \ {"write"} = {}
      <4>1. Cardinality(Rs \ {"write"}) = Cardinality(Rs) - 1 /\ IsFiniteSet(Rs \ {"write"})
        BY <1>1, <3>1, FS_RemoveElement
      <4>2. Cardinality(Rs \ {"write"}) \in Nat
        BY <4>1, FS_CardinalityType
      <4>3. Cardinality(Rs \ {"write"}) = 0
        BY <1>1, <3>1, <4>1, <4>2
      <4> QED BY <4>1, <4>3, FS_EmptySet
    <3>3. \A s \in Stages : s # "write" => run[s] = "idle"
      BY <3>2
    <3> QED BY <1>0, <2>2, <3>3 DEF Completion, Leave
  <2> QED BY <2>1, <2>2
<1>15. Still'
  BY <1>12, <1>13, <1>14 DEF Still, Completion, Leave, flow, Passing
<1>16. init' = "none"
  BY <1>13 DEF Completion, Leave
<1>17. run["write"] # "apply" /\ mng \notin {"create", "split", "apply"}
  BY <1>0, <1>8, <1>13
<1> QED BY <1>15, <1>16, <1>17

\* Once ended nothing starts again.
LEMMA QuietStep ==
  ASSUME EndsAlone, EndInv, ScanInv, TypeOK', Next
  PROVE  EndsAlone'
<1> SUFFICES ASSUME ended' > 0
             PROVE  Still' /\ init' = "none" /\ gate' = "NONE"
  BY DEF EndsAlone, Still
<1>0. TypeOK
  BY DEF EndsAlone
<1>1. CASE ended > 0
  <2>1. Still /\ init = "none" /\ gate = "NONE"
    BY <1>1 DEF EndsAlone, Still
  <2>2. ~(Initialize \/ InitTimeout \/ InitWaited \/ InitSplit \/ InitLogAgain
            \/ InitDone)
    BY <2>1 DEF Initialize, InitTimeout, InitWaited, InitSplit, InitLogAgain, InitDone
  <2>3. Still'
    BY <1>0, <2>1, <2>2, StillStays
  <2>4. init' = "none" /\ gate' = "NONE"
    <3>1. (\E w \in Enders : Completion(w)) \/ StopBegin \/ Stop \/ Unload
      BY <1>0, <2>1, <2>2, StillSteps
    <3> QED BY <2>1, <3>1 DEF Completion, Leave, Compacted, StopBegin, Stop, Unload,
               range, reqs
  <2> QED BY <2>3, <2>4
<1>2. CASE ~(ended > 0)
  <2>1. ended' # ended
    BY <1>2
  <2>2. InitTimeout \/ \E w \in Enders : Completion(w)
    <3> USE DEF book
    <3>1. ~(Initialize \/ InitWaited \/ InitSplit \/ InitLogAgain \/ InitDone
              \/ ScanStart \/ ResponseEnd \/ Response \/ Finishing \/ Finished
              \/ LogCompacted \/ LogDone \/ More)
      BY <2>1 DEF Initialize, InitWaited, InitSplit, InitLogAgain, InitDone,
         ScanStart, ResponseEnd, Response, Finishing, Finished, LogCompacted,
         LogDone, More
    <3>2. \A s \in Stages : ~StageStart(s)
      BY <2>1 DEF StageStart
    <3>3. \A s \in Passing : ~Pop(s) /\ ~PushHand(s) /\ ~PushOut(s)
      BY <2>1 DEF Pop, PushHand, PushOut
    <3>4. ~(Write \/ Wrote \/ WriteMore \/ Finalize \/ FinalWait \/ Apply)
      BY <2>1 DEF Write, Wrote, WriteMore, Finalize, FinalWait, Apply
    <3>5. ~(Created \/ Split \/ Registered \/ Unloaded \/ EndTask \/ StopBegin
              \/ Stop \/ Unload \/ Timer)
      BY <2>1 DEF Created, Split, Registered, Unloaded, EndTask, StopBegin, Stop,
         Unload, Timer, TimerFires, TimerChecks, TimerRearms
    <3> QED BY <3>1, <3>2, <3>3, <3>4, <3>5 DEF Next, Work
  <2>3. CASE InitTimeout
    <3>1. Still /\ ~InitDone
      BY <2>3 DEF ScanInv, InitTimeout, InitDone
    <3> QED BY <1>0, <2>3, <3>1, StillStays DEF InitTimeout, Compacted
  <2>4. ASSUME NEW w \in Enders, Completion(w)
        PROVE  Still' /\ init' = "none" /\ gate' = "NONE"
    <3>1. listed
      BY <1>0, <1>2 DEF EndInv, One
    <3> QED BY <1>0, <2>4, <3>1, LeaveStill DEF Completion, Leave, Compacted
  <2> QED BY <2>2, <2>3, <2>4
<1> QED BY <1>1, <1>2

\* One is in completion, and keeps its place until it leaves.
LEMMA EndStep ==
  ASSUME TypeOK, RunInv, ScanInv, ApplyInv, EndInv, Next
  PROVE  EndInv'
<1> USE DEF ends, reqs, pipe, book
<1>0. /\ run \in [Stages -> {"idle", "posted", "work", "hand", "wrote", "more",
                             "final", "apply", "quit"}] /\ "write" \in Stages
      /\ listed \in BOOLEAN /\ ending \in Enders \cup {"none"}
  BY DEF TypeOK, Stages
<1>1. ASSUME UNCHANGED <<listed, ended, stopped, ending, init, quitter, mng, done,
                         stopper>>,
             run["write"] = "quit" => run'["write"] = "quit"
      PROVE  EndInv'
  BY <1>1 DEF EndInv
<1>2. CASE Initialize \/ InitWaited \/ InitSplit \/ InitLogAgain \/ InitDone
  BY <1>2 DEF Initialize, InitWaited, InitSplit, InitLogAgain, InitDone, Enter,
              Goes, EndInv
<1>3. CASE InitTimeout
  <2>1. ended' = One(~listed')
    BY <1>0, <1>3 DEF InitTimeout, Compacted, EndInv, One
  <2> QED BY <1>3, <2>1 DEF InitTimeout, EndInv
<1>4. CASE ResponseEnd
  BY <1>4 DEF ResponseEnd, EndInv
<1>5. CASE ScanStart \/ Finishing \/ LogCompacted \/ LogDone \/ More
  BY <1>1, <1>5 DEF ScanStart, Finishing, LogCompacted, LogDone, More
<1>6. CASE Response \/ Finished
  <2>1. run'["write"] = run["write"]
    BY <1>0, <1>6 DEF Response, Finished, Block, Push
  <2> QED BY <1>1, <1>6, <2>1 DEF Response, Finished
<1>7. ASSUME NEW s \in Stages, StageStart(s) PROVE EndInv'
  BY <1>0, <1>1, <1>7 DEF StageStart
<1>8. ASSUME NEW s \in Passing, Pop(s) \/ PushHand(s) \/ PushOut(s) PROVE EndInv'
  <2>1. run["write"] = "quit" => run'["write"] = "quit"
    <3>1. s # "write" /\ s \in Stages
      BY DEF Stages, Passing
    <3>2. run["write"] = "quit" => q["write"] # <<>>
      BY <1>0 DEF RunInv
    <3>3. CASE Pop(s)
      BY <1>0, <3>1, <3>3 DEF Pop
    <3>4. CASE PushHand(s)
      BY <1>0, <3>1, <3>2, <3>4 DEF PushHand, Push
    <3>5. CASE PushOut(s)
      BY <1>0, <3>1, <3>2, <3>5 DEF PushOut, Push
    <3> QED BY <1>8, <3>3, <3>4, <3>5
  <2> QED BY <1>1, <1>8, <2>1 DEF Pop, PushHand, PushOut
<1>9. ASSUME UNCHANGED <<listed, ended, init, quitter, mng, done, stopper>>,
             run["write"] # "quit", Enter("write"), WriteQuits
      PROVE  EndInv'
  BY <1>0, <1>9 DEF EndInv, Enter, WriteQuits
<1>10. CASE Write
  BY <1>0, <1>1, <1>9, <1>10 DEF Write
<1>11. CASE Wrote
  BY <1>0, <1>1, <1>9, <1>11 DEF Wrote
<1>12. CASE WriteMore
  BY <1>0, <1>1, <1>12 DEF WriteMore
<1>13. CASE Finalize
  BY <1>0, <1>1, <1>9, <1>13 DEF Finalize
<1>14. CASE FinalWait
  BY <1>0, <1>1, <1>9, <1>14 DEF FinalWait
<1>15. CASE Apply
  <2>1. run["write"] = "apply" /\ mng = "none"
    BY <1>15 DEF Apply, ApplyInv
  <2>2. CASE Enter("write") /\ WriteQuits /\ UNCHANGED mng
    BY <1>9, <1>15, <2>1, <2>2 DEF Apply
  <2>3. CASE UNCHANGED <<stopped, ending>>
    BY <1>15, <2>1, <2>3 DEF Apply, EndInv
  <2> QED BY <1>15, <2>2, <2>3 DEF Apply
<1>16. CASE Created \/ Unloaded \/ StopBegin \/ Unload \/ Timer
  BY <1>16 DEF Created, Unloaded, StopBegin, Unload, Timer, TimerFires, TimerChecks,
     TimerRearms, EndInv
<1>17. CASE Registered
  BY <1>17 DEF Registered, EndInv, ApplyInv
<1>18. CASE Split
  BY <1>18 DEF Split, Enter, Goes, EndInv
<1>19. CASE EndTask
  BY <1>19 DEF EndTask, Enter, Goes, EndInv
<1>20. CASE Stop
  BY <1>20 DEF Stop, Enter, EndInv
<1>21. ASSUME NEW w \in Enders, Completion(w) PROVE EndInv'
  <2>1. ended' = One(~listed')
    BY <1>0, <1>21 DEF Completion, Leave, Compacted, EndInv, One
  <2> QED BY <1>21, <2>1 DEF Completion, Leave, EndInv
<1> QED BY <1>2, <1>3, <1>4, <1>5, <1>6, <1>7, <1>8, <1>10, <1>11, <1>12, <1>13,
           <1>14, <1>15, <1>16, <1>17, <1>18, <1>19, <1>20, <1>21 DEF Next, Work

-----------------------------------------------------------------------------
(***************************************************************************)
(* The scan, the state of the range and the new cell stores.               *)
(***************************************************************************)

\* m_get that is held without a scan is held for good.
LEMMA ScanFrozen ==
  ASSUME scan = "none", get, init = "none", Next
  PROVE  scan' = "none" /\ get' /\ init' = "none"
<1> USE DEF flow, reqs
<1>1. ~(Initialize \/ InitTimeout \/ InitWaited \/ InitSplit \/ InitLogAgain \/ InitDone
          \/ ScanStart \/ ResponseEnd \/ Response \/ Finishing \/ Finished
          \/ LogCompacted \/ LogDone)
  BY DEF Initialize, InitTimeout, InitWaited, InitSplit, InitLogAgain, InitDone,
     ScanStart, ResponseEnd, Response, Finishing, Finished, LogCompacted, LogDone
<1>2. RequestMore => scan' = "none" /\ get'
  BY DEF RequestMore
<1>3. CASE More \/ WriteMore \/ \E s \in Passing : Pop(s) \/ PushOut(s)
  BY <1>2, <1>3 DEF More, WriteMore, Pop, PushOut
<1>4. CASE Timer
  BY <1>2, <1>4 DEF Timer, TimerFires, TimerChecks, TimerRearms
<1>5. CASE (\E s \in Stages : StageStart(s)) \/ \E s \in Passing : PushHand(s)
  BY <1>5 DEF StageStart, PushHand
<1>6. CASE Write \/ Wrote \/ Finalize \/ FinalWait \/ Apply
  BY <1>6 DEF Write, Wrote, Finalize, FinalWait, Apply
<1>7. CASE Created \/ Split \/ Registered \/ Unloaded \/ EndTask \/ StopBegin \/ Stop
             \/ Unload
  BY <1>7 DEF Created, Split, Registered, Unloaded, EndTask, StopBegin, Stop, Unload
<1>8. CASE \E w \in Enders : Completion(w)
  BY <1>8 DEF Completion, Leave
<1> QED BY <1>1, <1>3, <1>4, <1>5, <1>6, <1>7, <1>8 DEF Next, Work

\* Only the end of the scan brings is_last.
LEMMA LastComes ==
  ASSUME TypeOK, WayInv, RunInv, ScanInv, ApplyInv, Next, Last \in Pipe'
  PROVE  Last \in Pipe \/ (Finished /\ UNCHANGED get)
<1>1. CASE Keeps
  BY <1>1, KeepsWay, PipeStays
<1>2. ASSUME NEW s \in Passing, Pop(s) \/ PushHand(s) \/ PushOut(s)
      PROVE  Last \in Pipe
  BY <1>2, PopOrders, PushHandOrders, PushOutOrders
<1>3. scanned \in Nat /\ N \in Nat /\ Last = N + 1
  BY PartTypes DEF Last
<1>4. CASE Response
  <2>1. Last \notin Pipe
    BY <1>4 DEF ScanInv, Response
  <2>2. Pipe' = Pipe \cup {scanned + 1} /\ scanned + 1 # Last
    BY <1>3, <1>4, <2>1, BlockOrders DEF Response, Block, book
  <2> QED BY <2>1, <2>2
<1>5. CASE Finished
  <2>1. Last \notin Pipe
    BY <1>5 DEF ScanInv, Finished
  <2>2. CASE Block
    <3>1. Pipe' = Pipe \cup {scanned + 1} /\ scanned + 1 # Last
      BY <1>3, <1>5, <2>1, <2>2, BlockOrders DEF Finished, Block, book
    <3> QED BY <2>1, <3>1
  <2> QED BY <1>5, <2>2 DEF Finished
<1>6. CASE Wrote
  <2>1. CASE UNCHANGED <<q, processing, tails>>
    BY <1>6, <2>1, PipeStays DEF Wrote
  <2>2. CASE q' = [q EXCEPT !["write"] = Tail(@)] /\ processing' = processing - 1
    <3>1. q["write"] # <<>> /\ Head(q["write"]) # Last
      BY <1>6 DEF Wrote, RunInv, ApplyInv, Stages
    <3> QED BY <1>6, <2>2, <3>1, WroteOrders DEF Wrote, cells, book
  <2> QED BY <1>6, <2>1, <2>2 DEF Wrote
<1> QED BY <1>1, <1>2, <1>4, <1>5, <1>6, NextIs

LEMMA ScanStep ==
  ASSUME TypeOK, WayInv, RunInv, ScanInv, ApplyInv, Next
  PROVE  ScanInv'
<1> USE DEF flow, reqs, range
<1>1. scan' # "none" => get'
  <2>1. CASE scan = "none" /\ get /\ init = "none"
    BY <2>1, ScanFrozen
  <2>2. CASE init # "none"
    <3>1. Still /\ get
      BY <2>2 DEF ScanInv
    <3>2. UNCHANGED get
      BY <3>1, StillSteps DEF Initialize, InitTimeout, InitWaited, InitSplit,
         InitLogAgain, InitDone, Completion, Leave, StopBegin, Stop, Unload
    <3> QED BY <3>1, <3>2
  <2>3. CASE init = "none" /\ (scan # "none" \/ ~get)
    <3>1. RequestMore => (scan' # "none" => get')
      BY DEF RequestMore, ScanInv
    <3>2. CASE More \/ WriteMore \/ (\E s \in Passing : Pop(s) \/ PushOut(s)) \/ Timer
      BY <3>1, <3>2 DEF More, WriteMore, Pop, PushOut, Timer, TimerFires,
         TimerChecks, TimerRearms, ScanInv
    <3>3. CASE ScanStart \/ ResponseEnd \/ Response \/ Finishing \/ Finished
                 \/ LogCompacted \/ LogDone
      BY <3>3 DEF ScanStart, ResponseEnd, Response, Finishing, Finished,
         LogCompacted, LogDone, ScanInv
    <3>4. CASE \/ (\E s \in Stages : StageStart(s)) \/ (\E s \in Passing : PushHand(s))
               \/ Write \/ Wrote \/ Finalize \/ FinalWait \/ Apply
      BY <3>4 DEF StageStart, PushHand, Write, Wrote, Finalize, FinalWait, Apply,
         ScanInv
    <3>5. CASE \/ Created \/ Split \/ Registered \/ Unloaded \/ EndTask \/ StopBegin
               \/ Stop \/ Unload \/ \E w \in Enders : Completion(w)
      BY <3>5 DEF Created, Split, Registered, Unloaded, EndTask, StopBegin, Stop,
         Unload, Completion, Leave, ScanInv
    <3>6. ~(Initialize \/ InitTimeout \/ InitWaited \/ InitSplit \/ InitLogAgain
              \/ InitDone)
      BY <2>3 DEF Initialize, InitTimeout, InitWaited, InitSplit, InitLogAgain, InitDone
    <3> QED BY <3>2, <3>3, <3>4, <3>5, <3>6 DEF Next, Work
  <2> QED BY <2>1, <2>2, <2>3
<1>2. Last \in Pipe' => scan' = "none" /\ get' /\ init' = "none"
  <2>1. CASE Last \in Pipe
    BY <2>1, ScanFrozen DEF ScanInv
  <2>2. CASE Finished /\ UNCHANGED get
    BY <2>2 DEF Finished, ScanInv, Still
  <2> QED BY <2>1, <2>2, LastComes
<1>3. init' # "none" => Still' /\ get' /\ ~fin'
  <2> SUFFICES ASSUME init' # "none" PROVE Still' /\ get' /\ ~fin'
    OBVIOUS
  <2>1. init # "none"
    <3> SUFFICES ASSUME init = "none" PROVE FALSE
      OBVIOUS
    <3>1. ~(Initialize \/ InitTimeout \/ InitWaited \/ InitSplit \/ InitLogAgain
              \/ InitDone)
      BY DEF Initialize, InitTimeout, InitWaited, InitSplit, InitLogAgain, InitDone
    <3>2. ~(ScanStart \/ ResponseEnd \/ Response \/ Finishing \/ Finished
              \/ LogCompacted \/ LogDone \/ More)
      BY DEF ScanStart, ResponseEnd, Response, Finishing, Finished, LogCompacted,
         LogDone, More
    <3>3. \A s \in Stages : ~StageStart(s)
      BY DEF StageStart
    <3>4. \A s \in Passing : ~Pop(s) /\ ~PushHand(s) /\ ~PushOut(s)
      BY DEF Pop, PushHand, PushOut
    <3>5. ~(Write \/ Wrote \/ WriteMore \/ Finalize \/ FinalWait \/ Apply \/ Timer)
      BY DEF Write, Wrote, WriteMore, Finalize, FinalWait, Apply, Timer, TimerFires,
         TimerChecks, TimerRearms
    <3>6. ~(Created \/ Split \/ Registered \/ Unloaded \/ EndTask \/ StopBegin
              \/ Stop \/ Unload)
      BY DEF Created, Split, Registered, Unloaded, EndTask, StopBegin, Stop, Unload
    <3>7. \A w \in Enders : ~Completion(w)
      BY DEF Completion, Leave
    <3> QED BY <3>1, <3>2, <3>3, <3>4, <3>5, <3>6, <3>7 DEF Next, Work
  <2>2. Still /\ get /\ ~fin /\ ~InitDone
    BY <2>1 DEF ScanInv, InitDone
  <2>3. UNCHANGED <<get, fin>>
    BY <2>2, StillSteps DEF Initialize, InitTimeout, InitWaited, InitSplit,
       InitLogAgain, Completion, Leave, StopBegin, Stop, Unload
  <2> QED BY <2>2, <2>3, StillStays
<1>4. Last' = Last
  BY DEF Last
<1> QED BY <1>1, <1>2, <1>3, <1>4 DEF ScanInv

\* After the end of the scan neither the timer nor the writer lets updates in.
LEMMA FinStep ==
  ASSUME TypeOK, ScanInv, FinInv, Next
  PROVE  FinInv'
<1> USE DEF ends, range, book
<1>1. CASE init # "none"
  <2>1. Still /\ ~fin
    BY <1>1 DEF ScanInv
  <2>2. UNCHANGED fin
    BY <2>1, StillSteps DEF Initialize, InitTimeout, InitWaited, InitSplit,
       InitLogAgain, InitDone, Completion, Leave, StopBegin, Stop, Unload
  <2> QED BY <2>1, <2>2 DEF FinInv
<1>2. CASE init = "none"
  <2>1. ~(Initialize \/ InitTimeout \/ InitWaited \/ InitSplit \/ InitLogAgain
            \/ InitDone)
    BY <1>2 DEF Initialize, InitTimeout, InitWaited, InitSplit, InitLogAgain, InitDone
  <2>2. CASE ScanStart \/ ResponseEnd \/ Response \/ Finished \/ LogDone \/ More
    BY <2>2 DEF ScanStart, ResponseEnd, Response, Finished, LogDone, More, FinInv
  <2>3. CASE Finishing
    BY <2>3 DEF Finishing, StopTimer, FinInv
  <2>4. CASE LogCompacted
    BY <2>4 DEF LogCompacted, StopTimer, FinInv
  <2>5. CASE (\E s \in Stages : StageStart(s))
               \/ \E s \in Passing : Pop(s) \/ PushHand(s) \/ PushOut(s)
    BY <2>5 DEF StageStart, Pop, PushHand, PushOut, FinInv
  <2>6. CASE Write
    <3>1. fin' = fin /\ listed' = listed
      BY <2>6 DEF Write
    <3>2. fin => chkFinal'
      <4>1. CASE Enter("write")
        BY <4>1 DEF Enter, StopTimer, FinInv
      <4>2. CASE StopTimer \/ UNCHANGED chkFinal
        BY <4>2 DEF StopTimer, FinInv
      <4> QED BY <2>6, <4>1, <4>2 DEF Write
    <3>3. gate = "APPLYING" => gate' = "APPLYING"
      BY <2>6 DEF Write
    <3> QED BY <3>1, <3>2, <3>3 DEF FinInv
  <2>7. CASE Wrote \/ WriteMore \/ Finalize
    BY <2>7 DEF Wrote, WriteMore, Finalize, Enter, StopTimer, FinInv
  <2>8. CASE FinalWait
    BY <2>8 DEF FinalWait, Enter, StopTimer, FinInv
  <2>9. CASE Apply
    BY <2>9 DEF Apply, Enter, StopTimer, FinInv
  <2>10. CASE Created \/ Split \/ Registered \/ Unloaded
    BY <2>10 DEF Created, Split, Registered, Unloaded, Enter, StopTimer, FinInv
  <2>11. CASE EndTask \/ StopBegin \/ Stop \/ Unload
    BY <2>11 DEF EndTask, StopBegin, Stop, Unload, Enter, StopTimer, FinInv
  <2>12. CASE \E w \in Enders : Completion(w)
    BY <2>12 DEF Completion, Leave, Compacted, FinInv
  <2>13. CASE Timer
    BY <2>13 DEF Timer, TimerFires, TimerChecks, TimerRearms, FinInv
  <2> QED BY <2>1, <2>2, <2>3, <2>4, <2>5, <2>6, <2>7, <2>8, <2>9, <2>10, <2>11,
             <2>12, <2>13 DEF Next, Work
<1> QED BY <1>1, <1>2

\* A push to the last queue, when it has items, leaves its first.
LEMMA PushWrite ==
  ASSUME TypeOK, RunInv, NEW s \in Passing, PushHand(s) \/ PushOut(s)
  PROVE  \/ q'["write"] = q["write"] /\ run'["write"] = run["write"]
         \/ /\ q["write"] = <<>> /\ q'["write"] # <<>>
            /\ run["write"] = "idle" /\ run'["write"] = "posted"
         \/ /\ q["write"] # <<>> /\ q'["write"] # <<>>
            /\ Head(q'["write"]) = Head(q["write"]) /\ run'["write"] = run["write"]
<1> USE DEF Stages, Passing, After
<1>0. /\ q \in [Stages -> Seq(1 .. Last)] /\ hold \in [Passing -> 0 .. Last]
      /\ run \in [Stages -> {"idle", "posted", "work", "hand", "wrote", "more",
                             "final", "apply", "quit"}]
      /\ out \in [Passing -> SUBSET (1 .. Last)]
  BY DEF TypeOK
<1> DEFINE Runs == {"idle", "posted", "work", "hand", "wrote", "more", "final",
                    "apply", "quit"}
<1>1. PICK b \in 1 .. Last, r \in [Stages -> Runs] :
        Push(After(s), b, r) /\ r["write"] = run["write"]
  <2>1. CASE PushHand(s)
    <3>1. hold[s] \in 1 .. Last
      BY <1>0, <2>1, CompactAssumption DEF PushHand, RunInv, Last
    <3>2. /\ [run EXCEPT ![s] = "work"] \in [Stages -> Runs]
          /\ [run EXCEPT ![s] = "work"]["write"] = run["write"]
      BY <1>0
    <3> QED BY <2>1, <3>1, <3>2 DEF PushHand
  <2>2. CASE PushOut(s)
    BY <1>0, <2>2 DEF PushOut
  <2> QED BY <2>1, <2>2
<1>2. CASE s = "intval"
  BY <1>0, <1>1, <1>2 DEF Push
<1>3. CASE s = "encode"
  <2>1. q'["write"] = Append(q["write"], b)
    BY <1>0, <1>1, <1>3 DEF Push
  <2>2. q["write"] \in Seq(1 .. Last)
    BY <1>0
  <2>3. q'["write"] # <<>>
    BY <2>1, <2>2, AppendProperties
  <2>4. CASE q["write"] = <<>>
    <3>1. run["write"] = "idle"
      BY <2>4 DEF RunInv
    <3> QED BY <1>0, <1>1, <1>3, <2>3, <2>4, <3>1 DEF Push
  <2>5. CASE q["write"] # <<>>
    <3>1. Head(Append(q["write"], b)) = Head(q["write"])
      BY <2>2, <2>5, AppendProperties, EmptySeq
    <3> QED BY <1>0, <1>1, <1>3, <2>1, <2>3, <2>5, <3>1 DEF Push
  <2> QED BY <2>4, <2>5
<1> QED BY <1>2, <1>3

LEMMA ApplyStep ==
  ASSUME EndsAlone, RunInv, ApplyInv, EndInv, ScanInv, Next
  PROVE  ApplyInv'
<1> USE DEF pipe, reqs, cells, Stages
<1>0. /\ run \in [Stages -> {"idle", "posted", "work", "hand", "wrote", "more",
                             "final", "apply", "quit"}] /\ "write" \in Stages
      /\ TypeOK /\ (run["write"] # "idle" => q["write"] # <<>>) /\ Last' = Last
      /\ listed \in BOOLEAN
  BY DEF EndsAlone, TypeOK, RunInv, Last
<1>1. ASSUME q'["write"] = q["write"], run'["write"] = run["write"],
             UNCHANGED <<mng, done, applied, tmp>>
      PROVE  ApplyInv'
  BY <1>0, <1>1 DEF ApplyInv
<1>2. CASE \/ Initialize \/ InitTimeout \/ InitWaited \/ InitSplit \/ InitLogAgain
           \/ InitDone \/ ScanStart \/ ResponseEnd \/ Finishing \/ LogCompacted
           \/ LogDone \/ More
  BY <1>1, <1>2 DEF Initialize, InitTimeout, InitWaited, InitSplit, InitLogAgain,
     InitDone, ScanStart, ResponseEnd, Finishing, LogCompacted, LogDone, More
<1>3. CASE Response \/ Finished
  <2>1. q'["write"] = q["write"] /\ run'["write"] = run["write"]
    BY <1>0, <1>3 DEF Response, Finished, Block, Push, TypeOK
  <2> QED BY <1>1, <1>3, <2>1 DEF Response, Finished
<1>4. ASSUME NEW s \in Stages, StageStart(s) PROVE ApplyInv'
  BY <1>0, <1>4 DEF StageStart, ApplyInv
<1>5. ASSUME NEW s \in Passing, Pop(s) PROVE ApplyInv'
  <2>1. q'["write"] = q["write"] /\ run'["write"] = run["write"]
    BY <1>0, <1>5 DEF Pop, Passing, TypeOK
  <2> QED BY <1>1, <1>5, <2>1 DEF Pop
<1>6. ASSUME NEW s \in Passing, PushHand(s) \/ PushOut(s) PROVE ApplyInv'
  <2>1. UNCHANGED <<mng, done, applied, tmp>>
    BY <1>6 DEF PushHand, PushOut
  <2> QED BY <1>0, <1>6, <2>1, PushWrite DEF ApplyInv
<1>7. CASE Write
  <2>1. /\ run["write"] = "work" /\ Head(q["write"]) # Last /\ UNCHANGED <<q, mng, done, applied>>
        /\ run'["write"] \in {"wrote", "idle", "quit"}
    BY <1>0, <1>7 DEF Write, WriteQuits
  <2> QED BY <1>0, <2>1 DEF ApplyInv
<1>8. CASE Wrote
  <2>1. /\ run["write"] = "wrote" /\ UNCHANGED <<mng, done, applied, tmp>>
        /\ run'["write"] \in {"more", "idle", "quit"}
    BY <1>0, <1>8 DEF Wrote, WriteQuits
  <2> QED BY <1>0, <2>1 DEF ApplyInv
<1>9. CASE WriteMore
  BY <1>0, <1>9 DEF WriteMore, ApplyInv
<1>10. CASE Finalize
  <2>1. /\ run["write"] = "work" /\ Head(q["write"]) = Last
        /\ UNCHANGED <<q, mng, done, applied, tmp>>
        /\ run'["write"] \in {"final", "idle", "quit"}
    BY <1>0, <1>10 DEF Finalize, WriteQuits
  <2> QED BY <1>0, <2>1 DEF ApplyInv
<1>11. CASE FinalWait
  <2>1. /\ run["write"] = "final" /\ UNCHANGED <<q, mng, done, applied>>
        /\ run'["write"] \in {"apply", "idle", "quit"}
    BY <1>0, <1>11 DEF FinalWait, WriteQuits
  <2>2. run'["write"] = "apply" => tmp'
    BY <1>0, <1>11 DEF FinalWait, WriteQuits
  <2> QED BY <1>0, <2>1, <2>2 DEF ApplyInv
<1>12. CASE Apply
  <2>1. /\ run["write"] = "apply" /\ UNCHANGED <<q, done, tmp>> /\ tmp
        /\ Head(q["write"]) = Last /\ mng = "none" /\ done = "none" /\ ~applied
        /\ run'["write"] \in {"idle", "quit"}
    BY <1>0, <1>12 DEF Apply, WriteQuits, ApplyInv
  <2>2. run'["write"] = "idle" \/ UNCHANGED <<mng, applied>>
    BY <1>0, <1>12 DEF Apply
  <2> QED BY <1>0, <2>1, <2>2 DEF ApplyInv
<1>13. CASE Created \/ Unloaded
  BY <1>0, <1>13 DEF Created, Unloaded, ApplyInv
<1>14. CASE Split
  BY <1>0, <1>14 DEF Split, Goes, ApplyInv
<1>15. CASE Registered
  BY <1>0, <1>15 DEF Registered, ApplyInv
<1>16. CASE EndTask
  BY <1>0, <1>16 DEF EndTask, Goes, ApplyInv
<1>17. ASSUME NEW w \in Enders, Completion(w) PROVE ApplyInv'
  <2>1. run["write"] # "apply" /\ mng \notin {"create", "split", "apply"}
    <3>1. CASE listed
      BY <1>0, <1>17, <3>1, LeaveStill
    <3>2. CASE ~listed
      <4>1. ended > 0
        BY <3>2 DEF EndInv, One
      <4> QED BY <1>0, <4>1 DEF EndsAlone
    <3> QED BY <3>1, <3>2
  <2>2. /\ UNCHANGED <<q, applied>> /\ mng' \in {mng, "none"} /\ done' \in {done, "none"}
        /\ run'["write"] \in {run["write"], "idle"}
    BY <1>0, <1>17 DEF Completion, Leave
  <2> QED BY <1>0, <2>1, <2>2 DEF ApplyInv
<1>18. CASE StopBegin \/ Stop \/ Unload \/ Timer
  BY <1>1, <1>18 DEF StopBegin, Stop, Unload, Timer, TimerFires, TimerChecks,
     TimerRearms
<1> QED BY <1>2, <1>3, <1>4, <1>5, <1>6, <1>7, <1>8, <1>9, <1>10, <1>11, <1>12,
           <1>13, <1>14, <1>15, <1>16, <1>17, <1>18 DEF Next, Work

\* The first item of the last queue is before all others, if none has passed.
LEMMA HeadFirst ==
  ASSUME TypeOK, WayInv, ~passed, q["write"] # <<>>
  PROVE  /\ Head(q["write"]) \in Pipe
         /\ \A b \in Pipe : b = Head(q["write"]) \/ Head(q["write"]) < b
<1> DEFINE h == Head(q["write"])
<1>0. q["write"] \in Seq(Nat) /\ Once(q["write"]) /\ Rising(q["write"]) /\ Ahead(Part)
  BY PartTypes DEF WayInv, DistinctInv, OrderInv, Stages
<1>1. h \in Elems(q["write"]) /\ \A b \in Elems(q["write"]) : b = h \/ h < b
  BY <1>0, HeadGoes
<1>2. h \in Part[1] /\ \A b \in Part[1] : b = h \/ h < b
  BY <1>1, PartIs
<1> HIDE DEF h
<1>3. \A i \in 1 .. 5 : \A b \in Part[i] : b = h \/ h < b
  <2>1. \A i \in 1 .. 5 : i = 1 \/ 1 < i
    OBVIOUS
  <2> QED BY <1>0, <1>2, <2>1 DEF Ahead
<1>4. h \in Pipe /\ \A b \in Pipe : b = h \/ h < b
  BY <1>2, <1>3 DEF Pipe, All
<1> QED BY <1>4 DEF h

\* Once a block has passed another that stays recorded.
LEMMA PassedStays ==
  ASSUME TypeOK, Next, ~passed'
  PROVE  ~passed
<1>1. CASE Keeps
  BY <1>1, KeepsWay
<1>2. CASE Response \/ Finished \/ Wrote
  BY <1>2 DEF Response, Finished, Wrote, book
<1>3. ASSUME NEW s \in Passing, Pop(s) PROVE ~passed
  BY <1>3 DEF Pop
<1>4. ASSUME NEW s \in Passing, PushHand(s) PROVE ~passed
  <2>1. passed' = (passed \/ \E c \in out[s] : c < hold[s])
    BY <1>4 DEF PushHand
  <2> QED BY <2>1, Zenon
<1>5. ASSUME NEW s \in Passing, PushOut(s) PROVE ~passed
  <2>1. PICK b \in out[s] :
          passed' = (passed \/ \E c \in out[s] \cup ({hold[s]} \ {0}) : c < b)
    BY <1>5 DEF PushOut
  <2> QED BY <2>1, Zenon
<1> QED BY <1>1, <1>2, <1>3, <1>4, <1>5, NextIs

LEMMA CoverStep ==
  ASSUME TypeOK, WayInv, RunInv, ScanInv, ApplyInv, CoverInv, Next
  PROVE  CoverInv'
<1> USE DEF Stages, Unwritten
<1> SUFFICES ASSUME ~passed' PROVE CoverInv'
  BY DEF CoverInv
<1> DEFINE n == Len(written)
           h == Head(q["write"])
<1>0. /\ ~passed /\ n \in Nat /\ Last' = Last /\ Last = N + 1 /\ N \in Nat
      /\ scanned \in Nat /\ scanned <= N /\ Pipe \subseteq 1 .. Last
      /\ run \in [Stages -> {"idle", "posted", "work", "hand", "wrote", "more",
                             "final", "apply", "quit"}]
      /\ (run["write"] # "idle" => q["write"] # <<>>)
  <2>1. written \in Seq(1 .. N)
    BY DEF TypeOK
  <2> QED BY <2>1, PassedStays, PartTypes, LenProperties DEF Last, TypeOK, RunInv
<1>1. /\ \A i \in 1 .. n : written[i] = i
      /\ 1 .. scanned = (1 .. n) \cup (Pipe \ {Last})
      /\ run["write"] \in Unwritten => \A b \in Pipe : b > n
      /\ run["write"] = "wrote" => h = n
      /\ \A b \in Pipe : b > n \/ (q["write"] # <<>> /\ b = h)
  BY <1>0 DEF CoverInv
<1>2. n <= scanned
  <2>1. n = 0 \/ n \in 1 .. n
    BY <1>0
  <2>2. n = 0 \/ n \in 1 .. scanned
    BY <1>1, <2>1
  <2> QED BY <1>0, <2>2
<1>3. ASSUME q'["write"] = q["write"], Pipe' = Pipe, UNCHANGED <<written, scanned>>,
             run'["write"] \in Unwritten => run["write"] \in Unwritten,
             run'["write"] = "wrote" => run["write"] = "wrote"
      PROVE  CoverInv'
  BY <1>0, <1>1, <1>3 DEF CoverInv
<1>4. CASE Write
  <2>1. UNCHANGED <<q, hold, out, scanned>> /\ Pipe' = Pipe
    BY <1>4, KeepsWay, PipeStays DEF Keeps
  <2>2. CASE UNCHANGED written /\ WriteQuits
    <3>1. run'["write"] \in {"idle", "quit"}
      BY <1>0, <2>2 DEF WriteQuits
    <3> QED BY <1>3, <2>1, <2>2, <3>1
  <2>3. CASE run' = [run EXCEPT !["write"] = "wrote"] /\ written' = Append(written, h)
    <3>1. run["write"] = "work" /\ q["write"] # <<>> /\ h # Last
      BY <1>0, <1>4 DEF Write
    <3>2. h \in Pipe /\ \A b \in Pipe : b = h \/ h < b
      BY <1>0, <3>1, HeadFirst
    <3> HIDE DEF h, n
    <3>3. h \in 1 .. scanned /\ h > n
      BY <1>0, <1>1, <3>1, <3>2
    <3>4. h = n + 1
      <4> SUFFICES ASSUME n + 1 < h PROVE FALSE
        BY <1>0, <3>3
      <4>1. n + 1 \in 1 .. scanned /\ n + 1 \notin 1 .. n
        BY <1>0, <3>3
      <4>2. n + 1 \in Pipe
        BY <1>1, <4>1
      <4> QED BY <1>0, <3>2, <3>3, <4>2
    <3>5. /\ Len(written') = n + 1 /\ \A i \in 1 .. n : written'[i] = written[i]
          /\ written'[n + 1] = h
      <4>1. written \in Seq(1 .. N) /\ h \in 1 .. N
        BY <1>0, <3>3 DEF TypeOK
      <4> QED BY <2>3, <4>1, AppendProperties DEF n
    <3>6. \A i \in 1 .. Len(written') : written'[i] = i
      BY <1>0, <1>1, <3>4, <3>5
    <3>7. 1 .. scanned = (1 .. (n + 1)) \cup (Pipe \ {Last})
      <4>1. 1 .. (n + 1) = (1 .. n) \cup {n + 1}
        BY <1>0
      <4> QED BY <1>1, <3>1, <3>2, <3>4, <4>1
    <3>8. \A b \in Pipe : b > n + 1 \/ b = h
      BY <1>0, <3>2, <3>4
    <3>9. run'["write"] = "wrote" /\ Head(q'["write"]) = h /\ q'["write"] # <<>>
      BY <1>0, <2>1, <2>3, <3>1 DEF h
    <3> QED BY <1>0, <2>1, <3>4, <3>5, <3>6, <3>7, <3>8, <3>9 DEF CoverInv
  <2> QED BY <1>4, <2>2, <2>3 DEF Write
<1>5. CASE Wrote
  <2>0. run["write"] = "wrote" /\ q["write"] # <<>> /\ h # Last /\ UNCHANGED <<written, scanned>>
    BY <1>0, <1>5 DEF Wrote, ApplyInv, cells
  <2>1. CASE UNCHANGED <<q, processing, tails>> /\ WriteQuits
    <3>1. run'["write"] \in {"idle", "quit"}
      BY <1>0, <2>1 DEF WriteQuits
    <3>2. Pipe' = Pipe
      BY <1>5, <2>1, PipeStays DEF Wrote
    <3> QED BY <1>3, <2>0, <2>1, <3>1, <3>2
  <2>2. CASE q' = [q EXCEPT !["write"] = Tail(@)] /\ processing' = processing - 1
    <3>1. Pipe' = Pipe \ {h} /\ h \in Pipe
      BY <1>5, <2>0, <2>2, WroteOrders DEF Wrote, book, cells
    <3>2. h = n /\ h \in 1 .. n
      BY <1>0, <1>1, <2>0, <3>1
    <3>3. \A b \in Pipe' : b > n
      BY <1>1, <3>1
    <3>4. 1 .. scanned = (1 .. n) \cup (Pipe' \ {Last})
      BY <1>1, <3>1, <3>2
    <3>5. run'["write"] # "wrote"
      BY <1>0, <1>5, <2>2 DEF Wrote, WriteQuits
    <3> QED BY <1>0, <1>1, <2>0, <3>3, <3>4, <3>5 DEF CoverInv
  <2> QED BY <1>5, <2>1, <2>2 DEF Wrote
<1>6. ASSUME Last \notin Pipe, Block, UNCHANGED <<hold, out, passed, written>>
      PROVE  CoverInv'
  <2>1. Pipe' = Pipe \cup {scanned + 1} /\ scanned' = scanned + 1 /\ scanned < N
    BY <1>6, BlockOrders DEF Block
  <2>2. q'["write"] = q["write"] /\ run'["write"] = run["write"]
    BY <1>0, <1>6 DEF Block, Push, TypeOK
  <2>3. 1 .. scanned' = (1 .. n) \cup (Pipe' \ {Last})
    <3>1. 1 .. (scanned + 1) = (1 .. scanned) \cup {scanned + 1}
      BY <1>0
    <3>2. scanned + 1 # Last
      BY <1>0, <2>1
    <3> QED BY <1>1, <2>1, <3>1, <3>2
  <2>4. scanned + 1 > n
    BY <1>0, <1>2
  <2> QED BY <1>0, <1>1, <1>6, <2>1, <2>2, <2>3, <2>4 DEF CoverInv
<1>7. CASE Response
  <2>1. Last \notin Pipe
    BY <1>7 DEF ScanInv, Response
  <2> QED BY <1>6, <1>7, <2>1 DEF Response, book
<1>8. CASE Finished
  <2>1. Last \notin Pipe
    BY <1>8 DEF ScanInv, Finished
  <2>2. CASE Block
    BY <1>6, <1>8, <2>1, <2>2 DEF Finished, book
  <2>3. CASE Push("intval", Last, run) /\ UNCHANGED <<scanned, processing, get, more>>
    <3>1. Pipe' = Pipe \cup {Last}
      BY <1>8, <2>1, <2>3, LastOrders DEF Finished, book
    <3>2. q'["write"] = q["write"] /\ run'["write"] = run["write"]
      BY <1>0, <2>3 DEF Push, TypeOK
    <3>3. Last > n /\ Pipe' \ {Last} = Pipe \ {Last}
      BY <1>0, <1>2, <3>1
    <3>4. UNCHANGED <<written, scanned>>
      BY <1>8, <2>3 DEF Finished
    <3> QED BY <1>0, <1>1, <3>1, <3>2, <3>3, <3>4 DEF CoverInv
  <2> QED BY <1>8, <2>2, <2>3 DEF Finished
<1>9. ASSUME NEW s \in Passing, Pop(s) PROVE CoverInv'
  <2>1. q'["write"] = q["write"] /\ run'["write"] = run["write"]
    BY <1>0, <1>9 DEF Pop, Passing, TypeOK
  <2>2. Pipe' = Pipe /\ UNCHANGED <<written, scanned>>
    BY <1>9, PopOrders DEF Pop
  <2> QED BY <1>3, <2>1, <2>2
<1>10. ASSUME NEW s \in Passing, PushHand(s) \/ PushOut(s) PROVE CoverInv'
  <2>1. Pipe' = Pipe /\ UNCHANGED <<written, scanned>>
    BY <1>10, PushHandOrders, PushOutOrders DEF PushHand, PushOut, cells
  <2>2. CASE q["write"] = <<>>
    <3>1. \A b \in Pipe : b > n
      BY <1>1, <2>2
    <3>2. run'["write"] # "wrote"
      BY <1>0, <1>10, <2>2, PushWrite
    <3> QED BY <1>0, <1>1, <2>1, <3>1, <3>2 DEF CoverInv
  <2>3. CASE q["write"] # <<>>
    <3>1. q'["write"] # <<>> /\ Head(q'["write"]) = h /\ run'["write"] = run["write"]
      BY <1>10, <2>3, PushWrite
    <3> QED BY <1>0, <1>1, <2>1, <3>1 DEF CoverInv
  <2> QED BY <2>2, <2>3
<1>11. CASE Keeps /\ ~Write
  <2>1. q' = q /\ Pipe' = Pipe /\ UNCHANGED scanned
    BY <1>11, KeepsWay, PipeStays
  <2>2. UNCHANGED written /\ (run'["write"] \in Unwritten => run["write"] \in Unwritten)
          /\ (run'["write"] = "wrote" => run["write"] = "wrote")
    <3> USE DEF pipe, cells
    <3>1. CASE \/ Initialize \/ InitTimeout \/ InitWaited \/ InitSplit \/ InitLogAgain
               \/ InitDone \/ ScanStart \/ ResponseEnd \/ Finishing \/ LogCompacted
               \/ LogDone \/ More
      BY <3>1 DEF Initialize, InitTimeout, InitWaited, InitSplit, InitLogAgain,
         InitDone, ScanStart, ResponseEnd, Finishing, LogCompacted, LogDone, More
    <3>2. ASSUME NEW s \in Stages, StageStart(s)
          PROVE  UNCHANGED written /\ (run'["write"] \in Unwritten => run["write"] \in Unwritten)
                   /\ (run'["write"] = "wrote" => run["write"] = "wrote")
      BY <1>0, <3>2 DEF StageStart
    <3>3. CASE WriteMore
      BY <1>0, <3>3 DEF WriteMore
    <3>4. CASE Finalize
      BY <1>0, <3>4 DEF Finalize, WriteQuits
    <3>5. CASE FinalWait
      BY <1>0, <3>5 DEF FinalWait, WriteQuits
    <3>6. CASE Apply
      BY <1>0, <3>6 DEF Apply, WriteQuits
    <3>7. CASE \/ Created \/ Split \/ Registered \/ Unloaded \/ EndTask \/ StopBegin
               \/ Stop \/ Unload \/ Timer
      BY <3>7 DEF Created, Split, Registered, Unloaded, EndTask, StopBegin, Stop,
         Unload, Timer, TimerFires, TimerChecks, TimerRearms
    <3>8. CASE \E w \in Enders : Completion(w)
      BY <1>0, <3>8 DEF Completion, Leave
    <3> QED BY <1>11, <3>1, <3>2, <3>3, <3>4, <3>5, <3>6, <3>7, <3>8 DEF Keeps
  <2> QED BY <1>3, <2>1, <2>2
<1> QED BY <1>4, <1>5, <1>7, <1>8, <1>9, <1>10, <1>11, NextIs

-----------------------------------------------------------------------------
LEMMA CompactInit == Init => CompactInv
<1> SUFFICES ASSUME Init PROVE CompactInv
  OBVIOUS
<1> USE CompactAssumption DEF Stages, Passing
<1>0. N \in Nat /\ Last = N + 1
  BY DEF Last
<1>1. TypeOK
  <2>1. <<>> \in Seq(1 .. Last) /\ <<>> \in Seq(1 .. N)
    OBVIOUS
  <2>2. Types
    <3>1. TypeEnds
      BY DEF Init, TypeEnds
    <3>2. TypeFlow
      BY DEF Init, TypeFlow
    <3>3. TypePipe
      BY <1>0, <2>1 DEF Init, TypePipe
    <3>4. TypeReqs
      BY DEF Init, TypeReqs
    <3>5. TypeRange
      BY DEF Init, TypeRange, States
    <3>6. TypeCells
      <4>1. scanned \in 0 .. N /\ bad \subseteq 1 .. N
        BY <1>0 DEF Init
      <4>2. written \in Seq(1 .. N)
        BY <2>1 DEF Init
      <4>3. tmp \in BOOLEAN /\ applied \in BOOLEAN
        BY DEF Init
      <4> QED BY <4>1, <4>2, <4>3 DEF TypeCells
    <3>7. TypeBook
      <4>1. listed \in BOOLEAN /\ passed \in BOOLEAN
        BY DEF Init
      <4>2. ended \in Nat
        BY DEF Init
      <4>3. faults \in 0 .. MaxFaults
        BY DEF Init
      <4> QED BY <4>1, <4>2, <4>3 DEF TypeBook
    <3> QED BY <3>1, <3>2, <3>3, <3>4, <3>5, <3>6, <3>7 DEF Types
  <2>3. processing \in 0 .. N
    BY <1>0 DEF Init
  <2> QED BY <2>2, <2>3, TypesAre
<1>2. \A s \in Stages : q[s] = <<>> /\ run[s] = "idle"
  BY DEF Init
<1>3. \A s \in Passing : hold[s] = 0 /\ out[s] = {}
  BY DEF Init
<1>4. \A i \in 1 .. 5 : Part[i] = {}
  <2>1. \A i \in 1 .. 5 : i = 1 \/ i = 2 \/ i = 3 \/ i = 4 \/ i = 5
    OBVIOUS
  <2>2. Elems(<<>>) = {}
    BY DEF Elems
  <2>3. \A s \in Passing : Between(s) = {}
    BY <1>3 DEF Between
  <2> QED BY <1>2, <2>1, <2>2, <2>3, PartIs
<1>5. Pipe = {}
  BY <1>4 DEF Pipe, All
<1>6. WayInv
  <2>1. DistinctInv
    BY <1>2, <1>3, <1>4 DEF DistinctInv, Apart, Once
  <2>2. OrderInv
    BY <1>2, <1>4 DEF OrderInv, Ahead, Rising
  <2>3. CountInv
    <3>1. Cardinality({}) = 0 /\ Pipe \ {Last} = {}
      BY <1>5, FS_EmptySet
    <3> QED BY <1>5, <3>1 DEF CountInv, Init
  <2> QED BY <2>1, <2>2, <2>3 DEF WayInv
<1>7. RunInv
  BY <1>2, <1>3 DEF RunInv
<1>8. Still
  BY <1>2, <1>3 DEF Init, Still
<1>9. ScanInv
  BY <1>5, <1>8 DEF Init, ScanInv
<1>10. ApplyInv
  BY <1>2 DEF Init, ApplyInv
<1>11. CoverInv
  BY <1>0, <1>2, <1>5 DEF Init, CoverInv, Unwritten
<1>12. EndInv /\ FinInv
  BY DEF Init, EndInv, FinInv, One
<1>13. EndsAlone
  BY <1>1 DEF Init, EndsAlone
<1> QED BY <1>6, <1>7, <1>9, <1>10, <1>11, <1>12, <1>13 DEF CompactInv

LEMMA CompactStays == CompactInv /\ [Next]_vars => CompactInv'
<1> SUFFICES ASSUME CompactInv, [Next]_vars PROVE CompactInv'
  OBVIOUS
<1>0. /\ EndsAlone /\ WayInv /\ RunInv /\ ScanInv /\ ApplyInv /\ CoverInv /\ EndInv
      /\ FinInv /\ TypeOK
  BY DEF CompactInv, EndsAlone
<1>1. CASE Next
  <2>1. TypeOK' /\ WayInv' /\ RunInv' /\ ScanInv'
    BY <1>0, <1>1, TypeStep, WayStep, RunStep, ScanStep
  <2>2. EndsAlone' /\ EndInv' /\ FinInv'
    BY <1>0, <1>1, <2>1, QuietStep, EndStep, FinStep
  <2>3. ApplyInv' /\ CoverInv'
    BY <1>0, <1>1, ApplyStep, CoverStep
  <2> QED BY <2>1, <2>2, <2>3 DEF CompactInv
<1>2. CASE UNCHANGED vars
  <2> USE DEF vars, ends, flow, pipe, reqs, range, cells, book
  <2>1. Part' = Part /\ Pipe' = Pipe /\ Last' = Last
    BY <1>2, PipeStays DEF Last
  <2>2. WayInv'
    BY <1>0, <1>2, <2>1 DEF WayInv, DistinctInv, OrderInv, CountInv
  <2>3. RunInv' /\ EndInv' /\ FinInv'
    BY <1>0, <1>2 DEF RunInv, EndInv, FinInv
  <2>4. ScanInv'
    BY <1>0, <1>2, <2>1 DEF ScanInv, Still
  <2>5. ApplyInv' /\ CoverInv'
    BY <1>0, <1>2, <2>1 DEF ApplyInv, CoverInv
  <2>6. EndsAlone'
    BY <1>0, <1>2 DEF EndsAlone, TypeOK
  <2> QED BY <2>2, <2>3, <2>4, <2>5, <2>6 DEF CompactInv
<1> QED BY <1>1, <1>2

\* The inductive invariant of a compaction: where its blocks are, which tasks
\* its queues have, and who is in completion.
THEOREM CompactInvariant == Spec => []CompactInv
BY CompactInit, CompactStays, PTL DEF Spec

\* CompactRange::finished, quit and Compaction::compacted: when the compaction
\* is counted as ended nothing of it is under way.
THEOREM CompactionEndsAlone == Spec => []EndsAlone
<1>1. CompactInv => EndsAlone
  BY DEF CompactInv
<1> QED BY CompactInvariant, <1>1, PTL

\* CompactRange::response sets COMPACT_APPLYING for good: the timer
\* (progress_check_timer) and create_cs do not let updates in again.
THEOREM GateIsHeld == Spec => []GateHeld
<1>1. CompactInv => GateHeld
  BY DEF CompactInv, FinInv, GateHeld
<1> QED BY CompactInvariant, <1>1, PTL

\* process_interval, process_encode, process_write and finalize: unless a block
\* was passed by a later one, the new cell stores have the blocks in order and,
\* when applied, all of them; they are there when they are to be applied.
THEOREM StoresAreComplete == Spec => []StoresComplete
<1>1. CompactInv => StoresComplete
  <2> SUFFICES ASSUME CompactInv PROVE StoresComplete
    OBVIOUS
  <2>0. TypeOK /\ WayInv /\ ApplyInv /\ CoverInv
    BY DEF CompactInv, EndsAlone
  <2>1. run["write"] = "apply" \/ mng \in {"create", "split", "apply"} => tmp
    BY <2>0 DEF ApplyInv
  <2>2. ASSUME ~passed
        PROVE  \A i \in 1 .. Len(written) : written[i] = i
    BY <2>0, <2>2 DEF CoverInv
  <2>3. ASSUME ~passed, applied PROVE Len(written) = scanned
    <3>1. q["write"] # <<>> /\ Head(q["write"]) = Last
      BY <2>0, <2>3 DEF ApplyInv
    <3>2. Last \in Pipe /\ \A b \in Pipe : b = Last \/ Last < b
      BY <2>0, <2>3, <3>1, HeadFirst
    <3>3. Pipe \subseteq 1 .. Last /\ Last \in Nat /\ scanned \in Nat
      BY <2>0, PartTypes
    <3>4. Pipe \ {Last} = {}
      BY <3>2, <3>3
    <3>5. 1 .. scanned = 1 .. Len(written)
      BY <2>0, <2>3, <3>4 DEF CoverInv
    <3>6. Len(written) \in Nat
      BY <2>0, LenProperties DEF TypeOK
    <3> QED BY <3>3, <3>5, <3>6
  <2> QED BY <2>1, <2>2, <2>3 DEF StoresComplete
<1> QED BY CompactInvariant, <1>1, PTL
-----------------------------------------------------------------------------
(***************************************************************************)
(* A compaction that is listed is somebody's.  Ends is this, and fairness. *)
(***************************************************************************)

\* Who stops the compaction is in completion until it is no longer listed.
HeldInv == listed /\ stopped => ending # "none"

\* A queue with items has a task; is_last stays in its queue while the new cell
\* stores are applied.
TaskInv ==
  ~stopped => \A s \in Stages : q[s] # <<>> =>
    run[s] # "idle" \/ (s = "write" /\ (mng # "none" \/ done # "none"))

\* m_get is held by somebody, or for good.
GetInv ==
  listed /\ ~stopped /\ get =>
    init # "none" \/ scan # "none" \/ quitter # "none" \/ Last \in Pipe

\* There are blocks on their way, or one who is to ask for more.
GoesInv ==
  listed /\ ~stopped =>
    \/ init # "none" \/ scan # "none" \/ quitter # "none" \/ more > 0
    \/ tails > 0 \/ Pipe # {}

\* A compaction that is listed, and that a stop or an unload of the range waits
\* for, is about to be ended, or is worked on: a scan, a task or a request of
\* it is under way.  Of the calls of request_more that find blocks enough on
\* their way, or m_get held by another, and of those that find their queue
\* empty while the next item comes, none is the last.
Attended ==
  listed =>
    \/ ending # "none"
    \/ /\ ~stopped
       /\ \/ init # "none" \/ scan # "none" \/ more > 0 \/ tails > 0
          \/ quitter # "none" \/ mng # "none" \/ done # "none"
          \/ \E s \in Stages : run[s] # "idle"
          \/ \E s \in Passing : out[s] # {}

\* Who enters completion stops the compaction, and who leaves it ends it.
LEMMA HeldStep ==
  ASSUME TypeOK, EndInv, HeldInv, Next
  PROVE  HeldInv' /\ (stopped => stopped') /\ (listed' => listed)
<1> USE DEF ends, book
<1>1. ASSUME UNCHANGED <<listed, stopped, ending>>
      PROVE  HeldInv' /\ (stopped => stopped') /\ (listed' => listed)
  BY <1>1 DEF HeldInv
<1>2. ASSUME NEW w \in Enders, Enter(w), UNCHANGED listed
      PROVE  HeldInv' /\ (stopped => stopped') /\ (listed' => listed)
  BY <1>2 DEF Enter, HeldInv, Enders
<1>3. CASE InitTimeout
  BY <1>3 DEF InitTimeout, Compacted, HeldInv
<1>4. CASE Initialize \/ InitWaited \/ InitSplit \/ InitLogAgain \/ InitDone
  BY <1>1, <1>2, <1>4 DEF Initialize, InitWaited, InitSplit, InitLogAgain, InitDone, Enders
<1>5. CASE ScanStart \/ ResponseEnd \/ Response \/ Finishing \/ Finished \/ LogCompacted
             \/ LogDone \/ More
  BY <1>1, <1>5 DEF ScanStart, ResponseEnd, Response, Finishing, Finished, LogCompacted,
     LogDone, More
<1>6. CASE (\E s \in Stages : StageStart(s))
             \/ \E s \in Passing : Pop(s) \/ PushHand(s) \/ PushOut(s)
  BY <1>1, <1>6 DEF StageStart, Pop, PushHand, PushOut
<1>7. CASE Write \/ Wrote \/ WriteMore \/ Finalize
  BY <1>1, <1>2, <1>7 DEF Write, Wrote, WriteMore, Finalize, Enders
<1>8. CASE FinalWait \/ Apply \/ Created \/ Split \/ Registered \/ Unloaded
  BY <1>1, <1>2, <1>8 DEF FinalWait, Apply, Created, Split, Registered, Unloaded, Enders
<1>9. CASE EndTask \/ Stop \/ StopBegin \/ Unload \/ Timer
  BY <1>1, <1>2, <1>9 DEF EndTask, Stop, StopBegin, Unload, Timer, TimerFires, TimerChecks,
     TimerRearms, Enders
<1>10. CASE \E w \in Enders : Completion(w)
  BY <1>10 DEF Completion, Leave, Compacted, HeldInv
<1> QED BY <1>3, <1>4, <1>5, <1>6, <1>7, <1>8, <1>9, <1>10 DEF Next, Work

\* A push posts a task for the first item, and a pop leaves the task to the
\* items behind.
LEMMA TaskStep ==
  ASSUME TypeOK, RunInv, ApplyInv, EndInv, TaskInv, Next, stopped => stopped'
  PROVE  TaskInv'
<1> SUFFICES ASSUME ~stopped' PROVE TaskInv'
  BY DEF TaskInv
<1> USE DEF Stages, Passing, ends, reqs, pipe
<1>0. /\ q \in [Stages -> Seq(1 .. Last)] /\ ~stopped
      /\ run \in [Stages -> {"idle", "posted", "work", "hand", "wrote", "more",
                             "final", "apply", "quit"}]
      /\ "write" \in Stages /\ "write" \notin Passing /\ Passing \subseteq Stages
      /\ \A w : ~Enter(w)
      /\ \A s \in Stages : q[s] # <<>> =>
           run[s] # "idle" \/ (s = "write" /\ (mng # "none" \/ done # "none"))
  BY DEF TypeOK, Enter, TaskInv
<1>1. ASSUME UNCHANGED <<q, run>>,
             mng # "none" \/ done # "none" => mng' # "none" \/ done' # "none"
      PROVE  TaskInv'
  BY <1>0, <1>1 DEF TaskInv
<1>2. ASSUME NEW s \in Stages, NEW to, to # "idle", run' = [run EXCEPT ![s] = to],
             UNCHANGED <<q, mng, done>>
      PROVE  TaskInv'
  BY <1>0, <1>2 DEF TaskInv
<1>3. ASSUME NEW s \in Stages, NEW b, NEW r, Push(s, b, r), UNCHANGED <<mng, done>>,
             r \in [Stages -> {"idle", "posted", "work", "hand", "wrote",
                               "more", "final", "apply", "quit"}],
             \A t \in Stages : run[t] # "idle" => r[t] # "idle"
      PROVE  TaskInv'
  <2>1. \A t \in Stages : t # s => q'[t] = q[t]
    BY <1>0, <1>3 DEF Push
  <2>2. \A t \in Stages : run[t] # "idle" => run'[t] # "idle"
    BY <1>0, <1>3 DEF Push
  <2>3. q[s] = <<>> => run'[s] # "idle"
    BY <1>0, <1>3 DEF Push
  <2> QED BY <1>0, <1>3, <2>1, <2>2, <2>3 DEF TaskInv
<1>4. CASE Response \/ Finished
  BY <1>0, <1>3, <1>4 DEF Response, Finished, Block
<1>5. ASSUME NEW s \in Stages, StageStart(s) PROVE TaskInv'
  BY <1>2, <1>5 DEF StageStart
<1>6. ASSUME NEW s \in Stages, q' = [q EXCEPT ![s] = Tail(@)], q[s] # <<>>,
             UNCHANGED <<mng, done>>, NEW to, run' = [run EXCEPT ![s] = to],
             to = "idle" => ~(Len(q[s]) > 1)
      PROVE  TaskInv'
  <2>1. to = "idle" => Tail(q[s]) = <<>>
    BY <1>0, <1>6, NoneLeft
  <2> QED BY <1>0, <1>6, <2>1 DEF TaskInv
<1>7. ASSUME NEW s \in Passing, Pop(s) PROVE TaskInv'
  <2>1. q[s] # <<>> /\ q' = [q EXCEPT ![s] = Tail(@)] /\ UNCHANGED <<mng, done>>
    BY <1>0, <1>7 DEF Pop, RunInv
  <2>2. CASE run' = [run EXCEPT ![s] = "hand"]
    BY <1>0, <1>6, <1>7, <2>1, <2>2
  <2>3. CASE run' = [run EXCEPT ![s] = "idle"] /\ Len(q[s]) = 1
    <3>1. ~(Len(q[s]) > 1) /\ s \in Stages
      BY <1>0, <2>3
    <3> QED BY <1>6, <2>1, <2>3, <3>1
  <2> QED BY <1>0, <1>7, <2>2, <2>3 DEF Pop
<1>8. ASSUME NEW s \in Passing, PushHand(s) PROVE TaskInv'
  <2> DEFINE r == [run EXCEPT ![s] = "work"]
  <2>1. After(s) \in Stages /\ UNCHANGED <<mng, done>> /\ Push(After(s), hold[s], r)
    BY <1>8 DEF PushHand, After
  <2>2. /\ r \in [Stages -> {"idle", "posted", "work", "hand", "wrote",
                             "more", "final", "apply", "quit"}]
        /\ \A t \in Stages : run[t] # "idle" => r[t] # "idle"
    BY <1>0
  <2> HIDE DEF r
  <2> QED BY <1>3, <2>1, <2>2
<1>9. ASSUME NEW s \in Passing, PushOut(s) PROVE TaskInv'
  <2>1. PICK b \in out[s] : Push(After(s), b, run) /\ UNCHANGED <<mng, done>>
    BY <1>9 DEF PushOut
  <2>2. After(s) \in Stages
    BY DEF After
  <2> QED BY <1>0, <1>3, <2>1, <2>2
<1>10. CASE Write \/ Finalize \/ FinalWait
  BY <1>0, <1>2, <1>10 DEF Write, Finalize, FinalWait
<1>11. CASE Apply
  <2>1. mng' # "none" /\ UNCHANGED <<q, done>> /\ run' = [run EXCEPT !["write"] = "idle"]
    BY <1>0, <1>11 DEF Apply
  <2> QED BY <1>0, <2>1 DEF TaskInv
<1>12. CASE Wrote
  <2>1. /\ q' = [q EXCEPT !["write"] = Tail(@)] /\ UNCHANGED <<mng, done>>
        /\ q["write"] # <<>>
    BY <1>0, <1>12 DEF Wrote, RunInv
  <2>2. IF Len(q["write"]) > 1 THEN run' = [run EXCEPT !["write"] = "more"]
                               ELSE run' = [run EXCEPT !["write"] = "idle"]
    BY <1>0, <1>12 DEF Wrote
  <2> QED BY <1>0, <1>6, <2>1, <2>2
<1>13. CASE WriteMore
  BY <1>0, <1>1, <1>2, <1>13 DEF WriteMore
<1>14. CASE \E w \in Enders : Completion(w)
  BY <1>0, <1>14 DEF Completion, Leave, EndInv, Enders
<1>15. CASE \/ Initialize \/ InitTimeout \/ InitWaited \/ InitSplit \/ InitLogAgain
            \/ InitDone \/ ScanStart \/ ResponseEnd \/ Finishing \/ LogCompacted
            \/ LogDone \/ More
  BY <1>1, <1>15 DEF Initialize, InitTimeout, InitWaited, InitSplit, InitLogAgain,
     InitDone, ScanStart, ResponseEnd, Finishing, LogCompacted, LogDone, More
<1>16. CASE \/ Created \/ Split \/ Registered \/ Unloaded \/ EndTask \/ StopBegin
            \/ Stop \/ Unload \/ Timer
  BY <1>0, <1>1, <1>16 DEF Created, Split, Registered, Unloaded, EndTask, StopBegin, Stop,
     Unload, Timer, TimerFires, TimerChecks, TimerRearms
<1> QED BY <1>4, <1>5, <1>7, <1>8, <1>9, <1>10, <1>11, <1>12, <1>13, <1>14, <1>15,
           <1>16 DEF Next, Work

\* request_more asks for more, unless somebody else is to.
LEMMA MoreAsked ==
  ASSUME TypeOK, CountInv, GetInv, listed, ~stopped, RequestMore
  PROVE  /\ scan # "none" => scan' # "none"
         /\ get' => \/ init # "none" \/ scan' # "none" \/ quitter # "none"
                    \/ Last \in Pipe
         /\ \/ init # "none" \/ scan' # "none" \/ quitter # "none"
            \/ Pipe # {}
<1>1. CASE get' = TRUE /\ scan' = "posted"
  BY <1>1
<1>2. CASE get /\ UNCHANGED <<get, scan>>
  BY <1>2 DEF GetInv
<1>3. CASE ~get /\ processing > 0 /\ UNCHANGED <<get, scan>>
  <2>1. Pipe \ {Last} # {}
    BY <1>3, FS_EmptySet DEF CountInv
  <2> QED BY <1>3, <2>1
<1> QED BY <1>1, <1>2, <1>3 DEF RequestMore

\* A block that is written may be the only one on its way: who wrote it is
\* still to ask for more.
LEMMA WroteGoes ==
  ASSUME TypeOK, WayInv, RunInv, ApplyInv, Wrote, ~stopped'
  PROVE  /\ Last \in Pipe => Last \in Pipe'
         /\ tails' > 0 \/ Pipe' # {}
<1> USE DEF Stages
<1>0. ~stopped /\ \A w : ~Enter(w)
  BY DEF Wrote, Enter
<1>1. /\ q' = [q EXCEPT !["write"] = Tail(@)] /\ processing' = processing - 1
      /\ q["write"] # <<>> /\ Head(q["write"]) # Last /\ tails \in Nat
      /\ q \in [Stages -> Seq(1 .. Last)] /\ UNCHANGED <<hold, out, passed, scanned>>
  BY <1>0 DEF Wrote, RunInv, ApplyInv, TypeOK, cells, book
<1>2. Last \in Pipe => Last \in Pipe'
  BY <1>1, WroteOrders
<1>3. CASE Len(q["write"]) > 1
  <2>1. Tail(q["write"]) # <<>> /\ q'["write"] = Tail(q["write"])
        /\ Tail(q["write"]) \in Seq(1 .. Last)
    BY <1>1, <1>3, SomeLeft, HeadTailProperties
  <2>2. 1 \in 1 .. Len(q'["write"])
    BY <2>1, EmptySeq, LenProperties
  <2>3. q'["write"][1] \in Part'[1]
    BY <2>2, PartIs DEF Elems
  <2>4. q'["write"][1] \in Pipe'
    BY <2>3 DEF Pipe, All
  <2> QED BY <1>2, <2>4
<1>4. CASE ~(Len(q["write"]) > 1)
  <2>1. tails' = tails + 1
    BY <1>0, <1>4 DEF Wrote
  <2> QED BY <1>1, <1>2, <2>1
<1> QED BY <1>3, <1>4

\* Somebody goes on: one case for each that may have been the last.
LEMMA GoesStep ==
  ASSUME CompactInv, GetInv, GoesInv, Next, stopped => stopped', listed' => listed
  PROVE  GetInv' /\ GoesInv'
<1> SUFFICES ASSUME listed', ~stopped'
             PROVE  /\ get' => \/ init' # "none" \/ scan' # "none" \/ quitter' # "none"
                               \/ Last \in Pipe'
                    /\ \/ init' # "none" \/ scan' # "none" \/ quitter' # "none" \/ more' > 0
                       \/ tails' > 0 \/ Pipe' # {}
  BY DEF GetInv, GoesInv, Last
<1> DEFINE G == /\ get' => \/ init' # "none" \/ scan' # "none" \/ quitter' # "none"
                           \/ Last \in Pipe'
                /\ \/ init' # "none" \/ scan' # "none" \/ quitter' # "none" \/ more' > 0
                   \/ tails' > 0 \/ Pipe' # {}
<1> USE DEF flow, reqs, pipe
<1>0. /\ listed /\ ~stopped /\ \A w : ~Enter(w)
      /\ TypeOK /\ WayInv /\ CountInv /\ RunInv /\ ScanInv /\ ApplyInv /\ EndInv
      /\ more \in Nat /\ tails \in Nat
  BY DEF Enter, CompactInv, EndsAlone, WayInv, TypeOK
<1>1. ASSUME init' # "none" \/ scan' # "none" \/ quitter' # "none" PROVE G
  BY <1>1
<1>2. ASSUME UNCHANGED <<init, scan, quitter, get, more, tails>>, Pipe' = Pipe PROVE G
  BY <1>0, <1>2 DEF GetInv, GoesInv
<1>3. ASSUME RequestMore, UNCHANGED <<init, quitter>>, Pipe' = Pipe PROVE G
  BY <1>0, <1>3, MoreAsked
<1>4. CASE Keeps
  <2>1. Pipe' = Pipe
    BY <1>4, KeepsWay, PipeStays
  <2>2. CASE Initialize \/ InitTimeout \/ InitWaited \/ InitSplit \/ InitLogAgain \/ InitDone
    <3>1. ~InitTimeout
      BY DEF InitTimeout, Compacted
    <3> QED BY <1>0, <1>1, <2>2, <3>1 DEF Initialize, InitWaited, InitSplit, InitLogAgain,
               InitDone
  <2>3. CASE ScanStart \/ ResponseEnd \/ Finishing \/ LogCompacted
    BY <1>0, <1>1, <2>3 DEF ScanStart, ResponseEnd, Finishing, LogCompacted
  <2>4. CASE LogDone
    BY <1>0, <2>4 DEF LogDone
  <2>5. CASE More \/ WriteMore
    BY <1>3, <2>1, <2>5 DEF More, WriteMore
  <2>6. CASE (\E s \in Stages : StageStart(s)) \/ Write \/ Finalize \/ FinalWait \/ Apply
    BY <1>2, <2>1, <2>6 DEF StageStart, Write, Finalize, FinalWait, Apply
  <2>7. CASE Created \/ Split \/ Registered \/ Unloaded \/ StopBegin \/ Stop \/ Unload
    BY <1>2, <2>1, <2>7 DEF Created, Split, Registered, Unloaded, StopBegin, Stop, Unload
  <2>8. ~EndTask /\ \A w \in Enders : ~Completion(w)
    BY <1>0 DEF EndTask, Completion, Leave, Compacted
  <2>9. CASE Timer
    BY <1>2, <1>3, <2>1, <2>9 DEF Timer, TimerFires, TimerChecks, TimerRearms
  <2> QED BY <1>4, <2>2, <2>3, <2>4, <2>5, <2>6, <2>7, <2>8, <2>9 DEF Keeps
<1>5. CASE Response
  BY <1>1, <1>5 DEF Response
<1>6. CASE Finished
  <2>1. CASE get' = FALSE /\ more' = more + 1
    BY <1>0, <2>1
  <2>2. CASE Push("intval", Last, run) /\ UNCHANGED <<scanned, processing, get, more>>
    <3>1. Last \notin Pipe
      BY <1>0, <1>6 DEF ScanInv, Finished
    <3>2. Pipe' = Pipe \cup {Last}
      BY <1>0, <1>6, <2>2, <3>1, LastOrders DEF Finished, book
    <3> QED BY <3>2
  <2> QED BY <1>0, <1>6, <2>1, <2>2 DEF Finished
<1>7. CASE Wrote
  <2>1. UNCHANGED <<init, scan, quitter, get>>
    BY <1>7 DEF Wrote
  <2> QED BY <1>0, <1>7, <2>1, WroteGoes DEF GetInv
<1>8. ASSUME NEW s \in Passing, Pop(s) \/ PushHand(s) \/ PushOut(s) PROVE G
  <2>1. Pipe' = Pipe
    BY <1>0, <1>8, PopOrders, PushHandOrders, PushOutOrders
  <2> QED BY <1>2, <1>3, <1>8, <2>1 DEF Pop, PushHand, PushOut
<1> QED BY <1>4, <1>5, <1>6, <1>7, <1>8, NextIs

\* CompactRange::request_more, process_interval, process_encode, process_write
\* and completion: a compaction that is listed is never nobody's, for any number
\* of blocks and threads, and any read-ahead.
THEOREM CompactionAttended == Spec => []Attended
<1> DEFINE WorkInv == HeldInv /\ TaskInv /\ GetInv /\ GoesInv
<1>1. Init => WorkInv
  BY DEF Init, HeldInv, TaskInv, GetInv, GoesInv, Stages
<1>2. CompactInv /\ WorkInv /\ [Next]_vars => WorkInv'
  <2> SUFFICES ASSUME CompactInv, WorkInv, [Next]_vars PROVE WorkInv'
    OBVIOUS
  <2>0. TypeOK /\ RunInv /\ ApplyInv /\ EndInv
    BY DEF CompactInv, EndsAlone
  <2>1. CASE Next
    BY <2>0, <2>1, HeldStep, TaskStep, GoesStep
  <2>2. CASE UNCHANGED vars
    <3> USE DEF vars, ends, flow, pipe, reqs, book
    <3>1. Pipe' = Pipe /\ Last' = Last
      BY <2>2, PipeStays DEF Last
    <3> QED BY <2>2, <3>1 DEF HeldInv, TaskInv, GetInv, GoesInv
  <2> QED BY <2>1, <2>2
<1>3. CompactInv /\ WorkInv => Attended
  <2> SUFFICES ASSUME CompactInv, WorkInv, listed, ending = "none"
               PROVE  /\ ~stopped
                      /\ \/ init # "none" \/ scan # "none" \/ more > 0 \/ tails > 0
                         \/ quitter # "none" \/ mng # "none" \/ done # "none"
                         \/ \E s \in Stages : run[s] # "idle"
                         \/ \E s \in Passing : out[s] # {}
    BY DEF Attended
  <2>1. ~stopped
    BY DEF HeldInv
  <2>2. ASSUME Pipe # {}
        PROVE  \/ \E s \in Stages : q[s] # <<>>
               \/ \E s \in Passing : out[s] # {} \/ hold[s] # 0
    <3>1. PICK i \in 1 .. 5 : Part[i] # {}
      BY <2>2 DEF Pipe, All
    <3>2. \A s \in Stages : Elems(q[s]) # {} => q[s] # <<>>
      BY DEF Elems
    <3>3. \A s \in Passing : Between(s) # {} => out[s] # {} \/ hold[s] # 0
      BY DEF Between
    <3>4. i = 1 \/ i = 2 \/ i = 3 \/ i = 4 \/ i = 5
      OBVIOUS
    <3> QED BY <3>1, <3>2, <3>3, <3>4, PartIs DEF Stages, Passing
  <2>3. \A s \in Passing : hold[s] # 0 => run[s] # "idle" /\ s \in Stages
    BY DEF CompactInv, RunInv, Stages, Passing
  <2> QED BY <2>1, <2>2, <2>3 DEF TaskInv, GoesInv
<1> QED BY <1>1, <1>2, <1>3, CompactInvariant, PTL DEF Spec

=============================================================================
