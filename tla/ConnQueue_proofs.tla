-------------------------- MODULE ConnQueue_proofs --------------------------
(***************************************************************************)
(* Proofs about ConnQueue, for any requests, any number of connections and *)
(* of tries, and any number of ids above that of the requests.             *)
(*                                                                         *)
(* ConnInv is the inductive invariant.  OnePlace is shown for sets before  *)
(* it is shown for numbers: the sets of requests at each place are apart   *)
(* (Apart), none of them has a request twice (Singles), and together they  *)
(* are the requests that are not answered (Owed).  Every step takes some   *)
(* requests S from where they are to one place, J, and answers the others  *)
(* (Moves); what a step has to show of itself is which ones.               *)
(*                                                                         *)
(* ServeInv, at the end, says who serves the two queues: NotLeft.          *)
(***************************************************************************)
EXTENDS ConnQueue, FiniteSetTheorems, SequenceTheorems, WellFoundedInduction,
        TLAPS

-----------------------------------------------------------------------------
(***************************************************************************)
(* The inductive invariant.                                                *)
(***************************************************************************)

\* The items of a queue; none of them twice.
Elems(s) == {s[i] : i \in 1 .. Len(s)}
Once(s) == \A i, j \in 1 .. Len(s) : s[i] = s[j] => i = j

\* The requests at each place.
InWait == {r \in Reqs : wait[r] # "none"}
InQ == Elems(q)
InOut(c) == Elems(outq[c])
InWrite(c) == {r \in Reqs : [at |-> "write", r |-> r] \in wr[c]}
InPend(c) == {e.r : e \in pend[c]}

\* On no connection.
Off(r) == \A c \in Conns : r \notin InOut(c) /\ r \notin InWrite(c) /\ r \notin InPend(c)

\* A request is at one place.
Apart ==
  \A r \in Reqs :
    /\ r \in InWait => r \notin task /\ r \notin InQ /\ Off(r)
    /\ r \in task => r \notin InQ /\ Off(r)
    /\ r \in InQ => Off(r)
    /\ \A c, d \in Conns :
         /\ r \in InOut(c) => r \notin InWrite(d) /\ r \notin InPend(d)
         /\ r \in InWrite(c) => r \notin InPend(d)
         /\ r \in InOut(c) /\ r \in InOut(d) => c = d
         /\ r \in InWrite(c) /\ r \in InWrite(d) => c = d
         /\ r \in InPend(c) /\ r \in InPend(d) => c = d

\* It is at one exactly when it is not answered.
Owed ==
  \A r \in Reqs :
    r \in owed <=> r \in InWait \/ r \in task \/ r \in InQ \/ ~Off(r)

\* It is there once.
Singles ==
  /\ Once(q)
  /\ \A c \in Conns :
       /\ Once(outq[c])
       /\ \A e, f \in pend[c] : e.r = f.r => e = f

\* Who has m_q_state, and what run_queue has in hand.
RunInv ==
  /\ runner # "none" <=> qown = "run"
  /\ qown = "stop" <=> stopper \in {"drain", "close"}
  /\ runner # "none" => q # <<>>
  /\ runner = "send" => rconn \in Conns
  /\ stopper # "none" => ~listed
  /\ new \cap owed = {}

\* On a connection an id is used once, as long as they only go up.
IdInv ==
  ~back =>
    /\ ~crossed
    /\ \A c \in Conns :
         /\ \A e \in pend[c] : e.id <= nid[c]
         /\ \A m \in net[c] :
              /\ m.id <= nid[c]
              /\ \A e \in pend[c] : m.id = e.id => m.r = e.r

ConnInv == TypeOK /\ Singles /\ Apart /\ Owed /\ RunInv /\ IdInv

\* The types, by what they are about.
TypeQueue ==
  /\ q \in Seq(Reqs) /\ qown \in {"none", "run", "stop"}
  /\ runner \in {"none", "front", "send"}
  /\ rconn \in 0 .. MaxConns /\ mconn \in 0 .. MaxConns
  /\ connecting \in BOOLEAN /\ made \in 0 .. MaxConns
TypeClose ==
  /\ keep \in BOOLEAN /\ idc \in -1 .. MaxConns /\ listed \in BOOLEAN
  /\ stopper \in {"none", "acquire", "drain", "close", "end"}
  /\ sc \in 0 .. MaxConns
TypeLink ==
  /\ up \in [Conns -> BOOLEAN] /\ reader \in [Conns -> BOOLEAN]
  /\ dis \in [Conns -> SUBSET Closers]
  /\ net \in [Conns -> SUBSET [id : Ids, r : Reqs, try : 0 .. MaxTries]]
TypeSends ==
  /\ active \in [Conns -> BOOLEAN] /\ outq \in [Conns -> Seq(Reqs)]
  /\ wr \in [Conns -> SUBSET [at : {"write", "async"}, r : Reqs]]
  /\ pend \in [Conns -> SUBSET [id : Ids, r : Reqs]]
  /\ nid \in [Conns -> 0 .. MaxId]
TypeReq ==
  /\ hid \in [Reqs -> 0 .. MaxId] /\ tries \in [Reqs -> 0 .. MaxTries]
  /\ wait \in [Reqs -> {"none", "delayed", "put", "aborted"}]
  /\ new \subseteq Reqs /\ task \subseteq Reqs /\ owed \subseteq Reqs
TypeHist == {back, crossed, missed} \subseteq BOOLEAN
Types == TypeQueue /\ TypeClose /\ TypeLink /\ TypeSends /\ TypeReq /\ TypeHist

LEMMA TypesAre == TypeOK <=> Types
BY DEF TypeOK, Types, TypeQueue, TypeClose, TypeLink, TypeSends, TypeReq, TypeHist

-----------------------------------------------------------------------------
(***************************************************************************)
(* Queues.                                                                 *)
(***************************************************************************)

\* The head of a queue leaves it.
LEMMA HeadGoes ==
  ASSUME NEW S, NEW s \in Seq(S), s # <<>>, Once(s)
  PROVE  /\ Head(s) \in Elems(s) /\ Head(s) \in S
         /\ Elems(Tail(s)) = Elems(s) \ {Head(s)}
         /\ Tail(s) \in Seq(S) /\ Once(Tail(s))
<1>1. /\ Len(s) \in Nat \ {0} /\ Tail(s) \in Seq(S) /\ Len(Tail(s)) = Len(s) - 1
      /\ \A i \in 1 .. Len(Tail(s)) : Tail(s)[i] = s[i + 1]
      /\ Head(s) = s[1] /\ Head(s) \in S
  BY HeadTailProperties, LenProperties, EmptySeq
<1>2. Head(s) \in Elems(s)
  BY <1>1 DEF Elems
<1>3. Elems(Tail(s)) \subseteq Elems(s) \ {Head(s)}
  BY <1>1 DEF Elems, Once
<1>4. ASSUME NEW b \in Elems(s) \ {Head(s)}
      PROVE  b \in Elems(Tail(s))
  <2>1. PICK i \in 1 .. Len(s) : b = s[i]
    BY DEF Elems
  <2>2. i # 1 /\ i - 1 \in 1 .. Len(Tail(s)) /\ Tail(s)[i - 1] = b
    BY <1>1, <2>1
  <2> QED BY <2>2 DEF Elems
<1>5. Once(Tail(s))
  BY <1>1 DEF Once
<1> QED BY <1>1, <1>2, <1>3, <1>4, <1>5

\* Something is left of a queue of more than one.
LEMMA SomeLeft ==
  ASSUME NEW S, NEW s \in Seq(S), Len(s) > 1
  PROVE  Tail(s) # <<>>
<1>1. s # <<>>
  OBVIOUS
<1> DEFINE t == Tail(s)
           n == Len(s)
<1>2. t \in Seq(S) /\ Len(t) = n - 1 /\ n \in Nat /\ n > 1
  BY <1>1, HeadTailProperties, LenProperties
<1> HIDE DEF t, n
<1>3. Len(t) # 0
  BY <1>2
<1>4. t # <<>>
  BY <1>2, <1>3, EmptySeq
<1> QED BY <1>4 DEF t

\* A new item goes to the end of a queue.
LEMMA ItemComes ==
  ASSUME NEW S, NEW s \in Seq(S), Once(s), NEW b \in S, b \notin Elems(s)
  PROVE  /\ Elems(Append(s, b)) = Elems(s) \cup {b}
         /\ Append(s, b) \in Seq(S) /\ Append(s, b) # <<>>
         /\ Once(Append(s, b))
<1>1. /\ Append(s, b) \in Seq(S) /\ Len(Append(s, b)) = Len(s) + 1
      /\ Append(s, b) # <<>>
      /\ \A i \in 1 .. Len(s) : Append(s, b)[i] = s[i]
      /\ Append(s, b)[Len(s) + 1] = b /\ Len(s) \in Nat
      /\ \A i \in 1 .. Len(s) : s[i] \in S
  BY AppendProperties, LenProperties, ElementOfSeq
<1>2. Elems(Append(s, b)) = Elems(s) \cup {b}
  BY <1>1 DEF Elems
<1>3. Once(Append(s, b))
  BY <1>1 DEF Once, Elems
<1> QED BY <1>1, <1>2, <1>3

\* The items of a queue are of its kind; an empty one has none.
LEMMA ItemsAre ==
  ASSUME NEW S, NEW s \in Seq(S)
  PROVE  /\ Elems(s) \subseteq S /\ Elems(s) = {s[i] : i \in DOMAIN s}
         /\ Len(s) \in Nat
<1>1. Len(s) \in Nat /\ DOMAIN s = 1 .. Len(s) /\ \A i \in 1 .. Len(s) : s[i] \in S
  BY LenProperties, ElementOfSeq
<1> QED BY <1>1 DEF Elems

LEMMA EmptyHasNone ==
  /\ Elems(<<>>) = {} /\ Once(<<>>)
  /\ \A S : <<>> \in Seq(S)
BY DEF Elems, Once

-----------------------------------------------------------------------------
(***************************************************************************)
(* Places.                                                                 *)
(***************************************************************************)

To(p, J) == IF p THEN J ELSE {}

\* The requests of S leave where they are; those of J are then at the place k,
\* of the connection d, and the others are answered.
Moves(S, J, k, d) ==
  /\ J \subseteq S
  /\ InWait' = (InWait \ S) \cup To(k = "wait", J)
  /\ task' = (task \ S) \cup To(k = "task", J)
  /\ InQ' = (InQ \ S) \cup To(k = "q", J)
  /\ \A c \in Conns :
       /\ InOut(c)' = (InOut(c) \ S) \cup To(k = "out" /\ c = d, J)
       /\ InWrite(c)' = (InWrite(c) \ S) \cup To(k = "write" /\ c = d, J)
       /\ InPend(c)' = (InPend(c) \ S) \cup To(k = "pend" /\ c = d, J)
  /\ owed' = (owed \ S) \cup J

Kinds == {"wait", "task", "q", "out", "write", "pend"}

\* Requests that move stay apart.
LEMMA MovesApart ==
  ASSUME Apart, Owed, NEW S, NEW J, NEW k \in Kinds, NEW d,
         k \in {"out", "write", "pend"} => d \in Conns, Moves(S, J, k, d)
  PROVE  Apart' /\ Owed'
<1>1. ASSUME NEW r \in Reqs, r \notin S
      PROVE  /\ r \in InWait' <=> r \in InWait
             /\ r \in task' <=> r \in task
             /\ r \in InQ' <=> r \in InQ
             /\ \A c \in Conns : /\ r \in InOut(c)' <=> r \in InOut(c)
                                 /\ r \in InWrite(c)' <=> r \in InWrite(c)
                                 /\ r \in InPend(c)' <=> r \in InPend(c)
             /\ r \in owed' <=> r \in owed
  BY <1>1 DEF Moves, To
<1>2. ASSUME NEW r \in Reqs, r \in S
      PROVE  /\ r \in InWait' <=> r \in J /\ k = "wait"
             /\ r \in task' <=> r \in J /\ k = "task"
             /\ r \in InQ' <=> r \in J /\ k = "q"
             /\ \A c \in Conns : /\ r \in InOut(c)' <=> r \in J /\ k = "out" /\ c = d
                                 /\ r \in InWrite(c)' <=> r \in J /\ k = "write" /\ c = d
                                 /\ r \in InPend(c)' <=> r \in J /\ k = "pend" /\ c = d
             /\ r \in owed' <=> r \in J
  BY <1>2 DEF Moves, To
<1>3. Apart'
  <2> SUFFICES ASSUME NEW r \in Reqs
               PROVE  (/\ r \in InWait => r \notin task /\ r \notin InQ /\ Off(r)
                       /\ r \in task => r \notin InQ /\ Off(r)
                       /\ r \in InQ => Off(r)
                       /\ \A c, e \in Conns :
                            /\ r \in InOut(c) => r \notin InWrite(e) /\ r \notin InPend(e)
                            /\ r \in InWrite(c) => r \notin InPend(e)
                            /\ r \in InOut(c) /\ r \in InOut(e) => c = e
                            /\ r \in InWrite(c) /\ r \in InWrite(e) => c = e
                            /\ r \in InPend(c) /\ r \in InPend(e) => c = e)'
    BY DEF Apart
  <2>1. CASE r \notin S
    BY <1>1, <2>1 DEF Apart, Off
  <2>2. CASE r \in S
    BY <1>2, <2>2 DEF Off
  <2> QED BY <2>1, <2>2
<1>4. Owed'
  <2> SUFFICES ASSUME NEW r \in Reqs
               PROVE  (r \in owed <=> r \in InWait \/ r \in task \/ r \in InQ \/ ~Off(r))'
    BY DEF Owed
  <2>1. CASE r \notin S
    BY <1>1, <2>1 DEF Owed, Off
  <2>2. CASE r \in S
    BY <1>2, <2>2 DEF Off, Kinds
  <2> QED BY <2>1, <2>2
<1> QED BY <1>3, <1>4

\* Nothing moves.
LEMMA StaysApart ==
  ASSUME Apart, Owed, UNCHANGED <<task, q, outq, pend, owed>>,
         InWait' = InWait, \A c \in Conns : InWrite(c)' = InWrite(c)
  PROVE  Apart' /\ Owed'
<1>1. InQ' = InQ /\ \A c \in Conns : InOut(c)' = InOut(c) /\ InPend(c)' = InPend(c)
  BY DEF InQ, InOut, InPend
<1> QED BY <1>1 DEF Apart, Owed, Off

\* The number of tries does not pass its bound.
LEMMA TriesBounded ==
  ASSUME TypeReq, NEW again \in SUBSET Reqs, Cardinality(again) + Again <= MaxTries,
         NEW r \in again
  PROVE  tries[r] < MaxTries
<1> USE ConnAssumption
<1> DEFINE T == {t \in Reqs \X (1 .. MaxTries) : t[2] <= tries[t[1]]}
           R == {<<r, k>> : k \in 1 .. MaxTries}
           f == [k \in 1 .. MaxTries |-> <<r, k>>]
<1>1. IsFiniteSet(again) /\ Cardinality(again) \in Nat \ {0}
  BY FS_Subset, FS_CardinalityType, FS_EmptySet
<1>2. IsFiniteSet(1 .. MaxTries) /\ Cardinality(1 .. MaxTries) = MaxTries
  BY FS_Interval
<1>3. IsFiniteSet(Reqs \X (1 .. MaxTries))
  BY <1>2, FS_Product
<1>4. IsFiniteSet(T) /\ Cardinality(T) \in Nat
  BY <1>3, FS_Subset, FS_CardinalityType
<1>5. Again = Cardinality(T)
  BY DEF Again
<1>6. tries[r] \in 0 .. MaxTries
  BY DEF TypeReq
<1> SUFFICES ASSUME tries[r] = MaxTries PROVE FALSE
  BY <1>6
<1>7. R \subseteq T
  OBVIOUS
<1>8. f \in Injection(1 .. MaxTries, T)
  BY <1>7 DEF Injection, IsInjective
<1>9. MaxTries <= Cardinality(T)
  BY <1>2, <1>4, <1>8, FS_Injection
<1> QED BY <1>1, <1>4, <1>5, <1>9

\* Handlers are called for rs, which leaves its place for m_delayed or for good.
LEMMA CalledMoves ==
  ASSUME TypeReq, NEW rs \in SUBSET Reqs, Called(rs), rs \subseteq owed
  PROVE  /\ tries' \in [Reqs -> 0 .. MaxTries] /\ owed' \subseteq Reqs
         /\ wait' \in [Reqs -> {"none", "delayed", "put", "aborted"}]
         /\ owed' \subseteq owed
         /\ \E again \in SUBSET rs :
              /\ InWait' = (InWait \ rs) \cup again
              /\ owed' = (owed \ rs) \cup again
<1>1. PICK again \in SUBSET rs :
        /\ Cardinality(again) + Again <= MaxTries
        /\ tries' = [r \in Reqs |-> tries[r] + IF r \in again THEN 1 ELSE 0]
        /\ owed' = owed \ (rs \ again)
        /\ wait' = [r \in Reqs |-> IF r \in again THEN "delayed"
                                   ELSE IF r \in rs THEN "none" ELSE wait[r]]
  BY DEF Called
<1>2. tries' \in [Reqs -> 0 .. MaxTries]
  <2>1. \A r \in again : tries[r] < MaxTries
    BY <1>1, TriesBounded
  <2> QED BY <1>1, <2>1, ConnAssumption DEF TypeReq
<1>3. wait' \in [Reqs -> {"none", "delayed", "put", "aborted"}]
  BY <1>1 DEF TypeReq
<1>4. InWait' = (InWait \ rs) \cup again
  BY <1>1 DEF InWait
<1>5. owed' = (owed \ rs) \cup again
  BY <1>1
<1> QED BY <1>1, <1>2, <1>3, <1>4, <1>5 DEF TypeReq

-----------------------------------------------------------------------------
(***************************************************************************)
(* Ids.                                                                    *)
(***************************************************************************)

LEMMA Least ==
  ASSUME NEW S, S \subseteq Nat, S # {}
  PROVE  \E i \in S : \A j \in S : i <= j
<1> DEFINE R == OpToRel(<, Nat)
<1>1. IsWellFoundedOn(R, Nat)
  BY NatLessThanWellFounded
<1>2. \A x, y \in Nat : x < y => <<x, y>> \in R
  BY DEF OpToRel
<1> HIDE DEF R
<1>3. PICK i \in S : \A j \in S : ~(<<j, i>> \in R)
  BY <1>1, WFMin
<1>4. \A j \in S : ~(j < i)
  BY <1>2, <1>3
<1>5. \A j \in S : i <= j
  BY <1>4
<1> QED BY <1>5

Used(c) == {e.id : e \in pend[c]}

\* There are more ids than requests, and a request is pending once.
LEMMA SomeFree ==
  ASSUME TypeSends, Singles, NEW c \in Conns
  PROVE  Ids \ Used(c) # {}
<1> USE ConnAssumption
<1> SUFFICES ASSUME Ids \subseteq Used(c) PROVE FALSE
  OBVIOUS
<1> DEFINE of(i) == CHOOSE e \in pend[c] : e.id = i
           f == [i \in Ids |-> of(i).r]
<1>1. \A i \in Ids : of(i) \in pend[c] /\ of(i).id = i
  <2> TAKE i \in Ids
  <2>1. \E e \in pend[c] : e.id = i
    BY DEF Used
  <2> QED BY <2>1
<1> HIDE DEF of
<1>2. \A e \in pend[c] : e.r \in Reqs
  BY DEF TypeSends
<1>3. f \in [Ids -> Reqs]
  BY <1>1, <1>2
<1>4. IsFiniteSet(Ids) /\ Cardinality(Ids) = MaxId /\ Cardinality(Reqs) < MaxId
  <2>1. Cardinality(Reqs) \in Nat
    BY FS_CardinalityType
  <2>2. IsFiniteSet(Ids) /\ Cardinality(Ids) = IF 1 > MaxId THEN 0 ELSE MaxId - 1 + 1
    BY FS_Interval DEF Ids
  <2> QED BY <2>1, <2>2
<1> HIDE DEF f
<1>5. PICK i, j \in Ids : i # j /\ f[i] = f[j]
  <2>1. \E x, y \in Ids : x # y /\ f[x] = f[y]
    BY <1>3, <1>4, FS_PigeonHole
  <2> QED BY <2>1
<1>6. of(i) = of(j)
  BY <1>1, <1>5 DEF Singles, f
<1> QED BY <1>1, <1>5, <1>6

\* The id that a request is given is one that no pending request has, and later
\* than m_next_req_id unless that is recorded.
LEMMA AssignedIs ==
  ASSUME TypeSends, TypeReq, Singles, NEW c \in Conns, NEW r \in Reqs
  PROVE  /\ Assigned(c, r) \in Ids \ Used(c)
         /\ ~Passed(c, r, Assigned(c, r)) => Assigned(c, r) > nid[c]
<1> USE ConnAssumption DEF Ids
<1> DEFINE first == IF hid[r] # 0 THEN hid[r] ELSE Succ(nid[c])
           free == Ids \ Used(c)
           After(i) == IF i < first THEN i + MaxId - first ELSE i - first
           Best(i) == \A j \in free : After(i) <= After(j)
<1>1. nid[c] \in 0 .. MaxId /\ hid[r] \in 0 .. MaxId /\ MaxId \in Nat
  BY DEF TypeSends, TypeReq
<1>2. MaxId > 0
  BY FS_CardinalityType
<1>3. first \in Ids
  BY <1>1, <1>2 DEF Succ
<1>4. hid[r] = 0 /\ nid[c] < MaxId => first = nid[c] + 1
  BY <1>1 DEF Succ
<1> HIDE DEF first
<1>5. \A i \in free : After(i) \in Nat
  BY <1>3
<1>6. \E i \in free : Best(i)
  <2> DEFINE M == {After(i) : i \in free}
  <2>1. M \subseteq Nat /\ M # {}
    BY <1>5, SomeFree
  <2>2. PICK a \in M : \A b \in M : a <= b
    BY <2>1, Least
  <2> QED BY <2>2
<1>7. Assigned(c, r) = CHOOSE i \in free : Best(i)
  BY DEF Assigned, Used, first
<1> DEFINE a == Assigned(c, r)
<1>8. a \in free /\ Best(a)
  BY <1>6, <1>7
<1> HIDE DEF a
<1>9. ASSUME ~Passed(c, r, a) PROVE a > nid[c]
  <2> SUFFICES ASSUME a <= nid[c] PROVE FALSE
    BY <1>1, <1>8
  <2>1. hid[r] = 0 /\ ~(nid[c] + 1 .. MaxId \subseteq Used(c))
    BY <1>9 DEF Passed, Used
  <2>2. PICK j \in nid[c] + 1 .. MaxId : j \notin Used(c)
    BY <2>1
  <2>3. j \in free /\ first = nid[c] + 1
    BY <1>1, <1>4, <2>1, <2>2
  <2>4. After(a) = a + MaxId - first /\ After(j) = j - first
    BY <1>1, <1>8, <2>2, <2>3
  <2> QED BY <1>1, <1>8, <2>2, <2>3, <2>4
<1> QED BY <1>8, <1>9 DEF a

-----------------------------------------------------------------------------
(***************************************************************************)
(* Parts of steps.                                                         *)
(***************************************************************************)

LEMMA InvIs == ConnInv <=> Types /\ Singles /\ Apart /\ Owed /\ RunInv /\ IdInv
BY TypesAre DEF ConnInv

\* A place that is not touched has what it had.
LEMMA SamePlaces ==
  /\ wait' = wait => InWait' = InWait
  /\ q' = q => InQ' = InQ
  /\ \A c \in Conns : /\ outq'[c] = outq[c] => InOut(c)' = InOut(c)
                      /\ wr'[c] = wr[c] => InWrite(c)' = InWrite(c)
                      /\ pend'[c] = pend[c] => InPend(c)' = InPend(c)
BY DEF InWait, InQ, InOut, InWrite, InPend

\* What is at a place is a request.
LEMMA PlacesAre ==
  ASSUME Types
  PROVE  /\ InWait \subseteq Reqs /\ task \subseteq Reqs /\ InQ \subseteq Reqs
         /\ \A c \in Conns : /\ InOut(c) \subseteq Reqs /\ InWrite(c) \subseteq Reqs
                             /\ InPend(c) \subseteq Reqs
<1>1. InQ \subseteq Reqs
  BY ItemsAre DEF Types, TypeQueue, InQ
<1>2. ASSUME NEW c \in Conns PROVE InOut(c) \subseteq Reqs
  <2>1. outq[c] \in Seq(Reqs)
    BY DEF Types, TypeSends
  <2> QED BY <2>1, ItemsAre DEF InOut
<1>3. ASSUME NEW c \in Conns PROVE InPend(c) \subseteq Reqs
  BY DEF Types, TypeSends, InPend
<1> QED BY <1>1, <1>2, <1>3 DEF Types, TypeReq, InWait, InWrite

\* Ids that leave do no harm.
LEMMA IdFrame ==
  ASSUME IdInv, UNCHANGED <<back, crossed, nid>>,
         \A c \in Conns : pend'[c] \subseteq pend[c] /\ net'[c] \subseteq net[c]
  PROVE  IdInv'
BY DEF IdInv

\* Handlers are called for requests that leave any place.
LEMMA CalledApart ==
  ASSUME TypeReq, Apart, Owed, NEW rs \in SUBSET Reqs, Called(rs), rs \subseteq owed,
         task' = task \ rs, InQ' = InQ \ rs,
         \A c \in Conns : /\ InOut(c)' = InOut(c) \ rs
                          /\ InWrite(c)' = InWrite(c) \ rs
                          /\ InPend(c)' = InPend(c) \ rs
  PROVE  Apart' /\ Owed'
<1>1. PICK again \in SUBSET rs : /\ InWait' = (InWait \ rs) \cup again
                                 /\ owed' = (owed \ rs) \cup again
  BY CalledMoves
<1>2. Moves(rs, again, "wait", 0)
  BY <1>1 DEF Moves, To
<1> QED BY <1>2, MovesApart DEF Kinds

\* do_close
LEMMA CloseIs ==
  ASSUME TypeLink, NEW c \in Conns, NEW k \in Closers, DoClose(c, k)
  PROVE  /\ reader' \in [Conns -> BOOLEAN] => TypeLink'
         /\ \A d \in Conns : net'[d] \subseteq net[d]
<1>1. dis' \in [Conns -> SUBSET Closers]
  BY DEF TypeLink, DoClose
<1>2. up' \in [Conns -> BOOLEAN]
  BY DEF TypeLink, DoClose
<1>3. net' \in [Conns -> SUBSET [id : Ids, r : Reqs, try : 0 .. MaxTries]]
  BY DEF TypeLink, DoClose
<1>4. \A d \in Conns : net'[d] \subseteq net[d]
  BY DEF TypeLink, DoClose
<1> QED BY <1>1, <1>2, <1>3, <1>4 DEF TypeLink

\* exec_queue
LEMMA ExecIs ==
  ASSUME Types, RunInv, Exec, q # <<>> => q' # <<>>
  PROVE  /\ qown' \in {"none", "run", "stop"} /\ runner' \in {"none", "front", "send"}
         /\ keep' \in BOOLEAN /\ missed' \in BOOLEAN
         /\ runner' # "none" <=> qown' = "run"
         /\ qown' = "stop" <=> qown = "stop"
         /\ runner' # "none" => q' # <<>>
         /\ runner' = "send" => runner = "send"
<1>1. qown' \in {"none", "run", "stop"} /\ runner' \in {"none", "front", "send"}
  BY DEF Types, TypeQueue, Exec
<1>2. keep' \in BOOLEAN
  BY DEF Types, TypeClose, Exec
<1>3. missed' \in BOOLEAN
  BY DEF Exec
<1>4. /\ runner' # "none" <=> qown' = "run"
      /\ qown' = "stop" <=> qown = "stop"
      /\ runner' # "none" => q' # <<>>
      /\ runner' = "send" => runner = "send"
  BY DEF RunInv, Exec
<1> QED BY <1>1, <1>2, <1>3, <1>4

\* pop
LEMMA PopIs ==
  ASSUME Types, RunInv, Singles, Apart, runner # "none", Pop
  PROVE  /\ q # <<>> /\ Head(q) \in Reqs /\ Head(q) \in InQ
         /\ InQ' = InQ \ {Head(q)}
         /\ q' \in Seq(Reqs) /\ Once(q')
         /\ runner' \in {"none", "front"} /\ keep' \in BOOLEAN
         /\ qown' = IF runner' = "none" THEN "none" ELSE "run"
         /\ runner' # "none" => q' # <<>>
<1>1. q # <<>> /\ q \in Seq(Reqs) /\ Once(q) /\ qown = "run"
  BY DEF RunInv, Types, TypeQueue, Singles
<1>2. q' = Tail(q)
  BY DEF Pop
<1>3. /\ Head(q) \in Reqs /\ Head(q) \in InQ /\ InQ' = InQ \ {Head(q)}
      /\ q' \in Seq(Reqs) /\ Once(q')
  BY <1>1, <1>2, HeadGoes DEF InQ
<1>4. runner' # "none" => q' # <<>>
  BY <1>1, <1>2, SomeLeft DEF Pop
<1>5. runner' \in {"none", "front"} /\ qown' = IF runner' = "none" THEN "none" ELSE "run"
  BY <1>1 DEF Pop
<1>6. keep' \in BOOLEAN
  BY DEF Pop, Types, TypeClose
<1> QED BY <1>1, <1>3, <1>4, <1>5, <1>6

\* disconnected
LEMMA DrainIs ==
  ASSUME Types, Singles, Apart, Owed, NEW c \in Conns, Drain(c),
         UNCHANGED <<q, wr, nid, hid, new, task>>
  PROVE  TypeSends' /\ TypeReq' /\ Singles' /\ Apart' /\ Owed'
         /\ owed' \subseteq owed /\ \A d \in Conns : pend'[d] \subseteq pend[d]
<1> DEFINE rs == InOut(c) \cup InPend(c)
<1>1. outq[c] \in Seq(Reqs)
  BY DEF Types, TypeSends
<1>2. rs \in SUBSET Reqs /\ rs \subseteq owed
  BY PlacesAre DEF Owed, Off
<1>3. Called(rs)
  BY <1>1, ItemsAre DEF Drain, InOut, InPend
<1>4. /\ outq' \in [Conns -> Seq(Reqs)] /\ outq'[c] = <<>>
      /\ \A d \in Conns : d # c => outq'[d] = outq[d]
  BY EmptyHasNone DEF Drain, Types, TypeSends
<1>5. /\ pend' \in [Conns -> SUBSET [id : Ids, r : Reqs]] /\ pend'[c] = {}
      /\ \A d \in Conns : d # c => pend'[d] = pend[d]
  BY DEF Drain, Types, TypeSends
<1>6. active' \in [Conns -> BOOLEAN]
  BY DEF Drain, Types, TypeSends
<1>7. TypeSends'
  BY <1>4, <1>5, <1>6 DEF Types, TypeSends
<1>8. TypeReq' /\ owed' \subseteq owed
  BY <1>2, <1>3, CalledMoves DEF Types, TypeReq
<1>9. Singles'
  BY <1>4, <1>5, EmptyHasNone DEF Singles
<1>10. \A d \in Conns : /\ InOut(d)' = InOut(d) \ rs
                        /\ InWrite(d)' = InWrite(d) \ rs
                        /\ InPend(d)' = InPend(d) \ rs
  <2> TAKE d \in Conns
  <2>1. CASE d = c
    <3>1. InOut(d)' = {} /\ InPend(d)' = {}
      BY <1>4, <1>5, <2>1, EmptyHasNone DEF InOut, InPend
    <3>2. InWrite(d)' = InWrite(d)
      BY SamePlaces
    <3>3. InWrite(d) \cap rs = {}
      BY <1>2 DEF Apart
    <3> QED BY <2>1, <3>1, <3>2, <3>3
  <2>2. CASE d # c
    <3>1. InOut(d)' = InOut(d) /\ InPend(d)' = InPend(d) /\ InWrite(d)' = InWrite(d)
      BY <1>4, <1>5, <2>2, SamePlaces
    <3>2. InWrite(d) \cap rs = {} /\ InOut(d) \cap rs = {} /\ InPend(d) \cap rs = {}
      BY <1>2, <2>2 DEF Apart
    <3> QED BY <3>1, <3>2
  <2> QED BY <2>1, <2>2
<1>11. task' = task \ rs /\ InQ' = InQ \ rs
  <2>1. task \cap rs = {} /\ InQ \cap rs = {}
    BY <1>2, PlacesAre DEF Apart, Off
  <2> QED BY <2>1, SamePlaces
<1>12. Apart' /\ Owed'
  BY <1>2, <1>3, <1>10, <1>11, CalledApart DEF Types
<1> QED BY <1>5, <1>7, <1>8, <1>9, <1>12

LEMMA InvNext ==
  ASSUME Types', Singles', Apart', Owed', RunInv', IdInv'
  PROVE  ConnInv'
BY DEF ConnInv, TypeOK, Types, TypeQueue, TypeClose, TypeLink, TypeSends, TypeReq,
       TypeHist

-----------------------------------------------------------------------------
(***************************************************************************)
(* put, connect, set and run_queue.                                        *)
(***************************************************************************)

LEMMA NewKeeps ==
  ASSUME ConnInv, NEW r \in Reqs, New(r)
  PROVE  ConnInv'
<1> USE ConnAssumption DEF New, queue, close, link, sends, hist
<1>0. Types /\ Singles /\ Apart /\ Owed /\ RunInv /\ IdInv
  BY InvIs
<1>1. Types'
  <2>1. TypeQueue' /\ TypeClose' /\ TypeLink'
    BY <1>0 DEF Types, TypeQueue, TypeClose, TypeLink
  <2>2. TypeSends' /\ TypeHist'
    BY <1>0 DEF Types, TypeSends, TypeHist
  <2>3. TypeReq'
    BY <1>0 DEF Types, TypeReq
  <2> QED BY <2>1, <2>2, <2>3 DEF Types
<1>2. Singles'
  BY <1>0 DEF Singles
<1>3. r \notin InWait /\ r \notin task /\ r \notin InQ /\ Off(r)
  BY <1>0 DEF RunInv, Owed
<1>4. Moves({r}, {r}, "wait", 0)
  <2>1. InWait' = InWait \cup {r}
    BY <1>0 DEF InWait, Types, TypeReq
  <2>2. InQ' = InQ /\ \A c \in Conns : InOut(c)' = InOut(c) /\ InWrite(c)' = InWrite(c)
                                      /\ InPend(c)' = InPend(c)
    BY SamePlaces
  <2> QED BY <1>3, <2>1, <2>2 DEF Moves, To, Off
<1>5. Apart' /\ Owed'
  BY <1>0, <1>4, MovesApart DEF Kinds
<1>6. RunInv'
  BY <1>0 DEF RunInv
<1>7. IdInv'
  BY <1>0, IdFrame
<1> QED BY <1>1, <1>2, <1>5, <1>6, <1>7, InvNext

LEMMA PutKeeps ==
  ASSUME ConnInv, NEW r \in Reqs, Put(r)
  PROVE  ConnInv'
<1> USE ConnAssumption DEF Put, link, sends
<1>0. Types /\ Singles /\ Apart /\ Owed /\ RunInv /\ IdInv
  BY InvIs
<1>1. r \in InWait /\ r \notin task /\ r \notin InQ /\ Off(r)
  BY <1>0 DEF InWait, Apart
<1>2. /\ InQ' = InQ \cup {r} /\ q' \in Seq(Reqs) /\ q' # <<>> /\ Once(q')
  BY <1>0, <1>1, ItemComes DEF InQ, Types, TypeQueue, Singles
<1>3. /\ qown' \in {"none", "run", "stop"} /\ runner' \in {"none", "front", "send"}
      /\ keep' \in BOOLEAN /\ missed' \in BOOLEAN
      /\ runner' # "none" <=> qown' = "run"
      /\ qown' = "stop" <=> qown = "stop"
      /\ runner' = "send" => runner = "send"
  <2>1. CASE Exec
    BY <1>0, <1>2, <2>1, ExecIs
  <2>2. CASE UNCHANGED <<qown, runner, keep, missed>>
    <3>1. keep' \in BOOLEAN /\ missed' \in BOOLEAN
      BY <1>0, <2>2 DEF Types, TypeClose, TypeHist
    <3> QED BY <1>0, <2>2, <3>1 DEF Types, TypeQueue, RunInv
  <2> QED BY <2>1, <2>2
<1>4. Types'
  <2>1. connecting' \in BOOLEAN
    BY <1>0 DEF Types, TypeQueue
  <2>2. TypeQueue'
    BY <1>0, <1>2, <1>3, <2>1 DEF Types, TypeQueue
  <2>3. TypeClose' /\ TypeHist'
    BY <1>0, <1>3 DEF Types, TypeClose, TypeHist
  <2>4. TypeLink' /\ TypeSends'
    BY <1>0 DEF Types, TypeLink, TypeSends
  <2>5. TypeReq'
    BY <1>0 DEF Types, TypeReq
  <2> QED BY <2>2, <2>3, <2>4, <2>5 DEF Types
<1>5. Singles'
  BY <1>0, <1>2 DEF Singles
<1>6. Moves({r}, {r}, "q", 0)
  <2>1. InWait' = InWait \ {r}
    BY <1>0 DEF InWait, Types, TypeReq
  <2>2. \A c \in Conns : InOut(c)' = InOut(c) /\ InWrite(c)' = InWrite(c)
                         /\ InPend(c)' = InPend(c)
    BY SamePlaces
  <2>3. r \in owed
    BY <1>0, <1>1 DEF Owed
  <2> QED BY <1>1, <1>2, <2>1, <2>2, <2>3 DEF Moves, To, Off
<1>7. Apart' /\ Owed'
  BY <1>0, <1>6, MovesApart DEF Kinds
<1>8. RunInv'
  BY <1>0, <1>2, <1>3 DEF RunInv
<1>9. IdInv'
  BY <1>0, IdFrame
<1> QED BY <1>4, <1>5, <1>7, <1>8, <1>9, InvNext

LEMMA ConnectedKeeps ==
  ASSUME ConnInv, Connected
  PROVE  ConnInv'
<1> USE ConnAssumption DEF Connected, sends, req
<1>0. Types /\ Singles /\ Apart /\ Owed /\ RunInv /\ IdInv
  BY InvIs
<1>1. /\ qown' \in {"none", "run", "stop"} /\ runner' \in {"none", "front", "send"}
      /\ keep' \in BOOLEAN /\ missed' \in BOOLEAN
      /\ runner' # "none" <=> qown' = "run"
      /\ qown' = "stop" <=> qown = "stop"
      /\ runner' # "none" => q' # <<>>
      /\ runner' = "send" => runner = "send"
  BY <1>0, ExecIs
<1>2. made' \in 0 .. MaxConns /\ mconn' \in 0 .. MaxConns
  BY <1>0 DEF Types, TypeQueue
<1>3. up' \in [Conns -> BOOLEAN] /\ reader' \in [Conns -> BOOLEAN]
  BY <1>0 DEF Types, TypeLink
<1>4. Types'
  <2>1. connecting' \in BOOLEAN
    OBVIOUS
  <2>2. TypeQueue'
    BY <1>0, <1>1, <1>2, <2>1 DEF Types, TypeQueue
  <2>3. TypeClose' /\ TypeHist'
    BY <1>0, <1>1 DEF Types, TypeClose, TypeHist
  <2>4. TypeLink' /\ TypeSends'
    BY <1>0, <1>3 DEF Types, TypeLink, TypeSends
  <2>5. TypeReq'
    BY <1>0 DEF Types, TypeReq
  <2> QED BY <2>2, <2>3, <2>4, <2>5 DEF Types
<1>5. Singles'
  BY <1>0 DEF Singles
<1>6. Apart' /\ Owed'
  BY <1>0, StaysApart, SamePlaces
<1>7. RunInv'
  BY <1>0, <1>1 DEF RunInv
<1>8. IdInv'
  BY <1>0, IdFrame
<1> QED BY <1>4, <1>5, <1>6, <1>7, <1>8, InvNext

LEMMA RunConnKeeps ==
  ASSUME ConnInv, RunConn
  PROVE  ConnInv'
<1> USE ConnAssumption DEF RunConn, close, link, sends, req, hist
<1>0. Types /\ Singles /\ Apart /\ Owed /\ RunInv /\ IdInv
  BY InvIs
<1>1. mconn \in Conns
  BY <1>0 DEF Open, Types, TypeQueue, Conns
<1>2. Types'
  <2>1. TypeQueue' /\ TypeClose' /\ TypeLink'
    BY <1>0 DEF Types, TypeQueue, TypeClose, TypeLink
  <2>2. TypeSends' /\ TypeHist' /\ TypeReq'
    BY <1>0 DEF Types, TypeSends, TypeHist, TypeReq
  <2> QED BY <2>1, <2>2 DEF Types
<1>3. Singles' /\ RunInv'
  BY <1>0, <1>1 DEF Singles, RunInv
<1>4. Apart' /\ Owed'
  BY <1>0, StaysApart, SamePlaces
<1>5. IdInv'
  BY <1>0, IdFrame
<1> QED BY <1>2, <1>3, <1>4, <1>5, InvNext

LEMMA RunNoConnKeeps ==
  ASSUME ConnInv, RunNoConn
  PROVE  ConnInv'
<1> USE ConnAssumption DEF RunNoConn, link, sends, hist
<1> DEFINE h == Head(q)
<1>0. Types /\ Singles /\ Apart /\ Owed /\ RunInv /\ IdInv
  BY InvIs
<1>1. /\ q # <<>> /\ h \in Reqs /\ h \in InQ
      /\ InQ' = InQ \ {h}
      /\ q' \in Seq(Reqs) /\ Once(q')
      /\ runner' \in {"none", "front"} /\ keep' \in BOOLEAN
      /\ qown' = IF runner' = "none" THEN "none" ELSE "run"
      /\ runner' # "none" => q' # <<>>
  BY <1>0, PopIs
<1>2. h \notin task /\ h \notin InWait /\ Off(h) /\ h \in owed
  BY <1>0, <1>1 DEF Apart, Owed
<1> HIDE DEF h
<1>3. Called({h})
  BY DEF h
<1>4. /\ tries' \in [Reqs -> 0 .. MaxTries] /\ owed' \subseteq owed
      /\ wait' \in [Reqs -> {"none", "delayed", "put", "aborted"}]
  BY <1>0, <1>1, <1>2, <1>3, CalledMoves DEF Types
<1>5. Types'
  <2>1. TypeQueue' /\ TypeClose'
    BY <1>0, <1>1 DEF Types, TypeQueue, TypeClose
  <2>2. TypeLink' /\ TypeSends' /\ TypeHist'
    BY <1>0 DEF Types, TypeSends, TypeHist, TypeLink
  <2>3. TypeReq'
    BY <1>0, <1>4 DEF Types, TypeReq
  <2> QED BY <2>1, <2>2, <2>3 DEF Types
<1>6. Singles'
  BY <1>0, <1>1 DEF Singles
<1>7. Apart' /\ Owed'
  <2>1. \A c \in Conns : /\ InOut(c)' = InOut(c) \ {h} /\ InWrite(c)' = InWrite(c) \ {h}
                         /\ InPend(c)' = InPend(c) \ {h}
    BY <1>2, SamePlaces DEF Off
  <2>2. task' = task \ {h}
    BY <1>2
  <2> QED BY <1>0, <1>1, <1>2, <1>3, <2>1, <2>2, CalledApart DEF Types
<1>8. RunInv'
  BY <1>0, <1>1, <1>4 DEF RunInv
<1>9. IdInv'
  BY <1>0, IdFrame
<1> QED BY <1>5, <1>6, <1>7, <1>8, <1>9, InvNext

-----------------------------------------------------------------------------
(***************************************************************************)
(* A connection.                                                           *)
(***************************************************************************)

LEMMA RunSendKeeps ==
  ASSUME ConnInv, RunSend
  PROVE  ConnInv'
<1> USE ConnAssumption DEF link, req, hist
<1> DEFINE h == Head(q)
           c == rconn
<1>0. Types /\ Singles /\ Apart /\ Owed /\ RunInv /\ IdInv
  BY InvIs
<1>u. /\ Pop /\ runner = "send" /\ rconn' = 0
      /\ UNCHANGED <<mconn, connecting, made, idc, listed, stopper, sc, up, reader,
                     dis, net, pend, nid, hid, tries, new, wait, task, owed, back,
                     crossed, missed>>
  BY DEF RunSend
<1>1. /\ q # <<>> /\ h \in Reqs /\ h \in InQ
      /\ InQ' = InQ \ {h}
      /\ q' \in Seq(Reqs) /\ Once(q')
      /\ runner' \in {"none", "front"} /\ keep' \in BOOLEAN
      /\ qown' = IF runner' = "none" THEN "none" ELSE "run"
      /\ runner' # "none" => q' # <<>>
  BY <1>0, <1>u, PopIs
<1>2. h \notin task /\ h \notin InWait /\ Off(h) /\ h \in owed /\ c \in Conns
  BY <1>0, <1>u, <1>1 DEF Apart, Owed, RunInv
<1>3. TypeQueue' /\ TypeClose' /\ TypeLink' /\ TypeReq' /\ TypeHist'
  <2>1. TypeQueue' /\ TypeClose'
    BY <1>0, <1>u, <1>1 DEF Types, TypeQueue, TypeClose
  <2> QED BY <1>0, <1>u, <2>1 DEF Types, TypeLink, TypeReq, TypeHist
<1>4. RunInv' /\ IdInv'
  BY <1>0, <1>u, <1>1, IdFrame DEF RunInv
<1>5. InWait' = InWait /\ \A d \in Conns : InPend(d)' = InPend(d)
  BY <1>u, SamePlaces
<1>6. \/ outq' = [outq EXCEPT ![c] = Append(@, h)] /\ UNCHANGED <<active, wr>>
      \/ /\ active' = [active EXCEPT ![c] = TRUE]
         /\ wr' = [wr EXCEPT ![c] = @ \cup {[at |-> "write", r |-> h]}]
         /\ UNCHANGED outq
  BY DEF RunSend
<1> HIDE DEF h, c
<1>7. CASE outq' = [outq EXCEPT ![c] = Append(@, h)] /\ UNCHANGED <<active, wr>>
  <2>1. outq[c] \in Seq(Reqs) /\ Once(outq[c]) /\ h \notin Elems(outq[c])
    BY <1>0, <1>2 DEF Types, TypeSends, Singles, Off, InOut
  <2>2. /\ Elems(Append(outq[c], h)) = InOut(c) \cup {h}
        /\ Append(outq[c], h) \in Seq(Reqs) /\ Once(Append(outq[c], h))
    BY <1>1, <2>1, ItemComes DEF InOut
  <2>3. /\ outq' \in [Conns -> Seq(Reqs)] /\ outq'[c] = Append(outq[c], h)
        /\ \A d \in Conns : d # c => outq'[d] = outq[d]
    BY <1>0, <1>2, <1>7, <2>2 DEF Types, TypeSends
  <2>4. TypeSends'
    BY <1>0, <1>u, <1>7, <2>3 DEF Types, TypeSends
  <2>5. Singles'
    BY <1>0, <1>u, <1>1, <2>2, <2>3 DEF Singles
  <2>6. \A d \in Conns : /\ InOut(d)' = InOut(d) \cup To(d = c, {h})
                         /\ InWrite(d)' = InWrite(d)
    BY <1>7, <2>2, <2>3, SamePlaces DEF To, InOut
  <2>7. Moves({h}, {h}, "out", c)
    BY <1>u, <1>1, <1>2, <1>5, <2>6 DEF Moves, To, Off
  <2>8. Apart' /\ Owed'
    BY <1>0, <1>2, <2>7, MovesApart DEF Kinds
  <2> QED BY <1>3, <1>4, <2>4, <2>5, <2>8, InvNext DEF Types
<1>8. CASE /\ active' = [active EXCEPT ![c] = TRUE]
           /\ wr' = [wr EXCEPT ![c] = @ \cup {[at |-> "write", r |-> h]}]
           /\ UNCHANGED outq
  <2>1. /\ wr' \in [Conns -> SUBSET [at : {"write", "async"}, r : Reqs]]
        /\ wr'[c] = wr[c] \cup {[at |-> "write", r |-> h]}
        /\ \A d \in Conns : d # c => wr'[d] = wr[d]
    BY <1>0, <1>1, <1>2, <1>8 DEF Types, TypeSends
  <2>2. active' \in [Conns -> BOOLEAN]
    BY <1>0, <1>2, <1>8 DEF Types, TypeSends
  <2>3. TypeSends'
    BY <1>0, <1>u, <1>8, <2>1, <2>2 DEF Types, TypeSends
  <2>4. Singles'
    BY <1>0, <1>u, <1>1, <1>8 DEF Singles
  <2>5. \A d \in Conns : /\ InOut(d)' = InOut(d)
                         /\ InWrite(d)' = InWrite(d) \cup To(d = c, {h})
    BY <1>1, <1>8, <2>1, SamePlaces DEF To, InWrite
  <2>6. Moves({h}, {h}, "write", c)
    BY <1>u, <1>1, <1>2, <1>5, <2>5 DEF Moves, To, Off
  <2>7. Apart' /\ Owed'
    BY <1>0, <1>2, <2>6, MovesApart DEF Kinds
  <2> QED BY <1>3, <1>4, <2>3, <2>4, <2>7, InvNext DEF Types
<1> QED BY <1>6, <1>7, <1>8

LEMMA WriteKeeps ==
  ASSUME ConnInv, NEW c \in Conns, NEW r \in Reqs, Write(c, r)
  PROVE  ConnInv'
<1> USE ConnAssumption DEF queue, close
<1> DEFINE w == [at |-> "write", r |-> r]
           i == Assigned(c, r)
           p == [id |-> i, r |-> r]
<1>0. Types /\ Singles /\ Apart /\ Owed /\ RunInv /\ IdInv
  BY InvIs
<1>u. /\ w \in wr[c]
      /\ nid' = [nid EXCEPT ![c] = i] /\ hid' = [hid EXCEPT ![r] = i]
      /\ pend' = [pend EXCEPT ![c] = @ \cup {p}]
      /\ back' = (back \/ Passed(c, r, i))
      /\ UNCHANGED <<q, qown, runner, rconn, mconn, connecting, made, keep, idc,
                     listed, stopper, sc, reader, active, outq, tries, new, wait,
                     task, owed, crossed, missed>>
  BY DEF Write
<1>v. \/ /\ wr' = [wr EXCEPT ![c] = (@ \ {w}) \cup {[at |-> "async", r |-> r]}]
         /\ net' = [net EXCEPT ![c] = @ \cup {[id |-> i, r |-> r, try |-> tries[r]]}]
         /\ UNCHANGED <<up, dis>>
      \/ wr' = [wr EXCEPT ![c] = @ \ {w}] /\ DoClose(c, "writer")
  BY DEF Write
<1>1. i \in Ids \ Used(c) /\ (~Passed(c, r, i) => i > nid[c])
  BY <1>0, AssignedIs DEF Types
<1> HIDE DEF i
<1>2. r \in InWrite(c)
  BY <1>u DEF InWrite
<1>3. /\ r \notin InWait /\ r \notin task /\ r \notin InQ /\ r \in owed
      /\ \A d \in Conns : /\ r \notin InOut(d) /\ r \notin InPend(d)
                          /\ d # c => r \notin InWrite(d)
  BY <1>0, <1>2 DEF Apart, Owed, Off
<1>4. /\ pend' \in [Conns -> SUBSET [id : Ids, r : Reqs]]
      /\ pend'[c] = pend[c] \cup {p}
      /\ \A d \in Conns : d # c => pend'[d] = pend[d]
  BY <1>0, <1>u, <1>1 DEF Types, TypeSends
<1>5. nid' \in [Conns -> 0 .. MaxId] /\ nid'[c] = i /\ \A d \in Conns : d # c => nid'[d] = nid[d]
  BY <1>0, <1>u, <1>1 DEF Types, TypeSends, Ids
<1>6. /\ wr' \in [Conns -> SUBSET [at : {"write", "async"}, r : Reqs]]
      /\ w \notin wr'[c]
      /\ \A x \in Reqs : x # r => ([at |-> "write", r |-> x] \in wr'[c]
                                     <=> [at |-> "write", r |-> x] \in wr[c])
      /\ \A d \in Conns : d # c => wr'[d] = wr[d]
  <2> DEFINE y == [at |-> "async", r |-> r]
             R == [at : {"write", "async"}, r : Reqs]
  <2>1. /\ y \in R /\ w \in R /\ w # y
        /\ \A x \in Reqs : [at |-> "write", r |-> x] # y
        /\ \A x \in Reqs : x # r => [at |-> "write", r |-> x] # w
    OBVIOUS
  <2>2. wr \in [Conns -> SUBSET R]
    BY <1>0 DEF Types, TypeSends
  <2>3. \/ wr' = [wr EXCEPT ![c] = (@ \ {w}) \cup {y}]
        \/ wr' = [wr EXCEPT ![c] = @ \ {w}]
    BY <1>v
  <2> HIDE DEF y, R, w
  <2>4. /\ wr' \in [Conns -> SUBSET R] /\ w \notin wr'[c]
        /\ \A x : x # w /\ x # y => (x \in wr'[c] <=> x \in wr[c])
        /\ \A d \in Conns : d # c => wr'[d] = wr[d]
    BY <2>1, <2>2, <2>3
  <2>5. \A x \in Reqs : x # r => ([at |-> "write", r |-> x] \in wr'[c]
                                     <=> [at |-> "write", r |-> x] \in wr[c])
    BY <2>1, <2>4
  <2> QED BY <2>4, <2>5 DEF R
<1>7. TypeSends'
  BY <1>0, <1>u, <1>4, <1>5, <1>6 DEF Types, TypeSends
<1>8. TypeLink' /\ \A d \in Conns : \A m \in net'[d] :
        m \in net[d] \/ (d = c /\ m = [id |-> i, r |-> r, try |-> tries[r]])
  <2>1. CASE /\ net' = [net EXCEPT ![c] = @ \cup {[id |-> i, r |-> r, try |-> tries[r]]}]
             /\ UNCHANGED <<up, dis>>
    <3>1. tries[r] \in 0 .. MaxTries
      BY <1>0 DEF Types, TypeReq
    <3>2. net' \in [Conns -> SUBSET [id : Ids, r : Reqs, try : 0 .. MaxTries]]
      BY <1>0, <1>1, <2>1, <3>1 DEF Types, TypeLink
    <3>3. TypeLink'
      BY <1>0, <1>u, <2>1, <3>2 DEF Types, TypeLink
    <3> QED BY <1>0, <2>1, <3>3 DEF Types, TypeLink
  <2>2. CASE DoClose(c, "writer")
    <3>1. "writer" \in Closers /\ reader' \in [Conns -> BOOLEAN]
      BY <1>0, <1>u DEF Closers, Types, TypeLink
    <3> QED BY <1>0, <2>2, <3>1, CloseIs DEF Types
  <2> QED BY <1>v, <2>1, <2>2
<1>9. TypeReq'
  BY <1>0, <1>u, <1>1 DEF Types, TypeReq, Ids
<1>10. TypeHist'
  <2>1. back' \in BOOLEAN
    BY <1>u
  <2> QED BY <1>0, <1>u, <2>1 DEF Types, TypeHist
<1>11. Types'
  <2>1. TypeQueue' /\ TypeClose'
    BY <1>0, <1>u DEF Types, TypeQueue, TypeClose
  <2> QED BY <1>7, <1>8, <1>9, <1>10, <2>1 DEF Types
<1>12. Singles'
  <2>1. \A e \in pend[c] : e.r # r
    BY <1>3 DEF InPend
  <2> QED BY <1>0, <1>u, <1>4, <2>1 DEF Singles
<1>13. Moves({r}, {r}, "pend", c)
  <2>1. InWait' = InWait /\ InQ' = InQ /\ \A d \in Conns : InOut(d)' = InOut(d)
    BY <1>u, SamePlaces
  <2>2. \A d \in Conns : InWrite(d)' = InWrite(d) \ {r}
    BY <1>3, <1>6, SamePlaces DEF InWrite
  <2>3. \A d \in Conns : InPend(d)' = InPend(d) \cup To(d = c, {r})
    <3>1. p.r = r
      OBVIOUS
    <3>2. InPend(c)' = InPend(c) \cup {r}
      BY <1>4, <3>1 DEF InPend
    <3> QED BY <1>4, <3>2, SamePlaces DEF To
  <2> QED BY <1>u, <1>3, <2>1, <2>2, <2>3 DEF Moves, To
<1>14. Apart' /\ Owed'
  BY <1>0, <1>13, MovesApart DEF Kinds
<1>15. RunInv'
  BY <1>0, <1>u DEF RunInv
<1>16. IdInv'
  <2> SUFFICES ASSUME ~back' PROVE (/\ ~crossed
                                     /\ \A d \in Conns :
                                          /\ \A e \in pend[d] : e.id <= nid[d]
                                          /\ \A m \in net[d] :
                                               /\ m.id <= nid[d]
                                               /\ \A e \in pend[d] : m.id = e.id => m.r = e.r)'
    BY DEF IdInv
  <2>1. ~back /\ i > nid[c]
    BY <1>u, <1>1
  <2>2. nid[c] \in Nat /\ i \in Nat /\ nid'[c] = i
    BY <1>0, <1>1, <1>5 DEF Types, TypeSends, Ids
  <2>3. /\ \A e \in pend[c] : e.id \in Nat /\ e.id < i
        /\ \A m \in net[c] : m.id \in Nat /\ m.id < i
    BY <1>0, <2>1, <2>2 DEF IdInv, Types, TypeSends, TypeLink, Ids
  <2>4. ASSUME NEW d \in Conns
        PROVE  (/\ \A e \in pend[d] : e.id <= nid[d]
                /\ \A m \in net[d] : /\ m.id <= nid[d]
                                     /\ \A e \in pend[d] : m.id = e.id => m.r = e.r)'
    <3>1. CASE d # c
      BY <1>0, <1>4, <1>5, <1>8, <2>1, <3>1 DEF IdInv
    <3>2. CASE d = c
      BY <1>0, <1>4, <1>8, <2>1, <2>2, <2>3, <3>2 DEF IdInv
    <3> QED BY <3>1, <3>2
  <2> QED BY <1>0, <1>u, <2>1, <2>4 DEF IdInv
<1> QED BY <1>11, <1>12, <1>14, <1>15, <1>16, InvNext

LEMMA WriteEndsKeeps ==
  ASSUME ConnInv, NEW c \in Conns, NEW r \in Reqs, WriteEnds(c, r)
  PROVE  ConnInv'
<1> USE ConnAssumption DEF queue, close, req, hist
<1> DEFINE w == [at |-> "async", r |-> r]
           R == [at : {"write", "async"}, r : Reqs]
           h == Head(outq[c])
           y == [at |-> "write", r |-> h]
<1>0. Types /\ Singles /\ Apart /\ Owed /\ RunInv /\ IdInv
  BY InvIs
<1>u. UNCHANGED <<q, qown, runner, rconn, mconn, connecting, made, keep, idc, listed,
                  stopper, sc, reader, pend, nid, hid, tries, new, wait, task, owed,
                  back, crossed, missed>>
  BY DEF WriteEnds
<1>v. \/ /\ outq[c] # <<>> /\ outq' = [outq EXCEPT ![c] = Tail(@)]
         /\ wr' = [wr EXCEPT ![c] = (@ \ {w}) \cup {y}]
         /\ UNCHANGED <<active, up, dis, net>>
      \/ /\ wr' = [wr EXCEPT ![c] = @ \ {w}] /\ UNCHANGED outq
         /\ \/ active' = [active EXCEPT ![c] = FALSE] /\ UNCHANGED <<up, dis, net>>
            \/ DoClose(c, "writer") /\ UNCHANGED active
  BY DEF WriteEnds
<1>1. wr \in [Conns -> SUBSET R]
  BY <1>0 DEF Types, TypeSends
<1>2. \A x \in Reqs : [at |-> "write", r |-> x] # w
  OBVIOUS
<1>3. TypeLink' /\ \A d \in Conns : net'[d] \subseteq net[d]
  <2>1. CASE UNCHANGED <<up, dis, net>>
    BY <1>0, <1>u, <2>1 DEF Types, TypeLink
  <2>2. CASE DoClose(c, "writer")
    <3>1. "writer" \in Closers /\ reader' \in [Conns -> BOOLEAN]
      BY <1>0, <1>u DEF Closers, Types, TypeLink
    <3> QED BY <1>0, <2>2, <3>1, CloseIs DEF Types
  <2> QED BY <1>v, <2>1, <2>2
<1>4. active' \in [Conns -> BOOLEAN]
  BY <1>0, <1>v DEF Types, TypeSends
<1>5. TypeQueue' /\ TypeClose' /\ TypeReq' /\ TypeHist'
  <2>1. TypeQueue' /\ TypeClose'
    BY <1>0, <1>u DEF Types, TypeQueue, TypeClose
  <2> QED BY <1>0, <1>u, <2>1 DEF Types, TypeReq, TypeHist
<1>6. RunInv' /\ IdInv'
  BY <1>0, <1>u, <1>3, IdFrame DEF RunInv
<1>7. InWait' = InWait /\ InQ' = InQ /\ \A d \in Conns : InPend(d)' = InPend(d)
  BY <1>u, SamePlaces
<1> HIDE DEF w
<1>8. CASE /\ outq[c] # <<>> /\ outq' = [outq EXCEPT ![c] = Tail(@)]
           /\ wr' = [wr EXCEPT ![c] = (@ \ {w}) \cup {y}]
  <2>1. outq[c] \in Seq(Reqs) /\ Once(outq[c])
    BY <1>0 DEF Types, TypeSends, Singles
  <2>2. /\ h \in InOut(c) /\ h \in Reqs /\ Elems(Tail(outq[c])) = InOut(c) \ {h}
        /\ Tail(outq[c]) \in Seq(Reqs) /\ Once(Tail(outq[c]))
    BY <1>8, <2>1, HeadGoes DEF InOut
  <2>3. /\ outq' \in [Conns -> Seq(Reqs)] /\ outq'[c] = Tail(outq[c])
        /\ \A d \in Conns : d # c => outq'[d] = outq[d]
    BY <1>0, <1>8, <2>2 DEF Types, TypeSends
  <2> HIDE DEF h
  <2>4. y \in R /\ \A x \in Reqs : x # h => [at |-> "write", r |-> x] # y
    BY <2>2
  <2> HIDE DEF y, R
  <2>5. /\ wr' \in [Conns -> SUBSET R] /\ y \in wr'[c]
        /\ \A x : x # w /\ x # y => (x \in wr'[c] <=> x \in wr[c])
        /\ \A d \in Conns : d # c => wr'[d] = wr[d]
    BY <1>1, <1>8, <2>4
  <2>6. TypeSends'
    BY <1>0, <1>u, <1>4, <2>3, <2>5 DEF Types, TypeSends, R
  <2>7. Singles'
    BY <1>0, <1>u, <2>2, <2>3 DEF Singles
  <2>8. /\ h \notin InWait /\ h \notin task /\ h \notin InQ /\ h \in owed
        /\ \A d \in Conns : /\ h \notin InPend(d) /\ h \notin InWrite(d)
                            /\ d # c => h \notin InOut(d)
    BY <1>0, <2>2 DEF Apart, Owed, Off
  <2>9. \A d \in Conns : InOut(d)' = InOut(d) \ {h}
    BY <2>2, <2>3, <2>8, SamePlaces DEF InOut
  <2>10. \A d \in Conns : InWrite(d)' = InWrite(d) \cup To(d = c, {h})
    <3>1. InWrite(c)' = InWrite(c) \cup {h}
      BY <1>2, <2>2, <2>4, <2>5 DEF InWrite, y
    <3> QED BY <2>5, <3>1, SamePlaces DEF To
  <2>11. Moves({h}, {h}, "write", c)
    BY <1>u, <1>7, <2>8, <2>9, <2>10 DEF Moves, To
  <2>12. Apart' /\ Owed'
    BY <1>0, <2>11, MovesApart DEF Kinds
  <2> QED BY <1>3, <1>5, <1>6, <2>6, <2>7, <2>12, InvNext DEF Types
<1>9. CASE wr' = [wr EXCEPT ![c] = @ \ {w}] /\ UNCHANGED outq
  <2> HIDE DEF R
  <2>1. /\ wr' \in [Conns -> SUBSET R]
        /\ \A x : x # w => (x \in wr'[c] <=> x \in wr[c])
        /\ \A d \in Conns : d # c => wr'[d] = wr[d]
    BY <1>1, <1>9
  <2>2. TypeSends'
    BY <1>0, <1>u, <1>4, <1>9, <2>1 DEF Types, TypeSends, R
  <2>3. Singles'
    BY <1>0, <1>u, <1>9 DEF Singles
  <2>4. \A d \in Conns : InWrite(d)' = InWrite(d)
    BY <1>2, <2>1, SamePlaces DEF InWrite
  <2>5. Apart' /\ Owed'
    BY <1>0, <1>u, <1>7, <1>9, <2>4, StaysApart
  <2> QED BY <1>3, <1>5, <1>6, <2>2, <2>3, <2>5, InvNext DEF Types
<1> QED BY <1>v, <1>8, <1>9

\* Requests leave m_pending for the tasks of their handlers.
LEMMA ToldMoves ==
  ASSUME Types, Singles, Apart, Owed, NEW c \in Conns, NEW told \in SUBSET pend[c],
         pend' = [pend EXCEPT ![c] = @ \ told], task' = task \cup {e.r : e \in told},
         UNCHANGED <<q, active, outq, wr, nid, hid, tries, new, wait, owed>>
  PROVE  /\ TypeSends' /\ TypeReq' /\ Singles' /\ Apart' /\ Owed'
         /\ \A d \in Conns : pend'[d] \subseteq pend[d]
<1> DEFINE rs == {e.r : e \in told}
<1>1. /\ pend' \in [Conns -> SUBSET [id : Ids, r : Reqs]]
      /\ pend'[c] = pend[c] \ told
      /\ \A d \in Conns : d # c => pend'[d] = pend[d]
  BY DEF Types, TypeSends
<1>2. rs \subseteq InPend(c) /\ rs \subseteq Reqs
  BY PlacesAre DEF InPend
<1>3. TypeSends'
  BY <1>1 DEF Types, TypeSends
<1>4. TypeReq'
  BY <1>2 DEF Types, TypeReq
<1>5. \A d \in Conns : pend'[d] \subseteq pend[d]
  BY <1>1
<1>6. Singles'
  BY <1>5 DEF Singles
<1>7. InPend(c)' = InPend(c) \ rs
  <2>1. \A e, f \in pend[c] : e.r = f.r => e = f
    BY DEF Singles
  <2> QED BY <1>1, <2>1 DEF InPend
<1>8. \A r \in rs : /\ r \notin InWait /\ r \notin task /\ r \notin InQ /\ r \in owed
                    /\ \A d \in Conns : /\ r \notin InOut(d) /\ r \notin InWrite(d)
                                        /\ d # c => r \notin InPend(d)
  BY <1>2 DEF Apart, Owed, Off
<1>9. Moves(rs, rs, "task", 0)
  <2>1. InWait' = InWait /\ InQ' = InQ
        /\ \A d \in Conns : InOut(d)' = InOut(d) /\ InWrite(d)' = InWrite(d)
    BY SamePlaces
  <2>2. \A d \in Conns : InPend(d)' = InPend(d) \ rs
    BY <1>1, <1>7, <1>8, SamePlaces
  <2> HIDE DEF rs
  <2> QED BY <1>8, <2>1, <2>2 DEF Moves, To, rs
<1>10. Apart' /\ Owed'
  BY <1>9, MovesApart DEF Kinds
<1> QED BY <1>3, <1>4, <1>5, <1>6, <1>10

LEMMA ReceiveKeeps ==
  ASSUME ConnInv, NEW c \in Conns, Receive(c)
  PROVE  ConnInv'
<1> USE ConnAssumption DEF queue, close
<1>0. Types /\ Singles /\ Apart /\ Owed /\ RunInv /\ IdInv
  BY InvIs
<1>1. PICK m \in net[c] :
        LET told == {e \in pend[c] : e.id = m.id} IN
        /\ net' = [net EXCEPT ![c] = @ \ {m}]
        /\ pend' = [pend EXCEPT ![c] = @ \ told]
        /\ task' = task \cup {e.r : e \in told}
        /\ crossed' = (crossed \/ \E e \in told : e.r # m.r)
        /\ UNCHANGED <<q, qown, runner, rconn, mconn, connecting, made, keep, idc,
                       listed, stopper, sc, up, reader, dis, active, outq, wr, nid,
                       hid, tries, new, wait, owed, back, missed>>
  BY DEF Receive
<1> DEFINE told == {e \in pend[c] : e.id = m.id}
<1>2. /\ TypeSends' /\ TypeReq' /\ Singles' /\ Apart' /\ Owed'
      /\ \A d \in Conns : pend'[d] \subseteq pend[d]
  <2>1. told \in SUBSET pend[c]
    OBVIOUS
  <2> QED BY <1>0, <1>1, <2>1, ToldMoves
<1>3. TypeLink' /\ \A d \in Conns : net'[d] \subseteq net[d]
  BY <1>0, <1>1 DEF Types, TypeLink
<1>4. TypeHist'
  <2>1. crossed' \in BOOLEAN
    BY <1>1
  <2> QED BY <1>0, <1>1, <2>1 DEF Types, TypeHist
<1>5. TypeQueue' /\ TypeClose'
  BY <1>0, <1>1 DEF Types, TypeQueue, TypeClose
<1>6. RunInv'
  BY <1>0, <1>1 DEF RunInv
<1>7. IdInv'
  <2>1. ~back => (crossed' <=> crossed)
    <3>1. ~back => \A e \in told : m.r = e.r
      BY <1>0 DEF IdInv
    <3> QED BY <1>1, <3>1
  <2> QED BY <1>0, <1>1, <1>2, <1>3, <2>1 DEF IdInv
<1> QED BY <1>2, <1>3, <1>4, <1>5, <1>6, <1>7, InvNext DEF Types

LEMMA TimerKeeps ==
  ASSUME ConnInv, NEW c \in Conns, Timeout(c)
  PROVE  ConnInv'
<1> USE ConnAssumption DEF queue, close, link, hist
<1>0. Types /\ Singles /\ Apart /\ Owed /\ RunInv /\ IdInv
  BY InvIs
<1>1. PICK e \in pend[c] :
        /\ pend' = [pend EXCEPT ![c] = @ \ {e}] /\ task' = task \cup {e.r}
        /\ UNCHANGED <<q, qown, runner, rconn, mconn, connecting, made, keep, idc,
                       listed, stopper, sc, up, reader, dis, net, active, outq, wr,
                       nid, hid, tries, new, wait, owed, back, crossed, missed>>
  BY DEF Timeout
<1>2. /\ TypeSends' /\ TypeReq' /\ Singles' /\ Apart' /\ Owed'
      /\ \A d \in Conns : pend'[d] \subseteq pend[d]
  <2>1. {e} \in SUBSET pend[c] /\ {f.r : f \in {e}} = {e.r}
    OBVIOUS
  <2> QED BY <1>0, <1>1, <2>1, ToldMoves
<1>3. TypeQueue' /\ TypeClose'
  BY <1>0, <1>1 DEF Types, TypeQueue, TypeClose
<1>4. TypeLink' /\ TypeHist'
  BY <1>0, <1>1 DEF Types, TypeLink, TypeHist
<1>5. RunInv' /\ IdInv'
  BY <1>0, <1>1, <1>2, IdFrame DEF RunInv
<1> QED BY <1>2, <1>3, <1>4, <1>5, InvNext DEF Types

LEMMA HandleKeeps ==
  ASSUME ConnInv, NEW r \in Reqs, Handle(r)
  PROVE  ConnInv'
<1> USE ConnAssumption DEF Handle, queue, close, link, sends, hist
<1>0. Types /\ Singles /\ Apart /\ Owed /\ RunInv /\ IdInv
  BY InvIs
<1>1. r \notin InWait /\ r \notin InQ /\ Off(r) /\ r \in owed
  BY <1>0 DEF Apart, Owed
<1>2. /\ tries' \in [Reqs -> 0 .. MaxTries] /\ owed' \subseteq owed
      /\ wait' \in [Reqs -> {"none", "delayed", "put", "aborted"}]
  BY <1>0, <1>1, CalledMoves DEF Types
<1>3. Types'
  <2>1. TypeQueue' /\ TypeClose'
    BY <1>0 DEF Types, TypeQueue, TypeClose
  <2>2. TypeLink' /\ TypeSends' /\ TypeHist'
    BY <1>0 DEF Types, TypeSends, TypeHist, TypeLink
  <2>3. TypeReq'
    BY <1>0, <1>2 DEF Types, TypeReq
  <2> QED BY <2>1, <2>2, <2>3 DEF Types
<1>4. Singles'
  BY <1>0 DEF Singles
<1>5. Apart' /\ Owed'
  <2>1. \A c \in Conns : /\ InOut(c)' = InOut(c) \ {r} /\ InWrite(c)' = InWrite(c) \ {r}
                         /\ InPend(c)' = InPend(c) \ {r}
    BY <1>1, SamePlaces DEF Off
  <2>2. InQ' = InQ \ {r}
    BY <1>1, SamePlaces
  <2> QED BY <1>0, <1>1, <2>1, <2>2, CalledApart DEF Types
<1>6. RunInv' /\ IdInv'
  BY <1>0, <1>2, IdFrame DEF RunInv
<1> QED BY <1>3, <1>4, <1>5, <1>6, InvNext

LEMMA DisconnectedKeeps ==
  ASSUME ConnInv, NEW c \in Conns, NEW k \in Closers, Disconnected(c, k)
  PROVE  ConnInv'
<1> USE ConnAssumption DEF Disconnected, queue, close, hist
<1>0. Types /\ Singles /\ Apart /\ Owed /\ RunInv /\ IdInv
  BY InvIs
<1>1. /\ TypeSends' /\ TypeReq' /\ Singles' /\ Apart' /\ Owed'
      /\ owed' \subseteq owed /\ \A d \in Conns : pend'[d] \subseteq pend[d]
  BY <1>0, DrainIs
<1>2. TypeQueue' /\ TypeClose'
  BY <1>0 DEF Types, TypeQueue, TypeClose
<1>3. TypeLink' /\ TypeHist'
  BY <1>0 DEF Types, TypeLink, TypeHist
<1>4. RunInv' /\ IdInv'
  BY <1>0, <1>1, IdFrame DEF RunInv
<1> QED BY <1>1, <1>2, <1>3, <1>4, InvNext DEF Types

LEMMA ReadCancelledKeeps ==
  ASSUME ConnInv, NEW c \in Conns, ReadCancelled(c)
  PROVE  ConnInv'
<1> USE ConnAssumption DEF ReadCancelled, queue, close, hist
<1>0. Types /\ Singles /\ Apart /\ Owed /\ RunInv /\ IdInv
  BY InvIs
<1>1. /\ TypeSends' /\ TypeReq' /\ Singles' /\ Apart' /\ Owed'
      /\ owed' \subseteq owed /\ \A d \in Conns : pend'[d] \subseteq pend[d]
  BY <1>0, DrainIs
<1>2. TypeQueue' /\ TypeClose'
  BY <1>0 DEF Types, TypeQueue, TypeClose
<1>3. TypeLink' /\ TypeHist'
  BY <1>0 DEF Types, TypeLink, TypeHist
<1>4. RunInv' /\ IdInv'
  BY <1>0, <1>1, IdFrame DEF RunInv
<1> QED BY <1>1, <1>2, <1>3, <1>4, InvNext DEF Types

LEMMA ReadFailsKeeps ==
  ASSUME ConnInv, NEW c \in Conns, ReadFails(c)
  PROVE  ConnInv'
<1> USE ConnAssumption DEF ReadFails, queue, close, sends, req, hist
<1>0. Types /\ Singles /\ Apart /\ Owed /\ RunInv /\ IdInv
  BY InvIs
<1>1. TypeLink' /\ \A d \in Conns : net'[d] \subseteq net[d]
  <2>1. "io" \in Closers /\ reader' \in [Conns -> BOOLEAN]
    BY <1>0 DEF Closers, Types, TypeLink
  <2> QED BY <1>0, <2>1, CloseIs DEF Types
<1>2. TypeQueue' /\ TypeClose'
  BY <1>0 DEF Types, TypeQueue, TypeClose
<1>3. TypeSends' /\ TypeReq' /\ TypeHist'
  BY <1>0 DEF Types, TypeSends, TypeReq, TypeHist
<1>4. Singles' /\ RunInv'
  BY <1>0 DEF Singles, RunInv
<1>5. Apart' /\ Owed'
  BY <1>0, StaysApart, SamePlaces
<1>6. IdInv'
  BY <1>0, <1>1, IdFrame
<1> QED BY <1>1, <1>2, <1>3, <1>4, <1>5, <1>6, InvNext DEF Types

-----------------------------------------------------------------------------
(***************************************************************************)
(* schedule_close, ConnQueues::remove and stop.                            *)
(***************************************************************************)

LEMMA IdleClosesKeeps ==
  ASSUME ConnInv, IdleCloses
  PROVE  ConnInv'
<1> USE ConnAssumption DEF IdleCloses, sends, req, hist
<1>0. Types /\ Singles /\ Apart /\ Owed /\ RunInv /\ IdInv
  BY InvIs
<1>1. TypeLink' /\ \A d \in Conns : net'[d] \subseteq net[d]
  <2>1. CASE UNCHANGED <<up, net, dis>>
    BY <1>0, <2>1 DEF Types, TypeLink
  <2>2. CASE mconn # 0 /\ DoClose(mconn, "idle")
    <3>1. "idle" \in Closers /\ mconn \in Conns /\ reader' \in [Conns -> BOOLEAN]
      BY <1>0, <2>2 DEF Closers, Types, TypeLink, TypeQueue, Conns
    <3> QED BY <1>0, <2>2, <3>1, CloseIs DEF Types
  <2> QED BY <2>1, <2>2
<1>2. TypeQueue' /\ TypeClose'
  <2>1. /\ idc' = mconn /\ mconn' = 0 /\ keep' = FALSE
        /\ UNCHANGED <<q, qown, runner, rconn, connecting, made, listed, stopper, sc>>
    OBVIOUS
  <2>2. mconn \in -1 .. MaxConns /\ 0 \in 0 .. MaxConns
    BY <1>0 DEF Types, TypeQueue
  <2>3. TypeQueue'
    BY <1>0, <2>1, <2>2 DEF Types, TypeQueue
  <2>4. keep' \in BOOLEAN /\ listed' \in BOOLEAN
    BY <1>0, <2>1 DEF Types, TypeClose
  <2>5. TypeClose'
    BY <1>0, <2>1, <2>2, <2>4 DEF Types, TypeClose
  <2> QED BY <2>3, <2>5
<1>3. TypeSends' /\ TypeReq' /\ TypeHist'
  BY <1>0 DEF Types, TypeSends, TypeReq, TypeHist
<1>4. Singles' /\ RunInv'
  BY <1>0 DEF Singles, RunInv
<1>5. Apart' /\ Owed'
  BY <1>0, StaysApart, SamePlaces
<1>6. IdInv'
  BY <1>0, <1>1, IdFrame
<1> QED BY <1>1, <1>2, <1>3, <1>4, <1>5, <1>6, InvNext DEF Types

LEMMA IdleStaysKeeps ==
  ASSUME ConnInv, IdleStays
  PROVE  ConnInv'
<1> USE ConnAssumption DEF IdleStays, queue, link, sends, req, hist
<1>0. Types /\ Singles /\ Apart /\ Owed /\ RunInv /\ IdInv
  BY InvIs
<1>1. TypeQueue' /\ TypeClose'
  BY <1>0 DEF Types, TypeQueue, TypeClose
<1>2. TypeLink' /\ TypeSends' /\ TypeReq' /\ TypeHist'
  BY <1>0 DEF Types, TypeLink, TypeSends, TypeReq, TypeHist
<1>3. Singles' /\ RunInv'
  BY <1>0 DEF Singles, RunInv
<1>4. Apart' /\ Owed'
  BY <1>0, StaysApart, SamePlaces
<1>5. IdInv'
  BY <1>0, IdFrame
<1> QED BY <1>1, <1>2, <1>3, <1>4, <1>5, InvNext DEF Types

\* stop, up to where it waits for m_q_state
LEMMA StopKeeps ==
  ASSUME ConnInv, listed, Stop, idc' \in -1 .. MaxConns,
         UNCHANGED <<queue, sc, link, sends, hid, tries, new, task, owed, hist>>
  PROVE  ConnInv'
<1> USE ConnAssumption DEF Stop, queue, link, sends, hist
<1>0. Types /\ Singles /\ Apart /\ Owed /\ RunInv /\ IdInv
  BY InvIs
<1>1. wait' \in [Reqs -> {"none", "delayed", "put", "aborted"}] /\ InWait' = InWait
  <2>1. PICK expired \in SUBSET Delayed :
          wait' = [r \in Reqs |-> IF r \in expired THEN "put"
                                  ELSE IF r \in Delayed THEN "aborted" ELSE wait[r]]
    OBVIOUS
  <2> QED BY <1>0, <2>1 DEF Types, TypeReq, InWait, Delayed
<1>2. TypeQueue' /\ TypeClose'
  BY <1>0 DEF Types, TypeQueue, TypeClose
<1>3. TypeLink' /\ TypeSends' /\ TypeHist'
  BY <1>0 DEF Types, TypeLink, TypeSends, TypeHist
<1>4. TypeReq'
  BY <1>0, <1>1 DEF Types, TypeReq
<1>5. Singles' /\ RunInv'
  BY <1>0 DEF Singles, RunInv
<1>6. Apart' /\ Owed'
  BY <1>0, <1>1, StaysApart, SamePlaces
<1>7. IdInv'
  BY <1>0, IdFrame
<1> QED BY <1>2, <1>3, <1>4, <1>5, <1>6, <1>7, InvNext DEF Types

LEMMA StopStartKeeps ==
  ASSUME ConnInv, StopStart
  PROVE  ConnInv'
<1>1. idc' \in -1 .. MaxConns
  BY InvIs DEF StopStart, Types, TypeClose
<1> QED BY <1>1, StopKeeps DEF StopStart

LEMMA IdleIssuesKeeps ==
  ASSUME ConnInv, IdleIssues
  PROVE  ConnInv'
<1> USE ConnAssumption DEF queue, link, sends, hist
<1>0. Types /\ Singles /\ Apart /\ Owed /\ RunInv /\ IdInv
  BY InvIs
<1>1. /\ idc' = -1 /\ idc' \in -1 .. MaxConns
      /\ UNCHANGED <<queue, sc, link, sends, hid, tries, new, task, owed, hist>>
  BY DEF IdleIssues
<1>2. CASE listed /\ Stop
  BY <1>1, <1>2, StopKeeps
<1>3. CASE UNCHANGED <<listed, stopper, keep, wait>>
  <2>1. TypeQueue' /\ TypeClose'
    BY <1>0, <1>1, <1>3 DEF Types, TypeQueue, TypeClose
  <2>2. TypeLink' /\ TypeSends' /\ TypeReq' /\ TypeHist'
    BY <1>0, <1>1, <1>3 DEF Types, TypeLink, TypeSends, TypeReq, TypeHist
  <2>3. Singles' /\ RunInv'
    BY <1>0, <1>1, <1>3 DEF Singles, RunInv
  <2>4. Apart' /\ Owed'
    BY <1>0, <1>1, <1>3, StaysApart, SamePlaces
  <2>5. IdInv'
    BY <1>0, <1>1, <1>3, IdFrame
  <2> QED BY <2>1, <2>2, <2>3, <2>4, <2>5, InvNext DEF Types
<1> QED BY <1>2, <1>3 DEF IdleIssues

LEMMA AbortedKeeps ==
  ASSUME ConnInv, NEW r \in Reqs, Aborted(r)
  PROVE  ConnInv'
<1> USE ConnAssumption DEF Aborted, queue, close, link, sends, hist
<1>0. Types /\ Singles /\ Apart /\ Owed /\ RunInv /\ IdInv
  BY InvIs
<1>1. r \in InWait
  BY DEF InWait
<1>2. r \notin task /\ r \notin InQ /\ Off(r) /\ r \in owed
  BY <1>0, <1>1 DEF Apart, Owed
<1>3. /\ tries' \in [Reqs -> 0 .. MaxTries] /\ owed' \subseteq owed
      /\ wait' \in [Reqs -> {"none", "delayed", "put", "aborted"}]
  BY <1>0, <1>2, CalledMoves DEF Types
<1>4. Types'
  <2>1. TypeQueue' /\ TypeClose'
    BY <1>0 DEF Types, TypeQueue, TypeClose
  <2>2. TypeLink' /\ TypeSends' /\ TypeHist'
    BY <1>0 DEF Types, TypeSends, TypeHist, TypeLink
  <2>3. TypeReq'
    BY <1>0, <1>3 DEF Types, TypeReq
  <2> QED BY <2>1, <2>2, <2>3 DEF Types
<1>5. Singles'
  BY <1>0 DEF Singles
<1>6. Apart' /\ Owed'
  <2>1. \A c \in Conns : /\ InOut(c)' = InOut(c) \ {r} /\ InWrite(c)' = InWrite(c) \ {r}
                         /\ InPend(c)' = InPend(c) \ {r}
    BY <1>2, SamePlaces DEF Off
  <2>2. InQ' = InQ \ {r} /\ task' = task \ {r}
    BY <1>2, SamePlaces
  <2> QED BY <1>0, <1>2, <2>1, <2>2, CalledApart DEF Types
<1>7. RunInv' /\ IdInv'
  BY <1>0, <1>3, IdFrame DEF RunInv
<1> QED BY <1>4, <1>5, <1>6, <1>7, InvNext

\* Steps of stop that change no more than who has m_q_state.
LEMMA StopPasses ==
  ASSUME ConnInv, StopAcquires \/ StopEnds
  PROVE  ConnInv'
<1> USE ConnAssumption DEF link, sends, req, hist
<1>0. Types /\ Singles /\ Apart /\ Owed /\ RunInv /\ IdInv
  BY InvIs
<1>1. /\ UNCHANGED <<q, runner, rconn, mconn, connecting, made, keep, idc, listed, link,
                     sends, req, hist>>
      /\ stopper' \in {"drain", "end"} /\ qown' \in {"none", "stop"}
      /\ sc' \in 0 .. MaxConns
  BY <1>0 DEF StopAcquires, StopEnds, Types, TypeClose
<1>2. TypeQueue' /\ TypeClose'
  BY <1>0, <1>1 DEF Types, TypeQueue, TypeClose
<1>3. TypeLink' /\ TypeSends' /\ TypeReq' /\ TypeHist'
  BY <1>0, <1>1 DEF Types, TypeLink, TypeSends, TypeReq, TypeHist
<1>4. Singles'
  BY <1>0, <1>1 DEF Singles
<1>5. RunInv'
  BY <1>0, <1>1 DEF RunInv, StopAcquires, StopEnds
<1>6. Apart' /\ Owed'
  BY <1>0, <1>1, StaysApart, SamePlaces
<1>7. IdInv'
  BY <1>0, <1>1, IdFrame
<1> QED BY <1>2, <1>3, <1>4, <1>5, <1>6, <1>7, InvNext DEF Types

LEMMA StopDrainsKeeps ==
  ASSUME ConnInv, StopDrains
  PROVE  ConnInv'
<1> USE ConnAssumption DEF sends, hist
<1>0. Types /\ Singles /\ Apart /\ Owed /\ RunInv /\ IdInv
  BY InvIs
<1>u. /\ stopper = "drain"
      /\ UNCHANGED <<qown, runner, rconn, connecting, made, keep, idc, listed, reader,
                     sends, hid, new, task, hist>>
  BY DEF StopDrains
<1>1. TypeSends' /\ TypeHist'
  BY <1>0, <1>u DEF Types, TypeSends, TypeHist
<1>2. CASE /\ q # <<>> /\ q' = Tail(q) /\ Called({Head(q)})
           /\ UNCHANGED <<stopper, sc, mconn, up, net, dis>>
  <2> DEFINE h == Head(q)
  <2>1. q \in Seq(Reqs) /\ Once(q)
    BY <1>0 DEF Types, TypeQueue, Singles
  <2>2. /\ h \in Reqs /\ h \in InQ /\ InQ' = InQ \ {h} /\ q' \in Seq(Reqs) /\ Once(q')
    BY <1>2, <2>1, HeadGoes DEF InQ
  <2>3. Called({h})
    BY <1>2
  <2> HIDE DEF h
  <2>4. h \notin task /\ h \notin InWait /\ Off(h) /\ h \in owed
    BY <1>0, <2>2 DEF Apart, Owed
  <2>5. /\ tries' \in [Reqs -> 0 .. MaxTries] /\ owed' \subseteq owed
        /\ wait' \in [Reqs -> {"none", "delayed", "put", "aborted"}]
    BY <1>0, <2>2, <2>3, <2>4, CalledMoves DEF Types
  <2>6. TypeQueue' /\ TypeClose'
    BY <1>0, <1>u, <1>2, <2>2 DEF Types, TypeQueue, TypeClose
  <2>7. TypeLink' /\ TypeReq'
    BY <1>0, <1>u, <1>2, <2>5 DEF Types, TypeLink, TypeReq
  <2>8. Singles'
    BY <1>0, <1>u, <2>2 DEF Singles
  <2>9. Apart' /\ Owed'
    <3>1. \A c \in Conns : /\ InOut(c)' = InOut(c) \ {h} /\ InWrite(c)' = InWrite(c) \ {h}
                           /\ InPend(c)' = InPend(c) \ {h}
      BY <1>u, <2>4, SamePlaces DEF Off
    <3>2. task' = task \ {h}
      BY <1>u, <2>4
    <3> QED BY <1>0, <2>2, <2>3, <2>4, <3>1, <3>2, CalledApart DEF Types
  <2>10. RunInv'
    BY <1>0, <1>u, <1>2, <2>5 DEF RunInv
  <2>11. IdInv'
    BY <1>0, <1>u, <1>2, IdFrame
  <2> QED BY <1>1, <2>6, <2>7, <2>8, <2>9, <2>10, <2>11, InvNext DEF Types
<1>3. CASE /\ q = <<>> /\ stopper' = "close" /\ sc' = mconn /\ mconn' = 0
           /\ IF mconn = 0 THEN UNCHANGED <<up, net, dis>> ELSE DoClose(mconn, "stop")
           /\ UNCHANGED <<q, tries, wait, owed>>
  <2>1. TypeLink' /\ \A d \in Conns : net'[d] \subseteq net[d]
    <3>1. CASE UNCHANGED <<up, net, dis>>
      BY <1>0, <1>u, <3>1 DEF Types, TypeLink
    <3>2. CASE mconn # 0 /\ DoClose(mconn, "stop")
      <4>1. "stop" \in Closers /\ mconn \in Conns /\ reader' \in [Conns -> BOOLEAN]
        BY <1>0, <1>u, <3>2 DEF Closers, Types, TypeLink, TypeQueue, Conns
      <4> QED BY <1>0, <3>2, <4>1, CloseIs DEF Types
    <3> QED BY <1>3, <3>1, <3>2
  <2>2. TypeQueue' /\ TypeClose'
    BY <1>0, <1>u, <1>3 DEF Types, TypeQueue, TypeClose
  <2>3. TypeReq'
    BY <1>0, <1>u, <1>3 DEF Types, TypeReq
  <2>4. Singles' /\ RunInv'
    BY <1>0, <1>u, <1>3 DEF Singles, RunInv
  <2>5. Apart' /\ Owed'
    BY <1>0, <1>u, <1>3, StaysApart, SamePlaces
  <2>6. IdInv'
    BY <1>0, <1>u, <2>1, IdFrame
  <2> QED BY <1>1, <2>1, <2>2, <2>3, <2>4, <2>5, <2>6, InvNext DEF Types
<1> QED BY <1>2, <1>3 DEF StopDrains

-----------------------------------------------------------------------------
(***************************************************************************)
(* The invariant, and what it says.                                        *)
(***************************************************************************)

LEMMA ConnInit == Init => ConnInv
<1> SUFFICES ASSUME Init PROVE ConnInv
  OBVIOUS
<1> USE ConnAssumption DEF Init
<1>1. TypeQueue /\ TypeClose
  <2>1. connecting \in BOOLEAN /\ keep \in BOOLEAN /\ listed \in BOOLEAN
    OBVIOUS
  <2>2. TypeQueue
    BY <2>1, EmptyHasNone DEF TypeQueue
  <2> QED BY <2>1, <2>2 DEF TypeClose
<1>2. TypeLink
  BY DEF TypeLink
<1>3. TypeSends
  BY EmptyHasNone DEF TypeSends
<1>4. TypeReq /\ TypeHist
  <2>1. TypeReq
    BY DEF TypeReq
  <2> QED BY <2>1 DEF TypeHist
<1>5. Singles
  BY EmptyHasNone DEF Singles
<1>6. InWait = {} /\ InQ = {}
  BY EmptyHasNone DEF InWait, InQ
<1>7. \A c \in Conns : InOut(c) = {} /\ InWrite(c) = {} /\ InPend(c) = {}
  BY EmptyHasNone DEF InOut, InWrite, InPend
<1>8. Apart /\ Owed
  BY <1>6, <1>7 DEF Apart, Owed, Off
<1>9. RunInv /\ IdInv
  BY DEF RunInv, IdInv
<1> QED BY <1>1, <1>2, <1>3, <1>4, <1>5, <1>8, <1>9, InvIs DEF Types

LEMMA ConnStutter == ConnInv /\ UNCHANGED vars => ConnInv'
<1> SUFFICES ASSUME ConnInv, UNCHANGED vars PROVE ConnInv'
  OBVIOUS
<1> USE DEF vars, queue, close, link, sends, req, hist
<1>0. Types /\ Singles /\ Apart /\ Owed /\ RunInv /\ IdInv
  BY InvIs
<1>1. TypeQueue' /\ TypeClose'
  BY <1>0 DEF Types, TypeQueue, TypeClose
<1>2. TypeLink' /\ TypeSends' /\ TypeReq' /\ TypeHist'
  BY <1>0 DEF Types, TypeLink, TypeSends, TypeReq, TypeHist
<1>3. Singles' /\ RunInv'
  BY <1>0 DEF Singles, RunInv
<1>4. Apart' /\ Owed'
  BY <1>0, StaysApart, SamePlaces
<1>5. IdInv'
  BY <1>0, IdFrame
<1> QED BY <1>1, <1>2, <1>3, <1>4, <1>5, InvNext DEF Types

LEMMA ConnStep == ConnInv /\ [Next]_vars => ConnInv'
<1> SUFFICES ASSUME ConnInv, [Next]_vars PROVE ConnInv'
  OBVIOUS
<1>1. CASE UNCHANGED vars
  BY <1>1, ConnStutter
<1>2. ASSUME NEW r \in Reqs, New(r) \/ Put(r) \/ Handle(r) \/ Aborted(r)
      PROVE  ConnInv'
  BY <1>2, NewKeeps, PutKeeps, HandleKeeps, AbortedKeeps
<1>3. CASE Connected \/ RunConn \/ RunNoConn \/ RunSend
  BY <1>3, ConnectedKeeps, RunConnKeeps, RunNoConnKeeps, RunSendKeeps
<1>4. ASSUME NEW c \in Conns, NEW r \in Reqs, Write(c, r) \/ WriteEnds(c, r)
      PROVE  ConnInv'
  BY <1>4, WriteKeeps, WriteEndsKeeps
<1>5. ASSUME NEW c \in Conns, Timeout(c) \/ ReadCancelled(c) \/ Receive(c) \/ ReadFails(c)
      PROVE  ConnInv'
  BY <1>5, TimerKeeps, ReadCancelledKeeps, ReceiveKeeps, ReadFailsKeeps
<1>6. ASSUME NEW c \in Conns, NEW k \in Closers, Disconnected(c, k)
      PROVE  ConnInv'
  BY <1>6, DisconnectedKeeps
<1>7. CASE IdleCloses \/ IdleIssues \/ IdleStays
  BY <1>7, IdleClosesKeeps, IdleIssuesKeeps, IdleStaysKeeps
<1>8. CASE StopStart \/ StopAcquires \/ StopDrains \/ StopEnds
  BY <1>8, StopStartKeeps, StopPasses, StopDrainsKeeps
<1> QED BY <1>1, <1>2, <1>3, <1>4, <1>5, <1>6, <1>7, <1>8 DEF Next, Work, Outside

\* ConnInv holds throughout: ConnQueue and its ConnHandlers keep every request
\* that is not answered at one place, with m_q_state held by one of run_queue
\* and stop, and an id of a connection at one request as long as ids go up.
THEOREM ConnInvariant == Spec => []ConnInv
BY ConnInit, ConnStep, PTL DEF Spec

\* A set of at most one thing counts whether there is one.
LEMMA OneOrNone ==
  ASSUME NEW S, \A x, y \in S : x = y
  PROVE  Cardinality(S) = One(S # {})
<1>1. CASE S = {}
  BY <1>1, FS_EmptySet DEF One
<1>2. CASE S # {}
  <2>1. PICK x : x \in S
    BY <1>2
  <2>2. S = {x}
    BY <2>1
  <2> QED BY <1>2, <2>2, FS_Singleton DEF One
<1> QED BY <1>1, <1>2

\* Each count of Places is whether the request is there.
LEMMA PlacesCount ==
  ASSUME ConnInv, NEW r \in Reqs
  PROVE  Places(r) = One(r \in InWait) + One(r \in task) + One(r \in InQ)
                     + One(\E c \in Conns : r \in InOut(c))
                     + One(\E c \in Conns : r \in InWrite(c))
                     + One(\E c \in Conns : r \in InPend(c))
<1>0. Types /\ Singles /\ Apart /\ Owed /\ RunInv /\ IdInv
  BY InvIs
<1> DEFINE Q == {i \in 1 .. Len(q) : q[i] = r}
           O == UNION {{c} \X {i \in 1 .. Len(outq[c]) : outq[c][i] = r} : c \in Conns}
           W == {c \in Conns : [at |-> "write", r |-> r] \in wr[c]}
           P == {ci \in Conns \X Ids : [id |-> ci[2], r |-> r] \in pend[ci[1]]}
<1>1. Cardinality(Q) = One(r \in InQ)
  <2>1. \A x, y \in Q : x = y
    BY <1>0 DEF Singles, Once
  <2>2. Q # {} <=> r \in InQ
    BY DEF InQ, Elems
  <2>3. Cardinality(Q) = One(Q # {})
    BY <2>1, OneOrNone
  <2> QED BY <2>2, <2>3 DEF One
<1>2. Cardinality(O) = One(\E c \in Conns : r \in InOut(c))
  <2>1. \A x \in O : \E c \in Conns : \E i \in 1 .. Len(outq[c]) :
                       x = <<c, i>> /\ outq[c][i] = r
    OBVIOUS
  <2>2. \A c \in Conns : \A i \in 1 .. Len(outq[c]) : outq[c][i] = r => <<c, i>> \in O
    OBVIOUS
  <2> HIDE DEF O
  <2>3. ASSUME NEW x \in O, NEW y \in O PROVE x = y
    <3>1. PICK c \in Conns, i \in Nat :
            x = <<c, i>> /\ i \in 1 .. Len(outq[c]) /\ outq[c][i] = r
      BY <2>1
    <3>2. PICK d \in Conns, j \in Nat :
            y = <<d, j>> /\ j \in 1 .. Len(outq[d]) /\ outq[d][j] = r
      BY <2>1
    <3>3. c = d
      BY <1>0, <3>1, <3>2 DEF Apart, InOut, Elems
    <3>4. i = j
      BY <1>0, <3>1, <3>2, <3>3 DEF Singles, Once
    <3> QED BY <3>1, <3>2, <3>3, <3>4
  <2>4. O # {} <=> \E c \in Conns : r \in InOut(c)
    BY <2>1, <2>2 DEF InOut, Elems
  <2>5. Cardinality(O) = One(O # {})
    BY <2>3, OneOrNone
  <2> QED BY <2>4, <2>5 DEF One
<1>3. Cardinality(W) = One(\E c \in Conns : r \in InWrite(c))
  <2>1. \A c \in Conns : c \in W <=> r \in InWrite(c)
    BY DEF InWrite
  <2>2. \A x, y \in W : x = y
    BY <1>0, <2>1 DEF Apart
  <2>3. W # {} <=> \E c \in Conns : r \in InWrite(c)
    BY <2>1
  <2>4. Cardinality(W) = One(W # {})
    BY <2>2, OneOrNone
  <2> QED BY <2>3, <2>4 DEF One
<1>4. Cardinality(P) = One(\E c \in Conns : r \in InPend(c))
  <2>1. ASSUME NEW x \in P, NEW y \in P PROVE x = y
    <3> DEFINE e == [id |-> x[2], r |-> r]
               f == [id |-> y[2], r |-> r]
    <3>1. /\ x[1] \in Conns /\ y[1] \in Conns /\ x = <<x[1], x[2]>> /\ y = <<y[1], y[2]>>
          /\ e \in pend[x[1]] /\ f \in pend[y[1]] /\ e.r = r /\ f.r = r
      OBVIOUS
    <3>2. x[1] = y[1]
      BY <1>0, <3>1 DEF Apart, InPend
    <3>3. e = f
      BY <1>0, <3>1, <3>2 DEF Singles
    <3>4. e.id = x[2] /\ f.id = y[2]
      OBVIOUS
    <3> QED BY <3>1, <3>2, <3>3, <3>4
  <2>2. ASSUME NEW c \in Conns, r \in InPend(c) PROVE P # {}
    <3>1. PICK e \in pend[c] : e.r = r
      BY <2>2 DEF InPend
    <3>2. e \in [id : Ids, r : Reqs]
      BY <1>0 DEF Types, TypeSends
    <3>3. e = [id |-> e.id, r |-> r] /\ e.id \in Ids
      BY <3>1, <3>2
    <3>4. <<c, e.id>> \in P
      BY <3>3
    <3> QED BY <3>4
  <2>3. ASSUME NEW x \in P PROVE \E c \in Conns : r \in InPend(c)
    <3>1. x[1] \in Conns /\ [id |-> x[2], r |-> r] \in pend[x[1]]
      OBVIOUS
    <3>2. [id |-> x[2], r |-> r].r = r
      OBVIOUS
    <3> QED BY <3>1, <3>2 DEF InPend
  <2> HIDE DEF P
  <2>4. P # {} <=> \E c \in Conns : r \in InPend(c)
    BY <2>2, <2>3
  <2>5. Cardinality(P) = One(P # {})
    BY <2>1, OneOrNone
  <2> QED BY <2>4, <2>5 DEF One
<1>5. Places(r) = One(wait[r] # "none") + One(r \in task) + Cardinality(Q) + Cardinality(O)
                  + Cardinality(W) + Cardinality(P)
  BY DEF Places
<1>6. One(wait[r] # "none") = One(r \in InWait)
  BY DEF InWait
<1> HIDE DEF Q, O, W, P
<1> QED BY <1>1, <1>2, <1>3, <1>4, <1>5, <1>6

LEMMA InOnePlace == ConnInv => OnePlace
<1> SUFFICES ASSUME ConnInv, NEW r \in Reqs PROVE Places(r) = One(r \in owed)
  BY DEF OnePlace, ConnInv
<1> DEFINE o == \E c \in Conns : r \in InOut(c)
           w == \E c \in Conns : r \in InWrite(c)
           p == \E c \in Conns : r \in InPend(c)
<1>1. Places(r) = One(r \in InWait) + One(r \in task) + One(r \in InQ)
                  + One(o) + One(w) + One(p)
  BY PlacesCount
<1>2. /\ r \in InWait => r \notin task /\ r \notin InQ /\ ~o /\ ~w /\ ~p
      /\ r \in task => r \notin InQ /\ ~o /\ ~w /\ ~p
      /\ r \in InQ => ~o /\ ~w /\ ~p
      /\ o => ~w /\ ~p
      /\ w => ~p
  BY DEF ConnInv, Apart, Off
<1>3. r \in owed <=> r \in InWait \/ r \in task \/ r \in InQ \/ o \/ w \/ p
  BY DEF ConnInv, Owed, Off
<1> HIDE DEF o, w, p
<1> QED BY <1>1, <1>2, <1>3 DEF One

\* ConnQueue and ConnHandler keep every request that is not answered at exactly
\* one place: put, run_queue, write, received, the timers, disconnected of each
\* caller of do_close and stop never leave one nowhere, and never at two, so that
\* its handler is called once for each try.
THEOREM RequestsInOnePlace == Spec => []OnePlace
BY ConnInvariant, InOnePlace, PTL

\* A response that received finds in m_pending by its id is told to the request
\* that it is for, as long as write gives ids that m_next_req_id has not passed.
THEOREM ResponsesAreOwn == Spec => []OwnResponse
<1>1. ConnInv => OwnResponse
  BY DEF ConnInv, IdInv, OwnResponse
<1> QED BY <1>1, ConnInvariant, PTL

-----------------------------------------------------------------------------
(***************************************************************************)
(* No request is left.                                                     *)
(***************************************************************************)

\* A queue that is not empty has someone to run it, unless a stop missed it.
QueueServed ==
  ~missed /\ q # <<>> => qown = "run" \/ connecting \/ stopper = "drain"

\* An m_outgoing in use has a write under way or a disconnected to come.
OutServed ==
  \A c \in Conns :
    active[c] \/ outq[c] # <<>> => wr[c] # {} \/ dis[c] # {}

ServeInv == QueueServed /\ OutServed

\* Nothing is left of a queue of one.
LEMMA NoneLeft ==
  ASSUME NEW S, NEW s \in Seq(S), Len(s) = 1
  PROVE  Tail(s) = <<>>
<1>1. s # <<>>
  OBVIOUS
<1> DEFINE t == Tail(s)
<1>2. t \in Seq(S) /\ Len(t) = 0
  BY <1>1, HeadTailProperties, LenProperties
<1> HIDE DEF t
<1>3. t = <<>>
  BY <1>2, EmptySeq
<1> QED BY <1>3 DEF t

\* pop leaves a queue that is run, or none.
LEMMA PopServes ==
  ASSUME Types, RunInv, runner # "none", Pop
  PROVE  q' = <<>> \/ qown' = "run"
<1>1. q \in Seq(Reqs) /\ qown = "run"
  BY DEF RunInv, Types, TypeQueue
<1>2. CASE Len(q) = 1
  BY <1>1, <1>2, NoneLeft DEF Pop
<1>3. CASE Len(q) > 1
  BY <1>1, <1>3 DEF Pop
<1> QED BY <1>2, <1>3 DEF Pop

\* exec_queue leaves a queue that is run, that stop drains, or that it missed.
LEMMA ExecServes ==
  ASSUME Types, RunInv, Exec, UNCHANGED stopper, q' # <<>>, ~missed'
  PROVE  qown' = "run" \/ stopper' = "drain"
BY DEF Exec, RunInv, Types, TypeQueue, TypeClose

LEMMA QueueServedStep ==
  ASSUME ConnInv, QueueServed, [Next]_vars
  PROVE  QueueServed'
<1> USE DEF QueueServed
<1>0. Types /\ RunInv
  BY InvIs
<1>1. CASE UNCHANGED vars
  BY <1>1 DEF vars, queue, close, hist
<1>2. ASSUME NEW r \in Reqs, New(r) \/ Handle(r) \/ Aborted(r)
      PROVE  QueueServed'
  BY <1>2 DEF New, Handle, Aborted, queue, close, hist
<1>3. ASSUME NEW r \in Reqs, Put(r)
      PROVE  QueueServed'
  <2>1. UNCHANGED stopper /\ (connecting' \/ Exec)
    BY <1>3 DEF Put
  <2> QED BY <1>0, <2>1, ExecServes
<1>4. CASE Connected
  <2>1. UNCHANGED stopper /\ Exec
    BY <1>4 DEF Connected
  <2> QED BY <1>0, <2>1, ExecServes
<1>5. CASE RunConn
  BY <1>5 DEF RunConn, close, hist
<1>6. CASE RunNoConn \/ RunSend
  <2>1. runner # "none" /\ Pop
    BY <1>6 DEF RunNoConn, RunSend
  <2> QED BY <1>0, <2>1, PopServes
<1>7. ASSUME NEW c \in Conns, NEW r \in Reqs, Write(c, r) \/ WriteEnds(c, r)
      PROVE  QueueServed'
  BY <1>7 DEF Write, WriteEnds, queue, close, hist
<1>8. ASSUME NEW c \in Conns, Timeout(c) \/ ReadCancelled(c) \/ Receive(c) \/ ReadFails(c)
      PROVE  QueueServed'
  BY <1>8 DEF Timeout, ReadCancelled, Receive, ReadFails, queue, close, hist
<1>9. ASSUME NEW c \in Conns, NEW k \in Closers, Disconnected(c, k)
      PROVE  QueueServed'
  BY <1>9 DEF Disconnected, queue, close, hist
<1>10. CASE IdleCloses \/ IdleStays
  BY <1>10 DEF IdleCloses, IdleStays, queue, hist
<1>11. CASE IdleIssues \/ StopStart
  \* The stop that begins is the first one.
  <2>1. stopper = "none" \/ UNCHANGED stopper
    BY <1>0, <1>11 DEF IdleIssues, StopStart, Stop, RunInv
  <2>2. UNCHANGED <<q, qown, connecting, missed>>
    BY <1>11 DEF IdleIssues, StopStart, queue, hist
  <2> QED BY <2>1, <2>2
<1>12. CASE StopAcquires
  BY <1>12 DEF StopAcquires
<1>13. CASE StopDrains
  BY <1>13 DEF StopDrains, hist
<1>14. CASE StopEnds
  BY <1>0, <1>14 DEF StopEnds, RunInv, hist
<1> QED BY <1>1, <1>2, <1>3, <1>4, <1>5, <1>6, <1>7, <1>8, <1>9, <1>10, <1>11, <1>12,
           <1>13, <1>14 DEF Next, Work, Outside

\* What do_close adds to the callers of disconnected.
LEMMA CloseServes ==
  ASSUME TypeLink, NEW c \in Conns, NEW k \in Closers, DoClose(c, k)
  PROVE  dis'[c] # {} /\ \A d \in Conns : dis[d] \subseteq dis'[d]
BY DEF TypeLink, DoClose

\* disconnected leaves nothing of its own connection, and the others alone.
LEMMA DrainServes ==
  ASSUME Types, OutServed, NEW c \in Conns, Drain(c), UNCHANGED wr,
         \A d \in Conns : d # c => dis'[d] = dis[d]
  PROVE  OutServed'
<1>1. /\ active'[c] = FALSE /\ outq'[c] = <<>>
      /\ \A d \in Conns : d # c => active'[d] = active[d] /\ outq'[d] = outq[d]
  BY DEF Drain, Types, TypeSends
<1> QED BY <1>1 DEF OutServed

LEMMA OutServedStep ==
  ASSUME ConnInv, OutServed, [Next]_vars
  PROVE  OutServed'
<1>0. Types /\ RunInv
  BY InvIs
<1>1. ASSUME UNCHANGED <<active, outq, wr>>, \A d \in Conns : dis[d] \subseteq dis'[d]
      PROVE  OutServed'
  BY <1>1 DEF OutServed
<1>2. CASE UNCHANGED vars
  BY <1>1, <1>2 DEF vars, link, sends
<1>3. ASSUME NEW r \in Reqs, New(r) \/ Put(r) \/ Handle(r) \/ Aborted(r)
      PROVE  OutServed'
  BY <1>1, <1>3 DEF New, Put, Handle, Aborted, link, sends
<1>4. CASE Connected \/ RunConn \/ RunNoConn
  BY <1>1, <1>4 DEF Connected, RunConn, RunNoConn, link, sends
<1>5. CASE RunSend
  <2>1. rconn \in Conns /\ UNCHANGED dis
    BY <1>0, <1>5 DEF RunSend, RunInv, link
  <2>2. CASE /\ active[rconn] /\ UNCHANGED <<active, wr>>
             /\ outq' = [outq EXCEPT ![rconn] = Append(@, Head(q))]
    BY <1>0, <2>1, <2>2 DEF OutServed, Types, TypeSends
  <2>3. CASE /\ active' = [active EXCEPT ![rconn] = TRUE] /\ UNCHANGED outq
             /\ wr' = [wr EXCEPT
                  ![rconn] = @ \cup {[at |-> "write", r |-> Head(q)]}]
    BY <1>0, <2>1, <2>3 DEF OutServed, Types, TypeSends
  <2> QED BY <1>5, <2>2, <2>3 DEF RunSend
<1>6. ASSUME NEW c \in Conns, NEW r \in Reqs, Write(c, r)
      PROVE  OutServed'
  <2>1. UNCHANGED <<active, outq>>
    BY <1>6 DEF Write
  <2>2. \A d \in Conns : d # c => wr'[d] = wr[d]
    BY <1>0, <1>6 DEF Write, Types, TypeSends
  <2>3. (wr'[c] # {} /\ UNCHANGED dis) \/ DoClose(c, "writer")
    BY <1>0, <1>6 DEF Write, Types, TypeSends
  <2>4. CASE wr'[c] # {} /\ UNCHANGED dis
    BY <2>1, <2>2, <2>4 DEF OutServed
  <2>5. CASE DoClose(c, "writer")
    BY <1>0, <2>1, <2>2, <2>5, CloseServes DEF OutServed, Types, Closers
  <2> QED BY <2>3, <2>4, <2>5
<1>7. ASSUME NEW c \in Conns, NEW r \in Reqs, WriteEnds(c, r)
      PROVE  OutServed'
  <2>1. \A d \in Conns : d # c => /\ wr'[d] = wr[d] /\ active'[d] = active[d]
                                  /\ outq'[d] = outq[d]
    BY <1>0, <1>7 DEF WriteEnds, Types, TypeSends
  <2>2. \/ UNCHANGED dis /\ wr'[c] # {}
        \/ UNCHANGED dis /\ active'[c] = FALSE /\ outq'[c] = <<>>
        \/ DoClose(c, "writer")
    BY <1>0, <1>7 DEF WriteEnds, Types, TypeSends
  <2>3. CASE UNCHANGED dis /\ (wr'[c] # {} \/ (active'[c] = FALSE /\ outq'[c] = <<>>))
    BY <2>1, <2>3 DEF OutServed
  <2>4. CASE DoClose(c, "writer")
    BY <1>0, <2>1, <2>4, CloseServes DEF OutServed, Types, Closers
  <2> QED BY <2>2, <2>3, <2>4
<1>8. ASSUME NEW c \in Conns, Timeout(c) \/ Receive(c)
      PROVE  OutServed'
  BY <1>1, <1>8 DEF Timeout, Receive, link
<1>9. ASSUME NEW c \in Conns, ReadFails(c)
      PROVE  OutServed'
  <2>1. DoClose(c, "io") /\ UNCHANGED <<active, outq, wr>>
    BY <1>9 DEF ReadFails, sends
  <2> QED BY <1>0, <1>1, <2>1, CloseServes DEF Types, Closers
<1>10. ASSUME NEW c \in Conns, ReadCancelled(c)
       PROVE  OutServed'
  BY <1>0, <1>10, DrainServes DEF ReadCancelled
<1>11. ASSUME NEW c \in Conns, NEW k \in Closers, Disconnected(c, k)
       PROVE  OutServed'
  <2>1. \A d \in Conns : d # c => dis'[d] = dis[d]
    BY <1>0, <1>11 DEF Disconnected, Types, TypeLink
  <2> QED BY <1>0, <1>11, <2>1, DrainServes DEF Disconnected
<1>12. CASE IdleCloses
  <2>1. UNCHANGED <<active, outq, wr>>
    BY <1>12 DEF IdleCloses, sends
  <2>2. UNCHANGED dis \/ (mconn \in Conns /\ DoClose(mconn, "idle"))
    BY <1>0, <1>12, ConnAssumption DEF IdleCloses, Types, TypeQueue, Conns
  <2> QED BY <1>0, <1>1, <2>1, <2>2, CloseServes DEF Types, Closers
<1>13. CASE IdleStays \/ IdleIssues \/ StopStart \/ StopAcquires \/ StopEnds
  BY <1>1, <1>13 DEF IdleStays, IdleIssues, StopStart, StopAcquires, StopEnds, link, sends
<1>14. CASE StopDrains
  <2>1. UNCHANGED <<active, outq, wr>>
    BY <1>14 DEF StopDrains, sends
  <2>2. UNCHANGED dis \/ (mconn \in Conns /\ DoClose(mconn, "stop"))
    BY <1>0, <1>14, ConnAssumption DEF StopDrains, Types, TypeQueue, Conns
  <2> QED BY <1>0, <1>1, <2>1, <2>2, CloseServes DEF Types, Closers
<1> QED BY <1>2, <1>3, <1>4, <1>5, <1>6, <1>7, <1>8, <1>9, <1>10, <1>11, <1>12, <1>13,
           <1>14 DEF Next, Work, Outside

\* A request that is not answered is served where it is.
LEMMA AllServed == ConnInv /\ ServeInv => NotLeft
<1> SUFFICES ASSUME ConnInv, ServeInv, ~missed, NEW r \in owed
             PROVE  Served(r)
  BY DEF NotLeft
<1>0. Types /\ Owed /\ RunInv /\ r \in Reqs
  BY InvIs DEF Types, TypeReq
<1>1. CASE r \in InWait \/ r \in task
  BY <1>1 DEF InWait, Served
<1>2. CASE r \in InQ
  <2>1. PICK i \in 1 .. Len(q) : q[i] = r
    BY <1>2 DEF InQ, Elems
  <2>2. q # <<>>
    BY <2>1
  <2>3. runner # "none" \/ connecting \/ stopper = "drain"
    BY <1>0, <2>2 DEF ServeInv, QueueServed, RunInv
  <2> QED BY <2>1, <2>3 DEF Served
<1>3. CASE ~Off(r)
  <2>1. PICK c \in Conns : r \in InOut(c) \/ r \in InWrite(c) \/ r \in InPend(c)
    BY <1>3 DEF Off
  <2>2. CASE r \in InWrite(c) \/ r \in InPend(c)
    BY <2>2 DEF InWrite, InPend, Served
  <2>3. CASE r \in InOut(c)
    <3>1. PICK i \in 1 .. Len(outq[c]) : outq[c][i] = r
      BY <2>3 DEF InOut, Elems
    <3>2. outq[c] # <<>>
      BY <3>1
    <3>3. wr[c] # {} \/ dis[c] # {}
      BY <3>2 DEF ServeInv, OutServed
    <3> QED BY <3>1, <3>3 DEF Served
  <2> QED BY <2>1, <2>2, <2>3
<1> QED BY <1>0, <1>1, <1>2, <1>3 DEF Owed

\* put, set, run_queue, write_next, disconnected, the idle close and stop hand
\* every request that is not answered from one to the next without losing the
\* wake-up, unless exec_queue met a stop that was about to end.
THEOREM RequestsNotLeft == Spec => []NotLeft
<1>1. Init => ServeInv
  BY DEF Init, ServeInv, QueueServed, OutServed
<1>2. ConnInv /\ ServeInv /\ [Next]_vars => ServeInv'
  BY QueueServedStep, OutServedStep DEF ServeInv
<1> QED BY <1>1, <1>2, AllServed, ConnInvariant, PTL DEF Spec

=============================================================================
