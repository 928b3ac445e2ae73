-------------------------- MODULE RangeOwner_proofs -------------------------
(***************************************************************************)
(* Proofs about RangeOwner, for any rangers, any number of requests and of *)
(* Column objects, and any number of failures.                             *)
(*                                                                         *)
(* OwnerInv is the inductive invariant.  That one ranger serves            *)
(* (OneServer) needs to know where the range of each Column stands beside  *)
(* the request that runs there (RangeInv), that without a race at most one *)
(* load is between its Create and its end (OneCreator) and leaves no other *)
(* Column of its ranger with the range (Mapping), and what the record says *)
(* at each place of that load (RecordInv).                                 *)
(***************************************************************************)
EXTENDS RangeOwner, TLAPS

Loading == {"last", "ask", "own", "data"}
LoadOnly == Loading \cup {"reply", "fail"}

\* Where requests can be, and with which ranger and Column.
PlaceOf(r) ==
  /\ at[r] \in LoadOnly => r[2] = "load"
  /\ at[r] = "run" => r[2] = "unload"
  /\ at[r] = "free" => to[r] = None
  /\ at[r] = "sent" => to[r] \in Rangers
  /\ at[r] = "sent" /\ r[2] = "load" => to[r] \notin down
  /\ at[r] \in Running \cup {"queued"} =>
       to[r] \in Rangers \ down /\ col[r] \in Cols /\ col[r][1] = to[r]
  /\ r[2] = "load" /\ at[r] \in {"sent", "queued", "task", "last"} =>
       at[Unload(r)] = "free"
  /\ at[r] = "ask" => to[Unload(r)] \in Rangers

PlaceInv == \A r \in Reqs : PlaceOf(r)

\* A request is in a queue once.
QueueInv ==
  \A c \in Cols : \A i, j \in DOMAIN q[c] : q[c][i] = q[c][j] => i = j

\* The state of a range beside the request that is at work on it.
RangeInv ==
  /\ \A r \in Reqs :
       /\ at[r] \in Loading => rng[col[r]] = "LOADING"
       /\ at[r] = "reply" => rng[col[r]] = "LOADED"
       /\ at[r] = "fail" => rng[col[r]] \in {"LOADED", "NOTLOADED"}
       /\ at[r] = "run" => rng[col[r]] = "UNLOADING"
  /\ \A c \in Cols :
       rng[c] \in {"LOADING", "NOTLOADED", "UNLOADING"} =>
         \E r \in Reqs : col[r] = c /\ at[r] \in Loading \cup {"fail", "run"}

Unraced == "raced" \notin hist

\* Loads that made their range and are not over, unless their column is the
\* one that the ranger has.
Creators ==
  {r \in Reqs : \/ at[r] \in Loading \cup {"fail"}
                \/ at[r] = "reply" /\ map[to[r]] # col[r][2]}

OneCreator == Unraced => \A r, s \in Creators : r = s

\* The range of a ranger is in one of its Columns, the one it has unless its
\* load is under way; no load waits in another one then.
Mapping ==
  Unraced =>
    \A c \in Cols : rng[c] # "none" =>
      /\ map[c[1]] # c[2] =>
           \E r \in Reqs : col[r] = c /\ at[r] \in LoadOnly
      /\ map[c[1]] = c[2] =>
           \A r \in Reqs :
             /\ r[2] = "load" /\ to[r] = c[1]
             /\ at[r] \in Running \cup {"queued"}
             => col[r] = c
      /\ \A d \in Cols : rng[d] # "none" /\ c[1] = d[1] => c = d

\* The record, at each place of a load.
RecordInv ==
  hist = {} =>
    \A r \in Reqs :
      /\ at[r] \in {"own", "data"} => Serving = {}
      /\ at[r] = "data" => owner = to[r]
      /\ at[r] = "ask" =>
           /\ owner \in {to[Unload(r)], None}
           /\ at[Unload(r)] = "ok" => Serving = {}
           /\ at[Unload(r)] \in Running \cup {"queued"} =>
                \A c \in Serving : c = col[Unload(r)]

\* The types and OneAtATime, as what the queues are about and the rest.
ReqTypes ==
  /\ busy \in [Cols -> BOOLEAN]
  /\ q \in [Cols -> Seq(Reqs)]
  /\ at \in [Reqs -> {"free", "sent", "queued"} \cup Running \cup Ended]
  /\ to \in [Reqs -> Rangers \cup {None}]
  /\ col \in [Reqs -> Cols \cup {NoCol}]
  /\ down \subseteq Rangers

RestTypes ==
  /\ owner \in Rangers \cup {None}
  /\ map \in [Rangers -> 0 .. NCols]
  /\ rng \in [Cols -> {"none", "LOADING", "NOTLOADED", "LOADED", "UNLOADING"}]
  /\ faults \in 0 .. MaxFaults
  /\ hist \subseteq {"raced", "seized", "erased"}

Queued ==
  \A c \in Cols : \A i \in DOMAIN q[c] :
    at[q[c][i]] = "queued" /\ col[q[c][i]] = c

OneRuns ==
  \A c \in Cols :
    /\ busy[c] <=> \E r \in Reqs : col[r] = c /\ at[r] \in Running
    /\ \A r, s \in Reqs :
         col[r] = c /\ at[r] \in Running /\ col[s] = c /\ at[s] \in Running
           => r = s
    /\ q[c] # <<>> => busy[c]

CoreInv == ReqTypes /\ Queued /\ OneRuns /\ PlaceInv /\ QueueInv

OwnerInv ==
  /\ CoreInv /\ RestTypes /\ RangeInv
  /\ OneCreator /\ Mapping
  /\ RecordInv /\ OneServer

-----------------------------------------------------------------------------
(***************************************************************************)
(* Pairs.                                                                  *)
(***************************************************************************)

\* The two requests of a number.
LEMMA ReqPairs ==
  /\ \A r \in Reqs :
       /\ r[2] \in {"load", "unload"}
       /\ Unload(r) \in Reqs /\ Load(r) \in Reqs
       /\ Unload(r)[2] = "unload" /\ Load(r)[2] = "load"
       /\ r[2] = "load" => Load(r) = r /\ Unload(r) # r
       /\ r[2] = "unload" => Unload(r) = r /\ Load(r) # r
       /\ Unload(Load(r)) = Unload(r) /\ Load(Unload(r)) = Load(r)
  /\ \A r, s \in Reqs :
       r[2] = "load" /\ s[2] = "load" /\ Unload(r) = Unload(s) => r = s
BY DEF Reqs, Unload, Load

\* A Column is a ranger and a number, and NoCol is none.
LEMMA ColPairs ==
  /\ \A c \in Cols : c[1] \in Rangers /\ c[2] \in 1 .. NCols /\ c = <<c[1], c[2]>>
  /\ \A g \in Rangers, n \in 1 .. NCols :
       <<g, n>> \in Cols /\ <<g, n>>[1] = g /\ <<g, n>>[2] = n
  /\ \A c, d \in Cols : c[1] = d[1] /\ c[2] = d[2] => c = d
  /\ NoCol \notin Cols
BY OwnerAssumption DEF Cols, NoCol

-----------------------------------------------------------------------------
(***************************************************************************)
(* The queue of a column.                                                  *)
(***************************************************************************)

\* A request that runs goes on.
LEMMA MoveKeeps ==
  ASSUME CoreInv, NEW r \in Reqs, NEW p \in Running,
         at[r] \in Running, Goto(r, p), UNCHANGED <<to, col, busy, q, down>>,
         p \in LoadOnly => r[2] = "load", p = "run" => r[2] = "unload",
         p # "ask", p \in {"task", "last"} => at[r] = "task"
  PROVE  CoreInv'
<1>1. ReqTypes'
  BY DEF CoreInv, ReqTypes, Goto
<1>2. Queued' /\ QueueInv'
  BY DEF CoreInv, ReqTypes, Queued, QueueInv, Goto, Running
<1>3. OneRuns'
  BY DEF CoreInv, ReqTypes, OneRuns, Goto
<1>4. PlaceInv'
  BY ReqPairs DEF CoreInv, ReqTypes, PlaceInv, PlaceOf, Goto, Running, LoadOnly, Loading
<1> QED BY <1>1, <1>2, <1>3, <1>4 DEF CoreInv

\* A request comes to a Column of its ranger.
LEMMA AddKeeps ==
  ASSUME CoreInv, NEW r \in Reqs, NEW c \in Cols, Add(r, c),
         at[r] = "sent", to[r] = c[1], to[r] \notin down,
         UNCHANGED <<to, down>>
  PROVE  CoreInv'
<1>1. CASE busy[c]
  <2>1. /\ at' = [at EXCEPT ![r] = "queued"] /\ col' = [col EXCEPT ![r] = c]
        /\ q' = [q EXCEPT ![c] = Append(@, r)] /\ busy' = busy
    BY <1>1 DEF Add, Goto
  <2>2. ReqTypes'
    BY <2>1 DEF CoreInv, ReqTypes
  <2>3. \A d \in Cols : \A i \in DOMAIN q[d] : q[d][i] # r
    BY DEF CoreInv, Queued
  <2>4. /\ DOMAIN q'[c] = DOMAIN q[c] \cup {Len(q[c]) + 1}
        /\ q'[c][Len(q[c]) + 1] = r
        /\ \A i \in DOMAIN q[c] : q'[c][i] = q[c][i]
        /\ Len(q[c]) + 1 \notin DOMAIN q[c]
    BY <2>1 DEF CoreInv, ReqTypes
  <2>5. Queued'
    BY <2>1, <2>3, <2>4 DEF CoreInv, ReqTypes, Queued
  <2>6. QueueInv'
    BY <2>1, <2>3, <2>4 DEF CoreInv, ReqTypes, QueueInv
  <2>7. OneRuns'
    <3>1. \A s \in Reqs, d \in Cols :
            (col'[s] = d /\ at'[s] \in Running) <=> (col[s] = d /\ at[s] \in Running)
      BY <2>1 DEF CoreInv, ReqTypes, Running
    <3>2. \A d \in Cols : q'[d] # <<>> => busy'[d]
      BY <1>1, <2>1 DEF CoreInv, ReqTypes, OneRuns
    <3> QED BY <2>1, <3>1, <3>2 DEF CoreInv, OneRuns
  <2>8. PlaceInv'
    BY <2>1, ReqPairs, ColPairs DEF CoreInv, ReqTypes, PlaceInv, PlaceOf, Running, LoadOnly, Loading
  <2> QED BY <2>2, <2>5, <2>6, <2>7, <2>8 DEF CoreInv
<1>2. CASE ~busy[c]
  <2>1. /\ at' = [at EXCEPT ![r] = "task"] /\ col' = [col EXCEPT ![r] = c]
        /\ busy' = [busy EXCEPT ![c] = TRUE] /\ q' = q
    BY <1>2 DEF Add, Goto
  <2>2. ReqTypes'
    BY <2>1 DEF CoreInv, ReqTypes, Running
  <2>3. Queued' /\ QueueInv'
    BY <2>1 DEF CoreInv, ReqTypes, Queued, QueueInv
  <2>4. OneRuns'
    <3>1. \A s \in Reqs, d \in Cols :
            (col'[s] = d /\ at'[s] \in Running) <=>
              (col[s] = d /\ at[s] \in Running) \/ (s = r /\ d = c)
      BY <2>1 DEF CoreInv, ReqTypes, Running
    <3>2. \A s \in Reqs : ~(col[s] = c /\ at[s] \in Running)
      BY <1>2 DEF CoreInv, OneRuns
    <3>3. \A d \in Cols : busy'[d] <=> busy[d] \/ d = c
      BY <2>1 DEF CoreInv, ReqTypes
    <3> QED BY <2>1, <3>1, <3>2, <3>3 DEF CoreInv, OneRuns
  <2>5. PlaceInv'
    BY <2>1, ReqPairs, ColPairs DEF CoreInv, ReqTypes, PlaceInv, PlaceOf, Running, LoadOnly, Loading
  <2> QED BY <2>2, <2>3, <2>4, <2>5 DEF CoreInv
<1> QED BY <1>1, <1>2

\* A request ends, and the next one of its Column runs.
LEMMA FinishKeeps ==
  ASSUME CoreInv, NEW r \in Reqs, NEW p \in Ended,
         at[r] \in Running, Finish(r, p), UNCHANGED <<to, col, down>>
  PROVE  CoreInv'
<1> DEFINE c == col[r]
<1>0. c \in Cols
  BY DEF CoreInv, PlaceInv, PlaceOf
<1>1. CASE q[c] = <<>>
  <2>1. /\ at' = [at EXCEPT ![r] = p] /\ q' = q
        /\ busy' = [busy EXCEPT ![c] = FALSE]
    BY <1>1 DEF Finish, Goto
  <2>2. ReqTypes'
    BY <2>1 DEF CoreInv, ReqTypes
  <2>3. Queued' /\ QueueInv'
    BY <2>1 DEF CoreInv, ReqTypes, Queued, QueueInv, Running
  <2>4. OneRuns'
    BY <1>0, <1>1, <2>1, ColPairs DEF CoreInv, ReqTypes, OneRuns, Running, Ended
  <2>5. PlaceInv'
    BY <2>1, ReqPairs DEF CoreInv, ReqTypes, PlaceInv, PlaceOf, Running, LoadOnly, Loading, Ended
  <2> QED BY <2>2, <2>3, <2>4, <2>5 DEF CoreInv
<1>2. CASE q[c] # <<>>
  <2> DEFINE h == Head(q[c])
  <2>1. /\ at' = [at EXCEPT ![r] = p, ![h] = "task"] /\ busy' = busy
        /\ q' = [q EXCEPT ![c] = Tail(@)]
    BY <1>2 DEF Finish
  <2>2. /\ 1 \in DOMAIN q[c] /\ h = q[c][1] /\ h \in Reqs
        /\ at[h] = "queued" /\ col[h] = c /\ h # r
    BY <1>0, <1>2 DEF CoreInv, ReqTypes, Queued, Running
  <2>3. /\ DOMAIN q'[c] = {i \in Nat : i + 1 \in DOMAIN q[c] /\ i > 0}
        /\ \A i \in DOMAIN q'[c] : q'[c][i] = q[c][i + 1] /\ i + 1 \in DOMAIN q[c]
        /\ q'[c] \in Seq(Reqs)
    BY <1>0, <1>2, <2>1 DEF CoreInv, ReqTypes
  <2>4. ReqTypes'
    BY <1>0, <2>1, <2>2, <2>3 DEF CoreInv, ReqTypes, Running
  <2>5. \A i \in DOMAIN q'[c] : q'[c][i] # h
    BY <1>0, <2>2, <2>3 DEF CoreInv, QueueInv
  <2>6. Queued'
    BY <1>0, <2>1, <2>2, <2>3, <2>5 DEF CoreInv, ReqTypes, Queued, Running
  <2>7. QueueInv'
    <3> SUFFICES ASSUME NEW d \in Cols, NEW i \in DOMAIN q'[d],
                        NEW j \in DOMAIN q'[d], q'[d][i] = q'[d][j]
                 PROVE  i = j
      BY DEF QueueInv
    <3>1. CASE d = c
      BY <1>0, <2>3, <3>1 DEF CoreInv, ReqTypes, QueueInv
    <3>2. CASE d # c
      BY <1>0, <2>1, <3>2 DEF CoreInv, ReqTypes, QueueInv
    <3> QED BY <3>1, <3>2
  <2>8. OneRuns'
    <3>1. \A s \in Reqs, d \in Cols :
            (col'[s] = d /\ at'[s] \in Running) <=>
              (col[s] = d /\ at[s] \in Running /\ s # r) \/ (s = h /\ d = c)
      BY <2>1, <2>2 DEF CoreInv, ReqTypes, Running, Ended
    <3>2. \A s \in Reqs : col[s] = c /\ at[s] \in Running => s = r
      BY <1>0 DEF CoreInv, OneRuns
    <3>3. \A d \in Cols : q'[d] # <<>> => busy[d]
      BY <1>0, <1>2, <2>1 DEF CoreInv, ReqTypes, OneRuns
    <3>4. busy[c]
      BY <1>0, <1>2 DEF CoreInv, OneRuns
    <3>5. \A d \in Cols :
            busy'[d] <=> \E s \in Reqs : col'[s] = d /\ at'[s] \in Running
      <4> SUFFICES ASSUME NEW d \in Cols
                   PROVE  busy'[d] <=>
                            \E s \in Reqs : col'[s] = d /\ at'[s] \in Running
        OBVIOUS
      <4>1. CASE d = c
        BY <2>1, <2>2, <3>1, <3>4, <4>1
      <4>2. CASE d # c
        <5>1. \A s \in Reqs : (col'[s] = d /\ at'[s] \in Running) <=>
                               (col[s] = d /\ at[s] \in Running)
          BY <3>1, <4>2
        <5> QED BY <2>1, <5>1 DEF CoreInv, OneRuns
      <4> QED BY <4>1, <4>2
    <3>6. \A d \in Cols : \A s, t \in Reqs :
            col'[s] = d /\ at'[s] \in Running /\ col'[t] = d /\ at'[t] \in Running
              => s = t
      BY <3>1, <3>2 DEF CoreInv, OneRuns
    <3> QED BY <2>1, <3>3, <3>5, <3>6 DEF OneRuns
  <2>9. PlaceInv'
    BY <2>1, <2>2, ReqPairs DEF CoreInv, ReqTypes, PlaceInv, PlaceOf, Running, LoadOnly, Loading, Ended
  <2> QED BY <2>4, <2>6, <2>7, <2>8, <2>9 DEF CoreInv
<1> QED BY <1>1, <1>2

-----------------------------------------------------------------------------
(***************************************************************************)
(* What the parts of the actions do, one request at a time.                *)
(***************************************************************************)

\* Two requests do not run in one Column.
LEMMA RunsAlone ==
  ASSUME CoreInv, NEW r \in Reqs, NEW s \in Reqs, col[r] = col[s],
         at[r] \in Running, at[s] \in Running
  PROVE  r = s
BY DEF CoreInv, OneRuns, PlaceInv, PlaceOf

\* Finish moves at most one other request, from the queue to its run.
LEMMA FinishMoves ==
  ASSUME CoreInv, NEW r \in Reqs, NEW p \in Ended, at[r] \in Running,
         Finish(r, p)
  PROVE  /\ at'[r] = p
         /\ \A s \in Reqs : s # r =>
              at'[s] = at[s] \/ (at[s] = "queued" /\ at'[s] = "task")
<1>0. col[r] \in Cols
  BY DEF CoreInv, PlaceInv, PlaceOf
<1>1. CASE q[col[r]] = <<>>
  BY <1>1 DEF Finish, Goto, CoreInv, ReqTypes
<1>2. CASE q[col[r]] # <<>>
  <2>1. 1 \in DOMAIN q[col[r]] /\ Head(q[col[r]]) = q[col[r]][1]
        /\ Head(q[col[r]]) \in Reqs
    BY <1>0, <1>2 DEF CoreInv, ReqTypes
  <2>2. at[Head(q[col[r]])] = "queued"
    BY <1>0, <2>1 DEF CoreInv, Queued
  <2> QED BY <1>2, <2>1, <2>2 DEF Finish, CoreInv, ReqTypes, Running
<1> QED BY <1>1, <1>2

\* Add moves its request only.
LEMMA AddMoves ==
  ASSUME CoreInv, NEW r \in Reqs, NEW c \in Cols, Add(r, c)
  PROVE  /\ at'[r] \in {"queued", "task"} /\ col'[r] = c
         /\ \A s \in Reqs : s # r => at'[s] = at[s] /\ col'[s] = col[s]
BY DEF Add, Goto, CoreInv, ReqTypes

\* A Column is only erased without a range.
LEMMA EraseMoves ==
  ASSUME CoreInv, RestTypes, NEW c \in Cols, NEW held \in BOOLEAN,
         EraseIfEmpty(c, held)
  PROVE  /\ map' \in [Rangers -> 0 .. NCols]
         /\ \A g \in Rangers :
              \/ map'[g] = map[g]
              \/ /\ map'[g] = 0 /\ <<g, map[g]>> \in Cols
                 /\ <<g, map[g]>> = c \/ rng[<<g, map[g]>>] = "none"
<1>1. CASE map' = map
  BY <1>1 DEF RestTypes
<1>2. CASE map' # map
  <2>1. /\ map[c[1]] # 0 /\ map' = [map EXCEPT ![c[1]] = 0]
        /\ <<c[1], map[c[1]]>> = c \/ rng[<<c[1], map[c[1]]>>] = "none"
    BY <1>2 DEF EraseIfEmpty, Mapped
  <2>2. <<c[1], map[c[1]]>> \in Cols
    BY <2>1, ColPairs DEF RestTypes
  <2> QED BY <2>1, <2>2, ColPairs, OwnerAssumption DEF RestTypes
<1> QED BY <1>1, <1>2

-----------------------------------------------------------------------------
(***************************************************************************)
(* The actions.                                                            *)
(***************************************************************************)

LEMMA OwnerInit == Init => OwnerInv
<1> SUFFICES ASSUME Init PROVE OwnerInv
  OBVIOUS
<1>1. ReqTypes /\ RestTypes
  BY OwnerAssumption DEF Init, ReqTypes, RestTypes
<1>2. Queued /\ OneRuns /\ PlaceInv /\ QueueInv
  BY DEF Init, Queued, OneRuns, PlaceInv, PlaceOf, QueueInv, Running, LoadOnly, Loading
<1>3. RangeInv /\ OneCreator
  BY DEF Init, RangeInv, OneCreator, Creators, Loading
<1>4. Mapping /\ RecordInv /\ OneServer
  BY DEF Init, Mapping, RecordInv, OneServer, Serving
<1> QED BY <1>1, <1>2, <1>3, <1>4 DEF OwnerInv, CoreInv

LEMMA SendKeeps ==
  ASSUME OwnerInv, NEW r \in Reqs, NEW g \in Rangers, Send(r, g)
  PROVE  OwnerInv'
<1>1. /\ at[Load(r)] = "free" /\ at[Unload(r)] = "free" /\ at[r] = "free"
      /\ at' = [at EXCEPT ![r] = "sent"] /\ to' = [to EXCEPT ![r] = g]
      /\ g \notin down
      /\ UNCHANGED <<owner, map, busy, q, rng, col, down, faults, hist>>
  BY ReqPairs DEF Send, Free, Goto, Load, Unload, columns
<1>2. CoreInv'
  <2>1. ReqTypes'
    BY <1>1 DEF OwnerInv, CoreInv, ReqTypes
  <2>2. Queued' /\ QueueInv'
    BY <1>1 DEF OwnerInv, CoreInv, ReqTypes, Queued, QueueInv
  <2>3. OneRuns'
    BY <1>1 DEF OwnerInv, CoreInv, ReqTypes, OneRuns, Running
  <2>4. PlaceInv'
    BY <1>1, ReqPairs
       DEF OwnerInv, CoreInv, ReqTypes, PlaceInv, PlaceOf, Running, LoadOnly, Loading
  <2> QED BY <2>1, <2>2, <2>3, <2>4 DEF CoreInv
<1>3. \A s \in Reqs : s # r => at'[s] = at[s] /\ to'[s] = to[s]
  BY <1>1 DEF OwnerInv, CoreInv, ReqTypes
<1>4. at'[r] = "sent"
  BY <1>1 DEF OwnerInv, CoreInv, ReqTypes
<1>5. RestTypes' /\ RangeInv'
  BY <1>1, <1>3, <1>4 DEF OwnerInv, RestTypes, RangeInv, Loading
<1>6. OneCreator'
  BY <1>1, <1>3, <1>4 DEF OwnerInv, OneCreator, Creators, Unraced, Loading
<1>7. Mapping'
  BY <1>1, <1>3, <1>4
     DEF OwnerInv, Mapping, Unraced, LoadOnly, Loading, Running
<1>8. RecordInv'
  BY <1>1, <1>3, <1>4, ReqPairs DEF OwnerInv, CoreInv, PlaceInv, PlaceOf, RecordInv, Serving,
     LoadOnly, Loading, Running
<1>9. OneServer'
  BY <1>1 DEF OwnerInv, OneServer, Serving
<1> QED BY <1>2, <1>5, <1>6, <1>7, <1>8, <1>9 DEF OwnerInv

LEMMA CrashKeeps ==
  ASSUME OwnerInv, NEW g \in Rangers, Crash(g)
  PROVE  OwnerInv'
<1>1. /\ map' = [map EXCEPT ![g] = 0] /\ down' = down \cup {g}
      /\ busy' = [c \in Cols |-> c[1] # g /\ busy[c]]
      /\ q' = [c \in Cols |-> IF c[1] = g THEN <<>> ELSE q[c]]
      /\ rng' = [c \in Cols |-> IF c[1] = g THEN "none" ELSE rng[c]]
      /\ at' = [r \in Reqs |-> IF Lost(r, g) THEN "gone" ELSE at[r]]
      /\ col' = [r \in Reqs |-> IF to[r] = g THEN NoCol ELSE col[r]]
      /\ UNCHANGED <<owner, to, hist>> /\ g \notin down
      /\ faults < MaxFaults /\ faults' = faults + 1
  BY DEF Crash, Fault
<1>2. \A r \in Reqs :
        /\ to[r] = g => at'[r] \in Ended
        /\ to[r] # g => \/ at'[r] = at[r]
                        \/ at'[r] = "gone" /\ at[r] \notin Running \cup {"queued"}
  BY <1>1, OwnerAssumption
     DEF Lost, OwnerInv, CoreInv, PlaceInv, PlaceOf, Ended, ReqTypes
<1>3. CoreInv'
  <2>1. ReqTypes'
    BY <1>1, ColPairs DEF OwnerInv, CoreInv, ReqTypes, Ended
  <2>2. \A r \in Reqs : at'[r] \in Running \cup {"queued"} =>
          to[r] # g /\ at'[r] = at[r] /\ col'[r] = col[r] /\ col[r][1] # g
    BY <1>1, <1>2, ReqPairs DEF OwnerInv, CoreInv, PlaceInv, PlaceOf, Ended, Running
  <2>3. \A r \in Reqs : at[r] \in Running \cup {"queued"} /\ to[r] # g =>
          at'[r] = at[r] /\ col'[r] = col[r] /\ col[r][1] # g /\ col[r] \in Cols
    BY <1>1, <1>2 DEF OwnerInv, CoreInv, PlaceInv, PlaceOf
  <2>4. Queued' /\ QueueInv'
    <3>1. \A c \in Cols : c[1] = g => q'[c] = <<>>
      BY <1>1
    <3>2. \A c \in Cols : c[1] # g =>
            q'[c] = q[c] /\ \A i \in DOMAIN q[c] : q[c][i] \in Reqs
      BY <1>1 DEF OwnerInv, CoreInv, ReqTypes
    <3> QED BY <2>3, <3>1, <3>2 DEF OwnerInv, CoreInv, Queued, QueueInv, PlaceInv, PlaceOf
  <2>5. OneRuns'
    <3>1. \A c \in Cols : c[1] = g =>
            /\ ~busy'[c] /\ q'[c] = <<>>
            /\ \A r \in Reqs : ~(col'[r] = c /\ at'[r] \in Running)
      BY <1>1, <2>2
    <3>2. \A c \in Cols : c[1] # g =>
            /\ busy'[c] = busy[c] /\ q'[c] = q[c]
            /\ \A r \in Reqs : (col'[r] = c /\ at'[r] \in Running) <=>
                               (col[r] = c /\ at[r] \in Running)
      BY <1>1, <2>2, <2>3, ColPairs DEF OwnerInv, CoreInv, PlaceInv, PlaceOf, ReqTypes
    <3> QED BY <3>1, <3>2 DEF OwnerInv, CoreInv, OneRuns
  <2>6. PlaceInv'
    <3> SUFFICES ASSUME NEW r \in Reqs
                 PROVE  PlaceOf(r)'
      BY DEF PlaceInv
    <3>1. \A s \in Reqs : at[s] = "free" => at'[s] = "free"
      BY <1>1, OwnerAssumption
         DEF Lost, OwnerInv, CoreInv, PlaceInv, PlaceOf, ReqTypes
    <3>2. CASE at'[r] = at[r] /\ to[r] # g
      BY <1>1, <2>2, <3>1, <3>2, ReqPairs
         DEF OwnerInv, CoreInv, PlaceInv, PlaceOf, ReqTypes
    <3>3. CASE at'[r] \in Ended
      BY <3>3 DEF PlaceOf, Ended, Running, LoadOnly, Loading
    <3> QED BY <1>2, <3>2, <3>3 DEF Ended
  <2> QED BY <2>1, <2>4, <2>5, <2>6 DEF CoreInv
<1>4. \A r \in Reqs : at'[r] \in Running \cup {"queued"} =>
        /\ at'[r] = at[r] /\ col'[r] = col[r] /\ to'[r] = to[r]
        /\ col[r] \in Cols /\ col[r][1] # g /\ to[r] # g /\ col[r][1] = to[r]
        /\ rng'[col[r]] = rng[col[r]]
  BY <1>1, <1>2 DEF OwnerInv, CoreInv, PlaceInv, PlaceOf, Ended, Running
<1>5. \A r \in Reqs : at[r] \in Running /\ col[r][1] # g => at'[r] = at[r]
  BY <1>2 DEF OwnerInv, CoreInv, PlaceInv, PlaceOf
<1>6. RestTypes'
  BY <1>1, OwnerAssumption DEF OwnerInv, RestTypes
<1>7. RangeInv'
  <2>1. \A c \in Cols : rng'[c] # "none" => rng'[c] = rng[c] /\ c[1] # g
    BY <1>1
  <2>2. \A c \in Cols : c[1] # g => \A r \in Reqs :
          col[r] = c /\ at[r] \in Running => col'[r] = c /\ at'[r] = at[r]
    BY <1>4, <1>5 DEF Running
  <2> QED BY <1>4, <2>1, <2>2 DEF OwnerInv, RangeInv, Loading, Running
<1>8. Creators' \subseteq Creators
  BY <1>1, <1>4 DEF Creators, Loading, Running, OwnerInv, RestTypes
<1>9. OneCreator' /\ RecordInv' /\ OneServer'
  <2>1. Serving' \subseteq Serving
    BY <1>1 DEF Serving
  <2>2. OneCreator' /\ OneServer'
    BY <1>1, <1>8, <2>1 DEF OwnerInv, OneCreator, Unraced, OneServer
  <2>3. \A r \in Reqs : at'[r] = "ok" => at[r] = "ok"
    BY <1>1
  <2>4. RecordInv'
    BY <1>1, <1>4, <2>1, <2>3, ReqPairs
       DEF OwnerInv, RecordInv, Loading, Running
  <2> QED BY <2>2, <2>4
<1>10. Mapping'
  <2> SUFFICES ASSUME Unraced, NEW c \in Cols, rng'[c] # "none"
               PROVE  /\ map'[c[1]] # c[2] =>
                           \E r \in Reqs : col'[r] = c /\ at'[r] \in LoadOnly
                      /\ map'[c[1]] = c[2] =>
                           \A r \in Reqs :
                             /\ r[2] = "load" /\ to'[r] = c[1]
                             /\ at'[r] \in Running \cup {"queued"}
                             => col'[r] = c
                      /\ \A d \in Cols : rng'[d] # "none" /\ c[1] = d[1] => c = d
    BY <1>1 DEF Mapping, Unraced
  <2>1. /\ rng[c] # "none" /\ c[1] # g /\ map'[c[1]] = map[c[1]]
        /\ \A d \in Cols : rng'[d] # "none" => rng[d] # "none"
    BY <1>1, ColPairs DEF OwnerInv, RestTypes
  <2>2. \A r \in Reqs : col[r] = c /\ at[r] \in LoadOnly =>
          col'[r] = c /\ at'[r] \in LoadOnly
    BY <1>4, <1>5, <2>1 DEF LoadOnly, Loading, Running
  <2> QED BY <1>4, <2>1, <2>2 DEF OwnerInv, Mapping
<1> QED BY <1>3, <1>6, <1>7, <1>9, <1>10 DEF OwnerInv

LEMMA RestartKeeps ==
  ASSUME OwnerInv, NEW g \in Rangers, Restart(g)
  PROVE  OwnerInv'
<1>1. /\ down' = down \ {g}
      /\ UNCHANGED <<owner, map, busy, q, rng, at, to, col, faults, hist>>
  BY DEF Restart, columns, reqs
<1>2. CoreInv'
  BY <1>1 DEF OwnerInv, CoreInv, ReqTypes, Queued, OneRuns, PlaceInv, PlaceOf,
     QueueInv
<1>3. RestTypes' /\ RangeInv' /\ OneCreator' /\ Mapping'
  BY <1>1 DEF OwnerInv, RestTypes, RangeInv, OneCreator, Creators, Mapping, Unraced
<1>4. RecordInv' /\ OneServer'
  BY <1>1 DEF OwnerInv, RecordInv, OneServer, Serving
<1> QED BY <1>2, <1>3, <1>4 DEF OwnerInv

LEMMA LoadRangeKeeps ==
  ASSUME OwnerInv, NEW r \in Reqs, LoadRange(r)
  PROVE  OwnerInv'
<1>1. /\ r[2] = "load" /\ at[r] = "sent" /\ to[r] \in Rangers /\ to[r] \notin down
      /\ UNCHANGED <<owner, rng, to, down, faults, hist>>
  BY DEF LoadRange, OwnerInv, CoreInv, PlaceInv, PlaceOf
<1>2. PICK c \in Cols :
        /\ c[1] = to[r] /\ Add(r, c) /\ map' = [map EXCEPT ![to[r]] = c[2]]
        /\ \/ Mapped(to[r]) = "none" /\ rng[c] = "none"
           \/ map[to[r]] = c[2]
  <2>1. CASE Mapped(to[r]) = "none"
    <3>1. PICK n \in 1 .. NCols :
            /\ Unused(<<to[r], n>>) /\ map' = [map EXCEPT ![to[r]] = n]
            /\ Add(r, <<to[r], n>>)
      BY <2>1 DEF LoadRange
    <3> QED BY <1>1, <2>1, <3>1, ColPairs DEF Unused
  <2>2. CASE Mapped(to[r]) # "none"
    <3>1. Add(r, <<to[r], map[to[r]]>>) /\ map' = map
      BY <2>2 DEF LoadRange
    <3>2. map[to[r]] \in 1 .. NCols /\ map = [map EXCEPT ![to[r]] = map[to[r]]]
      BY <1>1, <2>2 DEF Mapped, OwnerInv, RestTypes
    <3> QED BY <1>1, <3>1, <3>2, ColPairs
  <2> QED BY <2>1, <2>2
<1>3. CoreInv'
  BY <1>1, <1>2, AddKeeps DEF OwnerInv
<1>4. /\ at'[r] \in {"queued", "task"} /\ col'[r] = c
      /\ \A s \in Reqs : s # r => at'[s] = at[s] /\ col'[s] = col[s]
  BY <1>2, AddMoves DEF OwnerInv
<1>5. RestTypes'
  BY <1>1, <1>2, ColPairs DEF OwnerInv, RestTypes
<1>6. RangeInv'
  BY <1>1, <1>4 DEF OwnerInv, RangeInv, Loading
<1>7. \A d \in Cols : rng[d] # "none" =>
        /\ map[d[1]] = d[2] => map'[d[1]] = d[2]
        /\ map'[d[1]] = d[2] => map[d[1]] = d[2]
  <2> SUFFICES ASSUME NEW d \in Cols, rng[d] # "none", d[1] = to[r],
                      Mapped(to[r]) = "none", rng[c] = "none"
               PROVE  map[d[1]] # d[2] /\ map'[d[1]] # d[2]
    BY <1>1, <1>2, ColPairs DEF OwnerInv, RestTypes
  <2>1. map[d[1]] # d[2]
    BY ColPairs DEF Mapped
  <2>2. map'[d[1]] # d[2]
    BY <1>1, <1>2, ColPairs DEF OwnerInv, RestTypes
  <2> QED BY <2>1, <2>2
<1>8. OneCreator'
  <2>1. Creators' \subseteq Creators
    <3> SUFFICES ASSUME NEW s \in Creators'
                 PROVE  s \in Creators
      OBVIOUS
    <3>1. s \in Reqs /\ s # r /\ at'[s] = at[s] /\ col'[s] = col[s] /\ to'[s] = to[s]
      BY <1>1, <1>4 DEF Creators, Loading
    <3>2. CASE at[s] = "reply"
      <4>1. rng[col[s]] # "none" /\ col[s] \in Cols /\ col[s][1] = to[s]
        BY <3>1, <3>2
           DEF OwnerInv, RangeInv, CoreInv, PlaceInv, PlaceOf, Running
      <4> QED BY <1>7, <3>1, <3>2, <4>1 DEF Creators, Loading
    <3> QED BY <3>1, <3>2 DEF Creators
  <2> QED BY <1>1, <2>1 DEF OwnerInv, OneCreator, Unraced
<1>9. Mapping'
  <2> SUFFICES ASSUME Unraced, NEW d \in Cols, rng[d] # "none"
               PROVE  /\ map'[d[1]] # d[2] =>
                           \E s \in Reqs : col'[s] = d /\ at'[s] \in LoadOnly
                      /\ map'[d[1]] = d[2] =>
                           \A s \in Reqs :
                             /\ s[2] = "load" /\ to'[s] = d[1]
                             /\ at'[s] \in Running \cup {"queued"}
                             => col'[s] = d
                      /\ \A e \in Cols : rng[e] # "none" /\ d[1] = e[1] => d = e
    BY <1>1 DEF Mapping, Unraced
  <2>1. map'[d[1]] # d[2] => \E s \in Reqs : col'[s] = d /\ at'[s] \in LoadOnly
    <3>1. SUFFICES ASSUME map'[d[1]] # d[2]
                   PROVE  \E s \in Reqs : col'[s] = d /\ at'[s] \in LoadOnly
      OBVIOUS
    <3>2. PICK s \in Reqs : col[s] = d /\ at[s] \in LoadOnly
      BY <1>7, <3>1 DEF OwnerInv, Mapping
    <3> QED BY <1>1, <1>4, <3>2 DEF LoadOnly, Loading
  <2>2. ASSUME map'[d[1]] = d[2], NEW s \in Reqs, s[2] = "load", to'[s] = d[1],
               at'[s] \in Running \cup {"queued"}
        PROVE  col'[s] = d
    <3>1. CASE s = r
      BY <1>1, <1>2, <1>4, <2>2, <3>1, ColPairs DEF OwnerInv, RestTypes
    <3>2. CASE s # r
      BY <1>1, <1>4, <1>7, <2>2, <3>2 DEF OwnerInv, Mapping
    <3> QED BY <3>1, <3>2
  <2> QED BY <2>1, <2>2 DEF OwnerInv, Mapping
<1>10. RecordInv' /\ OneServer'
  <2>1. Serving' = Serving
    BY <1>1 DEF Serving
  <2>2. \A s \in Reqs : s[2] = "unload" => at'[s] = at[s] /\ col'[s] = col[s]
    BY <1>1, <1>4
  <2>3. \A s \in Reqs : at'[s] \in Loading => at'[s] = at[s]
    BY <1>4 DEF Loading
  <2> QED BY <1>1, <2>1, <2>2, <2>3, ReqPairs
          DEF OwnerInv, RecordInv, OneServer, Loading
<1> QED BY <1>3, <1>5, <1>6, <1>8, <1>9, <1>10 DEF OwnerInv

LEMMA ExpiredKeeps ==
  ASSUME OwnerInv, NEW r \in Reqs, Expired(r)
  PROVE  OwnerInv'
<1>1. /\ at[r] = "task" /\ Finish(r, "gone") /\ faults' \in 0 .. MaxFaults
      /\ UNCHANGED <<owner, map, rng, to, col, down, hist>>
  BY OwnerAssumption DEF Expired, Fault, OwnerInv, RestTypes
<1>2. CoreInv'
  BY <1>1, FinishKeeps DEF OwnerInv, Running, Ended
<1>3. /\ at'[r] = "gone"
      /\ \A s \in Reqs : s # r =>
           at'[s] = at[s] \/ (at[s] = "queued" /\ at'[s] = "task")
  BY <1>1, FinishMoves DEF OwnerInv, Running, Ended
<1>4. \A s \in Reqs, p \in LoadOnly \cup {"run"} : at'[s] = p <=> at[s] = p
  BY <1>1, <1>3 DEF LoadOnly, Loading
<1>5. \A s \in Reqs : at'[s] \in Running \cup {"queued"} =>
        at[s] \in Running \cup {"queued"}
  BY <1>1, <1>3 DEF Running
<1>6. RestTypes'
  BY <1>1 DEF OwnerInv, RestTypes
<1>7. RangeInv'
  BY <1>1, <1>4 DEF OwnerInv, RangeInv, Loading, LoadOnly
<1>8. Creators' = Creators
  BY <1>1, <1>4 DEF Creators, Loading, LoadOnly
<1>9. OneCreator'
  BY <1>1, <1>8 DEF OwnerInv, OneCreator, Unraced
<1>10. Mapping'
  BY <1>1, <1>4, <1>5 DEF OwnerInv, Mapping, Unraced, LoadOnly
<1>11. \A s \in Reqs : at'[s] = "ok" => at[s] = "ok"
  BY <1>3
<1>12. Serving' = Serving
  BY <1>1 DEF Serving
<1>13. RecordInv' /\ OneServer'
  BY <1>1, <1>4, <1>5, <1>11, <1>12, ReqPairs
     DEF OwnerInv, RecordInv, OneServer, LoadOnly, Loading
<1> QED BY <1>2, <1>6, <1>7, <1>9, <1>10, <1>13 DEF OwnerInv

\* A range that a task finds in its Column is loaded.
LEMMA TaskFinds ==
  ASSUME OwnerInv, NEW r \in Reqs, at[r] = "task", rng[col[r]] # "none"
  PROVE  rng[col[r]] = "LOADED"
<1>1. col[r] \in Cols
  BY DEF OwnerInv, CoreInv, PlaceInv, PlaceOf, Running
<1>2. \A s \in Reqs : col[s] = col[r] /\ at[s] \in Running => s = r
  BY RunsAlone DEF OwnerInv, Running
<1>3. rng[col[r]] \notin {"LOADING", "NOTLOADED", "UNLOADING"}
  BY <1>1, <1>2 DEF OwnerInv, RangeInv, Running, Loading
<1> QED BY <1>1, <1>3 DEF OwnerInv, RestTypes

LEMMA LoadTaskKeeps ==
  ASSUME OwnerInv, NEW r \in Reqs, LoadTask(r)
  PROVE  OwnerInv'
<1>1. /\ r[2] = "load" /\ at[r] = "task"
      /\ UNCHANGED <<owner, map, busy, q, to, col, down, faults>>
  BY DEF LoadTask
<1>2. col[r] \in Cols /\ col[r][1] = to[r]
  BY <1>1 DEF OwnerInv, CoreInv, PlaceInv, PlaceOf, Running
<1>3. \A s \in Reqs : col[s] = col[r] /\ at[s] \in Running => s = r
  BY <1>1, RunsAlone DEF OwnerInv, Running
<1>4. CASE rng[col[r]] = "none"
  <2>1. /\ at' = [at EXCEPT ![r] = "last"] /\ hist' = Races(r)
        /\ rng' = [rng EXCEPT ![col[r]] = "LOADING"]
    BY <1>4 DEF LoadTask, Create, Goto
  <2>2. CoreInv'
    BY <1>1, <2>1, MoveKeeps DEF Goto, OwnerInv, Running, LoadOnly, Loading
  <2>3. at'[r] = "last" /\ \A s \in Reqs : s # r => at'[s] = at[s]
    BY <2>1 DEF OwnerInv, CoreInv, ReqTypes
  <2>4. rng'[col[r]] = "LOADING" /\ \A d \in Cols : d # col[r] => rng'[d] = rng[d]
    BY <1>2, <2>1 DEF OwnerInv, RestTypes
  <2>5. RestTypes'
    BY <1>1, <2>1 DEF OwnerInv, RestTypes, Races
  <2>6. RangeInv'
    <3>1. \A s \in Reqs : s # r /\ at[s] \in Running => rng'[col[s]] = rng[col[s]]
      BY <1>3, <2>4 DEF OwnerInv, CoreInv, PlaceInv, PlaceOf
    <3>2. \A s \in Reqs :
            /\ at'[s] \in Loading => rng'[col[s]] = "LOADING"
            /\ at'[s] = "reply" => rng'[col[s]] = "LOADED"
            /\ at'[s] = "fail" => rng'[col[s]] \in {"LOADED", "NOTLOADED"}
            /\ at'[s] = "run" => rng'[col[s]] = "UNLOADING"
      BY <2>3, <2>4, <3>1 DEF OwnerInv, RangeInv, Loading, Running
    <3>3. ASSUME NEW d \in Cols, rng'[d] \in {"LOADING", "NOTLOADED", "UNLOADING"}
          PROVE  \E s \in Reqs : col'[s] = d /\ at'[s] \in Loading \cup {"fail", "run"}
      <4>1. CASE d = col[r]
        BY <1>1, <2>3, <4>1 DEF Loading
      <4>2. CASE d # col[r]
        BY <1>1, <2>3, <2>4, <3>3, <4>2 DEF OwnerInv, RangeInv, Loading
      <4> QED BY <4>1, <4>2
    <3> QED BY <1>1, <3>2, <3>3 DEF RangeInv
  <2>7. Unraced' =>
          /\ Unraced
          /\ \A s \in Reqs : s # r /\ s[2] = "load" =>
               at[s] \notin Running /\ (at[s] = "queued" /\ to[s] = to[r] => col[s] = col[r])
    BY <2>1 DEF Unraced, Races
  <2>8. OneCreator'
    <3>1. \A s \in Creators' : s # r => s[2] = "load" /\ at[s] \in Running
      BY <2>3 DEF Creators, OwnerInv, CoreInv, PlaceInv, PlaceOf, LoadOnly, Loading, Running
    <3>2. Creators' \subseteq Reqs
      BY DEF Creators
    <3> QED BY <2>7, <3>1, <3>2 DEF OneCreator
  <2>9. Mapping'
    <3> SUFFICES ASSUME Unraced', NEW d \in Cols, rng'[d] # "none"
                 PROVE  /\ map[d[1]] # d[2] =>
                             \E s \in Reqs : col[s] = d /\ at'[s] \in LoadOnly
                        /\ map[d[1]] = d[2] =>
                             \A s \in Reqs :
                               /\ s[2] = "load" /\ to[s] = d[1]
                               /\ at'[s] \in Running \cup {"queued"}
                               => col[s] = d
                        /\ \A e \in Cols : rng'[e] # "none" /\ d[1] = e[1] => d = e
      BY <1>1 DEF Mapping
    <3>1. \A s \in Reqs : at[s] \in LoadOnly => s[2] = "load" /\ at[s] \in Running /\ s # r
      BY <1>1 DEF OwnerInv, CoreInv, PlaceInv, PlaceOf, LoadOnly, Loading, Running
    <3>2. \A e \in Cols : rng[e] # "none" => map[e[1]] = e[2] /\ e[1] # to[r]
      <4> SUFFICES ASSUME NEW e \in Cols, rng[e] # "none"
                   PROVE  map[e[1]] = e[2] /\ e[1] # to[r]
        OBVIOUS
      <4>1. map[e[1]] = e[2]
        BY <2>7, <3>1 DEF OwnerInv, Mapping
      <4>2. e[1] = to[r] => col[r] = e
        BY <1>1, <2>7, <4>1 DEF OwnerInv, Mapping, Running
      <4> QED BY <1>4, <4>1, <4>2
    <3>3. CASE d = col[r]
      BY <1>2, <2>3, <2>4, <2>7, <3>2, <3>3 DEF LoadOnly, Loading
    <3>4. CASE d # col[r]
      <4>1. rng[d] # "none" /\ map[d[1]] = d[2] /\ d[1] # to[r]
        BY <2>4, <3>2, <3>4
      <4>2. \A s \in Reqs :
              s[2] = "load" /\ to[s] = d[1] /\ at'[s] \in Running \cup {"queued"}
                => col[s] = d
        BY <2>3, <2>7, <4>1 DEF OwnerInv, Mapping
      <4>3. \A e \in Cols : rng'[e] # "none" /\ d[1] = e[1] => d = e
        BY <1>2, <2>4, <2>7, <4>1 DEF OwnerInv, Mapping
      <4> QED BY <4>1, <4>2, <4>3
    <3> QED BY <3>3, <3>4
  <2>10. hist' = {} => hist = {}
    BY <2>1 DEF Races
  <2>11. Serving' = Serving
    BY <1>4, <2>4 DEF Serving
  <2>12. RecordInv' /\ OneServer'
    <3>1. \A s \in Reqs : s[2] = "unload" => at'[s] = at[s]
      BY <1>1, <2>3
    <3>2. \A s \in Reqs : at'[s] \in {"own", "data", "ask"} => at'[s] = at[s]
      BY <2>3
    <3> QED BY <1>1, <2>10, <2>11, <3>1, <3>2, ReqPairs
            DEF OwnerInv, RecordInv, OneServer
  <2> QED BY <2>2, <2>5, <2>6, <2>8, <2>9, <2>12 DEF OwnerInv
<1>5. CASE rng[col[r]] # "none"
  <2>1. at' = [at EXCEPT ![r] = "reply"] /\ hist' = hist /\ rng' = rng
    BY <1>5 DEF LoadTask, Create, Goto
  <2>2. CoreInv'
    BY <1>1, <2>1, MoveKeeps DEF Goto, OwnerInv, Running, LoadOnly, Loading
  <2>3. at'[r] = "reply" /\ \A s \in Reqs : s # r => at'[s] = at[s]
    BY <2>1 DEF OwnerInv, CoreInv, ReqTypes
  <2>4. RestTypes'
    BY <1>1, <2>1 DEF OwnerInv, RestTypes
  <2>5. rng[col[r]] = "LOADED"
    BY <1>1, <1>5, TaskFinds
  <2>6. RangeInv'
    BY <1>1, <2>1, <2>3, <2>5 DEF OwnerInv, RangeInv, Loading
  <2>7. OneCreator'
    <3> SUFFICES ASSUME Unraced PROVE Creators' \subseteq Creators
      BY <2>1 DEF OwnerInv, OneCreator, Unraced
    <3>1. map[to[r]] = col[r][2]
      BY <1>1, <1>2, <1>3, <1>5 DEF OwnerInv, Mapping, LoadOnly, Loading, Running
    <3> QED BY <1>1, <2>3, <3>1 DEF Creators, Loading
  <2>8. Mapping'
    BY <1>1, <2>1, <2>3 DEF OwnerInv, Mapping, Unraced, LoadOnly, Loading, Running
  <2>9. RecordInv' /\ OneServer'
    <3>1. \A s \in Reqs : s[2] = "unload" => at'[s] = at[s]
      BY <1>1, <2>3
    <3>2. \A s \in Reqs : at'[s] \in {"own", "data", "ask"} => at'[s] = at[s]
      BY <2>3
    <3>3. Serving' = Serving
      BY <2>1 DEF Serving
    <3> QED BY <1>1, <2>1, <3>1, <3>2, <3>3, ReqPairs
            DEF OwnerInv, RecordInv, OneServer
  <2> QED BY <2>2, <2>4, <2>6, <2>7, <2>8, <2>9 DEF OwnerInv
<1> QED BY <1>4, <1>5

\* A load goes on from one place to another without a change of its range: what
\* is left to say is the record.
LEMMA GoesOn ==
  ASSUME OwnerInv, NEW r \in Reqs, at[r] \in Loading,
         at'[r] \in Loading,
         \A s \in Reqs : s # r =>
           at'[s] = at[s] \/ {at[s], at'[s]} \subseteq {"free", "sent", "gone"},
         \A s \in Reqs : at[s] \in Running \cup {"queued"} => to'[s] = to[s],
         UNCHANGED <<map, rng, col>>, hist \subseteq hist'
  PROVE  RangeInv' /\ OneCreator' /\ Mapping' /\ Serving' = Serving
<1>1. \A s \in Reqs, p \in {"reply", "fail", "run", "task", "queued"} :
        at'[s] = p <=> at[s] = p
  BY DEF Loading
<1>2. \A s \in Reqs : at'[s] \in Loading <=> at[s] \in Loading
  BY DEF Loading
<1>3. RangeInv'
  BY <1>1, <1>2 DEF OwnerInv, RangeInv
<1>4. Creators' = Creators
  BY <1>1, <1>2 DEF Creators, Running
<1>5. Unraced' => Unraced
  BY DEF Unraced
<1>6. OneCreator'
  BY <1>4, <1>5 DEF OwnerInv, OneCreator
<1>7. \A s \in Reqs : at'[s] \in LoadOnly <=> at[s] \in LoadOnly
  BY <1>1, <1>2 DEF LoadOnly
<1>8. \A s \in Reqs : at'[s] \in Running \cup {"queued"} =>
        at[s] \in Running \cup {"queued"} /\ to'[s] = to[s]
  BY <1>1, <1>2 DEF Running, Loading
<1>9. Mapping'
  BY <1>5, <1>7, <1>8 DEF OwnerInv, Mapping
<1>10. Serving' = Serving
  BY DEF Serving
<1> QED BY <1>3, <1>6, <1>9, <1>10

\* Nothing is served when the record is of the ranger that loads, or is none.
LEMMA NotServed ==
  ASSUME OwnerInv, NEW r \in Reqs, at[r] \in Loading, hist = {},
         owner \in {None, to[r]}
  PROVE  Serving = {}
<1> SUFFICES ASSUME NEW c \in Serving PROVE FALSE
  OBVIOUS
<1>1. c \in Cols /\ rng[c] \in {"LOADED", "UNLOADING"}
  BY DEF Serving
<1>2. owner = c[1]
  BY DEF OwnerInv, OneServer
<1>3. owner = to[r]
  BY <1>1, <1>2, ColPairs, OwnerAssumption
<1>4. col[r] \in Cols /\ col[r][1] = to[r] /\ rng[col[r]] = "LOADING"
  BY DEF OwnerInv, CoreInv, PlaceInv, PlaceOf, RangeInv, Loading, Running
<1>5. c = col[r]
  BY <1>1, <1>2, <1>3, <1>4 DEF OwnerInv, Mapping, Unraced
<1> QED BY <1>1, <1>4, <1>5

\* Without a race one load is between its Create and its end.
LEMMA LoadsAlone ==
  ASSUME OwnerInv, Unraced, NEW r \in Reqs, NEW s \in Reqs,
         at[r] \in Loading \cup {"fail"}, at[s] \in Loading \cup {"fail"}
  PROVE  r = s
BY DEF OwnerInv, OneCreator, Creators

LEMMA LastRgrKeeps ==
  ASSUME OwnerInv, NEW r \in Reqs, LastRgr(r)
  PROVE  OwnerInv'
<1>1. /\ at[r] = "last"
      /\ UNCHANGED <<owner, map, busy, q, rng, col, down, faults, hist>>
  BY DEF LastRgr, columns
<1>2. r[2] = "load" /\ at[Unload(r)] = "free" /\ Unload(r) \in Reqs /\ Unload(r) # r
  BY <1>1, ReqPairs DEF OwnerInv, CoreInv, PlaceInv, PlaceOf, LoadOnly, Loading
<1>3. RestTypes'
  BY <1>1 DEF OwnerInv, RestTypes
<1>4. CASE owner \in {None, to[r]}
  <2>1. PICK p \in {"own", "data"} :
          Goto(r, p) /\ to' = to /\ (p = "data" => owner = to[r])
    BY <1>4 DEF LastRgr
  <2>2. CoreInv'
    BY <1>1, <1>2, <2>1, MoveKeeps DEF OwnerInv, Running, LoadOnly, Loading
  <2>3. at'[r] = p /\ \A s \in Reqs : s # r => at'[s] = at[s]
    BY <2>1 DEF Goto, OwnerInv, CoreInv, ReqTypes
  <2>4. RangeInv' /\ OneCreator' /\ Mapping' /\ Serving' = Serving
    BY <1>1, <2>1, <2>3, GoesOn DEF Loading
  <2>5. hist = {} => Serving = {}
    BY <1>1, <1>4, NotServed DEF Loading
  <2>6. \A s \in Reqs : s[2] = "unload" => at'[s] = at[s]
    BY <1>2, <2>3
  <2>7. RecordInv'
    BY <1>1, <2>1, <2>3, <2>4, <2>5, <2>6, ReqPairs DEF OwnerInv, RecordInv
  <2>8. OneServer'
    BY <1>1, <2>4 DEF OwnerInv, OneServer
  <2> QED BY <1>3, <2>2, <2>4, <2>7, <2>8 DEF OwnerInv
<1>5. CASE owner \notin {None, to[r]}
  <2>1. /\ at' = [at EXCEPT ![r] = "ask", ![Unload(r)] = "sent"]
        /\ to' = [to EXCEPT ![Unload(r)] = owner] /\ owner \in Rangers
    BY <1>5 DEF LastRgr, OwnerInv, RestTypes
  <2>2. /\ at'[r] = "ask" /\ at'[Unload(r)] = "sent"
        /\ \A s \in Reqs : s # r /\ s # Unload(r) => at'[s] = at[s]
        /\ to'[Unload(r)] = owner /\ \A s \in Reqs : s # Unload(r) => to'[s] = to[s]
    BY <1>2, <2>1 DEF OwnerInv, CoreInv, ReqTypes
  <2>3. RangeInv' /\ OneCreator' /\ Mapping' /\ Serving' = Serving
    <3>1. \A s \in Reqs : s # r =>
            at'[s] = at[s] \/ {at[s], at'[s]} \subseteq {"free", "sent", "gone"}
      BY <1>2, <2>2
    <3>2. \A s \in Reqs : at[s] \in Running \cup {"queued"} => to'[s] = to[s]
      BY <1>2, <2>2 DEF Running
    <3> QED BY <1>1, <2>2, <3>1, <3>2, GoesOn DEF Loading
  <2>4. CoreInv'
    <3>1. ReqTypes'
      BY <1>1, <1>2, <2>1 DEF OwnerInv, CoreInv, ReqTypes, Running
    <3>2. Queued' /\ QueueInv'
      BY <1>1, <1>2, <2>2 DEF OwnerInv, CoreInv, ReqTypes, Queued, QueueInv
    <3>3. \A s \in Reqs : at'[s] \in Running <=> at[s] \in Running
      BY <1>1, <1>2, <2>2 DEF Running
    <3>4. OneRuns'
      BY <1>1, <3>3 DEF OwnerInv, CoreInv, OneRuns
    <3>5. PlaceInv'
      <4> SUFFICES ASSUME NEW s \in Reqs PROVE PlaceOf(s)'
        BY DEF PlaceInv
      <4>1. CASE s = r
        BY <1>1, <1>2, <2>1, <2>2, <4>1
           DEF OwnerInv, CoreInv, PlaceInv, PlaceOf, Running, LoadOnly, Loading
      <4>2. CASE s = Unload(r)
        BY <2>1, <2>2, <4>2, ReqPairs DEF PlaceOf, Running, LoadOnly, Loading
      <4>3. CASE s # r /\ s # Unload(r)
        <5>1. s[2] = "load" => Unload(s) # Unload(r) /\ Unload(s) # r /\ Unload(s) \in Reqs
          BY <1>2, <4>3, ReqPairs
        <5> QED BY <1>1, <2>2, <4>3, <5>1
                DEF OwnerInv, CoreInv, PlaceInv, PlaceOf, LoadOnly, Loading
      <4> QED BY <4>1, <4>2, <4>3
    <3> QED BY <3>1, <3>2, <3>4, <3>5 DEF CoreInv
  <2>5. RecordInv'
    <3> SUFFICES ASSUME hist = {}, NEW s \in Reqs
                 PROVE  /\ at'[s] \in {"own", "data"} => Serving = {}
                        /\ at'[s] = "data" => owner = to'[s]
                        /\ at'[s] = "ask" =>
                             /\ owner \in {to'[Unload(s)], None}
                             /\ at'[Unload(s)] = "ok" => Serving = {}
                             /\ at'[Unload(s)] \in Running \cup {"queued"} =>
                                  \A c \in Serving : c = col[Unload(s)]
      BY <1>1, <2>3 DEF RecordInv
    <3>1. CASE s = r
      BY <2>2, <3>1 DEF Running
    <3>2. CASE s # r
      <4>1. s # Unload(r) => at'[s] = at[s] /\ to'[s] = to[s]
        BY <2>2, <3>2
      <4>2. at'[s] \notin {"own", "data", "ask"}
        BY <1>1, <2>2, <3>2, <4>1, LoadsAlone DEF Loading, Unraced
      <4> QED BY <4>2
    <3> QED BY <3>1, <3>2
  <2>6. OneServer'
    BY <1>1, <2>3 DEF OwnerInv, OneServer
  <2> QED BY <1>3, <2>3, <2>4, <2>5, <2>6 DEF OwnerInv
<1> QED BY <1>4, <1>5

LEMMA LastUnreadKeeps ==
  ASSUME OwnerInv, NEW r \in Reqs, LastUnread(r)
  PROVE  OwnerInv'
<1>1. /\ at[r] = "last" /\ Goto(r, "own") /\ faults' \in 0 .. MaxFaults
      /\ hist' = IF owner \in {None, to[r]} THEN hist ELSE hist \cup {"seized"}
      /\ UNCHANGED <<owner, map, busy, q, rng, to, col, down>>
  BY OwnerAssumption DEF LastUnread, Fault, columns, OwnerInv, RestTypes
<1>2. r[2] = "load"
  BY <1>1 DEF OwnerInv, CoreInv, PlaceInv, PlaceOf, LoadOnly, Loading
<1>3. CoreInv' /\ RestTypes'
  <2>1. CoreInv'
    BY <1>1, <1>2, MoveKeeps DEF OwnerInv, Running, LoadOnly, Loading
  <2> QED BY <1>1, <2>1 DEF OwnerInv, RestTypes
<1>4. at'[r] = "own" /\ \A s \in Reqs : s # r => at'[s] = at[s]
  BY <1>1 DEF Goto, OwnerInv, CoreInv, ReqTypes
<1>5. RangeInv' /\ OneCreator' /\ Mapping' /\ Serving' = Serving
  BY <1>1, <1>4, GoesOn DEF Loading
<1>6. hist' = {} => hist = {} /\ Serving = {}
  BY <1>1, NotServed DEF Loading
<1>7. RecordInv' /\ OneServer'
  BY <1>1, <1>4, <1>5, <1>6 DEF OwnerInv, RecordInv, OneServer
<1> QED BY <1>3, <1>5, <1>7 DEF OwnerInv

LEMMA AskedKeeps ==
  ASSUME OwnerInv, NEW r \in Reqs, Asked(r)
  PROVE  OwnerInv'
<1>1. /\ at[r] = "ask" /\ at[Unload(r)] = "ok" /\ Goto(r, "own")
      /\ UNCHANGED <<owner, map, busy, q, rng, to, col, down, faults, hist>>
  BY DEF Asked, columns
<1>2. r[2] = "load"
  BY <1>1 DEF OwnerInv, CoreInv, PlaceInv, PlaceOf, LoadOnly, Loading
<1>3. CoreInv' /\ RestTypes'
  <2>1. CoreInv'
    BY <1>1, <1>2, MoveKeeps DEF OwnerInv, Running, LoadOnly, Loading
  <2> QED BY <1>1, <2>1 DEF OwnerInv, RestTypes
<1>4. at'[r] = "own" /\ \A s \in Reqs : s # r => at'[s] = at[s]
  BY <1>1 DEF Goto, OwnerInv, CoreInv, ReqTypes
<1>5. RangeInv' /\ OneCreator' /\ Mapping' /\ Serving' = Serving
  BY <1>1, <1>4, GoesOn DEF Loading
<1>6. hist = {} => Serving = {}
  BY <1>1 DEF OwnerInv, RecordInv
<1>7. RecordInv' /\ OneServer'
  BY <1>1, <1>4, <1>5, <1>6 DEF OwnerInv, RecordInv, OneServer
<1> QED BY <1>3, <1>5, <1>7 DEF OwnerInv

LEMMA TakeOverKeeps ==
  ASSUME OwnerInv, NEW r \in Reqs, TakeOver(r), faults' \in 0 .. MaxFaults
  PROVE  OwnerInv'
<1>1. /\ at[r] = "ask"
      /\ at' = [at EXCEPT ![r] = "own",
                          ![Unload(r)] = IF @ = "sent" THEN "gone" ELSE @]
      /\ UNCHANGED <<owner, map, busy, q, rng, to, col, down>>
  BY DEF TakeOver, columns
<1>2. /\ hist \subseteq hist' /\ hist' \subseteq hist \cup {"seized"}
      /\ hist' = {} => \A c \in Cols : c[1] = to[Unload(r)] => rng[c] = "none"
  BY DEF TakeOver
<1>3. r[2] = "load" /\ Unload(r) \in Reqs /\ Unload(r) # r
  BY <1>1, ReqPairs DEF OwnerInv, CoreInv, PlaceInv, PlaceOf, LoadOnly, Loading
<1>4. /\ at'[r] = "own"
      /\ at'[Unload(r)] = IF at[Unload(r)] = "sent" THEN "gone" ELSE at[Unload(r)]
      /\ \A s \in Reqs : s # r /\ s # Unload(r) => at'[s] = at[s]
  BY <1>1, <1>3 DEF OwnerInv, CoreInv, ReqTypes
<1>5. \A s \in Reqs : s # r =>
        at'[s] = at[s] \/ (at[s] = "sent" /\ at'[s] = "gone")
  BY <1>3, <1>4
<1>6. RestTypes'
  BY <1>1, <1>2 DEF OwnerInv, RestTypes
<1>7. RangeInv' /\ OneCreator' /\ Mapping' /\ Serving' = Serving
  <2>1. \A s \in Reqs : s # r =>
          at'[s] = at[s] \/ {at[s], at'[s]} \subseteq {"free", "sent", "gone"}
    BY <1>5
  <2> QED BY <1>1, <1>2, <1>4, <2>1, GoesOn DEF Loading
<1>8. CoreInv'
  <2>1. ReqTypes'
    BY <1>1, <1>3 DEF OwnerInv, CoreInv, ReqTypes, Running, Ended
  <2>2. Queued' /\ QueueInv'
    BY <1>1, <1>5 DEF OwnerInv, CoreInv, ReqTypes, Queued, QueueInv
  <2>3. \A s \in Reqs : at'[s] \in Running <=> at[s] \in Running
    BY <1>1, <1>4, <1>5 DEF Running
  <2>4. OneRuns'
    BY <1>1, <2>3 DEF OwnerInv, CoreInv, OneRuns
  <2>5. PlaceInv'
    <3> SUFFICES ASSUME NEW s \in Reqs PROVE PlaceOf(s)'
      BY DEF PlaceInv
    <3>1. CASE s = r
      BY <1>1, <1>3, <1>4, <3>1
         DEF OwnerInv, CoreInv, PlaceInv, PlaceOf, Running, LoadOnly, Loading
    <3>2. CASE s # r /\ at'[s] = "gone"
      BY <3>2 DEF PlaceOf, Running, LoadOnly, Loading
    <3>3. CASE s # r /\ at'[s] = at[s]
      <4>1. at[Unload(s)] = "free" => at'[Unload(s)] = "free"
        <5>1. Unload(s) \in Reqs /\ Unload(s) # r
          BY <1>3, ReqPairs
        <5> QED BY <1>5, <5>1
      <4>2. PlaceOf(s)
        BY DEF OwnerInv, CoreInv, PlaceInv
      <4> QED BY <1>1, <3>3, <4>1, <4>2 DEF PlaceOf
    <3> QED BY <1>5, <3>1, <3>2, <3>3
  <2> QED BY <2>1, <2>2, <2>4, <2>5 DEF CoreInv
<1>9. ASSUME hist' = {} PROVE hist = {} /\ Serving = {}
  <2>1. hist = {}
    BY <1>2, <1>9
  <2>2. owner \in {to[Unload(r)], None}
    BY <1>1, <2>1 DEF OwnerInv, RecordInv
  <2>3. ASSUME NEW c \in Serving PROVE FALSE
    <3>1. c \in Cols /\ rng[c] # "none" /\ owner = c[1]
      BY <2>1 DEF Serving, OwnerInv, OneServer
    <3> QED BY <1>2, <1>9, <2>2, <3>1, ColPairs, OwnerAssumption
  <2> QED BY <2>1, <2>3
<1>10. RecordInv' /\ OneServer'
  <2>1. \A s \in Reqs : at'[s] = "data" => at[s] = "data"
    BY <1>4, <1>5
  <2>2. \A s \in Reqs : at'[s] = "ask" => at[s] = "ask"
    BY <1>4, <1>5
  <2> QED BY <1>1, <1>7, <1>9, <2>1, <2>2 DEF OwnerInv, RecordInv, OneServer
<1> QED BY <1>6, <1>7, <1>8, <1>10 DEF OwnerInv

LEMMA TakeOwnershipKeeps ==
  ASSUME OwnerInv, NEW r \in Reqs, TakeOwnership(r)
  PROVE  OwnerInv'
<1>1. /\ at[r] = "own" /\ Goto(r, "data") /\ owner' = to[r]
      /\ UNCHANGED <<map, busy, q, rng, to, col, down, faults, hist>>
  BY DEF TakeOwnership, columns
<1>2. r[2] = "load"
  BY <1>1 DEF OwnerInv, CoreInv, PlaceInv, PlaceOf, LoadOnly, Loading
<1>3. CoreInv' /\ RestTypes'
  <2>1. CoreInv'
    BY <1>1, <1>2, MoveKeeps DEF OwnerInv, Running, LoadOnly, Loading
  <2> QED BY <1>1, <2>1 DEF OwnerInv, RestTypes, CoreInv, ReqTypes
<1>4. at'[r] = "data" /\ \A s \in Reqs : s # r => at'[s] = at[s]
  BY <1>1 DEF Goto, OwnerInv, CoreInv, ReqTypes
<1>5. RangeInv' /\ OneCreator' /\ Mapping' /\ Serving' = Serving
  BY <1>1, <1>4, GoesOn DEF Loading
<1>6. hist = {} => Serving = {}
  BY <1>1 DEF OwnerInv, RecordInv
<1>7. hist = {} => \A s \in Reqs : at'[s] \in {"own", "data", "ask"} => s = r
  BY <1>1, <1>4, LoadsAlone DEF Loading, Unraced
<1>8. RecordInv' /\ OneServer'
  BY <1>1, <1>4, <1>5, <1>6, <1>7 DEF RecordInv, OneServer
<1> QED BY <1>3, <1>5, <1>8 DEF OwnerInv

\* A load gives its range another state and goes on to its answer.
LEMMA Answers ==
  ASSUME OwnerInv, NEW r \in Reqs, at[r] \in Loading,
         NEW p \in {"reply", "fail"}, NEW x \in {"LOADED", "NOTLOADED"},
         p = "reply" => x = "LOADED", Goto(r, p),
         rng' = [rng EXCEPT ![col[r]] = x], faults' \in 0 .. MaxFaults,
         UNCHANGED <<owner, map, busy, q, to, col, down, hist>>
  PROVE  /\ CoreInv' /\ RestTypes' /\ RangeInv' /\ OneCreator' /\ Mapping'
         /\ RecordInv'
         /\ rng[col[r]] = "LOADING" /\ col[r] \in Cols /\ col[r][1] = to[r]
         /\ rng'[col[r]] = x /\ \A d \in Cols : d # col[r] => rng'[d] = rng[d]
<1>1. r[2] = "load" /\ rng[col[r]] = "LOADING" /\ col[r] \in Cols /\ col[r][1] = to[r]
  BY DEF OwnerInv, RangeInv, CoreInv, PlaceInv, PlaceOf, LoadOnly, Loading, Running
<1>2. CoreInv' /\ RestTypes'
  <2>1. CoreInv'
    BY <1>1, MoveKeeps DEF OwnerInv, Running, LoadOnly, Loading
  <2> QED BY <2>1 DEF OwnerInv, RestTypes
<1>3. at'[r] = p /\ \A s \in Reqs : s # r => at'[s] = at[s]
  BY DEF Goto, OwnerInv, CoreInv, ReqTypes
<1>4. rng'[col[r]] = x /\ \A d \in Cols : d # col[r] => rng'[d] = rng[d]
  BY <1>1 DEF OwnerInv, RestTypes
<1>5. RangeInv'
  <2>1. \A s \in Reqs : s # r /\ at[s] \in Running =>
          rng'[col[s]] = rng[col[s]]
    <3>1. \A s \in Reqs : at[s] \in Running /\ col[s] = col[r] => s = r
      BY RunsAlone DEF OwnerInv, Loading, Running
    <3> QED BY <1>4, <3>1 DEF OwnerInv, CoreInv, PlaceInv, PlaceOf
  <2>2. \A s \in Reqs :
          /\ at'[s] \in Loading => rng'[col[s]] = "LOADING"
          /\ at'[s] = "reply" => rng'[col[s]] = "LOADED"
          /\ at'[s] = "fail" => rng'[col[s]] \in {"LOADED", "NOTLOADED"}
          /\ at'[s] = "run" => rng'[col[s]] = "UNLOADING"
    BY <1>3, <1>4, <2>1 DEF OwnerInv, RangeInv, Loading, Running
  <2>3. ASSUME NEW d \in Cols, rng'[d] \in {"LOADING", "NOTLOADED", "UNLOADING"}
        PROVE  \E s \in Reqs : col[s] = d /\ at'[s] \in Loading \cup {"fail", "run"}
    <3>1. CASE d = col[r]
      BY <1>3, <1>4, <2>3, <3>1
    <3>2. CASE d # col[r]
      BY <1>3, <1>4, <2>3, <3>2 DEF OwnerInv, RangeInv
    <3> QED BY <3>1, <3>2
  <2> QED BY <2>2, <2>3 DEF RangeInv
<1>6. OneCreator'
  <2>1. Creators' \subseteq Creators
    BY <1>3 DEF Creators
  <2> QED BY <2>1 DEF OwnerInv, OneCreator, Unraced
<1>7. Mapping'
  <2>1. \A d \in Cols : rng'[d] # "none" <=> rng[d] # "none"
    BY <1>1, <1>4
  <2>2. \A s \in Reqs : at'[s] \in LoadOnly <=> at[s] \in LoadOnly
    BY <1>3 DEF LoadOnly
  <2>3. \A s \in Reqs : at'[s] \in Running \cup {"queued"} =>
          at[s] \in Running \cup {"queued"}
    BY <1>3 DEF Loading, Running
  <2> QED BY <2>1, <2>2, <2>3 DEF OwnerInv, Mapping, Unraced
<1>8. RecordInv'
  BY <1>3, LoadsAlone DEF RecordInv, Loading, Unraced
<1> QED BY <1>1, <1>2, <1>4, <1>5, <1>6, <1>7, <1>8

LEMMA LoadDataKeeps ==
  ASSUME OwnerInv, NEW r \in Reqs, LoadData(r)
  PROVE  OwnerInv'
<1>1. /\ at[r] = "data" /\ Goto(r, "reply") /\ rng' = [rng EXCEPT ![col[r]] = "LOADED"]
      /\ UNCHANGED <<owner, map, busy, q, to, col, down, faults, hist>>
      /\ faults' \in 0 .. MaxFaults
  BY DEF LoadData, OwnerInv, RestTypes
<1>2. /\ CoreInv' /\ RestTypes' /\ RangeInv' /\ OneCreator' /\ Mapping'
      /\ RecordInv'
      /\ rng[col[r]] = "LOADING" /\ col[r] \in Cols /\ col[r][1] = to[r]
      /\ rng'[col[r]] = "LOADED" /\ \A d \in Cols : d # col[r] => rng'[d] = rng[d]
  BY <1>1, Answers DEF Loading
<1>3. hist = {} => Serving = {} /\ owner = to[r]
  BY <1>1 DEF OwnerInv, RecordInv
<1>4. Serving' = Serving \cup {col[r]}
  BY <1>2 DEF Serving
<1>5. OneServer'
  BY <1>1, <1>2, <1>3, <1>4 DEF OneServer
<1> QED BY <1>2, <1>5 DEF OwnerInv

LEMMA LoadFailsKeeps ==
  ASSUME OwnerInv, NEW r \in Reqs, LoadFails(r)
  PROVE  OwnerInv'
<1>1. /\ at[r] \in Loading /\ Goto(r, "fail")
      /\ rng' = [rng EXCEPT ![col[r]] = "NOTLOADED"]
      /\ UNCHANGED <<owner, map, busy, q, to, col, down, hist>>
      /\ faults' \in 0 .. MaxFaults
  BY OwnerAssumption DEF LoadFails, Fault, OwnerInv, RestTypes, Loading
<1>2. /\ CoreInv' /\ RestTypes' /\ RangeInv' /\ OneCreator' /\ Mapping'
      /\ RecordInv'
      /\ rng[col[r]] = "LOADING" /\ col[r] \in Cols /\ col[r][1] = to[r]
      /\ rng'[col[r]] = "NOTLOADED" /\ \A d \in Cols : d # col[r] => rng'[d] = rng[d]
  BY <1>1, Answers
<1>3. Serving' = Serving
  BY <1>2 DEF Serving
<1>4. OneServer'
  BY <1>1, <1>3 DEF OwnerInv, OneServer
<1> QED BY <1>2, <1>4 DEF OwnerInv

LEMMA ReplyKeeps ==
  ASSUME OwnerInv, NEW r \in Reqs, Reply(r)
  PROVE  OwnerInv'
<1>1. /\ at[r] = "reply"
      /\ UNCHANGED <<owner, map, rng, to, col, down, faults, hist>>
  BY DEF Reply
<1>2. /\ r[2] = "load" /\ rng[col[r]] = "LOADED" /\ col[r] \in Cols
      /\ col[r][1] = to[r] /\ to[r] \in Rangers
  BY <1>1
     DEF OwnerInv, RangeInv, CoreInv, PlaceInv, PlaceOf, LoadOnly, Loading, Running
<1>3. RestTypes' /\ Serving' = Serving /\ OneServer'
  BY <1>1 DEF OwnerInv, RestTypes, Serving, OneServer
<1>4. CASE Mapped(to[r]) = "LOADED"
  <2>1. Finish(r, "ok")
    BY <1>4 DEF Reply
  <2>2. CoreInv'
    BY <1>1, <2>1, FinishKeeps DEF OwnerInv, Running, Ended
  <2>3. /\ at'[r] = "ok"
        /\ \A s \in Reqs : s # r =>
             at'[s] = at[s] \/ (at[s] = "queued" /\ at'[s] = "task")
    BY <1>1, <2>1, FinishMoves DEF OwnerInv, Running, Ended
  <2>4. \A s \in Reqs, p \in LoadOnly \cup {"run"} :
          /\ at'[s] = p => at[s] = p
          /\ at[s] = p /\ s # r => at'[s] = p
    BY <2>3 DEF LoadOnly, Loading
  <2>5. RangeInv'
    BY <1>1, <2>4 DEF OwnerInv, RangeInv, Loading, LoadOnly
  <2>6. OneCreator'
    <3>1. Creators' \subseteq Creators
      BY <1>1, <2>4 DEF Creators, Loading, LoadOnly
    <3> QED BY <1>1, <3>1 DEF OwnerInv, OneCreator, Unraced
  <2>7. Unraced => map[to[r]] = col[r][2]
    <3>1. map[to[r]] # 0 /\ rng[<<to[r], map[to[r]]>>] = "LOADED"
      BY <1>4 DEF Mapped
    <3>2. <<to[r], map[to[r]]>> \in Cols
      BY <1>2, <3>1, ColPairs DEF OwnerInv, RestTypes
    <3> QED BY <1>2, <3>1, <3>2, ColPairs DEF OwnerInv, Mapping
  <2>8. Mapping'
    <3> SUFFICES ASSUME Unraced, NEW d \in Cols, rng[d] # "none"
                 PROVE  /\ map[d[1]] # d[2] =>
                             \E s \in Reqs : col[s] = d /\ at'[s] \in LoadOnly
                        /\ map[d[1]] = d[2] =>
                             \A s \in Reqs :
                               /\ s[2] = "load" /\ to[s] = d[1]
                               /\ at'[s] \in Running \cup {"queued"}
                               => col[s] = d
                        /\ \A e \in Cols : rng[e] # "none" /\ d[1] = e[1] => d = e
      BY <1>1 DEF Mapping, Unraced
    <3>1. map[d[1]] # d[2] => \E s \in Reqs : col[s] = d /\ at'[s] \in LoadOnly
      BY <1>2, <2>4, <2>7 DEF OwnerInv, Mapping
    <3>2. \A s \in Reqs : at'[s] \in Running \cup {"queued"} =>
            at[s] \in Running \cup {"queued"}
      BY <2>3 DEF Running
    <3> QED BY <3>1, <3>2 DEF OwnerInv, Mapping
  <2>9. RecordInv'
    <3>1. \A s \in Reqs : s[2] = "unload" /\ at'[s] = "ok" => at[s] = "ok"
      BY <1>2, <2>3
    <3>2. \A s \in Reqs : s[2] = "unload" /\ at'[s] \in Running \cup {"queued"} =>
            at[s] \in Running \cup {"queued"}
      BY <1>2, <2>3 DEF Running
    <3> QED BY <1>1, <1>3, <2>4, <3>1, <3>2, ReqPairs
            DEF OwnerInv, RecordInv, LoadOnly, Loading
  <2> QED BY <1>3, <2>2, <2>5, <2>6, <2>8, <2>9 DEF OwnerInv
<1>5. CASE Mapped(to[r]) # "LOADED"
  <2>1. Goto(r, "fail") /\ UNCHANGED <<busy, q>>
    BY <1>5 DEF Reply
  <2>2. CoreInv'
    BY <1>1, <1>2, <2>1, MoveKeeps DEF OwnerInv, Running, LoadOnly, Loading
  <2>3. at'[r] = "fail" /\ \A s \in Reqs : s # r => at'[s] = at[s]
    BY <2>1 DEF Goto, OwnerInv, CoreInv, ReqTypes
  <2>4. RangeInv'
    BY <1>1, <1>2, <2>3 DEF OwnerInv, RangeInv, Loading
  <2>5. OneCreator'
    <3>1. map[to[r]] # col[r][2]
      BY <1>2, <1>5, ColPairs DEF Mapped
    <3>2. Creators' \subseteq Creators
      BY <1>1, <2>3, <3>1 DEF Creators
    <3> QED BY <1>1, <3>2 DEF OwnerInv, OneCreator, Unraced
  <2>6. Mapping'
    <3>1. \A s \in Reqs : at'[s] \in LoadOnly <=> at[s] \in LoadOnly
      BY <1>1, <2>3 DEF LoadOnly
    <3>2. \A s \in Reqs : at'[s] \in Running \cup {"queued"} =>
            at[s] \in Running \cup {"queued"}
      BY <1>1, <2>3 DEF Running
    <3> QED BY <1>1, <3>1, <3>2 DEF OwnerInv, Mapping, Unraced
  <2>7. RecordInv'
    <3>1. \A s \in Reqs : s[2] = "unload" => at'[s] = at[s]
      BY <1>2, <2>3
    <3> QED BY <1>1, <1>3, <2>3, <3>1, ReqPairs DEF OwnerInv, RecordInv
  <2> QED BY <1>3, <2>2, <2>4, <2>5, <2>6, <2>7 DEF OwnerInv
<1> QED BY <1>4, <1>5

\* A request ends and leaves no range in its Column, which may be erased.
LEMMA EndsEmpty ==
  ASSUME OwnerInv, NEW r \in Reqs, NEW p \in Ended, NEW held \in BOOLEAN,
         at[r] \in Running, Finish(r, p), EraseIfEmpty(col[r], held),
         rng' = [rng EXCEPT ![col[r]] = "none"], hist \subseteq hist',
         UNCHANGED <<to, col, down>>
  PROVE  /\ CoreInv' /\ RangeInv' /\ OneCreator' /\ Mapping'
         /\ map' \in [Rangers -> 0 .. NCols]
         /\ Serving' = Serving \ {col[r]}
<1>1. col[r] \in Cols /\ col[r][1] = to[r]
  BY DEF OwnerInv, CoreInv, PlaceInv, PlaceOf
<1>2. CoreInv'
  BY FinishKeeps DEF OwnerInv
<1>3. /\ at'[r] = p
      /\ \A s \in Reqs : s # r =>
           at'[s] = at[s] \/ (at[s] = "queued" /\ at'[s] = "task")
  BY FinishMoves DEF OwnerInv
<1>4. \A s \in Reqs, x \in LoadOnly \cup {"run"} :
        /\ at'[s] = x => at[s] = x /\ s # r
        /\ at[s] = x /\ s # r => at'[s] = x
  BY <1>3 DEF LoadOnly, Loading, Ended
<1>5. \A s \in Reqs : at[s] \in Running /\ s # r => col[s] # col[r] /\ col[s] \in Cols
  BY RunsAlone DEF OwnerInv, CoreInv, PlaceInv, PlaceOf
<1>6. rng'[col[r]] = "none" /\ \A d \in Cols : d # col[r] => rng'[d] = rng[d]
  BY <1>1 DEF OwnerInv, RestTypes
<1>7. /\ map' \in [Rangers -> 0 .. NCols]
      /\ \A g \in Rangers :
           \/ map'[g] = map[g]
           \/ /\ map'[g] = 0 /\ <<g, map[g]>> \in Cols
              /\ <<g, map[g]>> = col[r] \/ rng[<<g, map[g]>>] = "none"
  BY <1>1, EraseMoves DEF OwnerInv
<1>8. \A d \in Cols : d # col[r] /\ rng[d] # "none" =>
        (map'[d[1]] = d[2] <=> map[d[1]] = d[2])
  <2> SUFFICES ASSUME NEW d \in Cols, d # col[r], rng[d] # "none"
               PROVE  map'[d[1]] = d[2] <=> map[d[1]] = d[2]
    OBVIOUS
  <2>1. d[1] \in Rangers /\ d = <<d[1], d[2]>> /\ d[2] # 0
    BY ColPairs
  <2>2. map[d[1]] = d[2] => map'[d[1]] = map[d[1]]
    BY <1>7, <2>1
  <2>3. map[d[1]] # d[2] => map'[d[1]] # d[2]
    BY <1>7, <2>1
  <2> QED BY <2>2, <2>3
<1>9. RangeInv'
  <2>1. \A s \in Reqs : s # r /\ at[s] \in Running => rng'[col[s]] = rng[col[s]]
    BY <1>5, <1>6
  <2>2. \A s \in Reqs :
          /\ at'[s] \in Loading => rng'[col[s]] = "LOADING"
          /\ at'[s] = "reply" => rng'[col[s]] = "LOADED"
          /\ at'[s] = "fail" => rng'[col[s]] \in {"LOADED", "NOTLOADED"}
          /\ at'[s] = "run" => rng'[col[s]] = "UNLOADING"
    BY <1>4, <2>1 DEF OwnerInv, RangeInv, LoadOnly, Loading, Running
  <2>3. ASSUME NEW d \in Cols, rng'[d] \in {"LOADING", "NOTLOADED", "UNLOADING"}
        PROVE  \E s \in Reqs : col[s] = d /\ at'[s] \in Loading \cup {"fail", "run"}
    <3>1. d # col[r] /\ rng'[d] = rng[d]
      BY <1>6, <2>3
    <3>2. PICK s \in Reqs : col[s] = d /\ at[s] \in Loading \cup {"fail", "run"}
      BY <2>3, <3>1 DEF OwnerInv, RangeInv
    <3> QED BY <1>4, <3>1, <3>2 DEF LoadOnly
  <2> QED BY <2>2, <2>3 DEF RangeInv
<1>10. Unraced' => Unraced
  BY DEF Unraced
<1>11. OneCreator'
  <2>1. ASSUME NEW s \in Creators' PROVE s \in Creators
    <3>1. s \in Reqs /\ s # r /\ at'[s] = at[s]
      BY <1>4 DEF Creators, LoadOnly, Loading
    <3>2. CASE at[s] = "reply"
      <4>1. /\ rng[col[s]] # "none" /\ col[s] \in Cols /\ col[s] # col[r]
            /\ col[s][1] = to[s]
        BY <1>5, <3>1, <3>2
           DEF OwnerInv, RangeInv, CoreInv, PlaceInv, PlaceOf, Running
      <4> QED BY <1>8, <3>1, <3>2, <4>1 DEF Creators, Loading
    <3> QED BY <3>1, <3>2 DEF Creators
  <2> QED BY <1>10, <2>1 DEF OwnerInv, OneCreator
<1>12. Mapping'
  <2> SUFFICES ASSUME Unraced, NEW d \in Cols, rng'[d] # "none"
               PROVE  /\ map'[d[1]] # d[2] =>
                           \E s \in Reqs : col[s] = d /\ at'[s] \in LoadOnly
                      /\ map'[d[1]] = d[2] =>
                           \A s \in Reqs :
                             /\ s[2] = "load" /\ to[s] = d[1]
                             /\ at'[s] \in Running \cup {"queued"}
                             => col[s] = d
                      /\ \A e \in Cols : rng'[e] # "none" /\ d[1] = e[1] => d = e
    BY <1>10 DEF Mapping
  <2>1. d # col[r] /\ rng[d] # "none" /\ \A e \in Cols : rng'[e] # "none" => rng[e] # "none"
    BY <1>6
  <2>2. map'[d[1]] # d[2] => \E s \in Reqs : col[s] = d /\ at'[s] \in LoadOnly
    BY <1>4, <1>8, <2>1 DEF OwnerInv, Mapping
  <2>3. \A s \in Reqs : at'[s] \in Running \cup {"queued"} =>
          at[s] \in Running \cup {"queued"}
    BY <1>3 DEF Running, Ended
  <2> QED BY <1>8, <2>1, <2>2, <2>3 DEF OwnerInv, Mapping
<1>13. Serving' = Serving \ {col[r]}
  BY <1>6 DEF Serving
<1> QED BY <1>2, <1>7, <1>9, <1>11, <1>12, <1>13

\* Range::internal_unload with remove_rgr: the record is erased and, when it was
\* the ranger's own, no ranger serves the range.
LEMMA Unloaded ==
  ASSUME OwnerInv, NEW r \in Reqs, at[r] \in Running, rng[col[r]] # "none",
         Unloads(r)
  PROVE  /\ hist \subseteq hist' /\ hist' \subseteq hist \cup {"erased"}
         /\ hist' = {} => Serving \subseteq {col[r]}
<1>1. /\ hist \subseteq hist' /\ hist' \subseteq hist \cup {"erased"}
      /\ hist' = {} => owner \in {None, to[r]}
  BY DEF Unloads
<1>2. ASSUME hist' = {}, NEW c \in Serving PROVE c = col[r]
  <2>1. hist = {} /\ c \in Cols /\ rng[c] # "none"
    BY <1>1, <1>2 DEF Serving
  <2>2. owner = c[1]
    BY <2>1 DEF OwnerInv, OneServer
  <2>3. c[1] = to[r]
    BY <1>1, <1>2, <2>1, <2>2, ColPairs, OwnerAssumption
  <2>4. col[r] \in Cols /\ col[r][1] = to[r]
    BY DEF OwnerInv, CoreInv, PlaceInv, PlaceOf
  <2> QED BY <2>1, <2>3, <2>4 DEF OwnerInv, Mapping, Unraced
<1> QED BY <1>1, <1>2

LEMMA BadLoadKeeps ==
  ASSUME OwnerInv, NEW r \in Reqs, BadLoad(r)
  PROVE  OwnerInv'
<1>1. /\ at[r] = "fail" /\ Unloads(r) /\ EraseIfEmpty(col[r], TRUE)
      /\ Finish(r, "err") /\ UNCHANGED <<to, col, down, faults>>
      /\ owner' = None /\ rng' = [rng EXCEPT ![col[r]] = "none"]
  BY DEF BadLoad, Unloads
<1>2. /\ hist \subseteq hist' /\ hist' \subseteq hist \cup {"erased"}
      /\ hist' = {} => Serving \subseteq {col[r]}
  BY <1>1, Unloaded DEF Running, OwnerInv, RangeInv
<1>3. /\ CoreInv' /\ RangeInv' /\ OneCreator' /\ Mapping'
      /\ map' \in [Rangers -> 0 .. NCols]
      /\ Serving' = Serving \ {col[r]}
  BY <1>1, <1>2, EndsEmpty DEF Running, Ended
<1>4. RestTypes'
  BY <1>1, <1>2, <1>3 DEF OwnerInv, RestTypes
<1>5. OneServer'
  BY <1>2, <1>3 DEF OneServer
<1>6. RecordInv'
  <2>1. \A s \in Reqs : at'[s] \in {"own", "data", "ask"} => at[s] = at'[s] /\ s # r
    BY <1>1, FinishMoves DEF OwnerInv, Running, Ended
  <2>2. hist' = {} => \A s \in Reqs : at'[s] \notin {"own", "data", "ask"}
    BY <1>1, <1>2, <2>1, LoadsAlone DEF Loading, Unraced
  <2> QED BY <2>2 DEF RecordInv
<1> QED BY <1>3, <1>4, <1>5, <1>6 DEF OwnerInv

LEMMA UnloadEndKeeps ==
  ASSUME OwnerInv, NEW r \in Reqs, UnloadEnd(r)
  PROVE  OwnerInv'
<1>1. /\ at[r] = "run" /\ Unloads(r) /\ EraseIfEmpty(col[r], FALSE)
      /\ Finish(r, "ok") /\ UNCHANGED <<to, col, down, faults>>
      /\ owner' = None /\ rng' = [rng EXCEPT ![col[r]] = "none"]
  BY DEF UnloadEnd, Unloads
<1>2. /\ hist \subseteq hist' /\ hist' \subseteq hist \cup {"erased"}
      /\ hist' = {} => Serving \subseteq {col[r]}
  BY <1>1, Unloaded DEF Running, OwnerInv, RangeInv
<1>3. /\ CoreInv' /\ RangeInv' /\ OneCreator' /\ Mapping'
      /\ map' \in [Rangers -> 0 .. NCols]
      /\ Serving' = Serving \ {col[r]}
  BY <1>1, <1>2, EndsEmpty DEF Running, Ended
<1>4. RestTypes'
  BY <1>1, <1>2, <1>3 DEF OwnerInv, RestTypes
<1>5. OneServer'
  BY <1>2, <1>3 DEF OneServer
<1>6. RecordInv'
  <2>1. \A s \in Reqs : at'[s] = "data" => at[s] = "data"
    BY <1>1, FinishMoves DEF OwnerInv, Running, Ended
  <2>2. col[r] \in Serving
    BY <1>1 DEF OwnerInv, RangeInv, Serving, CoreInv, PlaceInv, PlaceOf, Running
  <2>3. hist' = {} => Serving' = {} /\ \A s \in Reqs : at'[s] # "data"
    BY <1>2, <1>3, <2>1, <2>2 DEF OwnerInv, RecordInv
  <2> QED BY <1>1, <2>3 DEF RecordInv
<1> QED BY <1>3, <1>4, <1>5, <1>6 DEF OwnerInv

LEMMA UnloadTaskKeeps ==
  ASSUME OwnerInv, NEW r \in Reqs, UnloadTask(r)
  PROVE  OwnerInv'
<1>1. /\ r[2] = "unload" /\ at[r] = "task"
      /\ UNCHANGED <<owner, to, col, down, faults, hist>>
  BY DEF UnloadTask
<1>2. col[r] \in Cols /\ col[r][1] = to[r]
  BY <1>1 DEF OwnerInv, CoreInv, PlaceInv, PlaceOf, Running
<1>3. CASE rng[col[r]] = "none"
  <2>1. EraseIfEmpty(col[r], FALSE) /\ Finish(r, "ok") /\ rng' = rng
    BY <1>3 DEF UnloadTask
  <2>2. rng' = [rng EXCEPT ![col[r]] = "none"]
    BY <1>2, <1>3, <2>1 DEF OwnerInv, RestTypes
  <2>3. /\ CoreInv' /\ RangeInv' /\ OneCreator' /\ Mapping'
        /\ map' \in [Rangers -> 0 .. NCols]
        /\ Serving' = Serving \ {col[r]}
    BY <1>1, <2>1, <2>2, EndsEmpty DEF Running, Ended
  <2>4. RestTypes'
    BY <1>1, <2>1, <2>3 DEF OwnerInv, RestTypes
  <2>5. OneServer'
    BY <1>1, <2>3 DEF OwnerInv, OneServer
  <2>6. col[r] \notin Serving
    BY <1>3 DEF Serving
  <2>7. /\ at'[r] = "ok"
        /\ \A s \in Reqs : s # r =>
             at'[s] = at[s] \/ (at[s] = "queued" /\ at'[s] = "task")
    BY <1>1, <2>1, FinishMoves DEF OwnerInv, Running, Ended
  <2>8. RecordInv'
    <3> SUFFICES ASSUME hist = {}, NEW s \in Reqs
                 PROVE  /\ at'[s] \in {"own", "data"} => Serving = {}
                        /\ at'[s] = "data" => owner = to[s]
                        /\ at'[s] = "ask" =>
                             /\ owner \in {to[Unload(s)], None}
                             /\ at'[Unload(s)] = "ok" => Serving = {}
                             /\ at'[Unload(s)] \in Running \cup {"queued"} =>
                                  \A c \in Serving : c = col[Unload(s)]
      BY <1>1, <2>3, <2>6 DEF RecordInv
    <3>1. Unload(s) \in Reqs
      BY ReqPairs
    <3>2. at'[s] \in {"own", "data", "ask"} => at[s] = at'[s]
      BY <2>7
    <3>3. CASE Unload(s) = r
      BY <1>1, <2>6, <2>7, <3>2, <3>3 DEF OwnerInv, RecordInv, Running
    <3>4. CASE Unload(s) # r
      BY <2>7, <3>1, <3>2, <3>4 DEF OwnerInv, RecordInv, Running
    <3> QED BY <3>3, <3>4
  <2> QED BY <2>3, <2>4, <2>5, <2>8 DEF OwnerInv
<1>4. CASE rng[col[r]] # "none"
  <2>1. /\ Goto(r, "run") /\ UNCHANGED <<map, busy, q>>
        /\ rng' = [rng EXCEPT ![col[r]] = "UNLOADING"]
    BY <1>4 DEF UnloadTask
  <2>2. rng[col[r]] = "LOADED"
    BY <1>1, <1>4, TaskFinds
  <2>3. CoreInv'
    BY <1>1, <2>1, MoveKeeps DEF OwnerInv, Running, LoadOnly, Loading
  <2>4. at'[r] = "run" /\ \A s \in Reqs : s # r => at'[s] = at[s]
    BY <2>1 DEF Goto, OwnerInv, CoreInv, ReqTypes
  <2>5. rng'[col[r]] = "UNLOADING" /\ \A d \in Cols : d # col[r] => rng'[d] = rng[d]
    BY <1>2, <2>1 DEF OwnerInv, RestTypes
  <2>6. RestTypes'
    BY <1>1, <2>1 DEF OwnerInv, RestTypes
  <2>7. RangeInv'
    <3>1. \A s \in Reqs : s # r /\ at[s] \in Running =>
            rng'[col[s]] = rng[col[s]]
      <4>1. \A s \in Reqs : at[s] \in Running /\ col[s] = col[r] => s = r
        BY <1>1, RunsAlone DEF OwnerInv, Running
      <4> QED BY <2>5, <4>1 DEF OwnerInv, CoreInv, PlaceInv, PlaceOf
    <3>2. \A s \in Reqs :
            /\ at'[s] \in Loading => rng'[col[s]] = "LOADING"
            /\ at'[s] = "reply" => rng'[col[s]] = "LOADED"
            /\ at'[s] = "fail" => rng'[col[s]] \in {"LOADED", "NOTLOADED"}
            /\ at'[s] = "run" => rng'[col[s]] = "UNLOADING"
      BY <2>4, <2>5, <3>1 DEF OwnerInv, RangeInv, Loading, Running
    <3>3. ASSUME NEW d \in Cols, rng'[d] \in {"LOADING", "NOTLOADED", "UNLOADING"}
          PROVE  \E s \in Reqs : col[s] = d /\ at'[s] \in Loading \cup {"fail", "run"}
      <4>1. CASE d = col[r]
        BY <2>4, <4>1
      <4>2. CASE d # col[r]
        BY <1>1, <2>4, <2>5, <3>3, <4>2 DEF OwnerInv, RangeInv, Loading
      <4> QED BY <4>1, <4>2
    <3> QED BY <1>1, <3>2, <3>3 DEF RangeInv
  <2>8. OneCreator'
    <3>1. Creators' = Creators
      BY <1>1, <2>1, <2>4 DEF Creators, Loading
    <3> QED BY <1>1, <3>1 DEF OwnerInv, OneCreator, Unraced
  <2>9. Mapping'
    <3>1. \A d \in Cols : rng'[d] # "none" <=> rng[d] # "none"
      BY <1>4, <2>5
    <3>2. \A s \in Reqs : at'[s] \in LoadOnly <=> at[s] \in LoadOnly
      BY <1>1, <2>4 DEF LoadOnly, Loading
    <3>3. \A s \in Reqs : at'[s] \in Running \cup {"queued"} =>
            at[s] \in Running \cup {"queued"}
      BY <1>1, <2>4 DEF Running
    <3> QED BY <1>1, <2>1, <3>1, <3>2, <3>3 DEF OwnerInv, Mapping, Unraced
  <2>10. Serving' = Serving
    BY <2>2, <2>5 DEF Serving
  <2>11. RecordInv' /\ OneServer'
    <3>1. \A s \in Reqs :
            /\ at'[s] \in {"own", "data", "ask", "ok"} => at'[s] = at[s]
            /\ at'[s] \in Running \cup {"queued"} => at[s] \in Running \cup {"queued"}
      BY <1>1, <2>4 DEF Running
    <3> QED BY <1>1, <2>10, <3>1, ReqPairs DEF OwnerInv, RecordInv, OneServer
  <2> QED BY <2>3, <2>6, <2>7, <2>8, <2>9, <2>11 DEF OwnerInv
<1> QED BY <1>3, <1>4

\* While a load asks the last ranger, what is served is in the Column that the
\* last ranger has for the range.
LEMMA AskedServes ==
  ASSUME OwnerInv, hist = {}, NEW s \in Reqs, at[s] = "ask", NEW c \in Serving
  PROVE  c \in Cols /\ c[1] = to[Unload(s)] /\ map[c[1]] = c[2]
<1>1. c \in Cols /\ rng[c] \in {"LOADED", "UNLOADING"} /\ owner = c[1]
  BY DEF Serving, OwnerInv, OneServer
<1>2. c[1] = to[Unload(s)]
  <2>1. owner \in {to[Unload(s)], None}
    BY DEF OwnerInv, RecordInv
  <2> QED BY <1>1, <2>1, ColPairs, OwnerAssumption
<1>3. map[c[1]] = c[2]
  <2> SUFFICES ASSUME map[c[1]] # c[2] PROVE FALSE
    OBVIOUS
  <2>1. PICK t \in Reqs : col[t] = c /\ at[t] \in LoadOnly
    BY <1>1 DEF OwnerInv, Mapping, Unraced
  <2>2. col[t][1] = to[t]
    BY <2>1 DEF OwnerInv, CoreInv, PlaceInv, PlaceOf, LoadOnly, Loading, Running
  <2>3. t \in Creators /\ s \in Creators
    BY <2>1, <2>2 DEF Creators, LoadOnly, Loading
  <2>4. t = s
    BY <2>3 DEF OwnerInv, OneCreator, Unraced
  <2>5. rng[c] = "LOADING"
    BY <2>1, <2>4 DEF OwnerInv, RangeInv, Loading
  <2> QED BY <1>1, <2>5
<1> QED BY <1>1, <1>2, <1>3

LEMMA UnloadRangeKeeps ==
  ASSUME OwnerInv, NEW r \in Reqs, UnloadRange(r)
  PROVE  OwnerInv'
<1>1. /\ r[2] = "unload" /\ at[r] = "sent" /\ to[r] \in Rangers \ down
      /\ UNCHANGED <<owner, map, rng, to, down, faults, hist>>
  BY DEF UnloadRange, OwnerInv, CoreInv, PlaceInv, PlaceOf
<1>2. /\ CoreInv' /\ at'[r] \in {"ok", "queued", "task"}
      /\ at'[r] = "ok" => map[to[r]] = 0
      /\ at'[r] # "ok" => col'[r] = <<to[r], map[to[r]]>>
      /\ \A s \in Reqs : s # r => at'[s] = at[s] /\ col'[s] = col[s]
  <2>1. CASE map[to[r]] = 0
    <3>1. at' = [at EXCEPT ![r] = "ok"] /\ UNCHANGED <<busy, q, col>>
      BY <2>1 DEF UnloadRange, Goto
    <3>2. at'[r] = "ok" /\ \A s \in Reqs : s # r => at'[s] = at[s]
      BY <3>1 DEF OwnerInv, CoreInv, ReqTypes
    <3>3. ReqTypes'
      BY <1>1, <3>1 DEF OwnerInv, CoreInv, ReqTypes, Ended
    <3>4. Queued' /\ QueueInv'
      BY <1>1, <3>1, <3>2 DEF OwnerInv, CoreInv, ReqTypes, Queued, QueueInv
    <3>5. OneRuns'
      <4>1. \A s \in Reqs : at'[s] \in Running <=> at[s] \in Running
        BY <1>1, <3>2 DEF Running
      <4> QED BY <3>1, <4>1 DEF OwnerInv, CoreInv, OneRuns
    <3>6. PlaceInv'
      <4> SUFFICES ASSUME NEW s \in Reqs PROVE PlaceOf(s)'
        BY DEF PlaceInv
      <4>1. CASE s = r
        BY <3>2, <4>1 DEF PlaceOf, Running, LoadOnly, Loading
      <4>2. CASE s # r
        <5>1. at[Unload(s)] = "free" => at'[Unload(s)] = "free"
          BY <1>1, <3>2, ReqPairs
        <5>2. PlaceOf(s)
          BY DEF OwnerInv, CoreInv, PlaceInv
        <5> QED BY <1>1, <3>1, <3>2, <4>2, <5>1, <5>2 DEF PlaceOf
      <4> QED BY <4>1, <4>2
    <3> QED BY <2>1, <3>1, <3>2, <3>3, <3>4, <3>5, <3>6 DEF CoreInv
  <2>2. CASE map[to[r]] # 0
    <3>1. Add(r, <<to[r], map[to[r]]>>)
      BY <2>2 DEF UnloadRange
    <3>2. <<to[r], map[to[r]]>> \in Cols /\ <<to[r], map[to[r]]>>[1] = to[r]
      BY <1>1, <2>2, ColPairs DEF OwnerInv, RestTypes
    <3>3. CoreInv'
      BY <1>1, <3>1, <3>2, AddKeeps DEF OwnerInv
    <3>4. /\ at'[r] \in {"queued", "task"} /\ col'[r] = <<to[r], map[to[r]]>>
          /\ \A s \in Reqs : s # r => at'[s] = at[s] /\ col'[s] = col[s]
      BY <3>1, <3>2, AddMoves DEF OwnerInv
    <3> QED BY <3>3, <3>4
  <2> QED BY <2>1, <2>2
<1>3. RestTypes' /\ Serving' = Serving /\ OneServer'
  BY <1>1 DEF OwnerInv, RestTypes, Serving, OneServer
<1>4. RangeInv'
  BY <1>1, <1>2 DEF OwnerInv, RangeInv, Loading
<1>5. OneCreator'
  <2>1. Creators' = Creators
    BY <1>1, <1>2 DEF Creators, Loading
  <2> QED BY <1>1, <2>1 DEF OwnerInv, OneCreator, Unraced
<1>6. Mapping'
  <2>1. \A s \in Reqs : at'[s] \in LoadOnly <=> at[s] \in LoadOnly
    BY <1>1, <1>2 DEF LoadOnly, Loading
  <2>2. \A s \in Reqs : at[s] \in LoadOnly => col'[s] = col[s]
    BY <1>1, <1>2 DEF LoadOnly, Loading
  <2>3. \A s \in Reqs : s[2] = "load" => at'[s] = at[s] /\ col'[s] = col[s]
    BY <1>1, <1>2
  <2> QED BY <1>1, <2>1, <2>2, <2>3 DEF OwnerInv, Mapping, Unraced
<1>7. RecordInv'
  <2> SUFFICES ASSUME hist = {}, NEW s \in Reqs
               PROVE  /\ at'[s] \in {"own", "data"} => Serving = {}
                      /\ at'[s] = "data" => owner = to[s]
                      /\ at'[s] = "ask" =>
                           /\ owner \in {to[Unload(s)], None}
                           /\ at'[Unload(s)] = "ok" => Serving = {}
                           /\ at'[Unload(s)] \in Running \cup {"queued"} =>
                                \A c \in Serving : c = col'[Unload(s)]
    BY <1>1, <1>3 DEF RecordInv
  <2>1. at'[s] \in {"own", "data", "ask"} => at[s] = at'[s]
    BY <1>2
  <2>2. CASE Unload(s) = r
    <3>1. SUFFICES ASSUME at[s] = "ask"
                   PROVE  /\ at'[r] = "ok" => Serving = {}
                          /\ at'[r] # "ok" => \A c \in Serving : c = col'[r]
      BY <2>1, <2>2, <3>1 DEF OwnerInv, RecordInv, Running
    <3>2. \A c \in Serving : c \in Cols /\ c[1] = to[r] /\ map[c[1]] = c[2]
      BY <2>2, <3>1, AskedServes
    <3> QED BY <1>2, <3>2, ColPairs
  <2>3. CASE Unload(s) # r
    BY <1>2, <2>1, <2>3, ReqPairs DEF OwnerInv, RecordInv
  <2> QED BY <2>2, <2>3
<1> QED BY <1>2, <1>3, <1>4, <1>5, <1>6, <1>7 DEF OwnerInv

LEMMA OwnerStutters ==
  ASSUME OwnerInv, UNCHANGED vars
  PROVE  OwnerInv'
<1>1. UNCHANGED <<owner, map, busy, q, rng, at, to, col, down, faults, hist>>
  BY DEF vars, columns, reqs
<1>2. CoreInv'
  BY <1>1 DEF OwnerInv, CoreInv, ReqTypes, Queued, OneRuns, PlaceInv, PlaceOf,
     QueueInv
<1>3. RestTypes' /\ RangeInv' /\ OneCreator' /\ Mapping'
  BY <1>1 DEF OwnerInv, RestTypes, RangeInv, OneCreator, Creators, Mapping, Unraced
<1>4. RecordInv' /\ OneServer'
  BY <1>1 DEF OwnerInv, RecordInv, OneServer, Serving
<1> QED BY <1>2, <1>3, <1>4 DEF OwnerInv

-----------------------------------------------------------------------------
(***************************************************************************)
(* The theorems.                                                           *)
(***************************************************************************)

\* Every step of the rangers, of the manager and of the failures keeps OwnerInv.
LEMMA OwnerNext == OwnerInv /\ [Next]_vars => OwnerInv'
<1> SUFFICES ASSUME OwnerInv, [Next]_vars PROVE OwnerInv'
  OBVIOUS
<1>1. CASE UNCHANGED vars
  BY <1>1, OwnerStutters
<1>2. ASSUME NEW r \in Reqs, Step(r) PROVE OwnerInv'
  <2>1. CASE LoadRange(r) BY <2>1, LoadRangeKeeps
  <2>2. CASE LoadTask(r) BY <2>2, LoadTaskKeeps
  <2>3. CASE LastRgr(r) BY <2>3, LastRgrKeeps
  <2>4. CASE Asked(r) BY <2>4, AskedKeeps
  <2>5. CASE AskNoAnswer(r)
    BY <2>5, TakeOverKeeps DEF AskNoAnswer, OwnerInv, RestTypes
  <2>6. CASE TakeOwnership(r) BY <2>6, TakeOwnershipKeeps
  <2>7. CASE LoadData(r) BY <2>7, LoadDataKeeps
  <2>8. CASE Reply(r) BY <2>8, ReplyKeeps
  <2>9. CASE BadLoad(r) BY <2>9, BadLoadKeeps
  <2>10. CASE UnloadRange(r) BY <2>10, UnloadRangeKeeps
  <2>11. CASE UnloadTask(r) BY <2>11, UnloadTaskKeeps
  <2>12. CASE UnloadEnd(r) BY <2>12, UnloadEndKeeps
  <2> QED BY <1>2, <2>1, <2>2, <2>3, <2>4, <2>5, <2>6, <2>7, <2>8, <2>9, <2>10,
          <2>11, <2>12 DEF Step
<1>3. ASSUME NEW r \in Reqs, Fails(r) PROVE OwnerInv'
  <2>1. CASE Expired(r) BY <2>1, ExpiredKeeps
  <2>2. CASE LastUnread(r) BY <2>2, LastUnreadKeeps
  <2>3. CASE AskLost(r)
    <3>1. faults' \in 0 .. MaxFaults /\ TakeOver(r)
      BY <2>3, OwnerAssumption DEF AskLost, Fault, OwnerInv, RestTypes
    <3> QED BY <3>1, TakeOverKeeps
  <2>4. CASE LoadFails(r) BY <2>4, LoadFailsKeeps
  <2> QED BY <1>3, <2>1, <2>2, <2>3, <2>4 DEF Fails
<1> QED BY <1>1, <1>2, <1>3, SendKeeps, CrashKeeps, RestartKeeps DEF Next

\* OwnerInv holds of every state that RangeOwner reaches.
THEOREM OwnerInvariant == Spec => []OwnerInv
BY OwnerInit, OwnerNext, PTL DEF Spec

\* Column::add_managing and Column::run_mng_queue: a column runs one managing
\* request at a time, and one that waits in its queue has one that runs before it.
THEOREM OneAtATimeHolds == Spec => []OneAtATime
<1>1. OwnerInv => OneAtATime
  BY DEF OwnerInv, CoreInv, ReqTypes, RestTypes, Queued, OneRuns, OneAtATime, TypeOK
<1> QED BY <1>1, OwnerInvariant, PTL

\* Range::last_rgr_chk and Range::internal_take_ownership: one ranger serves the
\* range, with one Range object, and the record names it, as long as nothing of
\* what the record does not protect from has happened.
THEOREM OneServerHolds == Spec => []OneServer
<1>1. OwnerInv => OneServer
  BY DEF OwnerInv
<1> QED BY <1>1, OwnerInvariant, PTL

\* Callback::RangeLoad::loaded and Columns::erase_if_empty: no Column that was
\* replaced or erased keeps a loaded range once the load is over, unless loads
\* overlapped.
THEOREM NoOrphanHolds == Spec => []NoOrphan
<1>1. ASSUME OwnerInv, NEW c \in Cols, Unraced, rng[c] = "LOADED", ~busy[c]
      PROVE  map[c[1]] = c[2]
  <2>1. \A r \in Reqs : ~(col[r] = c /\ at[r] \in Running)
    BY <1>1 DEF OwnerInv, CoreInv, OneRuns
  <2>2. LoadOnly \subseteq Running
    BY DEF LoadOnly, Loading, Running
  <2> QED BY <1>1, <2>1, <2>2 DEF OwnerInv, Mapping
<1>2. OwnerInv => NoOrphan
  BY <1>1 DEF NoOrphan, Unraced
<1> QED BY <1>2, OwnerInvariant, PTL

=============================================================================
