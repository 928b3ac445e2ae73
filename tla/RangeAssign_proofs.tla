------------------------- MODULE RangeAssign_proofs -------------------------
(***************************************************************************)
(* Proofs about RangeAssign, for any ranges, rangers and limits, any       *)
(* number of requests at a time and any number of failures.                *)
(*                                                                         *)
(* AssignInv is the inductive invariant.  LoadsCounted needs that the      *)
(* assigner is only in its loop below the limit (CountInv).  NotForgotten  *)
(* needs that a load that has not been overtaken is of the ranger that its *)
(* range has, which the manager believes in (OverInv): that is why the     *)
(* answer may give the range to that ranger.                               *)
(***************************************************************************)
EXTENDS RangeAssign, FiniteSetTheorems, TLAPS

CoreTypes ==
  /\ state \in [Ranges -> {"NOTSET", "QUEUED", "ASSIGNED"}]
  /\ rgr \in [Ranges -> Rangers \cup {None}]
  /\ need \subseteq Ranges
  /\ rst \in [Rangers -> {"ack", "shut", "off", "none"}]
  /\ loads \in [Calls -> Load]
  /\ assignments \in Nat
  /\ assign \in BOOLEAN
  /\ apc \in {"idle", "loop", "unlist", "mark", "last", "end"}
  /\ cur \in Ranges \cup {None} /\ tgt \in Rangers \cup {None}
  /\ late \subseteq Ranges
  /\ assign <=> apc # "idle"
  /\ \A r \in Ranges : state[r] = "NOTSET" <=> rgr[r] = None

RestTypes ==
  /\ ready \subseteq {Meta, Data}
  /\ fails \in [Rangers -> Nat]
  /\ lapsed \subseteq Ranges
  /\ timer \in BOOLEAN
  /\ holder \in [Ranges -> Rangers \cup {None}]
  /\ faults \in 0 .. MaxFaults

\* The assigner at work has a range and a ranger, and so has a request.
PlaceInv ==
  /\ apc \in {"unlist", "mark", "last"} => cur \in Ranges /\ tgt \in Rangers
  /\ \A i \in Calls :
       loads[i].at # "free" => loads[i].rgr \in Rangers /\ loads[i].range \in Ranges

CountInv ==
  /\ assignments = Cardinality(Flying) + (IF apc = "last" THEN 1 ELSE 0)
  /\ assignments <= Due
  /\ apc \in {"loop", "unlist", "mark"} => assignments < Due

\* A load that was not overtaken is of the ranger its range has.
OverInv ==
  \A i \in Calls :
    loads[i].at \in {"sent", "loaded", "got"} /\ ~loads[i].over =>
      rgr[loads[i].range] = loads[i].rgr /\ loads[i].rgr \in Acked

AssignInv == CoreTypes /\ RestTypes /\ PlaceInv /\ CountInv /\ OverInv /\ NotForgotten

\* The assigner goes on where it was, or Rangers::assign_ranges has started it.
Woken ==
  /\ UNCHANGED <<cur, tgt>>
  /\ \/ UNCHANGED <<assign, apc>>
     \/ assignments < Due /\ apc = "idle" /\ assign' = TRUE /\ apc' = "loop"

-----------------------------------------------------------------------------
(***************************************************************************)
(* The operators.                                                          *)
(***************************************************************************)

\* Overtake changes two marks of a request, and nothing else.
LEMMA OvertakeIs ==
  ASSUME CoreTypes, NEW R, NEW G, NEW i \in Calls
  PROVE  /\ Overtake(R, G) \in [Calls -> Load]
         /\ Overtake(R, G)[i].at = loads[i].at
         /\ Overtake(R, G)[i].rgr = loads[i].rgr
         /\ Overtake(R, G)[i].range = loads[i].range
         /\ Overtake(R, G)[i].ok = loads[i].ok
         /\ Overtake(R, G)[i].over = (loads[i].over \/ loads[i].range \in R)
<1> DEFINE o == loads[i].over \/ loads[i].range \in R
           x == loads[i].gone \/ loads[i].rgr \in G
<1>1. ASSUME NEW j \in Calls PROVE Overtake(R, G)[j] \in Load
  <2>1. loads[j] \in Load
    BY DEF CoreTypes
  <2>2. /\ (loads[j].over \/ loads[j].range \in R) \in BOOLEAN
        /\ (loads[j].gone \/ loads[j].rgr \in G) \in BOOLEAN
    OBVIOUS
  <2> QED BY <2>1, <2>2 DEF Overtake, Load
<1>2. Overtake(R, G) \in [Calls -> Load]
  BY <1>1 DEF Overtake
<1>3. Overtake(R, G)[i] = [loads[i] EXCEPT !.over = o, !.gone = x]
  BY DEF Overtake
<1>4. loads[i] \in Load
  BY DEF CoreTypes
<1> HIDE DEF o, x
<1>5. /\ Overtake(R, G)[i].at = loads[i].at
      /\ Overtake(R, G)[i].rgr = loads[i].rgr
      /\ Overtake(R, G)[i].range = loads[i].range
      /\ Overtake(R, G)[i].ok = loads[i].ok
      /\ Overtake(R, G)[i].over = o
  BY <1>3, <1>4 DEF Load
<1> QED BY <1>2, <1>5 DEF o

\* Rangers::assign_ranges
LEMMA WakeIs ==
  ASSUME CoreTypes, RestTypes, Wake
  PROVE  Woken /\ timer' \in BOOLEAN
BY DEF CoreTypes, RestTypes, Wake, Woken, asgn

\* The assigner that goes on or is started has the types it should.
LEMMA WokenTypes ==
  ASSUME CoreTypes, Woken
  PROVE  /\ assign' \in BOOLEAN /\ (assign' <=> apc' # "idle")
         /\ apc' \in {"idle", "loop", "unlist", "mark", "last", "end"}
         /\ cur' \in Ranges \cup {None} /\ tgt' \in Rangers \cup {None}
<1>1. cur' \in Ranges \cup {None} /\ tgt' \in Rangers \cup {None}
  BY DEF CoreTypes, Woken
<1>2. CASE UNCHANGED <<assign, apc>>
  BY <1>1, <1>2 DEF CoreTypes
<1>3. CASE assign' = TRUE /\ apc' = "loop"
  BY <1>1, <1>3
<1> QED BY <1>2, <1>3 DEF Woken

\* The requests under way are finitely many.
LEMMA FlyingFinite ==
  /\ IsFiniteSet(Flying)
  /\ Cardinality(Flying) \in Nat
BY AssignAssumption, FS_Subset, FS_CardinalityType DEF Flying

\* Where the requests are the same the counter is right.
LEMMA CountKept ==
  ASSUME CoreTypes, CountInv, Flying' = Flying, Woken, UNCHANGED assignments
  PROVE  CountInv'
BY DEF CoreTypes, CountInv, Woken

-----------------------------------------------------------------------------
(***************************************************************************)
(* The actions.                                                            *)
(***************************************************************************)

LEMMA AssignInit == Init => AssignInv
<1> SUFFICES ASSUME Init PROVE AssignInv
  OBVIOUS
<1>1. Free \in Load /\ Free.at = "free"
  BY DEF Free, Load
<1>2. CoreTypes /\ RestTypes
  <2>1. CoreTypes
    BY <1>1, AssignAssumption DEF Init, CoreTypes
  <2>2. RestTypes
    BY AssignAssumption DEF Init, RestTypes
  <2> QED BY <2>1, <2>2
<1>3. \A i \in Calls : loads[i].at = "free"
  BY <1>1 DEF Init
<1>4. PlaceInv /\ OverInv
  BY <1>3 DEF Init, PlaceInv, OverInv
<1>5. Flying = {}
  BY <1>3 DEF Flying, At
<1>6. CountInv
  BY <1>5, FS_EmptySet, AssignAssumption DEF Init, CountInv
<1>7. NotForgotten
  BY DEF Init, NotForgotten
<1> QED BY <1>2, <1>4, <1>6, <1>7 DEF AssignInv

\* Ranges lose their ranger, all of those among them that a ranger has when the
\* manager stops to believe in it.
LEMMA UnassignKeeps ==
  ASSUME AssignInv, NEW R \in SUBSET Ranges, NEW G,
         state' = [r \in Ranges |-> IF r \in R THEN "NOTSET" ELSE state[r]],
         rgr' = [r \in Ranges |-> IF r \in R THEN None ELSE rgr[r]],
         need' = need \cup R, loads' = Overtake(R, G), late' = late \ R,
         rst' \in [Rangers -> {"ack", "shut", "off", "none"}],
         \A g \in Rangers : g \in Acked /\ g \notin Acked' => Of(g) \subseteq R,
         Woken, UNCHANGED assignments, RestTypes'
  PROVE  AssignInv'
<1>1. \A i \in Calls :
        /\ loads'[i].at = loads[i].at /\ loads'[i].rgr = loads[i].rgr
        /\ loads'[i].range = loads[i].range /\ loads'[i].ok = loads[i].ok
        /\ loads'[i].over = (loads[i].over \/ loads[i].range \in R)
  BY OvertakeIs DEF AssignInv
<1>2. loads' \in [Calls -> Load]
  <2>1. CASE Calls = {}
    BY <2>1 DEF Overtake
  <2>2. CASE Calls # {}
    BY <2>2, OvertakeIs DEF AssignInv
  <2> QED BY <2>1, <2>2
<1>3. CoreTypes'
  <2>1. /\ state' \in [Ranges -> {"NOTSET", "QUEUED", "ASSIGNED"}]
        /\ rgr' \in [Ranges -> Rangers \cup {None}]
        /\ need' \subseteq Ranges /\ late' \subseteq Ranges
    BY DEF AssignInv, CoreTypes
  <2>2. \A r \in Ranges : state'[r] = "NOTSET" <=> rgr'[r] = None
    BY DEF AssignInv, CoreTypes
  <2>3. /\ assign' \in BOOLEAN /\ (assign' <=> apc' # "idle")
        /\ apc' \in {"idle", "loop", "unlist", "mark", "last", "end"}
        /\ cur' \in Ranges \cup {None} /\ tgt' \in Rangers \cup {None}
        /\ assignments' \in Nat
    BY WokenTypes DEF AssignInv, CoreTypes
  <2> QED BY <1>2, <2>1, <2>2, <2>3 DEF CoreTypes
<1>4. PlaceInv'
  BY <1>1 DEF AssignInv, PlaceInv, Woken
<1>5. CountInv'
  <2>1. Flying' = Flying
    BY <1>1 DEF Flying, At
  <2> QED BY <2>1, CountKept DEF AssignInv
<1>6. OverInv'
  <2> SUFFICES ASSUME NEW i \in Calls, loads'[i].at \in {"sent", "loaded", "got"},
                      ~loads'[i].over
               PROVE  rgr'[loads'[i].range] = loads'[i].rgr /\ loads'[i].rgr \in Acked'
    BY DEF OverInv
  <2>1. /\ rgr[loads[i].range] = loads[i].rgr /\ loads[i].rgr \in Acked
        /\ loads[i].range \in Ranges \ R /\ loads[i].rgr \in Rangers
    BY <1>1 DEF AssignInv, OverInv, PlaceInv
  <2>2. loads[i].rgr \in Acked'
    BY <2>1 DEF Of
  <2> QED BY <1>1, <2>1, <2>2
<1>7. NotForgotten'
  <2> SUFFICES ASSUME NEW r \in Ranges
               PROVE  /\ state'[r] = "NOTSET" =>
                           \/ r \in need'
                           \/ apc' = "mark" /\ cur' = r
                           \/ \E i \in Calls : /\ loads'[i].at = "apply"
                                               /\ ~loads'[i].ok /\ loads'[i].range = r
                      /\ state'[r] = "QUEUED" =>
                           \/ apc' = "last" /\ cur' = r
                           \/ \E i \in Calls : /\ loads'[i].range = r
                                               /\ loads'[i].at \in {"sent", "loaded", "got"}
                      /\ state'[r] = "ASSIGNED" /\ r \notin late' => rgr'[r] \in Acked'
    BY DEF NotForgotten, At
  <2>1. CASE r \in R
    BY <2>1
  <2>2. CASE r \notin R
    <3>1. state'[r] = state[r] /\ rgr'[r] = rgr[r] /\ (r \in late' <=> r \in late)
      BY <2>2
    <3>2. state[r] = "ASSIGNED" /\ r \notin late => rgr[r] \in Acked'
      BY <2>2 DEF AssignInv, NotForgotten, Of, Acked
    <3>3. /\ apc = "mark" => apc' = "mark" /\ cur' = cur
          /\ apc = "last" => apc' = "last" /\ cur' = cur
      BY DEF Woken
    <3> QED BY <1>1, <3>1, <3>2, <3>3 DEF AssignInv, NotForgotten, At
  <2> QED BY <2>1, <2>2
<1> QED BY <1>3, <1>4, <1>5, <1>6, <1>7 DEF AssignInv

\* Rangers::update_status, RangeUnload::unloaded.
LEMMA RebalanceKeeps ==
  ASSUME AssignInv, NEW r \in Ranges, Rebalance(r)
  PROVE  AssignInv'
<1>1. Woken /\ timer' \in BOOLEAN
  BY WakeIs DEF AssignInv, Rebalance
<1>2. RestTypes'
  BY <1>1, AssignAssumption DEF AssignInv, RestTypes, Rebalance, Unassign, Fault, hosts
<1>3. rst' = rst /\ assignments' = assignments /\ Unassign({r}, {})
  BY DEF Rebalance, hosts
<1> QED BY <1>1, <1>2, <1>3, UnassignKeeps DEF Unassign, AssignInv, CoreTypes, Acked

\* RangerCheck::handle of RGR_NOT_LOADED_RANGE.
LEMMA HealthLapsedKeeps ==
  ASSUME AssignInv, NEW r \in Ranges, HealthLapsed(r)
  PROVE  AssignInv'
<1>1. Woken /\ timer' \in BOOLEAN
  BY WakeIs DEF AssignInv, HealthLapsed
<1>2. RestTypes'
  BY <1>1 DEF AssignInv, RestTypes, HealthLapsed, Unassign, hosts
<1>3. rst' = rst /\ assignments' = assignments /\ Unassign({r}, {})
  BY DEF HealthLapsed, hosts
<1> QED BY <1>1, <1>2, <1>3, UnassignKeeps DEF Unassign, AssignInv, CoreTypes, Acked

\* The handler of RangeUnloaded.
LEMMA RangeUnloadedKeeps ==
  ASSUME AssignInv, NEW r \in Ranges, RangeUnloaded(r)
  PROVE  AssignInv'
<1>1. Woken /\ timer' \in BOOLEAN
  BY WakeIs DEF AssignInv, RangeUnloaded
<1>2. RestTypes'
  BY <1>1, AssignAssumption DEF AssignInv, RestTypes, RangeUnloaded, Fault, hosts
<1>3. /\ rst' = rst /\ assignments' = assignments
      /\ state' = [s \in Ranges |-> IF s \in {r} THEN "NOTSET" ELSE state[s]]
      /\ rgr' = [s \in Ranges |-> IF s \in {r} THEN None ELSE rgr[s]]
      /\ need' = need \cup {r} /\ loads' = Overtake({r}, {}) /\ late' = late \ {r}
  BY DEF RangeUnloaded, hosts, AssignInv, CoreTypes
<1> QED BY <1>1, <1>2, <1>3, UnassignKeeps DEF AssignInv, CoreTypes, Acked

\* Rangers::rgr_set and rgr_ack_id.
LEMMA RegisterKeeps ==
  ASSUME AssignInv, NEW g \in Rangers, Register(g)
  PROVE  AssignInv'
<1>1. /\ rst' = [rst EXCEPT ![g] = "ack"] /\ Unassign(Of(g), {g})
      /\ Woken /\ assignments' = assignments
  BY DEF Register, asgn, Woken
<1>2. RestTypes'
  BY DEF AssignInv, RestTypes, Register, Unassign
<1>3. rst' \in [Rangers -> {"ack", "shut", "off", "none"}] /\ Acked \subseteq Acked'
  BY <1>1 DEF AssignInv, CoreTypes, Acked
<1> QED BY <1>1, <1>2, <1>3, UnassignKeeps DEF Unassign, Of

\* A ranger is marked offline, or taken from the list, with all its ranges.
LEMMA MarkKeeps ==
  ASSUME AssignInv, NEW g \in Rangers, NEW x \in {"off", "none"}, NEW G,
         rst' = [rst EXCEPT ![g] = x], Unassign(Of(g), G),
         UNCHANGED <<assign, apc, cur, tgt, assignments>>, RestTypes'
  PROVE  AssignInv'
<1>1. /\ rst' \in [Rangers -> {"ack", "shut", "off", "none"}]
      /\ \A h \in Rangers : h \in Acked /\ h \notin Acked' => h = g
  BY DEF AssignInv, CoreTypes, Acked
<1>2. Of(g) \in SUBSET Ranges /\ Woken
  BY DEF Of, Woken
<1> QED BY <1>1, <1>2, UnassignKeeps DEF Unassign

\* Rangers::rgr_report
LEMMA ReportKeeps ==
  ASSUME AssignInv, NEW g \in Rangers, Report(g)
  PROVE  AssignInv'
<1>1. RestTypes'
  BY DEF AssignInv, RestTypes, Report, Unassign
<1> QED BY <1>1, MarkKeeps DEF Report, asgn

\* Rangers::rgr_shutdown
LEMMA ShutdownKeeps ==
  ASSUME AssignInv, NEW g \in Rangers, Shutdown(g)
  PROVE  AssignInv'
<1>1. faults' \in 0 .. MaxFaults
  BY AssignAssumption DEF AssignInv, RestTypes, Shutdown, Fault
<1>2. RestTypes'
  BY <1>1 DEF AssignInv, RestTypes, Shutdown, Unassign
<1> QED BY <1>2, MarkKeeps DEF Shutdown, asgn

\* Rangers::next_rgr of a ranger that has failed too often.
LEMMA NextRgrMarksKeeps ==
  ASSUME AssignInv, NEW g \in Rangers, NextRgrMarks(g)
  PROVE  AssignInv'
<1>1. RestTypes'
  BY DEF AssignInv, RestTypes, NextRgrMarks, Unassign
<1> QED BY <1>1, MarkKeeps DEF NextRgrMarks, asgn

\* Rangers::range_loaded takes an answer: the request is not counted any more.
LEMMA TakeAnswerKeeps ==
  ASSUME AssignInv, NEW i \in Flying, NEW ok \in BOOLEAN, TakeAnswer(i, ok),
         UNCHANGED <<state, rgr, need, late, assign, apc, cur, tgt>>,
         rst' \in [Rangers -> {"ack", "shut", "off", "none"}],
         Acked \subseteq Acked', RestTypes'
  PROVE  AssignInv'
<1>1. i \in Calls /\ loads[i] \in Load /\ loads[i].at \in {"sent", "loaded"}
  BY DEF Flying, At, AssignInv, CoreTypes
<1>2. /\ loads' = [loads EXCEPT ![i] = [loads[i] EXCEPT !.at = "got", !.ok = ok,
                                          !.again = (assignments = Due)]]
      /\ assignments' = assignments - 1
  BY DEF TakeAnswer, Set
<1>3. [loads[i] EXCEPT !.at = "got", !.ok = ok, !.again = (assignments = Due)] \in Load
  <2>1. (assignments = Due) \in BOOLEAN
    OBVIOUS
  <2> QED BY <1>1, <2>1 DEF Load
<1>4. loads' \in [Calls -> Load] /\ \A j \in Calls \ {i} : loads'[j] = loads[j]
  BY <1>2, <1>3 DEF AssignInv, CoreTypes
<1>5. /\ loads'[i].at = "got" /\ loads'[i].range = loads[i].range
      /\ loads'[i].rgr = loads[i].rgr /\ loads'[i].over = loads[i].over
  BY <1>1, <1>2 DEF AssignInv, CoreTypes, Load
<1>6. CountInv' /\ assignments' \in Nat
  <2>1. Flying' = Flying \ {i}
    BY <1>1, <1>4, <1>5 DEF Flying, At
  <2>2. Cardinality(Flying') = Cardinality(Flying) - 1
    BY <2>1, FlyingFinite, FS_RemoveElement
  <2>3. IsFiniteSet(Flying') /\ Cardinality(Flying') \in Nat
    BY <2>1, FlyingFinite, FS_RemoveElement, FS_CardinalityType
  <2> QED BY <1>2, <2>2, <2>3, FlyingFinite, AssignAssumption
          DEF AssignInv, CountInv, CoreTypes
<1>7. CoreTypes'
  BY <1>4, <1>6 DEF AssignInv, CoreTypes
<1>8. PlaceInv'
  BY <1>1, <1>4, <1>5 DEF AssignInv, PlaceInv
<1>9. OverInv'
  BY <1>1, <1>4, <1>5 DEF AssignInv, OverInv
<1>10. NotForgotten'
  <2>1. \A j \in Calls : loads[j].at = "apply" => loads'[j] = loads[j]
    BY <1>1, <1>4
  <2>2. \A j \in Calls : loads[j].at \in {"sent", "loaded", "got"} =>
          loads'[j].at \in {"sent", "loaded", "got"} /\ loads'[j].range = loads[j].range
    BY <1>4, <1>5
  <2> QED BY <2>1, <2>2 DEF AssignInv, NotForgotten, At
<1> QED BY <1>6, <1>7, <1>8, <1>9, <1>10 DEF AssignInv

\* RangeLoad::handle of the answer, of an error, of a ranger that is shutting
\* down, and handle_no_conn.
LEMMA AnswerKeeps ==
  ASSUME AssignInv, NEW i \in Calls, Answer(i)
  PROVE  AssignInv'
<1>1. CASE AnswerOk(i)
  <2>1. RestTypes' /\ i \in Flying
    BY <1>1 DEF AnswerOk, AssignInv, RestTypes, ranges, hosts, Flying
  <2> QED BY <1>1, <2>1, TakeAnswerKeeps
          DEF AnswerOk, AssignInv, CoreTypes, ranges, hosts, asgn, Acked
<1>2. CASE AnswerErr(i)
  <2>1. i \in Flying /\ faults' \in 0 .. MaxFaults
    BY <1>2, AssignAssumption DEF AnswerErr, AssignInv, RestTypes, Fault
  <2>2. RestTypes'
    BY <1>2, <2>1 DEF AnswerErr, AssignInv, RestTypes, ranges, hosts
  <2> QED BY <1>2, <2>1, <2>2, TakeAnswerKeeps
          DEF AnswerErr, AssignInv, CoreTypes, ranges, hosts, asgn, Acked
<1>3. CASE AnswerShutdown(i)
  <2>1. i \in Flying /\ faults' \in 0 .. MaxFaults
    BY <1>3, AssignAssumption DEF AnswerShutdown, AssignInv, RestTypes, Fault, Flying
  <2>2. RestTypes'
    BY <1>3, <2>1 DEF AnswerShutdown, AssignInv, RestTypes, ranges
  <2>3. rst' \in [Rangers -> {"ack", "shut", "off", "none"}] /\ Acked \subseteq Acked'
    BY <1>3 DEF AnswerShutdown, AssignInv, CoreTypes, Acked
  <2> QED BY <1>3, <2>1, <2>2, <2>3, TakeAnswerKeeps DEF AnswerShutdown, ranges, asgn
<1>4. CASE AnswerNoConn(i)
  <2>1. i \in Flying /\ faults' \in 0 .. MaxFaults
    BY <1>4, AssignAssumption DEF AnswerNoConn, AssignInv, RestTypes, Fault
  <2>2. fails' \in [Rangers -> Nat]
    BY <1>4 DEF AnswerNoConn, AssignInv, RestTypes
  <2>3. RestTypes'
    BY <1>4, <2>1, <2>2 DEF AnswerNoConn, AssignInv, RestTypes, ranges
  <2> QED BY <1>4, <2>1, <2>3, TakeAnswerKeeps
          DEF AnswerNoConn, AssignInv, CoreTypes, ranges, asgn, Acked
<1> QED BY <1>1, <1>2, <1>3, <1>4 DEF Answer

\* The ranger loads the range.
LEMMA RangerLoadsKeeps ==
  ASSUME AssignInv, NEW i \in Calls, RangerLoads(i)
  PROVE  AssignInv'
<1>1. /\ loads[i].at = "sent" /\ loads[i] \in Load
      /\ loads' = [loads EXCEPT ![i] = [loads[i] EXCEPT !.at = "loaded"]]
      /\ UNCHANGED <<state, rgr, need, ready, rst, fails, lapsed, assignments,
                     assign, apc, cur, tgt, timer, faults, late>>
  BY DEF RangerLoads, At, Set, ranges, hosts, asgn, AssignInv, CoreTypes
<1>2. /\ loads' \in [Calls -> Load] /\ \A j \in Calls \ {i} : loads'[j] = loads[j]
      /\ loads'[i].at = "loaded" /\ loads'[i].range = loads[i].range
      /\ loads'[i].rgr = loads[i].rgr /\ loads'[i].over = loads[i].over
  BY <1>1 DEF AssignInv, CoreTypes, Load
<1>3. RestTypes'
  BY <1>1 DEF RangerLoads, AssignInv, RestTypes, PlaceInv
<1>4. CoreTypes' /\ PlaceInv'
  BY <1>1, <1>2 DEF AssignInv, CoreTypes, PlaceInv
<1>5. Flying' = Flying
  BY <1>1, <1>2 DEF Flying, At
<1>6. CountInv' /\ OverInv'
  BY <1>1, <1>2, <1>5 DEF AssignInv, CountInv, OverInv, Acked
<1>7. NotForgotten'
  <2>1. \A j \in Calls : loads[j].at = "apply" => loads'[j] = loads[j]
    BY <1>1, <1>2
  <2>2. \A j \in Calls : loads[j].at \in {"sent", "loaded", "got"} =>
          loads'[j].at \in {"sent", "loaded", "got"} /\ loads'[j].range = loads[j].range
    BY <1>2
  <2> QED BY <1>1, <2>1, <2>2 DEF AssignInv, NotForgotten, At, Acked
<1> QED BY <1>3, <1>4, <1>6, <1>7 DEF AssignInv

\* Range::set_state_assigned, or the first half of set_state_none.
LEMMA SetStateKeeps ==
  ASSUME AssignInv, NEW i \in Calls, SetState(i)
  PROVE  AssignInv'
<1> DEFINE r == loads[i].range
           g == loads[i].rgr
           ok == loads[i].ok
<1>1. loads[i].at = "got" /\ r \in Ranges /\ g \in Rangers /\ ok \in BOOLEAN
  BY DEF SetState, At, AssignInv, PlaceInv, CoreTypes, Load
<1>2. /\ state' = [state EXCEPT ![r] = IF ok THEN "ASSIGNED" ELSE "NOTSET"]
      /\ rgr' = [rgr EXCEPT ![r] = IF ok THEN g ELSE None]
      /\ late' = IF loads[i].over /\ ok THEN late \cup {r} ELSE late \ {r}
      /\ loads' = [Overtake({r}, {}) EXCEPT ![i].at = "apply"]
      /\ UNCHANGED <<need, ready, rst, lapsed, assignments, assign, apc, cur, tgt,
                     timer, holder, faults>>
  BY DEF SetState, asgn
<1>3. RestTypes'
  <2>1. fails' \in [Rangers -> Nat]
    BY <1>1 DEF SetState, AssignInv, RestTypes
  <2> QED BY <1>2, <2>1 DEF AssignInv, RestTypes
<1>4. \A j \in Calls :
        /\ loads'[j].at = (IF j = i THEN "apply" ELSE loads[j].at)
        /\ loads'[j].rgr = loads[j].rgr /\ loads'[j].range = loads[j].range
        /\ loads'[j].ok = loads[j].ok
        /\ loads'[j].over = (loads[j].over \/ loads[j].range \in {r})
        /\ loads'[j] \in Load
  <2> SUFFICES ASSUME NEW j \in Calls
               PROVE  /\ loads'[j].at = (IF j = i THEN "apply" ELSE loads[j].at)
                      /\ loads'[j].rgr = loads[j].rgr /\ loads'[j].range = loads[j].range
                      /\ loads'[j].ok = loads[j].ok
                      /\ loads'[j].over = (loads[j].over \/ loads[j].range \in {r})
                      /\ loads'[j] \in Load
    OBVIOUS
  <2> DEFINE o == Overtake({r}, {})
  <2>1. /\ o \in [Calls -> Load] /\ o[j].at = loads[j].at
        /\ o[j].rgr = loads[j].rgr /\ o[j].range = loads[j].range
        /\ o[j].ok = loads[j].ok
        /\ o[j].over = (loads[j].over \/ loads[j].range \in {r})
    BY OvertakeIs DEF AssignInv
  <2>2. loads' = [o EXCEPT ![i].at = "apply"]
    BY <1>2
  <2> HIDE DEF o, r
  <2>3. /\ loads'[j].at = (IF j = i THEN "apply" ELSE o[j].at)
        /\ loads'[j].rgr = o[j].rgr /\ loads'[j].range = o[j].range
        /\ loads'[j].ok = o[j].ok /\ loads'[j].over = o[j].over
        /\ loads'[j] \in Load
    BY <2>1, <2>2 DEF Load
  <2> QED BY <2>1, <2>3
<1>5. loads' \in [Calls -> Load]
  <2>1. loads' = [j \in Calls |-> loads'[j]]
    BY <1>2 DEF Overtake
  <2> QED BY <1>4, <2>1
<1>6. CoreTypes'
  <2>1. /\ state' \in [Ranges -> {"NOTSET", "QUEUED", "ASSIGNED"}]
        /\ rgr' \in [Ranges -> Rangers \cup {None}]
    BY <1>1, <1>2 DEF AssignInv, CoreTypes
  <2>2. late' \subseteq Ranges
    BY <1>1, <1>2 DEF AssignInv, CoreTypes
  <2>3. \A s \in Ranges : state'[s] = "NOTSET" <=> rgr'[s] = None
    BY <1>1, <1>2, AssignAssumption DEF AssignInv, CoreTypes
  <2> QED BY <1>2, <1>5, <2>1, <2>2, <2>3 DEF AssignInv, CoreTypes
<1>7. PlaceInv'
  BY <1>1, <1>2, <1>4 DEF AssignInv, PlaceInv
<1>8. CountInv'
  <2>1. Flying' = Flying
    BY <1>1, <1>4 DEF Flying, At
  <2> QED BY <1>2, <2>1 DEF AssignInv, CountInv
<1>9. OverInv'
  <2> SUFFICES ASSUME NEW j \in Calls, loads'[j].at \in {"sent", "loaded", "got"},
                      ~loads'[j].over
               PROVE  rgr'[loads'[j].range] = loads'[j].rgr /\ loads'[j].rgr \in Acked'
    BY DEF OverInv
  <2>1. j # i /\ ~loads[j].over /\ loads[j].range # r
    BY <1>4
  <2>2. rgr[loads[j].range] = loads[j].rgr /\ loads[j].rgr \in Acked
    BY <1>4, <2>1 DEF AssignInv, OverInv
  <2>3. rgr'[loads[j].range] = rgr[loads[j].range]
    BY <1>2, <1>4, <2>1 DEF AssignInv, CoreTypes, PlaceInv
  <2> QED BY <1>2, <1>4, <2>2, <2>3 DEF Acked
<1>10. NotForgotten'
  <2> HIDE DEF r, g, ok
  <2>0. need' = need /\ apc' = apc /\ cur' = cur /\ rst' = rst
    BY <1>2
  <2> SUFFICES ASSUME NEW s \in Ranges
               PROVE  /\ state'[s] = "NOTSET" =>
                           \/ s \in need
                           \/ apc = "mark" /\ cur = s
                           \/ \E j \in Calls : /\ loads'[j].at = "apply"
                                               /\ ~loads'[j].ok /\ loads'[j].range = s
                      /\ state'[s] = "QUEUED" =>
                           \/ apc = "last" /\ cur = s
                           \/ \E j \in Calls : /\ loads'[j].range = s
                                               /\ loads'[j].at \in {"sent", "loaded", "got"}
                      /\ state'[s] = "ASSIGNED" /\ s \notin late' => rgr'[s] \in Acked'
    BY <2>0 DEF NotForgotten, At
  <2>1. CASE s = r
    <3>1. CASE ok
      <4>1. state'[s] = "ASSIGNED" /\ rgr'[s] = g
        BY <1>1, <1>2, <2>1, <3>1 DEF AssignInv, CoreTypes
      <4>2. s \notin late' => ~loads[i].over
        BY <1>2, <2>1, <3>1
      <4>3. ~loads[i].over => g \in Acked'
        BY <1>1, <2>0 DEF AssignInv, OverInv, Acked, r, g
      <4> QED BY <4>1, <4>2, <4>3
    <3>2. CASE ~ok
      <4>1. state'[s] = "NOTSET"
        BY <1>1, <1>2, <2>1, <3>2 DEF AssignInv, CoreTypes
      <4> QED BY <1>4, <2>1, <3>2, <4>1 DEF r, ok
    <3> QED BY <3>1, <3>2
  <2>2. CASE s # r
    <3>1. state'[s] = state[s] /\ rgr'[s] = rgr[s] /\ (s \in late' <=> s \in late)
      BY <1>2, <2>2 DEF AssignInv, CoreTypes
    <3>2. \A j \in Calls : loads[j].range = s =>
            /\ loads'[j].at = loads[j].at /\ loads'[j].range = s
            /\ loads'[j].ok = loads[j].ok
      BY <1>4, <2>2 DEF r
    <3>3. /\ state[s] = "NOTSET" =>
               \/ s \in need
               \/ apc = "mark" /\ cur = s
               \/ \E j \in Calls : /\ loads[j].at = "apply"
                                   /\ ~loads[j].ok /\ loads[j].range = s
          /\ state[s] = "QUEUED" =>
               \/ apc = "last" /\ cur = s
               \/ \E j \in Calls : /\ loads[j].range = s
                                   /\ loads[j].at \in {"sent", "loaded", "got"}
          /\ state[s] = "ASSIGNED" /\ s \notin late => rgr[s] \in Acked
      BY DEF AssignInv, NotForgotten, At
    <3>4. Acked' = Acked
      BY <2>0 DEF Acked
    <3> QED BY <3>1, <3>2, <3>3, <3>4
  <2> QED BY <2>1, <2>2
<1> QED BY <1>3, <1>6, <1>7, <1>8, <1>9, <1>10 DEF AssignInv

\* The rest of Rangers::range_loaded.
LEMMA ApplyKeeps ==
  ASSUME AssignInv, NEW i \in Calls, Apply(i)
  PROVE  AssignInv'
<1>1. /\ loads[i].at = "apply" /\ loads[i] \in Load /\ loads[i].range \in Ranges
      /\ need' = IF loads[i].ok THEN need ELSE need \cup {loads[i].range}
      /\ loads' = [loads EXCEPT ![i] = [loads[i] EXCEPT !.at = "sort", !.ok = FALSE,
                                          !.again = FALSE]]
      /\ UNCHANGED <<state, rgr, ready, rst, fails, lapsed, assignments, holder,
                     faults, late>>
  BY DEF Apply, At, Set, hosts, AssignInv, CoreTypes, PlaceInv
<1>2. Woken /\ timer' \in BOOLEAN
  <2>1. CASE loads[i].again
    BY <2>1, WakeIs DEF Apply, AssignInv
  <2>2. CASE ~loads[i].again
    BY <2>2 DEF Apply, AssignInv, RestTypes, asgn, Woken
  <2> QED BY <2>1, <2>2
<1>3. /\ loads' \in [Calls -> Load] /\ \A j \in Calls \ {i} : loads'[j] = loads[j]
      /\ loads'[i].at = "sort" /\ loads'[i].range = loads[i].range
      /\ loads'[i].rgr = loads[i].rgr
  BY <1>1 DEF AssignInv, CoreTypes, Load
<1>4. RestTypes'
  BY <1>1, <1>2 DEF AssignInv, RestTypes
<1>5. need \subseteq need' /\ need' \subseteq Ranges
  BY <1>1 DEF AssignInv, CoreTypes
<1>6. CoreTypes'
  BY <1>1, <1>2, <1>3, <1>5, WokenTypes DEF AssignInv, CoreTypes
<1>7. PlaceInv' /\ OverInv'
  BY <1>1, <1>2, <1>3 DEF AssignInv, PlaceInv, OverInv, Woken, Acked
<1>8. CountInv'
  <2>1. Flying' = Flying
    BY <1>1, <1>3 DEF Flying, At
  <2> QED BY <1>1, <1>2, <2>1, CountKept DEF AssignInv
<1>9. NotForgotten'
  <2>1. \A j \in Calls : loads[j].at = "apply" /\ ~loads[j].ok =>
          loads'[j] = loads[j] \/ loads[j].range \in need'
    BY <1>1, <1>3
  <2>2. \A j \in Calls : loads[j].at \in {"sent", "loaded", "got"} => loads'[j] = loads[j]
    BY <1>1, <1>3
  <2>3. /\ apc = "mark" => apc' = "mark" /\ cur' = cur
        /\ apc = "last" => apc' = "last" /\ cur' = cur
    BY <1>2 DEF Woken
  <2>4. ASSUME NEW s \in Ranges, state[s] = "NOTSET"
        PROVE  \/ s \in need'
               \/ apc' = "mark" /\ cur' = s
               \/ \E j \in Calls : /\ loads'[j].at = "apply"
                                   /\ ~loads'[j].ok /\ loads'[j].range = s
    BY <1>5, <2>1, <2>3, <2>4 DEF AssignInv, NotForgotten, At
  <2> QED BY <1>1, <2>2, <2>3, <2>4 DEF AssignInv, NotForgotten, At, Acked
<1> QED BY <1>4, <1>6, <1>7, <1>8, <1>9 DEF AssignInv

\* Column::sort and apply_loaded_state.
LEMMA SortKeeps ==
  ASSUME AssignInv, NEW i \in Calls, Sort(i)
  PROVE  AssignInv'
<1>1. /\ loads[i].at = "sort" /\ loads' = [loads EXCEPT ![i] = Free]
      /\ UNCHANGED <<state, rgr, need, rst, fails, lapsed, assignments, assign, apc,
                     cur, tgt, timer, holder, faults, late>>
  BY DEF Sort, At, Set, hosts, asgn
<1>2. Free \in Load /\ Free.at = "free"
  BY DEF Free, Load
<1>3. /\ loads' \in [Calls -> Load] /\ \A j \in Calls \ {i} : loads'[j] = loads[j]
      /\ loads'[i].at = "free"
  BY <1>1, <1>2 DEF AssignInv, CoreTypes
<1>4. RestTypes'
  <2>1. Col(loads[i].range) \in {Meta, Data}
    BY DEF Col
  <2>2. ready' \subseteq ready \cup {Col(loads[i].range)}
    BY DEF Sort
  <2> QED BY <1>1, <2>1, <2>2 DEF AssignInv, RestTypes
<1>5. CoreTypes' /\ PlaceInv' /\ OverInv'
  BY <1>1, <1>3 DEF AssignInv, CoreTypes, PlaceInv, OverInv, Acked
<1>6. CountInv'
  <2>1. Flying' = Flying
    BY <1>1, <1>3 DEF Flying, At
  <2> QED BY <1>1, <2>1 DEF AssignInv, CountInv
<1>7. NotForgotten'
  <2>1. \A j \in Calls : loads[j].at # "sort" => loads'[j] = loads[j]
    BY <1>1, <1>3
  <2> QED BY <1>1, <2>1 DEF AssignInv, NotForgotten, At, Acked
<1> QED BY <1>4, <1>5, <1>6, <1>7 DEF AssignInv

\* The assigner goes on or is started, and ranges and requests are left alone.
LEMMA StartKeeps ==
  ASSUME AssignInv, Woken, RestTypes',
         UNCHANGED <<state, rgr, need, rst, loads, assignments, late>>
  PROVE  AssignInv'
<1>1. CoreTypes'
  BY WokenTypes DEF AssignInv, CoreTypes
<1>2. PlaceInv' /\ OverInv'
  BY DEF AssignInv, PlaceInv, OverInv, Woken, Acked
<1>3. CountInv'
  <2>1. Flying' = Flying
    BY DEF Flying, At
  <2> QED BY <2>1, CountKept DEF AssignInv
<1>4. NotForgotten'
  <2>1. /\ apc = "mark" => apc' = "mark" /\ cur' = cur
        /\ apc = "last" => apc' = "last" /\ cur' = cur
    BY DEF Woken
  <2> QED BY <2>1 DEF AssignInv, NotForgotten, At, Acked
<1> QED BY <1>1, <1>2, <1>3, <1>4 DEF AssignInv

\* Rangers::schedule_run
LEMMA TickKeeps ==
  ASSUME AssignInv, Tick
  PROVE  AssignInv'
<1>1. Woken /\ timer' \in BOOLEAN
  BY AssignAssumption DEF Tick, Woken, asgn, AssignInv, CoreTypes, RestTypes
<1>2. RestTypes'
  BY <1>1 DEF Tick, AssignInv, RestTypes, ranges, hosts
<1> QED BY <1>1, <1>2, StartKeeps DEF Tick, ranges, hosts

\* ColumnHealthCheck::run
LEMMA HealthCheckKeeps ==
  ASSUME AssignInv, NEW r \in Ranges, HealthCheck(r)
  PROVE  AssignInv'
<1>1. faults' \in 0 .. MaxFaults
  BY AssignAssumption DEF HealthCheck, Fault, AssignInv, RestTypes
<1>2. RestTypes'
  BY <1>1 DEF HealthCheck, AssignInv, RestTypes, ranges, hosts
<1> QED BY <1>2, StartKeeps DEF HealthCheck, ranges, hosts, asgn, Woken

\* The assigner takes a step that gives or takes no range.
LEMMA AssignerMoves ==
  ASSUME AssignInv, apc \in {"loop", "end"}, apc' \in {"idle", "unlist", "end"},
         apc' = "unlist" => apc = "loop" /\ cur' \in Ranges /\ tgt' \in Rangers,
         assign' \in BOOLEAN, assign' <=> apc' # "idle",
         cur' \in Ranges \cup {None}, tgt' \in Rangers \cup {None}, RestTypes',
         UNCHANGED <<state, rgr, need, rst, loads, assignments, late>>
  PROVE  AssignInv'
<1>1. CoreTypes'
  BY DEF AssignInv, CoreTypes
<1>2. PlaceInv' /\ OverInv'
  BY DEF AssignInv, PlaceInv, OverInv, Acked
<1>3. CountInv'
  <2>1. Flying' = Flying
    BY DEF Flying, At
  <2> QED BY <2>1 DEF AssignInv, CountInv
<1>4. NotForgotten'
  BY DEF AssignInv, NotForgotten, At, Acked
<1> QED BY <1>1, <1>2, <1>3, <1>4 DEF AssignInv

\* Rangers::next_rgr, and the ends of assign_ranges_run.
LEMMA AssignerMovesKeeps ==
  ASSUME AssignInv,
         \/ NoneDue \/ NoRgr \/ End
         \/ \E r \in Ranges, g \in Rangers : NextRgr(r, g)
  PROVE  AssignInv'
<1>1. CASE NoneDue
  <2>1. RestTypes'
    BY <1>1 DEF NoneDue, AssignInv, RestTypes, ranges, hosts
  <2> QED BY <1>1, <2>1, AssignerMoves
          DEF NoneDue, Go, AssignInv, CoreTypes, ranges, hosts
<1>2. CASE NoRgr
  <2>1. RestTypes'
    BY <1>2 DEF NoRgr, AssignInv, RestTypes, ranges, hosts
  <2> QED BY <1>2, <2>1, AssignerMoves
          DEF NoRgr, Go, AssignInv, CoreTypes, ranges, hosts
<1>3. CASE End
  <2>1. RestTypes'
    BY <1>3 DEF End, AssignInv, RestTypes, ranges, hosts
  <2> QED BY <1>3, <2>1, AssignerMoves DEF End, ranges, hosts
<1>4. ASSUME NEW r \in Ranges, NEW g \in Rangers, NextRgr(r, g)
      PROVE  AssignInv'
  <2>1. RestTypes'
    BY <1>4 DEF NextRgr, AssignInv, RestTypes, ranges, hosts
  <2> QED BY <1>4, <2>1, AssignerMoves
          DEF NextRgr, Go, AssignInv, CoreTypes, ranges, hosts
<1> QED BY <1>1, <1>2, <1>3, <1>4

\* Range::set_state_queued: Columns::assign_remove.
LEMMA UnlistKeeps ==
  ASSUME AssignInv, Unlist
  PROVE  AssignInv'
<1>1. /\ apc = "unlist" /\ apc' = "mark" /\ need' = need \ {cur}
      /\ UNCHANGED <<state, rgr, ready, rst, fails, loads, lapsed, assignments,
                     assign, cur, tgt, timer, holder, faults, late>>
  BY DEF Unlist, Go, hosts
<1>2. RestTypes'
  BY <1>1 DEF AssignInv, RestTypes
<1>3. CoreTypes'
  BY <1>1 DEF AssignInv, CoreTypes
<1>4. PlaceInv' /\ OverInv'
  BY <1>1 DEF AssignInv, PlaceInv, OverInv, Acked
<1>5. CountInv'
  <2>1. Flying' = Flying
    BY <1>1 DEF Flying, At
  <2> QED BY <1>1, <2>1 DEF AssignInv, CountInv
<1>6. NotForgotten'
  BY <1>1 DEF AssignInv, NotForgotten, At, Acked
<1> QED BY <1>2, <1>3, <1>4, <1>5, <1>6 DEF AssignInv

\* A request that is sent.
LEMMA SentIs ==
  ASSUME AssignInv, apc \in {"mark", "last"}, NEW o \in BOOLEAN
  PROVE  /\ Sent(o) \in Load /\ Sent(o).at = "sent" /\ Sent(o).over = o
         /\ Sent(o).rgr = tgt /\ Sent(o).range = cur
         /\ cur \in Ranges /\ tgt \in Rangers
<1>1. cur \in Ranges /\ tgt \in Rangers
  BY DEF AssignInv, PlaceInv
<1>2. (rst[tgt] = "none") \in BOOLEAN
  OBVIOUS
<1> QED BY <1>1, <1>2 DEF Sent, Load

\* One more request is under way.
LEMMA OneMore ==
  ASSUME NEW i \in Calls, i \notin Flying, Flying' = Flying \cup {i}
  PROVE  Cardinality(Flying') = Cardinality(Flying) + 1
BY FlyingFinite, FS_AddElement

\* The last load that is due.
LEMMA LastKeeps ==
  ASSUME AssignInv, NEW i \in Calls, Last(i)
  PROVE  AssignInv'
<1> DEFINE o == rgr[cur] # tgt \/ tgt \notin Acked
<1>1. /\ apc = "last" /\ loads[i].at = "free" /\ loads' = [loads EXCEPT ![i] = Sent(o)]
      /\ assign' = FALSE /\ apc' = "idle" /\ cur' = None /\ tgt' = None
      /\ UNCHANGED <<state, rgr, need, ready, rst, fails, lapsed, assignments, timer,
                     holder, faults, late>>
  BY DEF Last, At, Set, ranges, hosts
<1>2. o \in BOOLEAN
  OBVIOUS
<1>3. ~o => rgr[cur] = tgt /\ tgt \in Acked
  OBVIOUS
<1> HIDE DEF o
<1>4. /\ Sent(o) \in Load /\ Sent(o).at = "sent" /\ Sent(o).over = o
      /\ Sent(o).rgr = tgt /\ Sent(o).range = cur
      /\ cur \in Ranges /\ tgt \in Rangers
  BY <1>1, <1>2, SentIs
<1>5. /\ loads' \in [Calls -> Load] /\ loads'[i] = Sent(o)
      /\ \A j \in Calls \ {i} : loads'[j] = loads[j]
  BY <1>1, <1>4 DEF AssignInv, CoreTypes
<1>6. RestTypes' /\ CoreTypes'
  BY <1>1, <1>5 DEF AssignInv, RestTypes, CoreTypes
<1>7. PlaceInv'
  BY <1>1, <1>4, <1>5 DEF AssignInv, PlaceInv
<1>8. OverInv'
  BY <1>1, <1>3, <1>4, <1>5 DEF AssignInv, OverInv, Acked
<1>9. CountInv'
  <2>1. i \notin Flying /\ Flying' = Flying \cup {i}
    BY <1>1, <1>4, <1>5 DEF Flying, At
  <2>2. Cardinality(Flying') = Cardinality(Flying) + 1
    BY <2>1, OneMore
  <2> QED BY <1>1, <2>2, FlyingFinite DEF AssignInv, CountInv
<1>10. NotForgotten'
  <2>1. \A j \in Calls : loads[j].at # "free" => loads'[j] = loads[j]
    BY <1>1, <1>5
  <2>2. loads'[i].at = "sent" /\ loads'[i].range = cur
    BY <1>4, <1>5
  <2> QED BY <1>1, <2>1, <2>2 DEF AssignInv, NotForgotten, At, Acked
<1> QED BY <1>6, <1>7, <1>8, <1>9, <1>10 DEF AssignInv

\* The rest of set_state_queued, and rgr->put when more is due.
LEMMA QueueKeeps ==
  ASSUME AssignInv, NEW i \in Calls, Queue(i)
  PROVE  AssignInv'
<1> DEFINE ov == Overtake({cur}, {})
           s == Sent(tgt \notin Acked)
<1>1. /\ apc = "mark" /\ loads[i].at = "free"
      /\ state' = [state EXCEPT ![cur] = "QUEUED"]
      /\ rgr' = [rgr EXCEPT ![cur] = tgt]
      /\ late' = late \ {cur} /\ assignments' = assignments + 1
      /\ assign' = assign
      /\ UNCHANGED <<need, ready, rst, fails, lapsed, timer, holder, faults>>
  BY DEF Queue, At, Go, hosts
<1>2. /\ s \in Load /\ s.at = "sent" /\ s.over = (tgt \notin Acked)
      /\ s.rgr = tgt /\ s.range = cur
      /\ cur \in Ranges /\ tgt \in Rangers
  BY <1>1, SentIs
<1>3. \/ /\ assignments + 1 < Due /\ loads' = [ov EXCEPT ![i] = s]
         /\ apc' = "loop" /\ cur' = None /\ tgt' = None
      \/ /\ assignments + 1 >= Due /\ loads' = ov
         /\ apc' = "last" /\ cur' = cur /\ tgt' = tgt
  BY DEF Queue, Go
<1>4. /\ ov \in [Calls -> Load]
      /\ \A j \in Calls :
           /\ ov[j].at = loads[j].at /\ ov[j].rgr = loads[j].rgr
           /\ ov[j].range = loads[j].range /\ ov[j].ok = loads[j].ok
           /\ ov[j].over = (loads[j].over \/ loads[j].range \in {cur})
  <2>1. ov \in [Calls -> Load]
    BY OvertakeIs DEF AssignInv
  <2>2. ASSUME NEW j \in Calls
        PROVE  /\ ov[j].at = loads[j].at /\ ov[j].rgr = loads[j].rgr
               /\ ov[j].range = loads[j].range /\ ov[j].ok = loads[j].ok
               /\ ov[j].over = (loads[j].over \/ loads[j].range \in {cur})
    BY OvertakeIs DEF AssignInv
  <2> HIDE DEF ov
  <2> QED BY <2>1, <2>2
<1> HIDE DEF ov, s
<1>5. /\ loads' \in [Calls -> Load] /\ \A j \in Calls \ {i} : loads'[j] = ov[j]
      /\ \/ loads'[i] = ov[i] /\ apc' = "last"
         \/ loads'[i] = s /\ apc' = "loop"
  <2>1. ov \in [Calls -> Load] /\ s \in Load
    BY <1>2, <1>4
  <2> QED BY <1>3, <2>1
<1>6. CoreTypes'
  <2>1. \A r \in Ranges : state'[r] = "NOTSET" <=> rgr'[r] = None
    BY <1>1, <1>2, AssignAssumption DEF AssignInv, CoreTypes
  <2>2. /\ state' \in [Ranges -> {"NOTSET", "QUEUED", "ASSIGNED"}]
        /\ rgr' \in [Ranges -> Rangers \cup {None}]
        /\ late' \subseteq Ranges /\ assignments' \in Nat
    BY <1>1, <1>2 DEF AssignInv, CoreTypes
  <2>3. /\ assign' /\ assign' \in BOOLEAN /\ apc' \in {"loop", "last"}
        /\ cur' \in Ranges \cup {None} /\ tgt' \in Rangers \cup {None}
    BY <1>1, <1>2, <1>3 DEF AssignInv, CoreTypes
  <2> QED BY <1>1, <1>5, <2>1, <2>2, <2>3 DEF AssignInv, CoreTypes
<1>7. RestTypes'
  BY <1>1 DEF AssignInv, RestTypes
<1>8. PlaceInv'
  BY <1>1, <1>2, <1>3, <1>4, <1>5 DEF AssignInv, PlaceInv
<1>9. OverInv'
  <2> SUFFICES ASSUME NEW j \in Calls, loads'[j].at \in {"sent", "loaded", "got"},
                      ~loads'[j].over
               PROVE  rgr'[loads'[j].range] = loads'[j].rgr /\ loads'[j].rgr \in Acked'
    BY DEF OverInv
  <2>1. rgr'[cur] = tgt /\ Acked' = Acked
    BY <1>1, <1>2 DEF AssignInv, CoreTypes, Acked
  <2>2. CASE j = i
    <3>1. loads'[i] = s
      BY <1>1, <1>4, <1>5, <2>2
    <3> QED BY <1>2, <2>1, <2>2, <3>1
  <2>3. CASE j # i
    <3>1. loads'[j] = ov[j] /\ ~loads[j].over /\ loads[j].range # cur
      BY <1>4, <1>5, <2>3
    <3>2. rgr[loads[j].range] = loads[j].rgr /\ loads[j].rgr \in Acked
          /\ loads[j].range \in Ranges
      BY <1>4, <3>1 DEF AssignInv, OverInv, PlaceInv
    <3> QED BY <1>1, <1>4, <2>1, <3>1, <3>2 DEF AssignInv, CoreTypes
  <2> QED BY <2>2, <2>3
<1>10. CountInv'
  <2>1. CASE apc' = "loop"
    <3>1. i \notin Flying /\ Flying' = Flying \cup {i}
      BY <1>1, <1>2, <1>4, <1>5, <2>1 DEF Flying, At
    <3>2. Cardinality(Flying') = Cardinality(Flying) + 1
      BY <3>1, OneMore
    <3> QED BY <1>1, <1>3, <2>1, <3>2, FlyingFinite, AssignAssumption
            DEF AssignInv, CountInv, CoreTypes
  <2>2. CASE apc' = "last"
    <3>1. Flying' = Flying
      BY <1>1, <1>4, <1>5, <2>2 DEF Flying, At
    <3> QED BY <1>1, <1>3, <2>2, <3>1, FlyingFinite, AssignAssumption
            DEF AssignInv, CountInv, CoreTypes
  <2> QED BY <1>3, <2>1, <2>2
<1>11. NotForgotten'
  <2>1. \A j \in Calls : loads[j].at # "free" =>
          /\ loads'[j].at = loads[j].at /\ loads'[j].range = loads[j].range
          /\ loads'[j].ok = loads[j].ok
    BY <1>1, <1>4, <1>5
  <2>2. \/ apc' = "last" /\ cur' = cur
        \/ loads'[i].at = "sent" /\ loads'[i].range = cur
    BY <1>2, <1>3, <1>5
  <2>3. Acked' = Acked
    BY <1>1 DEF Acked
  <2>4. ASSUME NEW r \in Ranges, r # cur
        PROVE  state'[r] = state[r] /\ rgr'[r] = rgr[r] /\ (r \in late' <=> r \in late)
    BY <1>1, <2>4 DEF AssignInv, CoreTypes
  <2>5. state'[cur] = "QUEUED"
    BY <1>1, <1>2 DEF AssignInv, CoreTypes
  <2> SUFFICES ASSUME NEW r \in Ranges
               PROVE  /\ state'[r] = "NOTSET" =>
                           \/ r \in need'
                           \/ apc' = "mark" /\ cur' = r
                           \/ \E j \in Calls : /\ loads'[j].at = "apply"
                                               /\ ~loads'[j].ok /\ loads'[j].range = r
                      /\ state'[r] = "QUEUED" =>
                           \/ apc' = "last" /\ cur' = r
                           \/ \E j \in Calls : /\ loads'[j].range = r
                                               /\ loads'[j].at \in {"sent", "loaded", "got"}
                      /\ state'[r] = "ASSIGNED" /\ r \notin late' => rgr'[r] \in Acked'
    BY DEF NotForgotten, At
  <2>6. CASE r = cur
    BY <2>2, <2>5, <2>6
  <2>7. CASE r # cur
    BY <1>1, <2>1, <2>3, <2>4, <2>7 DEF AssignInv, NotForgotten, At
  <2> QED BY <2>6, <2>7
<1> QED BY <1>6, <1>7, <1>8, <1>9, <1>10, <1>11 DEF AssignInv

-----------------------------------------------------------------------------
(***************************************************************************)
(* The theorems.                                                           *)
(***************************************************************************)

\* Every step of the assigner, of the answers, of the rangers and of the checks
\* keeps AssignInv.
LEMMA AssignNext == AssignInv /\ [Next]_vars => AssignInv'
<1> SUFFICES ASSUME AssignInv, [Next]_vars PROVE AssignInv'
  OBVIOUS
<1>1. CASE UNCHANGED vars
  <2>1. RestTypes'
    BY <1>1 DEF vars, ranges, hosts, asgn, AssignInv, RestTypes
  <2> QED BY <1>1, <2>1, StartKeeps DEF vars, ranges, hosts, asgn, Woken
<1>2. CASE Assigner
  BY <1>2, AssignerMovesKeeps, UnlistKeeps, NextRgrMarksKeeps, QueueKeeps, LastKeeps
     DEF Assigner
<1>3. CASE Tick
  BY <1>3, TickKeeps
<1>4. ASSUME NEW i \in Calls, RangerLoads(i) \/ Answer(i) \/ Callback(i)
      PROVE  AssignInv'
  BY <1>4, RangerLoadsKeeps, AnswerKeeps, SetStateKeeps, ApplyKeeps, SortKeeps
     DEF Callback
<1>5. ASSUME NEW g \in Rangers, Register(g) \/ Report(g) \/ Shutdown(g)
      PROVE  AssignInv'
  BY <1>5, RegisterKeeps, ReportKeeps, ShutdownKeeps
<1>6. ASSUME NEW r \in Ranges,
             Rebalance(r) \/ HealthCheck(r) \/ HealthLapsed(r) \/ RangeUnloaded(r)
      PROVE  AssignInv'
  BY <1>6, RebalanceKeeps, HealthCheckKeeps, HealthLapsedKeeps, RangeUnloadedKeeps
<1> QED BY <1>1, <1>2, <1>3, <1>4, <1>5, <1>6 DEF Next

\* AssignInv holds of every state that RangeAssign reaches.
THEOREM AssignInvariant == Spec => []AssignInv
BY AssignInit, AssignNext, PTL DEF Spec

\* Rangers::assign_ranges_run and range_loaded: m_assignments is the number of
\* loads under way, and never above the limit.
THEOREM LoadsCountedHolds == Spec => []LoadsCounted
<1>1. AssignInv => LoadsCounted
  BY DEF AssignInv, CoreTypes, RestTypes, CountInv, LoadsCounted, TypeOK
<1> QED BY <1>1, AssignInvariant, PTL

\* Range::set_state_none, set_state_queued and set_state_assigned, on different
\* threads: no range is without a ranger and not in m_need_assign, QUEUED without
\* a load, or left with a ranger that the manager has given up.
THEOREM NotForgottenHolds == Spec => []NotForgotten
<1>1. AssignInv => NotForgotten
  BY DEF AssignInv
<1> QED BY <1>1, AssignInvariant, PTL

=============================================================================
