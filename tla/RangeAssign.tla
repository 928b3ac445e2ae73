---------------------------- MODULE RangeAssign -----------------------------
(***************************************************************************)
(* The assignment of ranges to rangers by one manager: Manager::Rangers    *)
(* with the Manager::Range, Column and Columns it works on.                *)
(*                                                                         *)
(* One thread at a time runs assign_ranges_run (m_assign): it takes ranges *)
(* from m_need_assign, chooses a ranger and sends RangeLoad, until as many *)
(* loads as cfg_assign_due are under way.  Answers come back on other      *)
(* threads, in any order and possibly long after the ranger was marked     *)
(* offline and its ranges were given to another.  An answer that brings    *)
(* m_assignments below the limit starts the assigner again; otherwise a    *)
(* timer does.                                                             *)
(*                                                                         *)
(* The rangers are external: all that is said of them is which one holds a *)
(* range.  A ranger that loads a range first makes the last one give it    *)
(* up, so the holder is the one that loaded last.                          *)
(***************************************************************************)
EXTENDS FiniteSets, Naturals

CONSTANTS
  Meta, Data,   \* the ranges of a meta column and of a data column
  Rangers,
  None,         \* no ranger
  Due,          \* swc.mngr.ranges.assign.due
  MaxFails,     \* swc.mngr.ranges.assign.Rgr.remove.failures
  RangersRole,  \* this manager also has the role RANGERS
  Calls,        \* bound: the RangeLoad requests whose callback is not over
  MaxFaults     \* bound on failures of rangers and of requests

Ranges == Meta \cup Data

ASSUME AssignAssumption ==
  /\ Meta \cap Data = {} /\ None \notin Rangers \cup Ranges
  /\ IsFiniteSet(Calls)
  /\ {Due, MaxFails} \subseteq Nat \ {0}
  /\ MaxFaults \in Nat /\ RangersRole \in BOOLEAN

VARIABLES
  state, rgr,   \* Range::m_state and m_rgrid
  need,         \* Columns::m_need_assign
  ready,        \* the columns in State::OK, as the sets of their ranges
  rst,          \* Ranger::state: "ack", "shut" (and ACK), "off", "none"
  fails,        \* Ranger::failures
  loads,        \* RangeLoad requests: where each is
  lapsed,       \* answers RGR_NOT_LOADED_RANGE of health checks under way
  assignments,  \* m_assignments
  assign,       \* m_assign
  apc, cur, tgt,\* the assigner: its place, its range and ranger
  timer,        \* m_timer is set
  holder,       \* external: the ranger that has the range loaded
  faults,       \* bound: how many failures there were
  late          \* history: ranges whose last answer was of a load overtaken

ranges == <<state, rgr, need, ready>>
hosts  == <<rst, fails>>
asgn   == <<assign, apc, cur, tgt>>
vars   == <<ranges, hosts, loads, lapsed, assignments, asgn, timer, holder,
            faults, late>>

Col(r) == IF r \in Meta THEN Meta ELSE Data
Load == [rgr : Rangers \cup {None}, range : Ranges \cup {None},
         at : {"free", "sent", "loaded", "got", "apply", "sort"},
         ok : BOOLEAN, again : BOOLEAN, gone : BOOLEAN, over : BOOLEAN]
Free == [rgr |-> None, range |-> None, at |-> "free",
         ok |-> FALSE, again |-> FALSE, gone |-> FALSE, over |-> FALSE]

Set(i, l) == loads' = [loads EXCEPT ![i] = l]
At(i, p) == loads[i].at = p

\* Requests that RangeLoad::loaded has not been called for.
Flying == {i \in Calls : At(i, "sent") \/ At(i, "loaded")}

TypeOK ==
  /\ state \in [Ranges -> {"NOTSET", "QUEUED", "ASSIGNED"}]
  /\ rgr \in [Ranges -> Rangers \cup {None}]
  /\ need \subseteq Ranges
  /\ ready \subseteq {Meta, Data}
  /\ rst \in [Rangers -> {"ack", "shut", "off", "none"}]
  /\ fails \in [Rangers -> Nat]
  /\ loads \in [Calls -> Load]
  /\ lapsed \subseteq Ranges
  /\ assignments \in Nat
  /\ assign \in BOOLEAN
  /\ apc \in {"idle", "loop", "unlist", "mark", "last", "end"}
  /\ cur \in Ranges \cup {None} /\ tgt \in Rangers \cup {None}
  /\ timer \in BOOLEAN
  /\ holder \in [Ranges -> Rangers \cup {None}]
  /\ faults \in 0 .. MaxFaults
  /\ late \subseteq Ranges
  /\ assign <=> apc # "idle"
  /\ \A r \in Ranges : state[r] = "NOTSET" <=> rgr[r] = None

\* Column::init of both columns; the role has set the timer.
Init ==
  /\ state = [r \in Ranges |-> "NOTSET"] /\ rgr = [r \in Ranges |-> None]
  /\ need = Ranges /\ ready = {}
  /\ rst = [g \in Rangers |-> "none"] /\ fails = [g \in Rangers |-> 0]
  /\ loads = [i \in Calls |-> Free] /\ lapsed = {} /\ assignments = 0
  /\ assign = FALSE /\ apc = "idle" /\ cur = None /\ tgt = None
  /\ timer = TRUE
  /\ holder = [r \in Ranges |-> None]
  /\ faults = 0 /\ late = {}

Fault == faults < MaxFaults /\ faults' = faults + 1

-----------------------------------------------------------------------------
(***************************************************************************)
(* Ranges that lose their ranger.                                          *)
(***************************************************************************)

\* The loads under way of these ranges are overtaken (history); the requests
\* to the rangers G have lost their connection.
Overtake(R, G) ==
  [i \in Calls |-> [loads[i] EXCEPT !.over = @ \/ loads[i].range \in R,
                                   !.gone = @ \/ loads[i].rgr \in G]]

\* Range::set_state_none of the ranges R, with Column::_set_loading; the
\* queues of the rangers G are stopped.
Unassign(R, G) ==
  /\ state' = [r \in Ranges |-> IF r \in R THEN "NOTSET" ELSE state[r]]
  /\ rgr' = [r \in Ranges |-> IF r \in R THEN None ELSE rgr[r]]
  /\ need' = need \cup R
  /\ ready' = ready \ {Col(r) : r \in R}
  /\ loads' = Overtake(R, G)
  /\ late' = late \ R

\* Columns::set_rgr_unassigned
Of(g) == {r \in Ranges : rgr[r] = g}

\* Rangers::assign_ranges
Wake ==
  \/ assignments >= Due /\ timer' = TRUE /\ UNCHANGED asgn
  \/ assignments < Due /\ assign /\ UNCHANGED <<asgn, timer>>
  \/ assignments < Due /\ ~assign
       /\ assign' = TRUE /\ apc' = "loop" /\ UNCHANGED <<cur, tgt, timer>>

\* Rangers::update_status, RangeUnload::unloaded.
Rebalance(r) ==
  /\ state[r] = "ASSIGNED" /\ rst[rgr[r]] \in {"ack", "shut"}
  /\ Unassign({r}, {})
  /\ holder' = [holder EXCEPT ![r] = IF @ = rgr[r] THEN None ELSE @]
  /\ Fault /\ Wake
  /\ UNCHANGED <<hosts, lapsed, assignments>>

\* Nothing is under way for the range.
Quiet(r) == r \notin need \cup {cur} /\ \A i \in Calls : loads[i].range # r

\* ColumnHealthCheck::run of a column in State::OK asks the rangers in ACK;
\* one that does not have the range answers so.  A range is checked once
\* swc.mngr.column.health.interval.check has passed since it was assigned: a
\* load that lasts as long is one of the failures.
HealthCheck(r) ==
  /\ Col(r) \in ready /\ r \notin lapsed
  /\ state[r] = "ASSIGNED" /\ rst[rgr[r]] = "ack" /\ holder[r] # rgr[r]
  /\ \/ Quiet(r) /\ UNCHANGED faults
     \/ ~Quiet(r) /\ Fault
  /\ lapsed' = lapsed \cup {r}
  /\ UNCHANGED <<ranges, hosts, loads, assignments, asgn, timer, holder, late>>

\* RangerCheck::handle of RGR_NOT_LOADED_RANGE, whoever has the range now.
HealthLapsed(r) ==
  /\ r \in lapsed
  /\ lapsed' = lapsed \ {r}
  /\ Unassign({r}, {})
  /\ Wake
  /\ UNCHANGED <<hosts, assignments, holder, faults>>

\* The handler of RangeUnloaded: the column stays in State::OK.
RangeUnloaded(r) ==
  /\ holder[r] # None
  /\ state' = [state EXCEPT ![r] = "NOTSET"]
  /\ rgr' = [rgr EXCEPT ![r] = None]
  /\ need' = need \cup {r}
  /\ loads' = Overtake({r}, {}) /\ late' = late \ {r}
  /\ holder' = [holder EXCEPT ![r] = None]
  /\ Fault /\ Wake
  /\ UNCHANGED <<ready, hosts, lapsed, assignments>>

-----------------------------------------------------------------------------
(***************************************************************************)
(* Rangers.                                                                *)
(***************************************************************************)

\* Rangers::rgr_set of a ranger that is new or not in ACK, and rgr_ack_id:
\* a new Ranger takes its place, the timer is set.
Register(g) ==
  /\ rst[g] \in {"none", "off"}
  /\ rst' = [rst EXCEPT ![g] = "ack"] /\ fails' = [fails EXCEPT ![g] = 0]
  /\ Unassign(Of(g), {g})
  /\ timer' = TRUE
  /\ UNCHANGED <<lapsed, assignments, asgn, holder, faults>>

\* Rangers::rgr_report, the last of the reports.
Report(g) ==
  /\ rst[g] = "ack" /\ fails[g] >= MaxFails
  /\ rst' = [rst EXCEPT ![g] = "off"]
  /\ Unassign(Of(g), {})
  /\ timer' = TRUE
  /\ UNCHANGED <<fails, lapsed, assignments, asgn, holder, faults>>

\* Rangers::rgr_shutdown: the ranger has unloaded its ranges, its queue and
\* connection are closed.
Shutdown(g) ==
  /\ rst[g] # "none"
  /\ \/ rst[g] = "shut" /\ UNCHANGED faults
     \/ rst[g] # "shut" /\ Fault
  /\ rst' = [rst EXCEPT ![g] = "none"] /\ fails' = [fails EXCEPT ![g] = 0]
  /\ Unassign(Of(g), {g})
  /\ holder' = [r \in Ranges |-> IF holder[r] = g THEN None ELSE holder[r]]
  /\ timer' = TRUE
  /\ UNCHANGED <<lapsed, assignments, asgn>>

-----------------------------------------------------------------------------
(***************************************************************************)
(* assign_ranges_run.                                                      *)
(***************************************************************************)

\* Rangers::schedule_run
Tick ==
  /\ timer
  /\ \/ /\ assignments < Due /\ ~assign
        /\ assign' = TRUE /\ apc' = "loop" /\ UNCHANGED <<cur, tgt>>
        /\ timer' = RangersRole
     \/ /\ assignments < Due /\ assign
        /\ UNCHANGED asgn /\ timer' = RangersRole
     \/ assignments >= Due /\ UNCHANGED <<asgn, timer>>
  /\ UNCHANGED <<ranges, hosts, loads, lapsed, assignments, holder, faults, late>>

Go(p) == apc' = p /\ UNCHANGED assign

\* Columns::get_next_unassigned: meta ranges first, and data ranges once the
\* meta column is in State::OK.
Next_unassigned ==
  IF need \cap Meta # {} THEN need \cap Meta
  ELSE IF Meta = {} \/ Meta \in ready THEN need
  ELSE {}

\* Every ranger is gone or no range is in need: m_assign.stop() and
\* schedule_check are still to come.
NoneDue ==
  /\ apc = "loop"
  /\ (\A g \in Rangers : rst[g] = "none") \/ Next_unassigned = {}
  /\ Go("end")
  /\ UNCHANGED <<ranges, hosts, loads, lapsed, assignments, cur, tgt, timer,
                 holder, faults, late>>

Acked == {g \in Rangers : rst[g] \in {"ack", "shut"}}

\* Rangers::next_rgr marks the rangers that have failed too often.
NextRgrMarks(g) ==
  /\ apc = "loop" /\ Next_unassigned # {}
  /\ g \in Acked /\ fails[g] >= MaxFails
  /\ rst' = [rst EXCEPT ![g] = "off"]
  /\ Unassign(Of(g), {})
  /\ UNCHANGED <<fails, lapsed, assignments, asgn, timer, holder, faults>>

\* Rangers::next_rgr for the next range: a ranger in ACK, or the only one
\* although it is shutting down when the range is not of a data column.
NextRgr(r, g) ==
  /\ apc = "loop" /\ r \in Next_unassigned
  /\ \A h \in Acked : fails[h] < MaxFails
  /\ rst[g] = "ack" \/ (rst[g] = "shut" /\ Acked = {g} /\ r \in Meta)
  /\ cur' = r /\ tgt' = g /\ Go("unlist")
  /\ UNCHANGED <<ranges, hosts, loads, lapsed, assignments, timer, holder, faults,
                 late>>

\* Rangers::next_rgr finds none: no ranger is there, or those that are have
\* more than the average number of ranges, to which one that is shutting
\* down counts.
NoRgr ==
  /\ apc = "loop" /\ Next_unassigned # {}
  /\ \A h \in Acked : fails[h] < MaxFails
  /\ (\A g \in Rangers : rst[g] # "ack") \/ (\E g \in Rangers : rst[g] = "shut")
  /\ Go("end")
  /\ UNCHANGED <<ranges, hosts, loads, lapsed, assignments, cur, tgt, timer,
                 holder, faults, late>>

\* Range::set_state_queued: Columns::assign_remove
Unlist ==
  /\ apc = "unlist"
  /\ need' = need \ {cur}
  /\ Go("mark")
  /\ UNCHANGED <<state, rgr, ready, hosts, loads, lapsed, assignments, cur, tgt,
                 timer, holder, faults, late>>

\* rgr->put of a RangeLoad; a queue that was stopped refuses it.
Sent(over) ==
  [rgr |-> tgt, range |-> cur, at |-> "sent", ok |-> FALSE, again |-> FALSE,
   gone |-> rst[tgt] = "none", over |-> over]

\* The rest of set_state_queued, m_assignments.add_rslt and, when more is due,
\* rgr->put.
Queue(i) ==
  /\ apc = "mark" /\ At(i, "free")
  /\ state' = [state EXCEPT ![cur] = "QUEUED"]
  /\ rgr' = [rgr EXCEPT ![cur] = tgt]
  /\ late' = late \ {cur}
  /\ assignments' = assignments + 1
  /\ \/ /\ assignments + 1 < Due
        /\ loads' = [Overtake({cur}, {}) EXCEPT ![i] = Sent(tgt \notin Acked)]
        /\ Go("loop") /\ cur' = None /\ tgt' = None
     \/ /\ assignments + 1 >= Due
        /\ loads' = Overtake({cur}, {})
        /\ Go("last") /\ UNCHANGED <<cur, tgt>>
  /\ UNCHANGED <<need, ready, hosts, lapsed, timer, holder, faults>>

\* Variant: the range is taken from m_need_assign once it is QUEUED.
LastUnlists(i) ==
  /\ apc = "last" /\ At(i, "free")
  /\ Set(i, Sent(rgr[cur] # tgt \/ tgt \notin Acked))
  /\ need' = need \ {cur}
  /\ assign' = FALSE /\ apc' = "idle" /\ cur' = None /\ tgt' = None
  /\ UNCHANGED <<state, rgr, ready, hosts, lapsed, assignments, timer, holder,
                 faults, late>>

\* The last load that is due: m_assign.stop() and rgr->put, and no timer.
Last(i) ==
  /\ apc = "last" /\ At(i, "free")
  /\ Set(i, Sent(rgr[cur] # tgt \/ tgt \notin Acked))
  /\ assign' = FALSE /\ apc' = "idle" /\ cur' = None /\ tgt' = None
  /\ UNCHANGED <<ranges, hosts, lapsed, assignments, timer, holder, faults, late>>

\* m_assign.stop() and schedule_check
End ==
  /\ apc = "end"
  /\ assign' = FALSE /\ apc' = "idle" /\ cur' = None /\ tgt' = None
  /\ timer' = TRUE
  /\ UNCHANGED <<ranges, hosts, loads, lapsed, assignments, holder, faults, late>>

-----------------------------------------------------------------------------
(***************************************************************************)
(* RangeLoad requests and their answers.                                   *)
(***************************************************************************)

\* External: the ranger loads the range.
RangerLoads(i) ==
  /\ At(i, "sent") /\ ~loads[i].gone
  /\ Set(i, [loads[i] EXCEPT !.at = "loaded"])
  /\ holder' = [holder EXCEPT ![loads[i].range] = loads[i].rgr]
  /\ UNCHANGED <<ranges, hosts, lapsed, assignments, asgn, timer, faults, late>>

\* Variant: an answer that is too late is not counted.
TakeAnswerUncounted(i, ok) ==
  /\ Set(i, [loads[i] EXCEPT !.at = "got", !.ok = ok,
                             !.again = (assignments = Due)])
  /\ assignments' = IF loads[i].over THEN assignments ELSE assignments - 1

\* Rangers::range_loaded: m_assignments.fetch_sub
TakeAnswer(i, ok) ==
  /\ Set(i, [loads[i] EXCEPT !.at = "got", !.ok = ok,
                             !.again = (assignments = Due)])
  /\ assignments' = assignments - 1

\* RangeLoad::handle of the ranger's answer.
AnswerOk(i) ==
  /\ At(i, "loaded") /\ ~loads[i].gone
  /\ TakeAnswer(i, TRUE)
  /\ UNCHANGED <<ranges, hosts, lapsed, asgn, timer, holder, faults, late>>

\* RangeLoad::handle of an error, with which the ranger has unloaded what it
\* had loaded; or of a timeout, with which it may hold the range.
AnswerErr(i) ==
  /\ i \in Flying /\ Fault
  /\ TakeAnswer(i, FALSE)
  /\ \/ UNCHANGED holder
     \/ /\ holder[loads[i].range] = loads[i].rgr
        /\ holder' = [holder EXCEPT ![loads[i].range] = None]
  /\ UNCHANGED <<ranges, hosts, lapsed, asgn, timer, late>>

\* RangeLoad::handle of SERVER_SHUTTING_DOWN: the ranger is marked so.
AnswerShutdown(i) ==
  /\ At(i, "sent") /\ ~loads[i].gone /\ Fault
  /\ rst[loads[i].rgr] = "ack"
  /\ TakeAnswer(i, FALSE)
  /\ rst' = [rst EXCEPT ![loads[i].rgr] = "shut"]
  /\ timer' = TRUE
  /\ UNCHANGED <<ranges, fails, lapsed, asgn, holder, late>>

\* RangeLoad::handle_no_conn: a failure of the Ranger the request was made
\* for, which is not in the list any more when it was replaced.
AnswerNoConn(i) ==
  /\ i \in Flying
  /\ \/ loads[i].gone /\ UNCHANGED <<fails, faults>>
     \/ /\ ~loads[i].gone /\ Fault
        /\ fails' = [fails EXCEPT ![loads[i].rgr] =
                       IF @ < MaxFails THEN @ + 1 ELSE @]
  /\ TakeAnswer(i, FALSE)
  /\ UNCHANGED <<ranges, rst, lapsed, asgn, timer, holder, late>>

\* Range::set_state_assigned, or the first half of set_state_none.
SetState(i) ==
  /\ At(i, "got")
  /\ LET r == loads[i].range
         g == loads[i].rgr
         ok == loads[i].ok
     IN /\ state' = [state EXCEPT ![r] = IF ok THEN "ASSIGNED" ELSE "NOTSET"]
        /\ rgr' = [rgr EXCEPT ![r] = IF ok THEN g ELSE None]
        /\ fails' = IF ok /\ ~loads[i].gone
                      THEN [fails EXCEPT ![g] = 0] ELSE fails
        /\ late' = IF loads[i].over /\ ok THEN late \cup {r} ELSE late \ {r}
        /\ loads' = [Overtake({r}, {}) EXCEPT ![i].at = "apply"]
  /\ UNCHANGED <<need, ready, rst, lapsed, assignments, asgn, timer, holder,
                 faults>>

\* Variant: a failed load does not put its range in m_need_assign.
ApplyForgets(i) ==
  /\ At(i, "apply")
  /\ IF loads[i].again THEN Wake
     ELSE timer' = (timer \/ ~loads[i].ok) /\ UNCHANGED asgn
  /\ Set(i, [loads[i] EXCEPT !.at = "sort", !.ok = FALSE, !.again = FALSE])
  /\ UNCHANGED <<ranges, hosts, lapsed, assignments, holder, faults, late>>

\* The rest of range_loaded: assign_add, the timer, assign_ranges.
Apply(i) ==
  /\ At(i, "apply")
  /\ need' = IF loads[i].ok THEN need ELSE need \cup {loads[i].range}
  /\ IF loads[i].again THEN Wake
     ELSE timer' = (timer \/ ~loads[i].ok) /\ UNCHANGED asgn
  /\ Set(i, [loads[i] EXCEPT !.at = "sort", !.ok = FALSE, !.again = FALSE])
  /\ UNCHANGED <<state, rgr, ready, hosts, lapsed, assignments, holder, faults,
                 late>>

\* Column::sort, apply_loaded_state
Sort(i) ==
  /\ At(i, "sort")
  /\ LET c == Col(loads[i].range) IN
       ready' = IF \A r \in c : state[r] = "ASSIGNED" THEN ready \cup {c}
                ELSE ready
  /\ Set(i, Free)
  /\ UNCHANGED <<state, rgr, need, hosts, lapsed, assignments, asgn, timer,
                 holder, faults, late>>

-----------------------------------------------------------------------------
Assigner ==
  \/ NoneDue \/ NoRgr \/ Unlist \/ End
  \/ \E g \in Rangers : NextRgrMarks(g) \/ \E r \in Ranges : NextRgr(r, g)
  \/ \E i \in Calls : Queue(i) \/ Last(i)

Callback(i) == SetState(i) \/ Apply(i) \/ Sort(i)

Answer(i) ==
  AnswerOk(i) \/ AnswerErr(i) \/ AnswerShutdown(i) \/ AnswerNoConn(i)

Next ==
  \/ Assigner \/ Tick
  \/ \E i \in Calls : RangerLoads(i) \/ Answer(i) \/ Callback(i)
  \/ \E g \in Rangers : Register(g) \/ Report(g) \/ Shutdown(g)
  \/ \E r \in Ranges :
       Rebalance(r) \/ HealthCheck(r) \/ HealthLapsed(r) \/ RangeUnloaded(r)

Spec == Init /\ [][Next]_vars

\* Threads run, timers fire, requests are answered or time out (an hour for
\* RangeLoad), rangers ask for their id at intervals, a ranger that is
\* shutting down ends, reports and health checks are made at intervals.
Fairness ==
  /\ WF_vars(Assigner) /\ WF_vars(Tick)
  /\ \A i \in Calls :
       /\ WF_vars(RangerLoads(i)) /\ WF_vars(AnswerOk(i) \/ AnswerNoConn(i))
       /\ WF_vars(Callback(i))
  /\ \A g \in Rangers :
       /\ WF_vars(Register(g)) /\ WF_vars(Report(g))
       /\ WF_vars(rst[g] = "shut" /\ Shutdown(g))
  /\ \A r \in Ranges : WF_vars(HealthCheck(r)) /\ WF_vars(HealthLapsed(r))

FairSpec == Spec /\ Fairness

-----------------------------------------------------------------------------
(***************************************************************************)
(* Properties.                                                             *)
(***************************************************************************)

\* No range is forgotten.  One that has no ranger is in m_need_assign, or a
\* thread is about to put it there or to give it a ranger; one that is QUEUED
\* has a load under way, whoever answers last; one that is ASSIGNED is with a
\* ranger the manager believes in, unless the answer that assigned it was of a
\* load that had been overtaken, or was sent to a ranger marked offline since
\* next_rgr chose it.  set_state_none and set_state_queued, on different
\* threads, change the state and the list in two steps without a common lock.
NotForgotten ==
  \A r \in Ranges :
    /\ state[r] = "NOTSET" =>
         \/ r \in need
         \/ apc = "mark" /\ cur = r
         \/ \E i \in Calls : At(i, "apply") /\ ~loads[i].ok /\ loads[i].range = r
    /\ state[r] = "QUEUED" =>
         \/ apc = "last" /\ cur = r
         \/ \E i \in Calls :
              loads[i].range = r /\ loads[i].at \in {"sent", "loaded", "got"}
    /\ state[r] = "ASSIGNED" /\ r \notin late => rgr[r] \in Acked

\* The loads under way are the ones counted and never more than are due: the
\* counter neither leaks, which would stop the assigner for good, nor lets
\* more loads out.
LoadsCounted ==
  /\ TypeOK
  /\ assignments = Cardinality(Flying) + (IF apc = "last" THEN 1 ELSE 0)
  /\ assignments <= Due

\* Clients are sent to a ranger that serves the range.
Served(r) ==
  state[r] = "ASSIGNED" /\ holder[r] = rgr[r] /\ rst[rgr[r]] = "ack"

\* When failures end every range is served in the end, for good: answers
\* applied late, missed wake-ups and failed loads are all made good.
Settles == <>[](\A r \in Ranges : Served(r))

=============================================================================
