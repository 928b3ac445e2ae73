----------------------------- MODULE ConnQueue ------------------------------
(***************************************************************************)
(* The requests of a client to one host: client::ConnQueue with its Host   *)
(* in ConnQueues, and the ConnHandler of each connection.                  *)
(*                                                                         *)
(* put queues a request; run_queue takes the requests to the connection,   *)
(* which numbers them, writes them one at a time and keeps them in         *)
(* m_pending until a response, a timeout or the end of the connection.     *)
(* The handler of a request ends it or asks for it again.  A host without  *)
(* work is closed, removed from ConnQueues and stopped, by itself or by    *)
(* another host with its endpoints, while some still hold and use it.      *)
(*                                                                         *)
(* A step is what a thread does between two points where another one may   *)
(* find it: from one of the locks or atomics it takes to before the next.  *)
(* Where the next only confirms what the thread has just seen, the two are *)
(* one step: put or set with exec_queue, send_request with the pop that    *)
(* follows, m_pending with the test of connected after it, the loops of    *)
(* disconnected, a timer with its handler.                                 *)
(***************************************************************************)
EXTENDS Integers, Sequences, FiniteSets

CONSTANTS
  Reqs,       \* requests, each made once
  MaxConns,   \* bound: connections made
  MaxTries,   \* bound: times that requests are asked for again
  MaxId       \* the last of m_next_req_id, UINT32_MAX

ASSUME ConnAssumption ==
  /\ {MaxConns, MaxTries} \subseteq Nat
  /\ IsFiniteSet(Reqs) /\ Reqs # {}
  /\ MaxId \in Nat /\ MaxId > Cardinality(Reqs)

Conns == 1 .. MaxConns
Ids == 1 .. MaxId
Closers == {"io", "writer", "idle", "stop"}   \* who calls do_close

VARIABLES
  q, qown,            \* the queue; m_q_state, by whom it is held
  runner, rconn,      \* run_queue, and its conn
  mconn, connecting,  \* m_conn (0: null), m_connecting
  made,               \* connections made
  keep, idc,          \* m_timer; the conn that schedule_close(true) has closed
  listed,             \* in ConnQueues
  stopper, sc,        \* ConnQueue::stop, and its conn
  up, reader,         \* connected; the read under way
  active, outq,       \* m_outgoing: m_state and the queue
  wr,                 \* writes: [at, r]
  pend, nid,          \* m_pending: [id, r]; m_next_req_id
  dis,                \* callers of do_close that are to call disconnected
  net,                \* requests on their way there, responses back
  hid, tries,         \* header.id of a request's buffers; times asked again
  new,                \* requests that are still to be made
  wait,               \* its timer in m_delayed, or the handler of that
  task,               \* requests with a task for their handler
  owed,               \* requests whose handler is still to be called
  back,               \* history: an id that m_next_req_id had passed was used,
                      \* of a request sent again or after the last id
  crossed,            \* history: a request was told a response to another
  missed              \* history: exec_queue met a stop that was about to end

queue == <<q, qown, runner, rconn, mconn, connecting, made>>
close == <<keep, idc, listed, stopper, sc>>
link  == <<up, reader, dis, net>>
sends == <<active, outq, wr, pend, nid>>
req   == <<hid, tries, new, wait, task, owed>>
hist  == <<back, crossed, missed>>
vars  == <<queue, close, link, sends, req, hist>>

TypeOK ==
  /\ q \in Seq(Reqs) /\ qown \in {"none", "run", "stop"}
  /\ runner \in {"none", "front", "send"}
  /\ rconn \in 0 .. MaxConns /\ mconn \in 0 .. MaxConns
  /\ connecting \in BOOLEAN /\ made \in 0 .. MaxConns
  /\ keep \in BOOLEAN /\ idc \in -1 .. MaxConns /\ listed \in BOOLEAN
  /\ stopper \in {"none", "acquire", "drain", "close", "end"}
  /\ sc \in 0 .. MaxConns
  /\ up \in [Conns -> BOOLEAN] /\ reader \in [Conns -> BOOLEAN]
  /\ active \in [Conns -> BOOLEAN] /\ outq \in [Conns -> Seq(Reqs)]
  /\ wr \in [Conns -> SUBSET [at : {"write", "async"}, r : Reqs]]
  /\ pend \in [Conns -> SUBSET [id : Ids, r : Reqs]]
  /\ nid \in [Conns -> 0 .. MaxId]
  /\ dis \in [Conns -> SUBSET Closers]
  /\ net \in [Conns -> SUBSET [id : Ids, r : Reqs, try : 0 .. MaxTries]]
  /\ hid \in [Reqs -> 0 .. MaxId] /\ tries \in [Reqs -> 0 .. MaxTries]
  /\ wait \in [Reqs -> {"none", "delayed", "put", "aborted"}]
  /\ new \subseteq Reqs /\ task \subseteq Reqs /\ owed \subseteq Reqs
  /\ {back, crossed, missed} \subseteq BOOLEAN

Init ==
  /\ q = <<>> /\ qown = "none" /\ runner = "none" /\ rconn = 0
  /\ mconn = 0 /\ connecting = FALSE /\ made = 0
  /\ keep = FALSE /\ idc = -1 /\ listed = TRUE /\ stopper = "none" /\ sc = 0
  /\ up = [c \in Conns |-> FALSE] /\ reader = [c \in Conns |-> FALSE]
  /\ active = [c \in Conns |-> FALSE] /\ outq = [c \in Conns |-> <<>>]
  /\ wr = [c \in Conns |-> {}] /\ pend = [c \in Conns |-> {}]
  /\ nid = [c \in Conns |-> 0]
  /\ dis = [c \in Conns |-> {}] /\ net = [c \in Conns |-> {}]
  /\ hid = [r \in Reqs |-> 0] /\ tries = [r \in Reqs |-> 0]
  /\ new = Reqs /\ wait = [r \in Reqs |-> "none"]
  /\ task = {} /\ owed = {}
  /\ back = FALSE /\ crossed = FALSE /\ missed = FALSE

-----------------------------------------------------------------------------
(***************************************************************************)
(* Parts of steps.                                                         *)
(***************************************************************************)

Open(c) == c # 0 /\ up[c]

\* How many times requests were asked for again.
Again == Cardinality({t \in Reqs \X (1 .. MaxTries) : t[2] <= tries[t[1]]})

\* Handlers are called: a request has ended, or request_again delays it.
Called(rs) ==
  \E again \in SUBSET rs :
  /\ Cardinality(again) + Again <= MaxTries
  /\ tries' = [r \in Reqs |-> tries[r] + IF r \in again THEN 1 ELSE 0]
  /\ owed' = owed \ (rs \ again)
  /\ wait' = [r \in Reqs |-> IF r \in again THEN "delayed"
                             ELSE IF r \in rs THEN "none" ELSE wait[r]]

\* ConnHandler::do_close, up to its disconnected.
DoClose(c, k) ==
  /\ k \notin dis[c] /\ dis' = [dis EXCEPT ![c] = @ \cup {k}]
  /\ up' = [up EXCEPT ![c] = FALSE] /\ net' = [net EXCEPT ![c] = {}]

Due(c) == active[c] \/ outq[c] # <<>> \/ pend[c] # {}

Delayed == {r \in Reqs : wait[r] = "delayed"}

-----------------------------------------------------------------------------
(***************************************************************************)
(* put, connect, set and exec_queue.                                       *)
(***************************************************************************)

\* A request is made, for the host that ConnQueues::get has found.
New(r) ==
  /\ r \in new /\ listed /\ new' = new \ {r}
  /\ owed' = owed \cup {r} /\ wait' = [wait EXCEPT ![r] = "put"]
  /\ UNCHANGED <<queue, close, link, sends, hid, tries, task, hist>>

\* exec_queue: run_queue is posted if no one has m_q_state; it cancels m_timer.
Exec ==
  /\ \/ /\ qown = "none" /\ q' # <<>>
        /\ qown' = "run" /\ runner' = "front" /\ keep' = FALSE
     \/ (qown # "none" \/ q' = <<>>) /\ UNCHANGED <<qown, runner, keep>>
  /\ missed' = (missed \/ stopper = "close")

\* put, of a new request or when the timer of delay has expired.
Put(r) ==
  /\ wait[r] \in {"put", "delayed"}
  /\ wait' = [wait EXCEPT ![r] = "none"] /\ q' = Append(q, r)
  /\ \/ Open(mconn) /\ Exec /\ UNCHANGED connecting
     \/ ~Open(mconn) /\ connecting' = TRUE /\ UNCHANGED <<qown, runner, keep, missed>>
  /\ UNCHANGED <<rconn, mconn, made, idc, listed, stopper, sc, link, sends, hid,
                 tries, new, task, owed, back, crossed>>

\* The connector of Serialized has a connection or gives up: set.
Connected ==
  /\ connecting /\ connecting' = FALSE /\ UNCHANGED q /\ Exec
  /\ \/ /\ made < MaxConns /\ made' = made + 1 /\ mconn' = made'
        /\ up' = [up EXCEPT ![made'] = TRUE]
        /\ reader' = [reader EXCEPT ![made'] = TRUE]
     \/ mconn' = 0 /\ UNCHANGED <<made, up, reader>>
  /\ UNCHANGED <<rconn, idc, listed, stopper, sc, dis, net, sends, req, back,
                 crossed>>

-----------------------------------------------------------------------------
(***************************************************************************)
(* run_queue                                                               *)
(***************************************************************************)

\* pop, and schedule_close(false) after the last one.
Pop ==
  /\ q' = Tail(q)
  /\ \/ Len(q) > 1 /\ runner' = "front" /\ UNCHANGED <<qown, keep>>
     \/ /\ Len(q) = 1 /\ runner' = "none" /\ qown' = "none"
        /\ keep' = (mconn # 0)

\* The connection, if it is open.
RunConn ==
  /\ runner = "front" /\ Open(mconn)
  /\ rconn' = mconn /\ runner' = "send"
  /\ UNCHANGED <<q, qown, mconn, connecting, made, close, link, sends, req,
                 hist>>

RunNoConn ==
  /\ runner = "front" /\ ~Open(mconn) /\ Called({Head(q)}) /\ Pop
  /\ UNCHANGED <<rconn, mconn, connecting, made, idc, listed, stopper, sc,
                 link, sends, hid, new, task, hist>>

\* write_or_queue; the connection may have been closed since.
RunSend ==
  LET r == Head(q) IN
  /\ runner = "send" /\ Pop
  /\ \/ /\ active[rconn] /\ outq' = [outq EXCEPT ![rconn] = Append(@, r)]
        /\ UNCHANGED <<active, wr>>
     \/ /\ ~active[rconn] /\ active' = [active EXCEPT ![rconn] = TRUE]
        /\ wr' = [wr EXCEPT ![rconn] = @ \cup {[at |-> "write", r |-> r]}]
        /\ UNCHANGED outq
  /\ rconn' = 0
  /\ UNCHANGED <<mconn, connecting, made, idc, listed, stopper, sc,
                 link, pend, nid, req, hist>>

-----------------------------------------------------------------------------
(***************************************************************************)
(* A connection: write, responses, timeouts, its end.                      *)
(***************************************************************************)

Succ(i) == IF i = MaxId THEN 1 ELSE i + 1

\* Variant: ids of requests that are not pending any more are used first.
AssignedLow(c, r) ==
  LET free == Ids \ {e.id : e \in pend[c]}
  IN  CHOOSE i \in free : \A j \in free : i <= j

\* The first one that is not in use, from the one a request has or the next.
Assigned(c, r) ==
  LET first == IF hid[r] # 0 THEN hid[r] ELSE Succ(nid[c])
      free  == Ids \ {e.id : e \in pend[c]}
      After(i) == IF i < first THEN i + MaxId - first ELSE i - first
  IN  CHOOSE i \in free : \A j \in free : After(i) <= After(j)

\* History: the id i of r on c is one that m_next_req_id had passed, because r
\* has it from before or because no later one is free.
Passed(c, r, i) ==
  /\ i <= nid[c]
  /\ hid[r] # 0 \/ nid[c] + 1 .. MaxId \subseteq {e.id : e \in pend[c]}

\* write: the request has an id and is in m_pending, with its timer; then
\* do_async_write, or do_close.
Write(c, r) ==
  LET w == [at |-> "write", r |-> r]
      i == Assigned(c, r)
  IN
  /\ w \in wr[c]
  /\ nid' = [nid EXCEPT ![c] = i] /\ hid' = [hid EXCEPT ![r] = i]
  /\ pend' = [pend EXCEPT ![c] = @ \cup {[id |-> i, r |-> r]}]
  /\ back' = (back \/ Passed(c, r, i))
  /\ \/ /\ up[c]
        /\ wr' = [wr EXCEPT ![c] = (@ \ {w}) \cup {[at |-> "async", r |-> r]}]
        /\ net' = [net EXCEPT
             ![c] = @ \cup {[id |-> i, r |-> r, try |-> tries[r]]}]
        /\ UNCHANGED <<up, dis>>
     \/ /\ ~up[c] /\ wr' = [wr EXCEPT ![c] = @ \ {w}] /\ DoClose(c, "writer")
  /\ UNCHANGED <<queue, close, reader, active, outq, tries, new, wait, task, owed,
                 crossed, missed>>

\* Sender_noAck: write_next, or do_close on an error.
WriteEnds(c, r) ==
  LET w == [at |-> "async", r |-> r] IN
  /\ w \in wr[c]
  /\ \/ /\ up[c] /\ outq[c] # <<>> /\ outq' = [outq EXCEPT ![c] = Tail(@)]
        /\ wr' = [wr EXCEPT
             ![c] = (@ \ {w}) \cup {[at |-> "write", r |-> Head(outq[c])]}]
        /\ UNCHANGED <<active, up, dis, net>>
     \/ /\ up[c] /\ outq[c] = <<>> /\ active' = [active EXCEPT ![c] = FALSE]
        /\ wr' = [wr EXCEPT ![c] = @ \ {w}]
        /\ UNCHANGED <<outq, up, dis, net>>
     \/ /\ wr' = [wr EXCEPT ![c] = @ \ {w}] /\ DoClose(c, "writer")
        /\ UNCHANGED <<active, outq>>
  /\ UNCHANGED <<queue, close, reader, pend, nid, req, hist>>

\* received and run_pending: the one with this id, if any, is told.
Receive(c) ==
  \E m \in net[c] :
  LET told == {e \in pend[c] : e.id = m.id} IN
  /\ up[c] /\ net' = [net EXCEPT ![c] = @ \ {m}]
  /\ pend' = [pend EXCEPT ![c] = @ \ told]
  /\ task' = task \cup {e.r : e \in told}
  /\ crossed' = (crossed \/ \E e \in told : e.r # m.r)
  /\ UNCHANGED <<queue, close, up, reader, dis, active, outq, wr, nid, hid, tries,
                 new, wait, owed, back, missed>>

\* Variant: the request stays in m_pending.
TimeoutKeeps(c) ==
  \E e \in pend[c] :
  /\ e.r \notin task /\ task' = task \cup {e.r}
  /\ UNCHANGED <<queue, close, link, sends, hid, tries, new, wait, owed, hist>>

\* The timer of a pending request.
Timeout(c) ==
  \E e \in pend[c] :
  /\ pend' = [pend EXCEPT ![c] = @ \ {e}] /\ task' = task \cup {e.r}
  /\ UNCHANGED <<queue, close, link, active, outq, wr, nid, hid, tries, new,
                 wait, owed, hist>>

Handle(r) ==
  /\ r \in task /\ task' = task \ {r} /\ Called({r})
  /\ UNCHANGED <<queue, close, link, sends, hid, new, hist>>

\* Variant: requests that wait to be written are left.
DrainPending(c) ==
  /\ active' = [active EXCEPT ![c] = FALSE] /\ pend' = [pend EXCEPT ![c] = {}]
  /\ Called({e.r : e \in pend[c]}) /\ UNCHANGED outq

\* What disconnected does: m_outgoing, then m_pending.
Drain(c) ==
  /\ active' = [active EXCEPT ![c] = FALSE] /\ outq' = [outq EXCEPT ![c] = <<>>]
  /\ pend' = [pend EXCEPT ![c] = {}]
  /\ Called({outq[c][i] : i \in DOMAIN outq[c]} \cup {e.r : e \in pend[c]})

\* disconnected, from each caller of do_close.
Disconnected(c, k) ==
  /\ k \in dis[c] /\ dis' = [dis EXCEPT ![c] = @ \ {k}] /\ Drain(c)
  /\ UNCHANGED <<queue, close, up, reader, net, wr, nid, hid, new, task, hist>>

\* The read fails: do_close_recv.
ReadFails(c) ==
  /\ up[c] /\ reader[c] /\ reader' = [reader EXCEPT ![c] = FALSE]
  /\ DoClose(c, "io")
  /\ UNCHANGED <<queue, close, sends, req, hist>>

\* The read is cancelled, on a connection that is closed: do_close is no more
\* than disconnected.
ReadCancelled(c) ==
  /\ ~up[c] /\ reader[c] /\ reader' = [reader EXCEPT ![c] = FALSE] /\ Drain(c)
  /\ UNCHANGED <<queue, close, up, dis, net, wr, nid, hid, new, task, hist>>

-----------------------------------------------------------------------------
(***************************************************************************)
(* schedule_close(true), and ConnQueues::remove.                           *)
(***************************************************************************)

\* There is nothing to do: the connection is closed.
IdleCloses ==
  /\ keep /\ idc = -1 /\ q = <<>> /\ Delayed = {}
  /\ mconn # 0 => ~Due(mconn)
  /\ idc' = mconn /\ mconn' = 0 /\ keep' = FALSE
  /\ \/ mconn = 0 /\ UNCHANGED <<up, net, dis>>
     \/ mconn # 0 /\ DoClose(mconn, "idle")
  /\ UNCHANGED <<q, qown, runner, rconn, connecting, made, listed, stopper,
                 sc, reader, sends, req, hist>>

\* There is: the timer is set again, if there is a connection.
IdleStays ==
  /\ keep
  /\ q # <<>> \/ Delayed # {} \/ (mconn # 0 /\ Due(mconn))
  /\ keep' = (mconn # 0)
  /\ UNCHANGED <<queue, idc, listed, stopper, sc, link, sends, req, hist>>

\* stop: the timers of delayed requests are cancelled, or have expired before.
Stop ==
  /\ listed' = FALSE /\ stopper' = "acquire" /\ keep' = FALSE
  /\ \E expired \in SUBSET Delayed :
       wait' = [r \in Reqs |-> IF r \in expired THEN "put"
                               ELSE IF r \in Delayed THEN "aborted" ELSE wait[r]]

\* close_issued: ConnQueues::remove stops the host, if it is still there.
IdleIssues ==
  /\ idc >= 0 /\ (idc > 0 => "idle" \notin dis[idc]) /\ idc' = -1
  /\ \/ listed /\ Stop
     \/ ~listed /\ UNCHANGED <<listed, stopper, keep, wait>>
  /\ UNCHANGED <<queue, sc, link, sends, hid, tries, new, task, owed, hist>>

-----------------------------------------------------------------------------
(***************************************************************************)
(* stop                                                                    *)
(***************************************************************************)

\* ConnQueues::stop, or remove for another host with the same endpoints.
StopStart ==
  /\ listed /\ Stop
  /\ UNCHANGED <<queue, idc, sc, link, sends, hid, tries, new, task, owed, hist>>

Aborted(r) ==
  /\ wait[r] = "aborted" /\ Called({r})
  /\ UNCHANGED <<queue, close, link, sends, hid, new, task, hist>>

StopAcquires ==
  /\ stopper = "acquire" /\ qown = "none" /\ stopper' = "drain" /\ qown' = "stop"
  /\ UNCHANGED <<q, runner, rconn, mconn, connecting, made, keep, idc, listed,
                 sc, link, sends, req, hist>>

\* Requests in the queue have no connection; then it is closed.
StopDrains ==
  /\ stopper = "drain"
  /\ \/ /\ q # <<>> /\ q' = Tail(q) /\ Called({Head(q)})
        /\ UNCHANGED <<stopper, sc, mconn, up, net, dis>>
     \/ /\ q = <<>> /\ stopper' = "close" /\ sc' = mconn /\ mconn' = 0
        /\ IF mconn = 0 THEN UNCHANGED <<up, net, dis>> ELSE DoClose(mconn, "stop")
        /\ UNCHANGED <<q, tries, wait, owed>>
  /\ UNCHANGED <<qown, runner, rconn, connecting, made, keep, idc, listed,
                 reader, sends, hid, new, task, hist>>

StopEnds ==
  /\ stopper = "close" /\ (sc # 0 => "stop" \notin dis[sc])
  /\ stopper' = "end" /\ sc' = 0 /\ qown' = "none"
  /\ UNCHANGED <<q, runner, rconn, mconn, connecting, made, keep, idc, listed,
                 link, sends, req, hist>>

-----------------------------------------------------------------------------
\* What goes on of itself.
Work ==
  \/ \E r \in Reqs : Put(r) \/ Handle(r) \/ Aborted(r)
  \/ Connected \/ RunConn \/ RunNoConn \/ RunSend
  \/ \E c \in Conns :
       \/ \E r \in Reqs : Write(c, r) \/ WriteEnds(c, r)
       \/ Timeout(c) \/ ReadCancelled(c)
       \/ \E k \in Closers : Disconnected(c, k)
  \/ IdleCloses \/ IdleIssues
  \/ StopAcquires \/ StopDrains \/ StopEnds

\* What depends on others, and the timer of a connection in use.
Outside ==
  \/ \E r \in Reqs : New(r)
  \/ \E c \in Conns : Receive(c) \/ ReadFails(c)
  \/ StopStart \/ IdleStays

Next == Work \/ Outside

Spec == Init /\ [][Next]_vars

-----------------------------------------------------------------------------
(***************************************************************************)
(* Properties.                                                             *)
(***************************************************************************)

One(p) == IF p THEN 1 ELSE 0

\* In how many places a request is from which its handler will be called.
Places(r) ==
  One(wait[r] # "none") + One(r \in task)
  + Cardinality({i \in 1 .. Len(q) : q[i] = r})
  + Cardinality(UNION {{c} \X {i \in 1 .. Len(outq[c]) : outq[c][i] = r} :
                         c \in Conns})
  + Cardinality({c \in Conns : [at |-> "write", r |-> r] \in wr[c]})
  + Cardinality({ci \in Conns \X Ids : [id |-> ci[2], r |-> r] \in pend[ci[1]]})

\* A request that is not answered is in exactly one place, through sends that
\* race the end of the connection, timeouts that race responses, and stops:
\* its handler is called once for each try, not twice and not never.
OnePlace == TypeOK /\ \A r \in Reqs : Places(r) = One(r \in owed)

\* A request is told the response to itself and not a late one to another,
\* unless an id was used that m_next_req_id had passed: that of a request that
\* is sent again, or one that came round after the last.
OwnResponse == crossed => back

\* Someone is to take r on from where it is: the timer or the handler of a
\* delay, its task, the write that is about to have it, the timer of a pending
\* request; for one in the queue run_queue, a connect or a stop; for one that
\* waits to be written the write under way or a disconnected.
Served(r) ==
  \/ wait[r] # "none" \/ r \in task
  \/ /\ \E i \in 1 .. Len(q) : q[i] = r
     /\ runner # "none" \/ connecting \/ stopper = "drain"
  \/ \E c \in Conns :
       \/ [at |-> "write", r |-> r] \in wr[c]
       \/ \E e \in pend[c] : e.r = r
       \/ /\ \E i \in 1 .. Len(outq[c]) : outq[c][i] = r
          /\ wr[c] # {} \/ dis[c] # {}

\* No request is left: one that is not answered has someone to take it on, the
\* other end aside, whatever became of its connections and of the host, unless
\* exec_queue met a stop that was about to end.
NotLeft == ~missed => \A r \in owed : Served(r)

=============================================================================
