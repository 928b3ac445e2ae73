----------------------------- MODULE RangeOwner -----------------------------
(***************************************************************************)
(* Which ranger serves a range: the loading of one range on several        *)
(* rangers, its record of the ranger that has it (the file or the cell of  *)
(* DB::RgrData), the RangeUnload that a ranger asks of the last one before *)
(* it takes the range over, and the queue of managing requests of a column.*)
(*                                                                         *)
(* A Column is an object of its own: Columns::load_range replaces one that *)
(* has no ranges, and Columns::erase_if_empty drops one, while requests    *)
(* still run on it.  The manager is external: it sends RangeLoad and       *)
(* RangeUnload at any time (RangeAssign says when).                        *)
(***************************************************************************)
EXTENDS Naturals, Sequences

CONSTANTS
  Rangers,
  None,
  MaxLoads,   \* bound: the requests of the manager
  NCols,      \* bound: the Column objects of a ranger that exist at a time
  MaxFaults   \* bound on failures

ASSUME OwnerAssumption ==
  /\ None \notin Rangers
  /\ MaxLoads \in Nat /\ NCols \in Nat \ {0} /\ MaxFaults \in Nat

Cols == Rangers \X (1 .. NCols)
\* A RangeLoad of the manager, and the RangeUnload that goes with it: the one
\* its ranger sends to the last one, or one of the manager's own.
Reqs == (1 .. MaxLoads) \X {"load", "unload"}
Unload(r) == <<r[1], "unload">>
Load(r) == <<r[1], "load">>

VARIABLES
  owner,      \* the record of the range's ranger
  map,        \* Columns of a ranger: the Column of the range's cid, or 0
  busy, q,    \* Column::m_q_mng: its state and its items
  rng,        \* Range::m_state of the range in a Column, "none" without one
  at, to, col,\* requests: where each is, the ranger, the Column
  down,       \* rangers that are not running
  faults,     \* bound: failures so far
  hist        \* history: what the record does not protect from

columns == <<map, busy, q, rng>>
reqs    == <<at, to, col>>
vars    == <<owner, columns, reqs, down, faults, hist>>

NoCol == <<None, 0>>
Running == {"task", "last", "ask", "own", "data", "reply", "fail", "run"}
Ended == {"ok", "err", "gone"}

TypeOK ==
  /\ owner \in Rangers \cup {None}
  /\ map \in [Rangers -> 0 .. NCols]
  /\ busy \in [Cols -> BOOLEAN]
  /\ q \in [Cols -> Seq(Reqs)]
  /\ rng \in [Cols -> {"none", "LOADING", "NOTLOADED", "LOADED", "UNLOADING"}]
  /\ at \in [Reqs -> {"free", "sent", "queued"} \cup Running \cup Ended]
  /\ to \in [Reqs -> Rangers \cup {None}]
  /\ col \in [Reqs -> Cols \cup {NoCol}]
  /\ down \subseteq Rangers
  /\ faults \in 0 .. MaxFaults
  /\ hist \subseteq {"raced", "seized", "erased"}
  /\ \A c \in Cols : \A i \in DOMAIN q[c] :
       at[q[c][i]] = "queued" /\ col[q[c][i]] = c

Init ==
  /\ owner = None
  /\ map = [g \in Rangers |-> 0]
  /\ busy = [c \in Cols |-> FALSE] /\ q = [c \in Cols |-> <<>>]
  /\ rng = [c \in Cols |-> "none"]
  /\ at = [r \in Reqs |-> "free"]
  /\ to = [r \in Reqs |-> None] /\ col = [r \in Reqs |-> NoCol]
  /\ down = {} /\ faults = 0 /\ hist = {}

Fault == faults < MaxFaults /\ faults' = faults + 1
Goto(r, p) == at' = [at EXCEPT ![r] = p]

-----------------------------------------------------------------------------
(***************************************************************************)
(* The queue of a column.                                                  *)
(***************************************************************************)

\* Column::add_managing
Add(r, c) ==
  /\ col' = [col EXCEPT ![r] = c]
  /\ \/ /\ busy[c] /\ Goto(r, "queued")
        /\ q' = [q EXCEPT ![c] = Append(@, r)] /\ UNCHANGED busy
     \/ /\ ~busy[c] /\ Goto(r, "task")
        /\ busy' = [busy EXCEPT ![c] = TRUE] /\ UNCHANGED q

\* Variant: the next request is left in the queue.
FinishIdle(r, p) ==
  /\ busy' = [busy EXCEPT ![col[r]] = FALSE]
  /\ Goto(r, p) /\ UNCHANGED q

\* The answer of a request, and Column::run_mng_queue.
Finish(r, p) ==
  LET c == col[r] IN
  \/ /\ q[c] = <<>>
     /\ busy' = [busy EXCEPT ![c] = FALSE]
     /\ Goto(r, p) /\ UNCHANGED q
  \/ /\ q[c] # <<>>
     /\ q' = [q EXCEPT ![c] = Tail(@)]
     /\ at' = [at EXCEPT ![r] = p, ![Head(q[c])] = "task"]
     /\ UNCHANGED busy

\* The state of the range in the Column that Columns of a ranger has.
Mapped(g) == IF map[g] = 0 THEN "none" ELSE rng[<<g, map[g]>>]

\* Columns::erase_if_empty, once the Column c has no range.  An unused Column
\* stays when somebody still holds its range.
EraseIfEmpty(c, held) ==
  LET g == c[1]
      k == <<g, map[g]>>
  IN IF map[g] # 0 /\ (k = c \/ Mapped(g) = "none") /\ q[k] = <<>>
       THEN map' \in {map} \cup (IF k = c /\ held THEN {}
                                  ELSE {[map EXCEPT ![g] = 0]})
       ELSE UNCHANGED map

-----------------------------------------------------------------------------
(***************************************************************************)
(* Requests of the manager and failures.                                   *)
(***************************************************************************)

Free(n) == at[<<n, "load">>] = "free" /\ at[<<n, "unload">>] = "free"

\* External: RangeLoad, RangeUnload of the manager, numbered as it sends them.
Send(r, g) ==
  /\ Free(r[1]) /\ \A n \in 1 .. r[1] - 1 : ~Free(n)
  /\ g \notin down
  /\ Goto(r, "sent") /\ to' = [to EXCEPT ![r] = g]
  /\ UNCHANGED <<owner, columns, col, down, faults, hist>>

\* What ends with a ranger: its requests, and what it asks of one that is not
\* there.
Lost(r, g) ==
  /\ at[r] \notin Ended
  /\ \/ to[r] = g
     \/ to[r] \in down /\ at[Load(r)] = "ask" /\ to[Load(r)] = g

\* A ranger ends without unloading.
Crash(g) ==
  /\ g \notin down /\ Fault
  /\ down' = down \cup {g}
  /\ map' = [map EXCEPT ![g] = 0]
  /\ busy' = [c \in Cols |-> c[1] # g /\ busy[c]]
  /\ q' = [c \in Cols |-> IF c[1] = g THEN <<>> ELSE q[c]]
  /\ rng' = [c \in Cols |-> IF c[1] = g THEN "none" ELSE rng[c]]
  /\ at' = [r \in Reqs |-> IF Lost(r, g) THEN "gone" ELSE at[r]]
  /\ col' = [r \in Reqs |-> IF to[r] = g THEN NoCol ELSE col[r]]
  /\ UNCHANGED <<owner, to, hist>>

Restart(g) ==
  /\ g \in down
  /\ down' = down \ {g}
  /\ UNCHANGED <<owner, columns, reqs, faults, hist>>

-----------------------------------------------------------------------------
(***************************************************************************)
(* RangeLoad.                                                              *)
(***************************************************************************)

Unused(c) ==
  /\ ~busy[c] /\ rng[c] = "none" /\ map[c[1]] # c[2]
  /\ \A r \in Reqs : col[r] = c => at[r] \in Ended

\* Columns::load_range: the column is made, or made anew when it has no range.
LoadRange(r) ==
  LET g == to[r] IN
  /\ r[2] = "load" /\ at[r] = "sent"
  /\ \/ /\ Mapped(g) = "none"
        /\ \E n \in 1 .. NCols :
             /\ Unused(<<g, n>>) /\ \A m \in 1 .. n - 1 : ~Unused(<<g, m>>)
             /\ map' = [map EXCEPT ![g] = n]
             /\ Add(r, <<g, n>>)
     \/ /\ Mapped(g) # "none"
        /\ Add(r, <<g, map[g]>>) /\ UNCHANGED map
  /\ UNCHANGED <<owner, rng, to, down, faults, hist>>

\* ResponseCallback::expired: the request is dropped without an answer.
Expired(r) ==
  /\ at[r] = "task" /\ Fault
  /\ Finish(r, "gone")
  /\ UNCHANGED <<owner, map, rng, to, col, down, hist>>

\* History: another load of the range is run, or waits in a Column that was
\* replaced or in the one that replaced this one.
Races(r) ==
  IF \E s \in Reqs :
       /\ s # r /\ s[2] = "load"
       /\ \/ at[s] \in Running
          \/ at[s] = "queued" /\ to[s] = to[r] /\ col[s] # col[r]
    THEN hist \cup {"raced"} ELSE hist

\* Column::internal_create of a new range, and the start of Range::load.
Create(c) ==
  /\ rng[c] = "none"
  /\ rng' = [rng EXCEPT ![c] = "LOADING"]

\* Column::load: the range is loaded, or it was already.  A range without
\* directories is a new one, whose record nobody has written: None in LastRgr.
\* internal_create fails only when the column is deleted or the ranger shuts
\* down, which are not modelled.
LoadTask(r) ==
  /\ r[2] = "load" /\ at[r] = "task"
  /\ \/ /\ Create(col[r])
        /\ Goto(r, "last") /\ hist' = Races(r)
     \/ /\ rng[col[r]] # "none"
        /\ Goto(r, "reply") /\ UNCHANGED <<rng, hist>>
  /\ UNCHANGED <<owner, map, busy, q, to, col, down, faults>>

\* Range::last_rgr_chk: the last ranger is this one, is none or is another,
\* which is asked to unload the range.
LastRgr(r) ==
  /\ at[r] = "last"
  /\ \/ owner = to[r] /\ Goto(r, "data") /\ UNCHANGED to
     \/ owner = None /\ Goto(r, "own") /\ UNCHANGED to
     \/ /\ owner \notin {None, to[r]}
        /\ at' = [at EXCEPT ![r] = "ask", ![Unload(r)] = "sent"]
        /\ to' = [to EXCEPT ![Unload(r)] = owner]
  /\ UNCHANGED <<owner, columns, col, down, faults, hist>>

\* Files::RgrData::get_rgr: a record that cannot be read counts as none.
LastUnread(r) ==
  /\ at[r] = "last" /\ Fault
  /\ Goto(r, "own")
  /\ hist' = IF owner \in {None, to[r]} THEN hist ELSE hist \cup {"seized"}
  /\ UNCHANGED <<owner, columns, to, col, down>>

\* Req::RangeUnload::unloaded: the last ranger has unloaded the range.
Asked(r) ==
  /\ at[r] = "ask" /\ at[Unload(r)] = "ok"
  /\ Goto(r, "own")
  /\ UNCHANGED <<owner, columns, to, col, down, faults, hist>>

\* RangeUnload::handle_no_conn, and handle of a request that has timed out:
\* the range is taken over, whatever the last ranger does.
TakeOver(r) ==
  /\ at[r] = "ask"
  /\ at' = [at EXCEPT ![r] = "own",
                      ![Unload(r)] = IF @ = "sent" THEN "gone" ELSE @]
  /\ hist' = IF \E c \in Cols : c[1] = to[Unload(r)] /\ rng[c] # "none"
               THEN hist \cup {"seized"} ELSE hist
  /\ UNCHANGED <<owner, columns, to, col, down>>

\* The last ranger is not there, or was not when it should have answered.
AskNoAnswer(r) ==
  /\ at[Unload(r)] = "gone" \/ to[Unload(r)] \in down
  /\ TakeOver(r) /\ UNCHANGED faults

\* It is there, and is not reached or is too slow.
AskLost(r) == Fault /\ TakeOver(r)

\* Range::internal_take_ownership
TakeOwnership(r) ==
  /\ at[r] = "own"
  /\ owner' = to[r]
  /\ Goto(r, "data")
  /\ UNCHANGED <<columns, to, col, down, faults, hist>>

\* Range::load of the files, check_meta, Range::loaded
LoadData(r) ==
  /\ at[r] = "data"
  /\ rng' = [rng EXCEPT ![col[r]] = "LOADED"]
  /\ Goto(r, "reply")
  /\ UNCHANGED <<owner, map, busy, q, to, col, down, faults, hist>>

\* Range::loaded of an error of any of these steps.
LoadFails(r) ==
  /\ at[r] \in {"last", "own", "data"} /\ Fault
  /\ rng' = [rng EXCEPT ![col[r]] = "NOTLOADED"]
  /\ Goto(r, "fail")
  /\ UNCHANGED <<owner, map, busy, q, to, col, down, hist>>

\* Variant: the answer is OK for a range in a column that was replaced.
ReplyUnchecked(r) ==
  /\ at[r] = "reply"
  /\ Finish(r, "ok")
  /\ UNCHANGED <<owner, map, rng, to, col, down, faults, hist>>

\* Callback::RangeLoad::loaded: the column that Columns has now is asked.
Reply(r) ==
  LET g == to[r] IN
  /\ at[r] = "reply"
  /\ \/ /\ Mapped(g) = "LOADED"
        /\ Finish(r, "ok")
     \/ /\ Mapped(g) # "LOADED"
        /\ Goto(r, "fail") /\ UNCHANGED <<busy, q>>
  /\ UNCHANGED <<owner, map, rng, to, col, down, faults, hist>>

\* Column::internal_unload: Range::internal_unload with remove_rgr, and
\* Column::internal_delete.
Unloads(r) ==
  /\ owner' = None
  /\ hist' = IF owner \in {None, to[r]} THEN hist ELSE hist \cup {"erased"}
  /\ rng' = [rng EXCEPT ![col[r]] = "none"]

\* The same function of an error: what is there of the range is unloaded.  The
\* caller holds the range, so its Column is not erased, but another may be.
BadLoad(r) ==
  /\ at[r] = "fail"
  /\ Unloads(r)
  /\ EraseIfEmpty(col[r], TRUE)
  /\ Finish(r, "err")
  /\ UNCHANGED <<to, col, down, faults>>

-----------------------------------------------------------------------------
(***************************************************************************)
(* RangeUnload.                                                            *)
(***************************************************************************)

\* Handler::range_unload
UnloadRange(r) ==
  LET g == to[r] IN
  /\ r[2] = "unload" /\ at[r] = "sent" /\ g \notin down
  /\ \/ map[g] = 0 /\ Goto(r, "ok") /\ UNCHANGED <<busy, q, col>>
     \/ map[g] # 0 /\ Add(r, <<g, map[g]>>)
  /\ UNCHANGED <<owner, map, rng, to, down, faults, hist>>

\* Variant: the last ranger answers before it has unloaded.
UnloadTaskEarly(r) ==
  /\ r[2] = "unload" /\ at[r] = "task"
  /\ EraseIfEmpty(col[r], FALSE)
  /\ Finish(r, "ok")
  /\ UNCHANGED <<owner, rng, to, col, down, faults, hist>>

\* Column::unload: no such range, or State::UNLOADING and the waits.
UnloadTask(r) ==
  /\ r[2] = "unload" /\ at[r] = "task"
  /\ \/ /\ rng[col[r]] = "none"
        /\ EraseIfEmpty(col[r], FALSE)
        /\ Finish(r, "ok") /\ UNCHANGED rng
     \/ /\ rng[col[r]] # "none"
        /\ rng' = [rng EXCEPT ![col[r]] = "UNLOADING"]
        /\ Goto(r, "run") /\ UNCHANGED <<map, busy, q>>
  /\ UNCHANGED <<owner, to, col, down, faults, hist>>

\* The rest of Range::internal_unload and of Column::unload.
UnloadEnd(r) ==
  /\ at[r] = "run"
  /\ Unloads(r)
  /\ EraseIfEmpty(col[r], FALSE)
  /\ Finish(r, "ok")
  /\ UNCHANGED <<to, col, down, faults>>

-----------------------------------------------------------------------------
Step(r) ==
  \/ LoadRange(r) \/ LoadTask(r) \/ LastRgr(r) \/ Asked(r) \/ AskNoAnswer(r)
  \/ TakeOwnership(r) \/ LoadData(r) \/ Reply(r) \/ BadLoad(r)
  \/ UnloadRange(r) \/ UnloadTask(r) \/ UnloadEnd(r)

Fails(r) == Expired(r) \/ LastUnread(r) \/ AskLost(r) \/ LoadFails(r)

Next ==
  \/ \E r \in Reqs : Step(r) \/ Fails(r) \/ \E g \in Rangers : Send(r, g)
  \/ \E g \in Rangers : Crash(g) \/ Restart(g)

Spec == Init /\ [][Next]_vars

\* Posted tasks run, and a ranger that has a connection gets the requests.
FairSpec == Spec /\ \A r \in Reqs : WF_vars(Step(r))

-----------------------------------------------------------------------------
(***************************************************************************)
(* Properties.                                                             *)
(***************************************************************************)

Serving == {c \in Cols : rng[c] \in {"LOADED", "UNLOADING"}}

\* One ranger serves the range, with one Range object, and the record names it,
\* which is what the next one to load the range goes by: as long as loads do
\* not overlap, the record is read, the last ranger answers when asked and no
\* record is erased by a load that failed.
OneServer ==
  hist = {} => \A c, d \in Serving : c = d /\ owner = c[1]

\* A column runs one managing request at a time, and while one waits in its
\* queue there is one that runs and will take it out.
OneAtATime ==
  /\ TypeOK
  /\ \A c \in Cols :
       /\ busy[c] <=> \E r \in Reqs : col[r] = c /\ at[r] \in Running
       /\ \A r, s \in Reqs :
            col[r] = c /\ at[r] \in Running /\ col[s] = c /\ at[s] \in Running
              => r = s
       /\ q[c] # <<>> => busy[c]

\* A range that is served is in the column its ranger's requests find, once
\* the request that loaded it is over: no column that was replaced or erased
\* keeps one that nobody can unload, unless loads overlapped.
NoOrphan ==
  \A c \in Cols :
    "raced" \notin hist /\ rng[c] = "LOADED" /\ ~busy[c] => map[c[1]] = c[2]

\* The requests that reach a ranger are all answered, dropped as expired, or
\* lost with the ranger: no Column keeps one in its queue for ever, and no two
\* rangers wait for each other.
Answered == []<>(\A r \in Reqs : at[r] \in {"free"} \cup Ended)

\* docs/README.md:116: "at any point one server is responsible for a range-id
\* on column-id and of a path root".  Here with every ranger answering and one
\* load at a time.
OneResponsible ==
  hist \cap {"raced", "seized"} = {} => \A c, d \in Serving : c = d

=============================================================================
