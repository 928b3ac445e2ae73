----------------------------- MODULE RangeData ------------------------------
(***************************************************************************)
(* What a Range promises to those who write to it and scan it: it is a set *)
(* of cells, some of them removals.  A scan shows the cells that no        *)
(* removal takes away.  What is written shows at once; it is committed     *)
(* some time later; killing the process keeps what is committed and no     *)
(* more.  Neither compactions nor the layout on the file system show.      *)
(*                                                                         *)
(* There is one exception: a kill may undo removals.  From then on cells   *)
(* that a committed removal took away may show again; no committed cell    *)
(* is lost by it, and no other comes to light.                             *)
(***************************************************************************)
CONSTANTS
  Cells,    \* what clients write
  Kills     \* the pairs <<removal, removed cell>>

VARIABLES
  data,    \* what was written and not lost
  safe,    \* what is committed
  shown,   \* what a scan returns
  undone   \* a kill has undone removals

Plain == {c \in Cells : \A k \in Kills : k[1] # c}

\* The cells that the removals of S take away.
Taken(S) == {c \in Plain : \E d \in S : <<d, c>> \in Kills}

\* What a scan returns after the step.
Shows ==
  LET exact == (data' \cap Plain) \ Taken(data')
  IN  /\ exact \subseteq shown' /\ shown' \subseteq exact \cup Taken(safe')
      /\ ~undone' => shown' = exact

Init == data = {} /\ safe = {} /\ shown = {} /\ undone = FALSE

\* A cell comes after what it removes.
Write(c) ==
  /\ c \notin data /\ c \notin Taken(data)
  /\ data' = data \cup {c}
  /\ Shows /\ UNCHANGED <<safe, undone>>

Commit(S) ==
  /\ S \subseteq data
  /\ safe' = safe \cup S
  /\ Shows /\ UNCHANGED <<data, undone>>

Crash ==
  /\ data' = safe
  /\ undone' \in {undone, Kills # {}}
  /\ Shows /\ UNCHANGED safe

\* Removals that were undone do no more than this.
Lapse ==
  /\ undone
  /\ Shows /\ UNCHANGED <<data, safe, undone>>

Next ==
  \/ \E c \in Cells : Write(c)
  \/ \E S \in SUBSET Cells : Commit(S)
  \/ Crash
  \/ Lapse

Spec == Init /\ [][Next]_<<data, safe, shown, undone>>

=============================================================================
