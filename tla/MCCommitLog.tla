---------------------------- MODULE MCCommitLog -----------------------------
(***************************************************************************)
(* One update, two posted tasks and one thread in try_compact, beside the  *)
(* log compaction, the range compaction, the release and the unload; two   *)
(* writes at once.                                                         *)
(***************************************************************************)
EXTENDS CommitLog

CONSTANTS u1, k1, k2, t1

OneUpdate == {u1}
TwoTasks == {k1, k2}
OneTrier == {t1}

=============================================================================
