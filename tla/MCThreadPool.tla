---------------------------- MODULE MCThreadPool ----------------------------
(* Instances of ThreadPool for TLC. *)
EXTENDS ThreadPool

CONSTANTS p1, w1, k1, k2

\* An outside thread, and the tasks of the worker, may post.
PosterAndTask == {p1, w1}
OneWorker   == {w1}
TwoStoppers == {k1, k2}
BlockOnly   == {"Block"}
=============================================================================
