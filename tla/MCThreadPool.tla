---------------------------- MODULE MCThreadPool ----------------------------
EXTENDS ThreadPool

(* Bounds: no symmetry, which liveness and the fairness of TaskPool forbid. *)
ThreeWorkers == {"w1", "w2", "w3"}
ThreeTasks == {"x1", "x2", "x3"}
=============================================================================
