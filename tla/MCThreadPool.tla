---------------------------- MODULE MCThreadPool ----------------------------
(***************************************************************************)
(* Instances of ThreadPool.                                                *)
(***************************************************************************)
EXTENDS ThreadPool

\* config_threadpool calls that use one worker or all of them, or (the last two) a
\* single core, where TVMBackendParallelLaunch runs the task inline.
OneOrAll ==
  [mode : {"big"}, nthreads : {1, num_workers_ + 1}, cpus : {0}]
    \union [mode : {"specify", "default"}, nthreads : {0}, cpus : {1}]

\* Little cores, on a machine whose cores are all alike.
LittleCores == {[mode |-> "little", nthreads |-> 0, cpus |-> 0]}
=============================================================================
