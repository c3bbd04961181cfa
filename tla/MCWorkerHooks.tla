---------------------------- MODULE MCWorkerHooks ----------------------------
(* TLC instances of WorkerHooks. *)
EXTENDS WorkerHooks, TLC

Shape(active, enroot, dump) ==
  [inspector |-> active, enabled |-> TRUE, batch |-> FALSE, enroot |-> enroot,
   dump |-> dump]

\* A step the plugin acts on, on a worker with Enroot.
EnrootJob == {Shape(TRUE, TRUE, "set")}

\* And one whose dump directory does not fit the hooks' buffer.
EnrootJobs == EnrootJob \cup {Shape(TRUE, TRUE, "long")}

\* Every shape of a step but those.
ShortJobs == {j \in JobShapes : j.dump # "long"}

\* Tasks only occur in equality tests.
TaskSymmetry == Permutations(Tasks)
=============================================================================
