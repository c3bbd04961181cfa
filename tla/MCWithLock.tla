----------------------------- MODULE MCWithLock -----------------------------
(* TLC instances of WithLock, given by the .cfg files. *)
EXTENDS WithLock
=============================================================================
