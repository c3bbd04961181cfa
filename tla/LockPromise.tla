----------------------------- MODULE LockPromise -----------------------------
(***************************************************************************)
(* What snccliprecon_with_lock keeps of its promise to run a callback      *)
(* "while holding an exclusive file lock": a call runs its callback at     *)
(* most once, and beside another one only when earlier calls have taken    *)
(* the lock file's name away, one callback per such call.                  *)
(* Files, descriptors and waiting are below this level.                    *)
(***************************************************************************)
EXTENDS Naturals, FiniteSets

CONSTANT Calls

VARIABLE phase   \* phase[c]: how far the call c is, as its caller sees it

Phases == {"before", "inside", "after", "released", "ended"}

TypeOK == phase \in [Calls -> Phases]

Inside == {c \in Calls : phase[c] = "inside"}
Released == {c \in Calls : phase[c] = "released"}

Init == phase = [c \in Calls |-> "before"]

Move(c, from, to) == phase[c] = from /\ phase' = [phase EXCEPT ![c] = to]

Enter(c) == Move(c, "before", "inside") /\ Cardinality(Inside) <= Cardinality(Released)
Leave(c) == Move(c, "inside", "after")
Release(c) == Move(c, "after", "released")

\* The name stays: an error, the death of the caller, or a failed unlink.
End(c) ==
  /\ phase[c] \notin {"released", "ended"}
  /\ phase' = [phase EXCEPT ![c] = "ended"]

\* The machine goes down.
Restart == phase' = [c \in Calls |-> "before"]

Next == Restart \/ \E c \in Calls : Enter(c) \/ Leave(c) \/ Release(c) \/ End(c)

Spec == Init /\ [][Next]_phase
=============================================================================
