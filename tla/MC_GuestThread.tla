---------------------------- MODULE MC_GuestThread ----------------------------
(* Titles in which one thread suspends and resumes another, a thread       *)
(* suspends itself and two others resume it, a second thread resumes what  *)
(* the first suspends, and a thread suspends itself by KeSuspendThread.    *)
EXTENDS GuestThread

CONSTANTS c1, c2

Pair(suspender, resumer, deep) ==
  [suspend |-> {suspender}, resume |-> {resumer}, depth |-> deep, ke |-> TRUE]
Itself == [suspend |-> {Self}, resume |-> {c1, c2}, depth |-> 2, ke |-> FALSE]

Orderly == {Pair(c1, c1, 1), Itself, Pair(c1, c2, 1), Pair(Self, c1, 1)}
Nesting == {Pair(c1, c1, 2)}
Crossing == {Pair(c1, c2, 1)}
==============================================================================
