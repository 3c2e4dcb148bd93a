------------------------------ MODULE MC_HostWait -----------------------------
(* An auto-reset event, a semaphore and a mutant, waited for alone, in a   *)
(* WaitAll and in a WaitAny that lists them in another order.              *)
EXTENDS HostWait

CONSTANTS event, semaphore, mutant

MCObject == {event, semaphore, mutant}
MCKind == [o \in MCObject |-> CASE o = event -> "auto"
                                [] o = semaphore -> "semaphore"
                                [] o = mutant -> "mutant"]
MCInitial == [o \in MCObject |-> 0]
MCLimit == [o \in MCObject |-> IF o = semaphore THEN 2 ELSE 0]

One(o, finite) == [objects |-> <<o>>, all |-> FALSE, finite |-> finite]
Every(s) == [objects |-> s, all |-> TRUE, finite |-> FALSE]
Either(s) == [objects |-> s, all |-> FALSE, finite |-> TRUE]

MCRequests == {One(event, TRUE), One(semaphore, FALSE), One(mutant, FALSE),
               Every(<<mutant, semaphore, event>>), Either(<<semaphore, mutant>>)}
==============================================================================
