---------------------------- MODULE MC_TimerQueue -----------------------------
(* A one-shot and a recurring timer. *)
EXTENDS TimerQueue

CONSTANTS once, periodic, kick

MCItem == {once, periodic, kick}
MCInterval == [i \in MCItem |-> IF i = periodic THEN 1 ELSE 0]
==============================================================================
