--------------------------- MODULE MC_FunctionTable ---------------------------
(***************************************************************************)
(* f branches to g, to itself, to a broken function and out of the module; *)
(* g branches back to f.                                                   *)
(***************************************************************************)
EXTENDS FunctionTable, TLC

CONSTANTS f, g, broken, unmapped

MCBranches == (f :> {f, g, broken, unmapped}) @@ (g :> {f})
                @@ (broken :> {}) @@ (unmapped :> {})
===============================================================================
