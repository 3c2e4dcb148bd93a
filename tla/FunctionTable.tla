---------------------------- MODULE FunctionTable ----------------------------
(***************************************************************************)
(* Guest functions, translated when they are first called:                 *)
(*   cpu/processor.cc     ResolveFunction, LookupFunction, DemandFunction  *)
(*   cpu/entry_table.cc   the table of entries                             *)
(*   cpu/module.cc        the symbols of a module                          *)
(*                                                                         *)
(* Two tables, each with states of its own: one thread makes the entry of  *)
(* an address and is to fill it, others wait for it; and one thread makes  *)
(* the symbol of an address, which a translation also does for every       *)
(* function it finds a direct branch to.  Tables are read and written      *)
(* under the global lock, statuses and entries outside of it too.          *)
(*                                                                         *)
(* Modules stay loaded: RemoveModule, with which an unloaded module takes  *)
(* its symbols along and the entries of its functions (EntryTable::Delete),*)
(* is not modelled.                                                        *)
(***************************************************************************)
EXTENDS Naturals, FiniteSets

CONSTANTS
  Threads,
  Addresses,  \* of guest functions
  Branches,   \* [Addresses -> SUBSET Addresses], the direct branches of each
  Unmapped,   \* addresses in no module
  Broken,     \* addresses whose code cannot be translated
  InOrder     \* a thread's stores are seen in order: x64, not a64

ASSUME NamesAssumption == {"none", "null"} \cap Addresses = {}
ASSUME BranchesAssumption == Branches \in [Addresses -> SUBSET Addresses]
ASSUME SubsetAssumption == Unmapped \subseteq Addresses /\ Broken \subseteq Addresses

VARIABLES
  entry,       \* Entry::status of each address, "none" where there is no entry
  stored,      \* addresses whose Entry::function is visible
  symbol,      \* Symbol::status of each address, "none" where there is no symbol
  code,        \* addresses whose function has machine code
  translated,  \* history: how often each address was translated
  thread       \* what each thread is doing, and the answer it last got

vars == <<entry, stored, symbol, code, translated, thread>>

Idle == [at |-> "idle", f |-> "none", todo |-> {}, g |-> "none", answer |-> "none"]

TypeOK ==
  /\ entry \in [Addresses -> {"none", "compiling", "ready", "failed"}]
  /\ symbol \in [Addresses -> {"none", "defining", "declared", "defined", "failed"}]
  /\ stored \subseteq Addresses /\ code \subseteq Addresses
  /\ translated \in [Addresses -> Nat]
  /\ thread \in [Threads ->
       [at : {"idle", "enter", "wait", "lookup", "declared", "demand", "defining",
              "translate", "callee", "publish", "fail", "read", "done"},
        f : Addresses \cup {"none"}, todo : SUBSET Addresses,
        g : Addresses \cup {"none"}, answer : Addresses \cup {"none", "null"}]]

Init ==
  /\ entry = [f \in Addresses |-> "none"] /\ stored = {}
  /\ symbol = [f \in Addresses |-> "none"] /\ code = {}
  /\ translated = [f \in Addresses |-> 0]
  /\ thread = [t \in Threads |-> Idle]

At(t, at) == thread[t].at = at
Goto(t, at) == thread' = [thread EXCEPT ![t].at = at]
F(t) == thread[t].f

------------------------------------------------------------------------------
(* EntryTable *)

\* A thread calls a function: ResolveFunction.
Call(t, f) ==
  /\ At(t, "idle") \/ At(t, "done")
  /\ thread' = [thread EXCEPT ![t] = [Idle EXCEPT !.at = "enter", !.f = f]]
  /\ UNCHANGED <<entry, stored, symbol, code, translated>>

\* Those who find the entry do not wait for it
GetOrCreate_NoWait(t) ==
  /\ At(t, "enter")
  /\ IF entry[F(t)] = "none"
       THEN entry' = [entry EXCEPT ![F(t)] = "compiling"] /\ Goto(t, "lookup")
       ELSE Goto(t, "read") /\ UNCHANGED entry
  /\ UNCHANGED <<stored, symbol, code, translated>>

\* GetOrCreate: the first to come makes the entry and has to fill it.
GetOrCreate(t) ==
  /\ At(t, "enter")
  /\ IF entry[F(t)] = "none"
       THEN entry' = [entry EXCEPT ![F(t)] = "compiling"] /\ Goto(t, "lookup")
       ELSE Goto(t, IF entry[F(t)] = "compiling" THEN "wait" ELSE "read")
            /\ UNCHANGED entry
  /\ UNCHANGED <<stored, symbol, code, translated>>

\* Others look again every ten microseconds.
Wait(t) ==
  /\ At(t, "wait") /\ entry[F(t)] # "compiling"
  /\ Goto(t, "read")
  /\ UNCHANGED <<entry, stored, symbol, code, translated>>

\* ResolveFunction returns entry->function, read without the lock.
Read(t) ==
  /\ At(t, "read")
  /\ thread' = [thread EXCEPT ![t].at = "done",
                  ![t].answer = IF entry[F(t)] = "ready" /\ F(t) \in stored
                                THEN F(t) ELSE "null"]
  /\ UNCHANGED <<entry, stored, symbol, code, translated>>

\* The two stores that fill an entry.
StoreFunction(t) ==
  /\ At(t, "publish") /\ F(t) \notin stored
  /\ stored' = stored \cup {F(t)}
  /\ UNCHANGED <<entry, symbol, code, translated, thread>>

StoreReady(t) ==
  /\ At(t, "publish") /\ entry[F(t)] = "compiling"
  /\ InOrder => F(t) \in stored
  /\ entry' = [entry EXCEPT ![F(t)] = "ready"]
  /\ UNCHANGED <<stored, symbol, code, translated, thread>>

Published(t) ==
  /\ At(t, "publish") /\ F(t) \in stored /\ entry[F(t)] = "ready"
  /\ Goto(t, "read")
  /\ UNCHANGED <<entry, stored, symbol, code, translated>>

\* A failure is not recorded in the entry
Fail_Forgotten(t) ==
  /\ At(t, "fail") /\ Goto(t, "read")
  /\ UNCHANGED <<entry, stored, symbol, code, translated>>

Fail(t) ==
  /\ At(t, "fail")
  /\ entry' = [entry EXCEPT ![F(t)] = "failed"]
  /\ Goto(t, "read")
  /\ UNCHANGED <<stored, symbol, code, translated>>

------------------------------------------------------------------------------
(* Module and the translation *)

\* LookupFunction, with Module::DeclareSymbol.  A new symbol is born with the
\* status kDefining; nothing ever sets kDeclaring, which others would wait for.
Lookup(t, f, new, known, unmapped) ==
  IF f \in Unmapped
    THEN Goto(t, unmapped) /\ UNCHANGED symbol
    ELSE IF symbol[f] = "none"
      THEN symbol' = [symbol EXCEPT ![f] = "defining"] /\ Goto(t, new)
      ELSE Goto(t, known) /\ UNCHANGED symbol

LookupFunction(t) ==
  /\ At(t, "lookup")
  /\ Lookup(t, F(t), "declared", "demand", "fail")
  /\ UNCHANGED <<entry, stored, code, translated>>

\* DeclareFunction has nothing to do; the status is then set.
SetDeclared(t) ==
  /\ At(t, "declared")
  /\ symbol' = [symbol EXCEPT ![F(t)] = "declared"]
  /\ Goto(t, "demand")
  /\ UNCHANGED <<entry, stored, code, translated>>

\* DemandFunction, with Module::DefineSymbol.
DefineSymbol(t) ==
  /\ At(t, "demand")
  /\ IF symbol[F(t)] = "declared"
       THEN /\ symbol' = [symbol EXCEPT ![F(t)] = "defining"]
            /\ thread' = [thread EXCEPT ![t].at = "translate",
                                        ![t].todo = Branches[F(t)]]
       ELSE /\ Goto(t, CASE symbol[F(t)] = "defining" -> "defining"
                         [] symbol[F(t)] = "failed" -> "fail"
                         [] OTHER -> "publish")
            /\ UNCHANGED symbol
  /\ UNCHANGED <<entry, stored, code, translated>>

\* Whatever the status is after the wait, unless it is kFailed, will do.
WaitDefined(t) ==
  /\ At(t, "defining") /\ symbol[F(t)] # "defining"
  /\ Goto(t, IF symbol[F(t)] = "failed" THEN "fail" ELSE "publish")
  /\ UNCHANGED <<entry, stored, symbol, code, translated>>

\* A symbol that exists is made again
LookupCallee_Redeclares(t, g) ==
  /\ At(t, "translate") /\ g \in thread[t].todo
  /\ symbol' = IF g \in Unmapped THEN symbol ELSE [symbol EXCEPT ![g] = "defining"]
  /\ thread' = [thread EXCEPT ![t].todo = @ \ {g},
                              ![t].at = IF g \in Unmapped THEN @ ELSE "callee",
                              ![t].g = IF g \in Unmapped THEN "none" ELSE g]
  /\ UNCHANGED <<entry, stored, code, translated>>

\* The translation looks up the functions it finds branches to.
LookupCallee(t, g) ==
  /\ At(t, "translate") /\ g \in thread[t].todo
  /\ LET new == g \notin Unmapped /\ symbol[g] = "none" IN
     /\ symbol' = IF new THEN [symbol EXCEPT ![g] = "defining"] ELSE symbol
     /\ thread' = [thread EXCEPT ![t].todo = @ \ {g},
                                 ![t].at = IF new THEN "callee" ELSE @,
                                 ![t].g = IF new THEN g ELSE "none"]
  /\ UNCHANGED <<entry, stored, code, translated>>

SetCalleeDeclared(t) ==
  /\ At(t, "callee")
  /\ symbol' = [symbol EXCEPT ![thread[t].g] = "declared"]
  /\ thread' = [thread EXCEPT ![t].at = "translate", ![t].g = "none"]
  /\ UNCHANGED <<entry, stored, code, translated>>

\* The code is emitted, and the status set; or the translation fails.
Translate(t) ==
  /\ At(t, "translate") /\ thread[t].todo = {}
  /\ translated' = [translated EXCEPT ![F(t)] = @ + 1]
  /\ IF F(t) \in Broken
       THEN /\ symbol' = [symbol EXCEPT ![F(t)] = "failed"]
            /\ Goto(t, "fail") /\ UNCHANGED code
       ELSE /\ symbol' = [symbol EXCEPT ![F(t)] = "defined"]
            /\ code' = code \cup {F(t)}
            /\ Goto(t, "publish")
  /\ UNCHANGED <<entry, stored>>

Step(t) ==
  \/ GetOrCreate(t) \/ Wait(t) \/ Read(t)
  \/ StoreFunction(t) \/ StoreReady(t) \/ Published(t) \/ Fail(t)
  \/ LookupFunction(t) \/ SetDeclared(t) \/ DefineSymbol(t) \/ WaitDefined(t)
  \/ (\E g \in Addresses : LookupCallee(t, g)) \/ SetCalleeDeclared(t) \/ Translate(t)

Next == \E t \in Threads : Step(t) \/ \E f \in Addresses : Call(t, f)

Spec == Init /\ [][Next]_vars

\* Every thread inside ResolveFunction is a host thread that goes on running.
FairSpec == Spec /\ \A t \in Threads : WF_vars(Step(t))
------------------------------------------------------------------------------
(* Properties *)

\* No function is translated twice, whoever calls it and whoever branches to
\* it at the same time, and the symbol of a translated function is not taken
\* for a new one again (entry_table.cc:52-89, module.cc:50-135).
TranslatedOnce ==
  \A f \in Addresses :
    translated[f] # 0 => translated[f] = 1 /\ symbol[f] \in {"defined", "failed"}

\* All who call a function get the same answer, and as long as its module is
\* not unloaded (processor.cc:182-200, outside of this model) no answer is taken
\* back; and the states are well-typed (processor.cc:256-292).
AnswersAgree ==
  /\ TypeOK
  /\ \A t, u \in Threads :
       At(t, "done") /\ At(u, "done") /\ F(t) = F(u) => thread[t].answer = thread[u].answer

\* Nobody waits for nothing.  An entry that is being filled has a thread that
\* fills it; a symbol that is being defined has a thread that declares or
\* translates it and does not wait itself, so that no two functions that branch
\* to each other wait for one another (entry_table.cc:66-76, module.cc:120-127).
Attended ==
  \A f \in Addresses :
    /\ entry[f] = "compiling" =>
         \E t \in Threads : F(t) = f /\ thread[t].at \notin {"idle", "enter", "wait", "read", "done"}
    /\ symbol[f] = "defining" =>
         \E t \in Threads : \/ F(t) = f /\ thread[t].at \in {"declared", "translate", "callee"}
                            \/ thread[t].g = f /\ At(t, "callee")

\* Every call returns: no thread waits for ever for an entry or a symbol
\* (entry_table.cc:66-76, module.cc:120-127).
ResolveReturns == \A t \in Threads : At(t, "enter") ~> At(t, "done")

\* A function whose entry is ready has been translated: "only add it to the
\* list of resolved functions if resolving succeeded" (processor.cc:273).
ReadyIsTranslated == \A f \in Addresses : entry[f] = "ready" => f \in code
==============================================================================
