--------------------------- MODULE Specialization ---------------------------
(***************************************************************************)
(* FixpointSpecializer of pydrofoil/specialize.py: functions are optimized *)
(* from a work list; a call whose argument is known better than its        *)
(* declared type is redirected to a specialized copy of the callee, small  *)
(* copies are inlined, and a copy that turns out to return a machine       *)
(* integer gets a new name and its callers are optimized again.            *)
(*                                                                         *)
(* Every function has one integer argument.  What the optimizer knows of a *)
(* value is abstracted to whether it is a machine integer ("i") or not     *)
(* ("o"), which is also the key of a specialized copy.  A value is         *)
(*   Number   a machine integer,                                           *)
(*   Unknown  an integer of any size,                                      *)
(*   Param    the argument of the function, or                             *)
(*   the id of a call, for its result.                                     *)
(* The body of a graph is the sequence of its calls, the value it returns  *)
(* and the number of its other operations.  A call has the name of the     *)
(* callee, its argument and the type of its result.                        *)
(***************************************************************************)
EXTENDS Naturals, Sequences, FiniteSets, FiniteSetsExt, Functions, SequencesExt

CONSTANTS
  Number, Unknown, Param,
  ProgramSet,    \* the programs to translate
  MaxVariants,   \* the code has 64
  MaxSweeps,     \* the code has 100
  MaxSmall       \* the code has 25

ASSUME BoundsAssumption ==
  MaxVariants \in Nat /\ MaxSweeps \in Nat \ {0} /\ MaxSmall \in Nat

(***************************************************************************)
(* A program is a record: functions, a sequence in the order in which      *)
(* their code is made, and entrypoints, a set of function names.  A        *)
(* function has a name, its result ("int" or "other"), its body, the       *)
(* number of operations that the optimizer will remove, and a kind:        *)
(* "method" for the code of one case of a union, which becomes a method of *)
(* that case, "function" for one that usefully_specializable accepts and   *)
(* "plain" for any other.                                                  *)
(***************************************************************************)
\* functions have names of their own
ASSUME ProgramsAssumption ==
  \A p \in ProgramSet :
    /\ p.functions \in Seq(ToSet(p.functions))
    /\ \A j, k \in DOMAIN p.functions :
         p.functions[j].name = p.functions[k].name => j = k

\* the two ids are not the same, and neither begins with the other
Apart(x, y) == \E i \in DOMAIN x \intersect DOMAIN y : x[i] # y[i]

\* v is the result of one of the first n calls, or of no call
Earlier(calls, v, n) ==
  v \in {Number, Unknown, Param} \/ \E j \in 1 .. n : calls[j].id = v

\* ids are sequences of numbers, and tell calls apart; calls are of functions
\* of the program, with arguments computed before
ASSUME CallsAssumption ==
  /\ Number # Param /\ {Number, Unknown, Param} \intersect Seq(Nat) = {}
  /\ \A p \in ProgramSet :
       LET names == {fn.name : fn \in ToSet(p.functions)}
       IN  /\ p.entrypoints \subseteq names
           /\ \A fn \in ToSet(p.functions) :
                /\ fn.calls \in Seq(ToSet(fn.calls))
                /\ Earlier(fn.calls, fn.ret, Len(fn.calls))
                /\ \A k \in DOMAIN fn.calls :
                     /\ DOMAIN fn.calls[k] = {"id", "name", "arg", "type"}
                     /\ fn.calls[k].id \in Seq(Nat)
                     /\ \E f \in names : fn.calls[k].name = <<f>>
                     /\ fn.calls[k].type = "o"
                     /\ Earlier(fn.calls, fn.calls[k].arg, k - 1)
                     /\ \A j \in DOMAIN fn.calls \ {k} :
                          Apart(fn.calls[j].id, fn.calls[k].id)

VARIABLES
  program,
  graphs,      \* graph -> [base, key, name, type, calls, ret, rest, removable]
  todo,        \* specialization_todo
  todo_set,    \* specialization_todo_set
  by_name,     \* all_graph_by_name
  inlinable,   \* inlinable_functions: name -> graph
  specs,       \* specialization_functions: name -> function
  cache,       \* Specializer.cache: function -> key -> [graph, type]
  dependencies,         \* Specializer.dependencies: function -> graphs
  inline_dependencies,  \* name -> graphs
  at           \* where specialize_all is

vars == <<program, graphs, todo, todo_set, by_name, inlinable, specs, cache,
          dependencies, inline_dependencies, at>>

Keys == {"i", "o"}
Narrow == "i"   \* MachineInt
Wide == "o"     \* Int, or any type that does not change

-----------------------------------------------------------------------------
(***************************************************************************)
(* Values, calls and sizes.                                                *)
(***************************************************************************)

Functions == program.functions
Named(f) == CHOOSE fn \in ToSet(Functions) : fn.name = f

\* what _extract_machineint finds out: v is a machine integer in graph g
IsMachineInt(g, v) ==
  \/ v = Number
  \/ v = Param /\ g.key = "i"
  \/ \E k \in DOMAIN g.calls : g.calls[k].id = v /\ g.calls[k].type = Narrow

\* _extract_key: the key of a call, {} when specializing is of no use
CallKey(g, call, f) ==
  IF IsMachineInt(g, call.arg) THEN {"i"}
  ELSE IF Named(f).result = "int" THEN {"o"} ELSE {}

Size(g) == g.rest + g.removable + Len(g.calls)

\* should_inline
Small(g) ==
  /\ Size(g) < MaxSmall
  /\ \A k \in DOMAIN g.calls : g.calls[k].name # g.name

\* find_result_type: the value that is returned turned out to be narrow
ReturnsMachineInt(g) ==
  Named(g.base).result = "int" /\ IsMachineInt(g, g.ret)

-----------------------------------------------------------------------------
(***************************************************************************)
(* The optimizations of ir.py that matter here: inlining and the removal   *)
(* of operations.                                                          *)
(***************************************************************************)

\* a value of an inlined body, in the graph that made the call
InCaller(v, call) ==
  IF v = Param THEN call.arg
  ELSE IF v \in {Number, Unknown} THEN v
  ELSE call.id \o v

\* g with its k-th call replaced by the body of callee
WithBody(g, k, callee) ==
  LET call == g.calls[k]
      result == InCaller(callee.ret, call)
      renamed(v) == IF v = call.id THEN result ELSE v
      outer == [j \in DOMAIN g.calls |->
                  [g.calls[j] EXCEPT !.arg = renamed(g.calls[j].arg)]]
      inner == [j \in DOMAIN callee.calls |->
                  [callee.calls[j] EXCEPT !.id = call.id \o @,
                                          !.arg = InCaller(@, call)]]
  IN  [g EXCEPT !.calls = SubSeq(outer, 1, k - 1) \o inner
                            \o SubSeq(outer, k + 1, Len(outer)),
                !.ret = renamed(@),
                !.rest = @ + callee.rest,
                !.removable = @ + callee.removable]

\* inline notes who calls what it does not inline
NoteCalls(noted, id, g) ==
  LET names == {g.calls[k].name : k \in DOMAIN g.calls}
  IN  [name \in DOMAIN noted \union names |->
         (IF name \in DOMAIN noted THEN noted[name] ELSE {})
           \union (IF name \in names THEN {id} ELSE {})]

-----------------------------------------------------------------------------
(***************************************************************************)
(* The state after the code of all functions has been made.                *)
(***************************************************************************)

Id(f) == <<f>>

BaseGraph(fn) ==
  [base |-> fn.name, key |-> "o", name |-> Id(fn.name), type |-> Wide,
   calls |-> fn.calls, ret |-> fn.ret, rest |-> fn.rest,
   removable |-> fn.removable]

Idle == [phase |-> "idle"]

\* the dictionary f after f[x] = v
Put(f, x, v) == [y \in DOMAIN f \union {x} |-> IF y = x THEN v ELSE f[y]]

Init ==
  /\ program \in ProgramSet
  /\ LET names == {fn.name : fn \in ToSet(Functions)}
         small == {f \in names : Named(f).kind # "method" /\ Small(BaseGraph(Named(f)))}
         specialized == {f \in names \ small : Named(f).kind = "function"}
         byId(S) == [id \in {Id(f) : f \in S} |-> id]
     IN  /\ graphs = [id \in {Id(f) : f \in names} |-> BaseGraph(Named(id[1]))]
         /\ todo = [k \in DOMAIN Functions |-> Id(Functions[k].name)]
         /\ todo_set = {Id(f) : f \in names}
         /\ by_name = byId(names)
         /\ inlinable = byId(small)
         /\ specs = [id \in {Id(f) : f \in specialized} |-> id[1]]
         /\ cache = [f \in specialized |-> <<>>]
         /\ dependencies = [f \in specialized |-> {}]
  /\ inline_dependencies = <<>>
  /\ at = Idle

-----------------------------------------------------------------------------
(***************************************************************************)
(* specialize_all.                                                         *)
(***************************************************************************)

Current == at.graph
CurrentGraph == graphs[Current]
Call == CurrentGraph.calls[at.index]
CallSpec == specs[Call.name]

\* mutant of Pop: the graph stays on the work list
PopKeeps ==
  /\ at.phase = "idle"
  /\ todo # <<>>
  /\ at' = [phase |-> "optimize", graph |-> Head(todo), changed |-> FALSE,
            index |-> 1, redirected |-> FALSE, sweeps |-> 0]
  /\ UNCHANGED <<program, graphs, todo, todo_set, by_name, inlinable, specs, cache,
                 dependencies, inline_dependencies>>

\* the next graph of the work list
Pop ==
  /\ at.phase = "idle"
  /\ todo # <<>>
  /\ todo' = Tail(todo)
  /\ todo_set' = todo_set \ {Head(todo)}
  /\ at' = [phase |-> "optimize", graph |-> Head(todo), changed |-> FALSE,
            index |-> 1, redirected |-> FALSE, sweeps |-> 0]
  /\ UNCHANGED <<program, graphs, by_name, inlinable, specs, cache, dependencies,
                 inline_dependencies>>

(***************************************************************************)
(* _optimize, of the graph of the work list or of a new variant.           *)
(***************************************************************************)

Optimizing == at.phase \in {"optimize", "reoptimize", "stub"}
Optimized == IF at.phase = "stub" THEN at.stub ELSE Current

InlinableCalls ==
  {k \in DOMAIN graphs[Optimized].calls :
     graphs[Optimized].calls[k].name \in DOMAIN inlinable}

\* inline, the first call that can be inlined; for the graph of the work list this
\* is a change that optimize returns
InlineCall ==
  /\ Optimizing
  /\ InlinableCalls # {}
  /\ LET k == Min(InlinableCalls)
         callee == inlinable[graphs[Optimized].calls[k].name]
     IN  graphs' = [graphs EXCEPT ![Optimized] = WithBody(@, k, graphs[callee])]
  /\ at' = [at EXCEPT !.changed = @ \/ at.phase # "stub"]
  /\ UNCHANGED <<program, todo, todo_set, by_name, inlinable, specs, cache,
                 dependencies, inline_dependencies>>

\* what optimize returns so far: that a call was redirected does not count, only
\* what _bare_optimize finds to do after it, if anything
Reports(found) == at.changed \/ CurrentGraph.removable # 0 \/ found
MayFind(found) == found => at.phase = "reoptimize" /\ at.redirected

\* mutant of EndOptimize: a single sweep
EndOptimizeOnce ==
  /\ at.phase \in {"optimize", "reoptimize"}
  /\ InlinableCalls = {}
  /\ graphs' = [graphs EXCEPT ![Current].removable = 0]
  /\ inline_dependencies' = NoteCalls(inline_dependencies, Current, CurrentGraph)
  /\ \E found \in BOOLEAN :
       /\ MayFind(found)
       /\ at' = IF at.phase = "optimize" /\ CurrentGraph.name \notin DOMAIN inlinable
                THEN [at EXCEPT !.phase = "specialize", !.index = 1,
                                !.redirected = FALSE, !.changed = Reports(found)]
                ELSE [at EXCEPT !.phase = "finish", !.changed = Reports(found)]
  /\ UNCHANGED <<program, todo, todo_set, by_name, inlinable, specs, cache,
                 dependencies>>

\* everything is inlined and simplified; a graph that is inlined everywhere is
\* not specialized, another one is until a sweep changes nothing
EndOptimize ==
  /\ at.phase \in {"optimize", "reoptimize"}
  /\ InlinableCalls = {}
  /\ graphs' = [graphs EXCEPT ![Current].removable = 0]
  /\ inline_dependencies' = NoteCalls(inline_dependencies, Current, CurrentGraph)
  /\ \E found \in BOOLEAN :
       /\ MayFind(found)
       /\ at' = IF \/ at.redirected /\ at.sweeps < MaxSweeps
                   \/ at.phase = "optimize" /\ CurrentGraph.name \notin DOMAIN inlinable
                THEN [at EXCEPT !.phase = "specialize", !.index = 1,
                                !.redirected = FALSE, !.changed = Reports(found)]
                ELSE [at EXCEPT !.phase = "finish", !.changed = Reports(found)]
  /\ UNCHANGED <<program, todo, todo_set, by_name, inlinable, specs, cache,
                 dependencies>>

(***************************************************************************)
(* SpecializingOptimizer, one sweep over the calls of the graph.           *)
(***************************************************************************)

AtCall == at.phase = "specialize" /\ at.index \in DOMAIN CurrentGraph.calls

\* the call is to a function that is specialized, for which this is of use
Specializes ==
  /\ AtCall
  /\ Call.name \in DOMAIN specs
  /\ Current # Id(CallSpec)
  /\ CallKey(CurrentGraph, Call, CallSpec) # {}

Key == CHOOSE key \in CallKey(CurrentGraph, Call, CallSpec) : TRUE
HasVariant == Key \in DOMAIN cache[CallSpec]
TooManyVariants == Cardinality(DOMAIN cache[CallSpec]) > MaxVariants

\* _reconstruct_result: the call goes to the variant, unless it would return
\* less than before; then it remains.  (The code leaves an unused call of the
\* variant before it.)
Redirected ==
  LET variant == cache[CallSpec][Key]
  IN  IF Call.type = Narrow /\ variant.type = Wide THEN Call
      ELSE [Call EXCEPT !.name = graphs[variant.graph].name, !.type = variant.type]

\* specialize_call returns None at once
LeaveCall ==
  /\ AtCall
  /\ Specializes => ~ HasVariant /\ TooManyVariants
  /\ at' = [at EXCEPT !.index = @ + 1]
  /\ UNCHANGED <<program, graphs, todo, todo_set, by_name, inlinable, specs,
                 cache, dependencies, inline_dependencies>>

\* mutant of UseVariant: the call keeps its type
UseVariantKeepsType ==
  /\ Specializes
  /\ HasVariant
  /\ graphs' = [graphs EXCEPT ![Current].calls[at.index].name = Redirected.name]
  /\ at' = [at EXCEPT !.index = @ + 1, !.redirected = @ \/ Redirected # Call]
  /\ dependencies' = [dependencies EXCEPT ![CallSpec] = @ \union {Current}]
  /\ UNCHANGED <<program, todo, todo_set, by_name, inlinable, specs, cache,
                 inline_dependencies>>

\* mutant of UseVariant: the caller is not noted
UseVariantForgets ==
  /\ Specializes
  /\ HasVariant
  /\ graphs' = [graphs EXCEPT ![Current].calls[at.index] = Redirected]
  /\ at' = [at EXCEPT !.index = @ + 1, !.redirected = @ \/ Redirected # Call]
  /\ dependencies' = [dependencies EXCEPT ![CallSpec] = @]
  /\ UNCHANGED <<program, todo, todo_set, by_name, inlinable, specs, cache,
                 inline_dependencies>>

\* specialize_call with a key that is in the cache
UseVariant ==
  /\ Specializes
  /\ HasVariant
  /\ graphs' = [graphs EXCEPT ![Current].calls[at.index] = Redirected]
  /\ at' = [at EXCEPT !.index = @ + 1, !.redirected = @ \/ Redirected # Call]
  /\ dependencies' = [dependencies EXCEPT ![CallSpec] = @ \union {Current}]
  /\ UNCHANGED <<program, todo, todo_set, by_name, inlinable, specs, cache,
                 inline_dependencies>>

\* _make_stub with a new key: a copy of the function as it is now
MakeStub ==
  /\ Specializes
  /\ ~ HasVariant
  /\ ~ TooManyVariants
  /\ LET stub == <<CallSpec, Key>>
     IN  /\ graphs' = Put(graphs, stub,
                          [graphs[Id(CallSpec)] EXCEPT !.key = Key, !.name = stub])
         /\ at' = Put([at EXCEPT !.phase = "stub"], "stub", stub)
  /\ UNCHANGED <<program, todo, todo_set, by_name, inlinable, specs, cache,
                 dependencies, inline_dependencies>>

\* the copy is simplified: the rest of _make_stub, after which the call finds
\* the variant in the cache
FinishStub ==
  /\ at.phase = "stub"
  /\ InlinableCalls = {}
  /\ LET copy == [graphs[at.stub] EXCEPT !.removable = 0]
         stub == IF ReturnsMachineInt(copy)
                 THEN [copy EXCEPT !.name = Append(@, Narrow), !.type = Narrow]
                 ELSE copy
         entry == [graph |-> at.stub, type |-> stub.type]
     IN  /\ graphs' = [graphs EXCEPT ![at.stub] = stub]
         /\ cache' = [cache EXCEPT ![stub.base] = Put(@, stub.key, entry)]
         /\ inlinable' = IF Small(stub) THEN Put(inlinable, stub.name, at.stub)
                         ELSE inlinable
         /\ by_name' = Put(by_name, stub.name, at.stub)
         /\ specs' = Put(specs, stub.name, stub.base)
         /\ inline_dependencies' = NoteCalls(inline_dependencies, at.stub, stub)
         /\ todo' = Append(todo, at.stub)
         /\ todo_set' = todo_set \union {at.stub}
  /\ at' = [at EXCEPT !.phase = "specialize"]
  /\ UNCHANGED <<program, dependencies>>

\* the end of a sweep: _bare_optimize and another sweep if anything changed,
\* the last _optimize if not
EndSweep ==
  /\ at.phase = "specialize"
  /\ ~ AtCall
  /\ at' = [at EXCEPT !.phase = "reoptimize", !.sweeps = @ + 1]
  /\ UNCHANGED <<program, graphs, todo, todo_set, by_name, inlinable, specs,
                 cache, dependencies, inline_dependencies>>

-----------------------------------------------------------------------------
(***************************************************************************)
(* What follows optimize in specialize_all.                                *)
(***************************************************************************)

\* what optimize has returned
Changed == at.changed
IsSpecialized == CurrentGraph.name \in DOMAIN specs
IsBase == IsSpecialized /\ Current = Id(CurrentGraph.base)
IsVariant == IsSpecialized /\ ~ IsBase

\* mutant of Schedule: also those that are on the list
ScheduleAgain(S) ==
  /\ \E order \in SetToSeqs(S) : todo' = todo \o order
  /\ todo_set' = todo_set \union S

\* the graphs are optimized again, in the order in which the set has them
Schedule(S) ==
  /\ \E order \in SetToSeqs(S \ todo_set) : todo' = todo \o order
  /\ todo_set' = todo_set \union S

\* the graph has become small enough to be inlined
BecomesInlinable ==
  /\ Small(CurrentGraph)
  /\ IsVariant \/ (~ IsSpecialized /\ CurrentGraph.name \notin DOMAIN inlinable)

\* check_return_type_change
ReturnTypeChanges ==
  /\ IsVariant
  /\ ~ BecomesInlinable
  /\ CurrentGraph.type = Wide
  /\ ReturnsMachineInt(CurrentGraph)

FinishInlinable ==
  /\ at.phase = "finish"
  /\ Changed
  /\ BecomesInlinable
  /\ inlinable' = Put(inlinable, CurrentGraph.name, Current)
  /\ Schedule(IF IsVariant THEN dependencies[CurrentGraph.base]
              ELSE IF CurrentGraph.name \in DOMAIN inline_dependencies
              THEN inline_dependencies[CurrentGraph.name] ELSE {})
  /\ at' = Idle
  /\ UNCHANGED <<program, graphs, by_name, specs, cache, dependencies,
                 inline_dependencies>>

\* mutant of FinishRenamed: the cache keeps the old type
FinishRenamedOldType ==
  /\ at.phase = "finish"
  /\ Changed
  /\ ReturnTypeChanges
  /\ LET old == CurrentGraph.name
         new == Append(old, Narrow)
         f == CurrentGraph.base
     IN  /\ graphs' = [graphs EXCEPT ![Current].name = new, ![Current].type = Narrow]
         /\ by_name' = Put(Restrict(by_name, DOMAIN by_name \ {old}), new, Current)
         /\ specs' = Put(specs, new, specs[old])
         /\ UNCHANGED cache
         /\ Schedule(dependencies[f])
  /\ at' = Idle
  /\ UNCHANGED <<program, inlinable, dependencies, inline_dependencies>>

FinishRenamed ==
  /\ at.phase = "finish"
  /\ Changed
  /\ ReturnTypeChanges
  /\ LET old == CurrentGraph.name
         new == Append(old, Narrow)
         f == CurrentGraph.base
     IN  /\ graphs' = [graphs EXCEPT ![Current].name = new, ![Current].type = Narrow]
         /\ by_name' = Put(Restrict(by_name, DOMAIN by_name \ {old}), new, Current)
         /\ specs' = Put(specs, new, specs[old])
         /\ cache' = [cache EXCEPT ![f][CurrentGraph.key].type = Narrow]
         /\ Schedule(dependencies[f])
  /\ at' = Idle
  /\ UNCHANGED <<program, inlinable, dependencies, inline_dependencies>>

\* nothing that a caller has to know
Finish ==
  /\ at.phase = "finish"
  /\ ~ (Changed /\ (BecomesInlinable \/ ReturnTypeChanges))
  /\ at' = Idle
  /\ UNCHANGED <<program, graphs, todo, todo_set, by_name, inlinable, specs,
                 cache, dependencies, inline_dependencies>>

Next ==
  \/ Pop \/ InlineCall \/ EndOptimize
  \/ LeaveCall \/ UseVariant \/ MakeStub \/ FinishStub \/ EndSweep
  \/ FinishInlinable \/ FinishRenamed \/ Finish

\* the translator is a sequential program: it takes its next step
Spec == Init /\ [][Next]_vars /\ WF_vars(Next)

Done == at.phase = "idle" /\ todo = <<>>

-----------------------------------------------------------------------------
(***************************************************************************)
(* Properties.                                                             *)
(***************************************************************************)

\* The work list and the set of what is on it agree, and no graph is on it
\* twice: otherwise specialization_todo_set.remove (line 412) would raise, or a
\* graph would be dropped from the work list for good.
QueueConsistent ==
  /\ ToSet(todo) = todo_set
  /\ IsInjective(todo)

\* The assertions of graph_changed_name and check_return_type_change: graphs
\* are found under their names, and the cache has the type that a variant
\* returns.
NamesConsistent ==
  /\ \A id \in DOMAIN graphs :
       \/ at.phase = "stub" /\ id = at.stub
       \/ graphs[id].name \in DOMAIN by_name /\ by_name[graphs[id].name] = id
  /\ \A f \in DOMAIN cache : \A key \in DOMAIN cache[f] :
       cache[f][key].type = graphs[cache[f][key].graph].type

\* A call that will be inlined expects the type that the inlined body returns.
\* Only if the body got its new name after it had become inlinable, a call of the
\* old name expects any integer where the body returns a machine integer: no call
\* expects more than it will find.
InlinedTypesAgree ==
  \A id \in DOMAIN graphs : \A call \in ToSet(graphs[id].calls) :
    call.name \in DOMAIN inlinable =>
      LET callee == graphs[inlinable[call.name]]
      IN  \/ call.type = callee.type
          \/ /\ callee.name = Append(call.name, Narrow)
             /\ call.type = Wide /\ callee.type = Narrow

\* the graphs that are inlined everywhere, or were under an earlier name: they
\* are not specialized, and nobody has to call them
Inlined == Range(inlinable)

\* specialize_call leaves what a function calls of its own variants as it is
IsOwnVariant(id, call) == id = Id(call.name[1]) /\ Len(call.name) > 1

\* In the end every call is to a graph that is found under that name and
\* returns what the call expects: no caller was missed when a variant changed
\* its name, however often it had been optimized before.
CallsResolved ==
  Done => \A id \in DOMAIN graphs \ Inlined : \A call \in ToSet(graphs[id].calls) :
    \/ IsOwnVariant(id, call)
    \/ /\ call.name \in DOMAIN by_name
       /\ call.type = graphs[by_name[call.name]].type

\* In the end nothing is left to do for any call: its function is not to be
\* inlined, and it is to the variant for what is known of its argument, unless
\* that one returns less than what is called now.  (A variant may return less
\* than it could: the change that made it return a machine integer need not be
\* one that optimize returns.)
FixpointReached ==
  Done => \A id \in DOMAIN graphs \ Inlined : \A call \in ToSet(graphs[id].calls) :
    \/ IsOwnVariant(id, call)
    \/ /\ call.name \notin DOMAIN inlinable
       /\ call.name \in DOMAIN specs /\ id # Id(specs[call.name]) =>
            LET variants == cache[specs[call.name]]
            IN  \A key \in CallKey(graphs[id], call, specs[call.name]) :
                  /\ key \in DOMAIN variants
                  /\ \/ call.name = graphs[variants[key].graph].name
                     \/ call.type = Narrow /\ variants[key].type = Wide

\* The work list is empty some day, although callers are put back on it.
Terminates == <>Done
=============================================================================
