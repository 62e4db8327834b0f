----------------------- MODULE SpecializationProofs -----------------------
(***************************************************************************)
(* Proofs about Specialization, for every set of programs and every bound. *)
(***************************************************************************)
EXTENDS Specialization, FiniteSetTheorems, WellFoundedInduction, TLAPS

-----------------------------------------------------------------------------
\* A set of natural numbers that is not empty has a least element.
LEMMA LeastNatural ==
  ASSUME NEW S, S \subseteq Nat, S # {}
  PROVE  \E m \in S : \A n \in S : m <= n
<1> DEFINE less == {p \in Nat \X Nat : p[1] < p[2]}
<1>1. IsWellFoundedOn(less, Nat)
  BY NatLessThanWellFounded DEF OpToRel
<1>2. PICK m \in S : \A n \in S : <<n, m>> \notin less
  <2> HIDE DEF less
  <2> QED  BY <1>1, WFMin
<1>3. \A n \in S : m <= n
  <2> SUFFICES ASSUME NEW n \in S PROVE m <= n
    OBVIOUS
  <2>1. <<n, m>> \notin less /\ m \in Nat /\ n \in Nat
    BY <1>2
  <2> QED  BY <2>1
<1> QED  BY <1>3

-----------------------------------------------------------------------------
(***************************************************************************)
(* What the work list relies on.  A stub gets on the list when it is       *)
(* finished, and it is not there before: it was not made before, because   *)
(* the cache has every variant that is finished.                           *)
(***************************************************************************)

\* the graphs that are not being made
Settled == DOMAIN graphs \ (IF at.phase = "stub" THEN {at.stub} ELSE {})

Names == Seq({fn.name : fn \in ToSet(Functions)} \union Keys)

GraphFields == {"base", "key", "name", "type", "calls", "ret", "rest", "removable"}

\* graphs know the function they are a variant of, and so do their names
GraphsInv ==
  \A id \in DOMAIN graphs :
    /\ DOMAIN graphs[id] = GraphFields
    /\ graphs[id].name \in Names /\ graphs[id].name # <<>>
    /\ graphs[id].name[1] = graphs[id].base
    /\ \A f : id = Id(f) => graphs[id].base = f

\* the functions that are specialized, and the names of their variants
SpecsInv ==
  /\ DOMAIN dependencies = DOMAIN cache
  /\ \A f \in DOMAIN cache : Id(f) \in Settled
  /\ \A name \in DOMAIN specs : specs[name] \in DOMAIN cache /\ specs[name] = name[1]

\* the cache has every variant that is finished
CacheInv ==
  \A f, key : <<f, key>> \in Settled => f \in DOMAIN cache /\ key \in DOMAIN cache[f]

\* where specialize_all is
AtInv ==
  \/ at = Idle
  \/ /\ {"phase", "graph", "changed", "index", "redirected", "sweeps"} \subseteq DOMAIN at
     /\ at.phase \in {"optimize", "reoptimize", "specialize", "stub", "finish"}
     /\ at.graph \in Settled
     /\ at.phase = "stub" =>
          /\ "stub" \in DOMAIN at /\ at.stub \in DOMAIN graphs
          /\ at.stub = <<graphs[at.stub].base, graphs[at.stub].key>>
          /\ graphs[at.stub].base \in DOMAIN cache

\* the callers that will be put on the list
CallersInv ==
  /\ \A f \in DOMAIN dependencies :
       dependencies[f] \subseteq Settled /\ IsFiniteSet(dependencies[f])
  /\ \A name \in DOMAIN inline_dependencies :
       /\ inline_dependencies[name] \subseteq Settled
       /\ IsFiniteSet(inline_dependencies[name])

ListInv ==
  /\ todo \in Seq(Settled)
  /\ ToSet(todo) = todo_set
  /\ IsInjective(todo)

QueueInv ==
  /\ GraphsInv /\ SpecsInv /\ CacheInv /\ AtInv /\ CallersInv /\ ListInv

(***************************************************************************)
(* Sequences without duplicates.                                           *)
(***************************************************************************)

LEMMA Orders ==
  ASSUME NEW S, IsFiniteSet(S), NEW order \in SetToSeqs(S)
  PROVE  order \in Seq(S) /\ ToSet(order) = S /\ IsInjective(order)
<1> DEFINE n == Cardinality(S)
<1>1. n \in Nat  BY FS_CardinalityType
<1>2. order \in [1 .. n -> S] /\ \A i, j \in 1 .. n : i # j => order[i] # order[j]
  BY DEF SetToSeqs
<1>3. order \in Injection(1 .. n, S)
  BY <1>2 DEF Injection, IsInjective
<1>4. Cardinality(1 .. n) = n
  BY <1>1, FS_Interval
<1>5. order \in Surjection(1 .. n, S)
  BY <1>3, <1>4, FS_Injection
<1>6. ToSet(order) = S
  BY <1>2, <1>5 DEF Surjection, ToSet
<1> QED  BY <1>1, <1>2, <1>6 DEF IsInjective

LEMMA Concatenation ==
  ASSUME NEW K, NEW s \in Seq(K), NEW t \in Seq(K),
         IsInjective(s), IsInjective(t), ToSet(s) \cap ToSet(t) = {}
  PROVE  /\ s \o t \in Seq(K)
         /\ ToSet(s \o t) = ToSet(s) \union ToSet(t)
         /\ IsInjective(s \o t)
<1>1. /\ s \o t \in Seq(K)
      /\ DOMAIN s = 1 .. Len(s) /\ DOMAIN t = 1 .. Len(t)
      /\ DOMAIN (s \o t) = 1 .. Len(s) + Len(t)
      /\ Len(s) \in Nat /\ Len(t) \in Nat
      /\ \A i \in 1 .. Len(s) : (s \o t)[i] = s[i]
      /\ \A i \in Len(s) + 1 .. Len(s) + Len(t) : (s \o t)[i] = t[i - Len(s)]
  OBVIOUS
<1>2. \A i \in 1 .. Len(t) : (s \o t)[i + Len(s)] = t[i]
  BY <1>1
<1>3. ToSet(s \o t) \subseteq ToSet(s) \union ToSet(t)
  <2> SUFFICES ASSUME NEW i \in 1 .. Len(s) + Len(t)
               PROVE  (s \o t)[i] \in ToSet(s) \union ToSet(t)
    BY <1>1 DEF ToSet
  <2>1. CASE i <= Len(s)  BY <1>1, <2>1 DEF ToSet
  <2>2. CASE i > Len(s)
    <3>1. i - Len(s) \in 1 .. Len(t) /\ (s \o t)[i] = t[i - Len(s)]
      BY <1>1, <2>2
    <3> QED  BY <1>1, <3>1 DEF ToSet
  <2> QED  BY <1>1, <2>1, <2>2
<1>4. ToSet(s) \subseteq ToSet(s \o t)
  <2> SUFFICES ASSUME NEW i \in 1 .. Len(s) PROVE s[i] \in ToSet(s \o t)
    BY <1>1 DEF ToSet
  <2>1. i \in DOMAIN (s \o t) /\ (s \o t)[i] = s[i]  BY <1>1
  <2> QED  BY <2>1 DEF ToSet
<1>5. ToSet(t) \subseteq ToSet(s \o t)
  <2> SUFFICES ASSUME NEW i \in 1 .. Len(t) PROVE t[i] \in ToSet(s \o t)
    BY <1>1 DEF ToSet
  <2>1. i + Len(s) \in DOMAIN (s \o t) /\ (s \o t)[i + Len(s)] = t[i]  BY <1>1, <1>2
  <2> QED  BY <2>1 DEF ToSet
<1>6. IsInjective(s \o t)
  <2> SUFFICES ASSUME NEW i \in 1 .. Len(s) + Len(t), NEW j \in 1 .. Len(s) + Len(t),
                      (s \o t)[i] = (s \o t)[j]
               PROVE  i = j
    BY <1>1 DEF IsInjective
  <2>1. CASE i <= Len(s) /\ j <= Len(s)
    BY <1>1, <2>1 DEF IsInjective
  <2>2. CASE i > Len(s) /\ j > Len(s)
    <3>1. /\ i - Len(s) \in DOMAIN t /\ j - Len(s) \in DOMAIN t
          /\ t[i - Len(s)] = t[j - Len(s)]
      BY <1>1, <2>2
    <3>2. i - Len(s) = j - Len(s)  BY <3>1 DEF IsInjective
    <3> QED  BY <1>1, <3>2
  <2>3. CASE i <= Len(s) /\ j > Len(s)
    <3>1. (s \o t)[i] \in ToSet(s)  BY <1>1, <2>3 DEF ToSet
    <3>2. j - Len(s) \in DOMAIN t /\ (s \o t)[j] = t[j - Len(s)]  BY <1>1, <2>3
    <3> QED  BY <3>1, <3>2 DEF ToSet
  <2>4. CASE i > Len(s) /\ j <= Len(s)
    <3>1. (s \o t)[j] \in ToSet(s)  BY <1>1, <2>4 DEF ToSet
    <3>2. i - Len(s) \in DOMAIN t /\ (s \o t)[i] = t[i - Len(s)]  BY <1>1, <2>4
    <3> QED  BY <3>1, <3>2 DEF ToSet
  <2> QED  BY <1>1, <2>1, <2>2, <2>3, <2>4
<1> QED  BY <1>1, <1>3, <1>4, <1>5, <1>6

LEMMA RestOfList ==
  ASSUME NEW K, NEW s \in Seq(K), s # <<>>, IsInjective(s)
  PROVE  /\ Tail(s) \in Seq(K)
         /\ Head(s) \in ToSet(s)
         /\ ToSet(Tail(s)) = ToSet(s) \ {Head(s)}
         /\ IsInjective(Tail(s))
<1>1. /\ Len(s) \in Nat \ {0} /\ DOMAIN s = 1 .. Len(s)
      /\ Tail(s) \in Seq(K) /\ Head(s) = s[1]
      /\ DOMAIN Tail(s) = 1 .. Len(s) - 1
      /\ \A i \in 1 .. Len(s) - 1 : Tail(s)[i] = s[i + 1]
  OBVIOUS
<1>2. IsInjective(Tail(s))
  <2> SUFFICES ASSUME NEW i \in 1 .. Len(s) - 1, NEW j \in 1 .. Len(s) - 1,
                      Tail(s)[i] = Tail(s)[j]
               PROVE  i = j
    BY <1>1 DEF IsInjective
  <2>1. i + 1 \in DOMAIN s /\ j + 1 \in DOMAIN s /\ s[i + 1] = s[j + 1]
    BY <1>1
  <2>2. i + 1 = j + 1  BY <2>1 DEF IsInjective
  <2> QED  BY <1>1, <2>2
<1>3. ToSet(Tail(s)) \subseteq ToSet(s) \ {Head(s)}
  <2> SUFFICES ASSUME NEW i \in 1 .. Len(s) - 1
               PROVE  Tail(s)[i] \in ToSet(s) \ {Head(s)}
    BY <1>1 DEF ToSet
  <2>1. i + 1 \in DOMAIN s /\ 1 \in DOMAIN s /\ i + 1 # 1 /\ Tail(s)[i] = s[i + 1]
    BY <1>1
  <2>2. s[i + 1] # s[1]  BY <2>1 DEF IsInjective
  <2> QED  BY <1>1, <2>1, <2>2 DEF ToSet
<1>4. ToSet(s) \ {Head(s)} \subseteq ToSet(Tail(s))
  <2> SUFFICES ASSUME NEW i \in 1 .. Len(s), s[i] # s[1]
               PROVE  s[i] \in ToSet(Tail(s))
    BY <1>1 DEF ToSet
  <2>1. i - 1 \in DOMAIN Tail(s) /\ Tail(s)[i - 1] = s[i]
    BY <1>1
  <2> QED  BY <2>1 DEF ToSet
<1>5. Head(s) \in ToSet(s)
  BY <1>1 DEF ToSet
<1> QED  BY <1>1, <1>2, <1>3, <1>4, <1>5

\* putting callers on the list, those only that are not on it
LEMMA ScheduleKeeps ==
  ASSUME ListInv, NEW S, S \subseteq Settled, IsFiniteSet(S), Schedule(S)
  PROVE  /\ todo' \in Seq(Settled)
         /\ ToSet(todo') = todo_set'
         /\ IsInjective(todo')
<1> DEFINE T == S \ todo_set
<1>1. IsFiniteSet(T) /\ T \subseteq Settled
  BY FS_Subset
<1>2. PICK order \in SetToSeqs(T) : todo' = todo \o order
  BY DEF Schedule
<1>3. order \in Seq(T) /\ ToSet(order) = T /\ IsInjective(order)
  BY <1>1, Orders
<1>4. order \in Seq(Settled)
  BY <1>1, <1>3
<1>5. ToSet(todo) \cap ToSet(order) = {}
  BY <1>3 DEF ListInv
<1>6. /\ todo \o order \in Seq(Settled)
      /\ ToSet(todo \o order) = ToSet(todo) \union ToSet(order)
      /\ IsInjective(todo \o order)
  BY <1>3, <1>4, <1>5, Concatenation DEF ListInv
<1> QED  BY <1>2, <1>3, <1>6 DEF ListInv, Schedule

(***************************************************************************)
(* The initial states, and each action.                                    *)
(***************************************************************************)

LEMMA InitQueue == Init => QueueInv
<1> SUFFICES ASSUME Init PROVE QueueInv
  OBVIOUS
<1> DEFINE names == {fn.name : fn \in ToSet(Functions)}
<1>1. /\ Functions \in Seq(ToSet(Functions))
      /\ \A j, k \in DOMAIN Functions : Functions[j].name = Functions[k].name => j = k
  BY ProgramsAssumption DEF Init, Functions
<1>2. /\ DOMAIN graphs = {Id(f) : f \in names}
      /\ \A f \in names : graphs[Id(f)] = BaseGraph(Named(f))
  BY DEF Init, Id
<1>3. \A f \in names : Named(f).name = f
  <2> TAKE f \in names
  <2>1. \E fn \in ToSet(Functions) : fn.name = f  OBVIOUS
  <2> QED  BY <2>1 DEF Named
<1>4. /\ at = Idle /\ at.phase = "idle" /\ inline_dependencies = <<>>
      /\ todo = [k \in DOMAIN Functions |-> Id(Functions[k].name)]
      /\ todo_set = {Id(f) : f \in names}
  BY DEF Init, Idle
<1>5. Settled = DOMAIN graphs
  BY <1>4 DEF Settled
<1>6. GraphsInv
  <2> SUFFICES ASSUME NEW f \in names
               PROVE  /\ DOMAIN graphs[Id(f)] = GraphFields
                      /\ graphs[Id(f)].name \in Names /\ graphs[Id(f)].name # <<>>
                      /\ graphs[Id(f)].name[1] = graphs[Id(f)].base
                      /\ \A g : Id(f) = Id(g) => graphs[Id(f)].base = g
    BY <1>2 DEF GraphsInv
  <2>1. graphs[Id(f)] = BaseGraph(Named(f)) /\ Named(f).name = f
    BY <1>2, <1>3
  <2>2. /\ DOMAIN graphs[Id(f)] = GraphFields
        /\ graphs[Id(f)].name = Id(f) /\ graphs[Id(f)].base = f
    BY <2>1 DEF BaseGraph, GraphFields
  <2>3. Id(f) \in Names /\ Id(f) # <<>> /\ Id(f)[1] = f
    BY DEF Id, Names
  <2>4. \A g : Id(f) = Id(g) => f = g
    BY DEF Id
  <2> QED  BY <2>2, <2>3, <2>4
<1>7. SpecsInv
  <2>1. PICK special \in SUBSET names :
          /\ DOMAIN specs = {Id(f) : f \in special}
          /\ \A f \in special : specs[Id(f)] = f
          /\ DOMAIN cache = special /\ DOMAIN dependencies = special
    BY DEF Init, Id
  <2>2. \A f \in special : Id(f)[1] = f
    BY DEF Id
  <2> QED  BY <1>2, <1>5, <2>1, <2>2 DEF SpecsInv
<1>8. CacheInv
  BY <1>2, <1>5 DEF CacheInv, Id
<1>9. AtInv
  BY <1>4 DEF AtInv
<1>10. CallersInv
  BY <1>4, FS_EmptySet DEF Init, CallersInv
<1>11. ListInv
  <2>1. Functions \in [1 .. Len(Functions) -> ToSet(Functions)] /\ Len(Functions) \in Nat
    BY <1>1
  <2>2. \A k \in DOMAIN Functions : Functions[k].name \in names
    BY DEF ToSet
  <2>3. todo \in Seq(Settled)
    BY <1>2, <1>4, <1>5, <2>1, <2>2
  <2>4. ToSet(todo) = todo_set
    BY <1>4, <2>1 DEF ToSet
  <2>5. IsInjective(todo)
    BY <1>1, <1>4 DEF IsInjective, Id
  <2> QED  BY <2>3, <2>4, <2>5 DEF ListInv
<1> QED  BY <1>6, <1>7, <1>8, <1>9, <1>10, <1>11 DEF QueueInv

\* a graph that is changed remains what it is
LEMMA GraphChanged ==
  ASSUME GraphsInv, NEW id \in DOMAIN graphs, NEW g,
         DOMAIN g = GraphFields, g.base = graphs[id].base,
         g.name \in Names, g.name # <<>>, g.name[1] = g.base,
         graphs' = [graphs EXCEPT ![id] = g], UNCHANGED program
  PROVE  GraphsInv' /\ DOMAIN graphs' = DOMAIN graphs
<1>1. /\ DOMAIN graphs' = DOMAIN graphs
      /\ \A i \in DOMAIN graphs : graphs'[i] = IF i = id THEN g ELSE graphs[i]
  OBVIOUS
<1>2. Names' = Names
  BY DEF Names, Functions
<1> QED  BY <1>1, <1>2 DEF GraphsInv

\* the graph that is optimized, and the one of the work list
LEMMA GraphsKnown ==
  ASSUME QueueInv, at # Idle
  PROVE  /\ Current \in Settled /\ Current \in DOMAIN graphs
         /\ Optimized \in DOMAIN graphs
         /\ CurrentGraph.name \in DOMAIN specs => CurrentGraph.base \in DOMAIN dependencies
<1>1. Current \in Settled /\ Current \in DOMAIN graphs
  BY DEF QueueInv, AtInv, Current, Settled
<1>2. Optimized \in DOMAIN graphs
  BY <1>1 DEF QueueInv, AtInv, Optimized
<1>3. CurrentGraph.name[1] = CurrentGraph.base
  BY <1>1 DEF QueueInv, GraphsInv, CurrentGraph
<1> QED  BY <1>1, <1>2, <1>3 DEF QueueInv, SpecsInv

\* a step that does not move on in the graph
SamePlace ==
  /\ DOMAIN at' = DOMAIN at
  /\ at'.phase = at.phase /\ at'.graph = at.graph /\ at'.index = at.index
  /\ at'.redirected = at.redirected /\ at'.sweeps = at.sweeps
  /\ at.phase = "stub" => at'.stub = at.stub

LEMMA InlineCallPlace ==
  ASSUME QueueInv, InlineCall
  PROVE  at # Idle /\ at' # Idle /\ SamePlace
<1>1. at # Idle
  BY DEF InlineCall, Optimizing, Idle
<1>2. {"phase", "graph", "changed", "index", "redirected", "sweeps"} \subseteq DOMAIN at
  BY <1>1 DEF QueueInv, AtInv
<1>3. at' = [at EXCEPT !.changed = @ \/ at.phase # "stub"]
  BY DEF InlineCall
<1>4. at'.phase = at.phase
  BY <1>2, <1>3
<1>5. at' # Idle
  BY <1>4 DEF InlineCall, Optimizing, Idle
<1> QED  BY <1>1, <1>2, <1>3, <1>5 DEF SamePlace

LEMMA EndOptimizePlace ==
  ASSUME QueueInv, EndOptimize
  PROVE  /\ DOMAIN at' = DOMAIN at /\ at'.graph = at.graph
         /\ at'.phase \in {"specialize", "finish"}
         /\ at'.phase = "specialize" =>
              /\ at'.index = 1
              /\ \/ at.redirected /\ at.sweeps < MaxSweeps
                 \/ at.phase = "optimize" /\ CurrentGraph.name \notin DOMAIN inlinable
         /\ at'.phase = "finish" =>
              /\ ~ (at.redirected /\ at.sweeps < MaxSweeps)
              /\ ~ (at.phase = "optimize" /\ CurrentGraph.name \notin DOMAIN inlinable)
<1>1. {"phase", "graph", "changed", "index", "redirected", "sweeps"} \subseteq DOMAIN at
  <2>1. at # Idle
    BY DEF EndOptimize, Idle
  <2> QED  BY <2>1 DEF QueueInv, AtInv
<1>2. PICK found :
        at' = IF \/ at.redirected /\ at.sweeps < MaxSweeps
                 \/ at.phase = "optimize" /\ CurrentGraph.name \notin DOMAIN inlinable
              THEN [at EXCEPT !.phase = "specialize", !.index = 1,
                              !.redirected = FALSE, !.changed = Reports(found)]
              ELSE [at EXCEPT !.phase = "finish", !.changed = Reports(found)]
  BY DEF EndOptimize
<1>3. CASE \/ at.redirected /\ at.sweeps < MaxSweeps
           \/ at.phase = "optimize" /\ CurrentGraph.name \notin DOMAIN inlinable
  <2>1. at' = [at EXCEPT !.phase = "specialize", !.index = 1,
                         !.redirected = FALSE, !.changed = Reports(found)]
    BY <1>2, <1>3
  <2> QED  BY <1>1, <1>3, <2>1
<1>4. CASE ~ \/ at.redirected /\ at.sweeps < MaxSweeps
             \/ at.phase = "optimize" /\ CurrentGraph.name \notin DOMAIN inlinable
  <2>1. at' = [at EXCEPT !.phase = "finish", !.changed = Reports(found)]
    BY <1>2, <1>4
  <2> QED  BY <1>1, <1>4, <2>1
<1> QED  BY <1>3, <1>4

LEMMA InlineNoted ==
  ASSUME CallersInv, NEW id, id \in Settled', NEW g,
         inline_dependencies' = NoteCalls(inline_dependencies, id, g),
         UNCHANGED dependencies, Settled \subseteq Settled'
  PROVE  CallersInv'
<1> DEFINE names == {g.calls[k].name : k \in DOMAIN g.calls}
<1>1. /\ DOMAIN inline_dependencies' = DOMAIN inline_dependencies \union names
      /\ \A name \in DOMAIN inline_dependencies \union names :
           inline_dependencies'[name] =
             (IF name \in DOMAIN inline_dependencies THEN inline_dependencies[name] ELSE {})
               \union (IF name \in names THEN {id} ELSE {})
  BY DEF NoteCalls
<1>2. ASSUME NEW name \in DOMAIN inline_dependencies'
      PROVE  inline_dependencies'[name] \subseteq Settled' /\ IsFiniteSet(inline_dependencies'[name])
  <2> DEFINE noted == IF name \in DOMAIN inline_dependencies
                      THEN inline_dependencies[name] ELSE {}
  <2>1. noted \subseteq Settled /\ IsFiniteSet(noted)
    BY FS_EmptySet DEF CallersInv
  <2>2. IsFiniteSet(noted \union {id})
    BY <2>1, FS_AddElement
  <2>3. inline_dependencies'[name] \in {noted, noted \union {id}}
    BY <1>1, <1>2
  <2> QED  BY <2>1, <2>2, <2>3
<1> QED  BY <1>2 DEF CallersInv

\* steps that neither make a graph nor put one on the list
LEMMA StepInGraph ==
  ASSUME QueueInv, at # Idle, NEW id \in DOMAIN graphs, NEW g,
         DOMAIN g = GraphFields, g.base = graphs[id].base, g.key = graphs[id].key,
         g.name \in Names, g.name # <<>>, g.name[1] = g.base,
         graphs' = [graphs EXCEPT ![id] = g], UNCHANGED <<program, cache>>,
         \/ SamePlace
         \/ /\ at.phase # "stub"
            /\ DOMAIN at' = DOMAIN at /\ at'.graph = at.graph
            /\ at'.phase \in {"optimize", "reoptimize", "specialize", "finish"}
  PROVE  /\ GraphsInv' /\ AtInv' /\ DOMAIN graphs' = DOMAIN graphs
         /\ Settled' = Settled
<1>1. GraphsInv' /\ DOMAIN graphs' = DOMAIN graphs
  BY GraphChanged DEF QueueInv
<1>2. \A i \in DOMAIN graphs : /\ graphs'[i].base = graphs[i].base
                               /\ graphs'[i].key = graphs[i].key
  OBVIOUS
<1>3. CASE SamePlace
  <2>1. Settled' = Settled
    BY <1>1, <1>3 DEF Settled, SamePlace
  <2>2. CASE at.phase = "stub"
    <3>1. /\ at.graph \in Settled
          /\ at.stub \in DOMAIN graphs
          /\ at.stub = <<graphs[at.stub].base, graphs[at.stub].key>>
          /\ graphs[at.stub].base \in DOMAIN cache
          /\ {"phase", "graph", "changed", "index", "redirected", "sweeps"} \subseteq DOMAIN at
          /\ "stub" \in DOMAIN at
      BY <2>2 DEF QueueInv, AtInv
    <3>2. /\ graphs'[at.stub].base = graphs[at.stub].base
          /\ graphs'[at.stub].key = graphs[at.stub].key
      BY <1>2, <3>1
    <3> QED  BY <1>1, <1>3, <2>1, <2>2, <3>1, <3>2 DEF AtInv, SamePlace
  <2>3. CASE at.phase # "stub"
    BY <1>1, <1>3, <2>1, <2>3 DEF QueueInv, AtInv, SamePlace
  <2> QED  BY <1>1, <2>1, <2>2, <2>3
<1>4. CASE /\ at.phase # "stub"
           /\ DOMAIN at' = DOMAIN at /\ at'.graph = at.graph
           /\ at'.phase \in {"optimize", "reoptimize", "specialize", "finish"}
  <2>1. Settled' = Settled
    BY <1>1, <1>4 DEF Settled
  <2> QED  BY <1>1, <1>4, <2>1 DEF QueueInv, AtInv
<1> QED  BY <1>1, <1>3, <1>4

LEMMA PopQueue == QueueInv /\ Pop => QueueInv'
<1> SUFFICES ASSUME QueueInv, Pop PROVE QueueInv'
  OBVIOUS
<1>1. /\ at.phase # "stub" /\ at'.phase = "optimize" /\ at'.graph = Head(todo)
      /\ {"phase", "graph", "changed", "index", "redirected", "sweeps"} \subseteq DOMAIN at'
      /\ todo # <<>> /\ todo' = Tail(todo) /\ todo_set' = todo_set \ {Head(todo)}
  BY DEF Pop
<1>2. UNCHANGED <<program, graphs, by_name, inlinable, specs, cache, dependencies,
                  inline_dependencies>>
  BY DEF Pop
<1>3. Settled' = Settled
  BY <1>1, <1>2 DEF Settled
<1>4. ListInv' /\ Head(todo) \in Settled
  <2>1. todo \in Seq(Settled) /\ IsInjective(todo) /\ ToSet(todo) = todo_set
    BY DEF QueueInv, ListInv
  <2>2. Head(todo) \in Settled
    BY <1>1, <2>1
  <2>3. Tail(todo) \in Seq(Settled) /\ IsInjective(Tail(todo))
        /\ ToSet(Tail(todo)) = todo_set \ {Head(todo)}
    BY <1>1, <2>1, RestOfList
  <2> QED  BY <1>1, <1>3, <2>2, <2>3 DEF ListInv
<1>5. AtInv'
  BY <1>1, <1>3, <1>4 DEF AtInv
<1>6. GraphsInv'
  BY <1>2 DEF QueueInv, GraphsInv, Names, Functions
<1>7. SpecsInv' /\ CacheInv' /\ CallersInv'
  BY <1>2, <1>3 DEF QueueInv, SpecsInv, CacheInv, CallersInv
<1> QED  BY <1>4, <1>5, <1>6, <1>7 DEF QueueInv

LEMMA InlineCallQueue == QueueInv /\ InlineCall => QueueInv'
<1> SUFFICES ASSUME QueueInv, InlineCall PROVE QueueInv'
  OBVIOUS
<1>1. at # Idle
  BY DEF InlineCall, Optimizing, Idle
<1>2. Optimized \in DOMAIN graphs
  BY <1>1, GraphsKnown
<1>3. PICK k, callee : graphs' = [graphs EXCEPT ![Optimized] = WithBody(graphs[Optimized], k, callee)]
  BY <1>2 DEF InlineCall
<1> DEFINE g == WithBody(graphs[Optimized], k, callee)
<1>4. /\ DOMAIN graphs[Optimized] = GraphFields
      /\ graphs[Optimized].name \in Names /\ graphs[Optimized].name # <<>>
      /\ graphs[Optimized].name[1] = graphs[Optimized].base
  BY <1>2 DEF QueueInv, GraphsInv
<1>5. /\ DOMAIN g = GraphFields /\ g.base = graphs[Optimized].base
      /\ g.key = graphs[Optimized].key /\ g.name = graphs[Optimized].name
  BY <1>4 DEF WithBody, GraphFields
<1>6. UNCHANGED <<program, todo, todo_set, by_name, inlinable, specs, cache,
                  dependencies, inline_dependencies>> /\ SamePlace
  BY InlineCallPlace DEF InlineCall
<1> HIDE DEF g
<1>7. GraphsInv' /\ AtInv' /\ Settled' = Settled
  BY <1>1, <1>2, <1>3, <1>4, <1>5, <1>6, StepInGraph DEF g
<1> QED  BY <1>6, <1>7 DEF QueueInv, SpecsInv, CacheInv, CallersInv, ListInv

LEMMA EndOptimizeQueue == QueueInv /\ EndOptimize => QueueInv'
<1> SUFFICES ASSUME QueueInv, EndOptimize PROVE QueueInv'
  OBVIOUS
<1>1. at # Idle /\ at.phase # "stub"
  BY DEF EndOptimize, Idle
<1>2. Current \in DOMAIN graphs /\ Current \in Settled
  BY <1>1, GraphsKnown
<1> DEFINE g == [graphs[Current] EXCEPT !.removable = 0]
<1>3. graphs' = [graphs EXCEPT ![Current] = g]
  BY <1>2 DEF EndOptimize
<1>4. /\ DOMAIN graphs[Current] = GraphFields
      /\ graphs[Current].name \in Names /\ graphs[Current].name # <<>>
      /\ graphs[Current].name[1] = graphs[Current].base
  BY <1>2 DEF QueueInv, GraphsInv
<1>5. /\ DOMAIN g = GraphFields /\ g.base = graphs[Current].base
      /\ g.key = graphs[Current].key /\ g.name = graphs[Current].name
  BY <1>4 DEF GraphFields
<1>6. /\ UNCHANGED <<program, todo, todo_set, by_name, inlinable, specs, cache, dependencies>>
      /\ inline_dependencies' = NoteCalls(inline_dependencies, Current, CurrentGraph)
  BY DEF EndOptimize
<1>7. /\ DOMAIN at' = DOMAIN at /\ at'.graph = at.graph
      /\ at'.phase \in {"specialize", "finish"}
  BY EndOptimizePlace
<1> HIDE DEF g
<1>8. GraphsInv' /\ AtInv' /\ Settled' = Settled
  BY <1>1, <1>2, <1>3, <1>4, <1>5, <1>6, <1>7, StepInGraph
<1>9. CallersInv'
  BY <1>2, <1>6, <1>8, InlineNoted DEF QueueInv
<1> QED  BY <1>6, <1>8, <1>9 DEF QueueInv, SpecsInv, CacheInv, ListInv

\* only the place in the graph moves
LEMMA MoveQueue ==
  ASSUME QueueInv, at # Idle, at.phase = "specialize",
         DOMAIN at' = DOMAIN at, at'.graph = at.graph,
         at'.phase \in {"specialize", "reoptimize"},
         UNCHANGED <<program, graphs, todo, todo_set, by_name, inlinable, specs,
                     cache, dependencies, inline_dependencies>>
  PROVE  QueueInv'
<1>1. Settled' = Settled
  BY DEF Settled
<1>2. AtInv'
  BY <1>1 DEF QueueInv, AtInv
<1>3. GraphsInv'
  BY DEF QueueInv, GraphsInv, Names, Functions
<1> QED  BY <1>1, <1>2, <1>3 DEF QueueInv, SpecsInv, CacheInv, CallersInv, ListInv

LEMMA UseVariantQueue == QueueInv /\ UseVariant => QueueInv'
<1> SUFFICES ASSUME QueueInv, UseVariant PROVE QueueInv'
  OBVIOUS
<1>1. at # Idle /\ at.phase = "specialize" /\ Call.name \in DOMAIN specs
  BY DEF UseVariant, Specializes, AtCall, Idle
<1>2. Current \in DOMAIN graphs /\ Current \in Settled
  BY <1>1, GraphsKnown
<1>3. PICK calls : graphs' = [graphs EXCEPT ![Current] = [graphs[Current] EXCEPT !.calls = calls]]
  BY <1>2 DEF UseVariant
<1> DEFINE g == [graphs[Current] EXCEPT !.calls = calls]
<1>4. /\ DOMAIN graphs[Current] = GraphFields
      /\ graphs[Current].name \in Names /\ graphs[Current].name # <<>>
      /\ graphs[Current].name[1] = graphs[Current].base
  BY <1>2 DEF QueueInv, GraphsInv
<1>5. /\ DOMAIN g = GraphFields /\ g.base = graphs[Current].base
      /\ g.key = graphs[Current].key /\ g.name = graphs[Current].name
  BY <1>4 DEF GraphFields
<1>6. /\ UNCHANGED <<program, todo, todo_set, by_name, inlinable, specs, cache,
                     inline_dependencies>>
      /\ dependencies' = [dependencies EXCEPT ![CallSpec] = @ \union {Current}]
  BY DEF UseVariant
<1>7. /\ DOMAIN at' = DOMAIN at /\ at'.graph = at.graph /\ at'.phase = "specialize"
  BY <1>1 DEF UseVariant
<1>8. GraphsInv' /\ AtInv' /\ Settled' = Settled
  BY <1>1, <1>2, <1>3, <1>4, <1>5, <1>6, <1>7, StepInGraph
<1>9. CallersInv' /\ DOMAIN dependencies' = DOMAIN dependencies
  <2>1. CallSpec \in DOMAIN dependencies
    BY <1>1 DEF QueueInv, SpecsInv, CallSpec
  <2>2. IsFiniteSet(dependencies[CallSpec] \union {Current})
    BY <2>1, FS_AddElement DEF QueueInv, CallersInv
  <2>3. \A f \in DOMAIN dependencies :
          dependencies'[f] \in {dependencies[f], dependencies[CallSpec] \union {Current}}
    BY <1>6
  <2> QED  BY <1>2, <1>6, <1>8, <2>1, <2>2, <2>3 DEF QueueInv, CallersInv
<1> QED  BY <1>6, <1>8, <1>9 DEF QueueInv, SpecsInv, CacheInv, ListInv

\* a stub is a graph that was not there: the cache would have its key
LEMMA MakeStubQueue == QueueInv /\ MakeStub => QueueInv'
<1> SUFFICES ASSUME QueueInv, MakeStub PROVE QueueInv'
  OBVIOUS
<1> DEFINE stub == <<CallSpec, Key>>
           g == [graphs[Id(CallSpec)] EXCEPT !.key = Key, !.name = stub]
<1>1. /\ at # Idle /\ at.phase = "specialize" /\ Call.name \in DOMAIN specs
      /\ Key \notin DOMAIN cache[CallSpec]
      /\ Key \in CallKey(CurrentGraph, Call, CallSpec)
  BY DEF MakeStub, Specializes, AtCall, Idle, HasVariant, Key
<1>2. /\ CallSpec \in DOMAIN cache /\ Id(CallSpec) \in Settled
      /\ Id(CallSpec) \in DOMAIN graphs
  BY <1>1 DEF QueueInv, SpecsInv, CallSpec, Settled
<1>3. stub \notin Settled /\ Settled = DOMAIN graphs
  BY <1>1 DEF QueueInv, CacheInv, Settled
<1>4. /\ DOMAIN graphs' = DOMAIN graphs \union {stub}
      /\ graphs'[stub] = g
      /\ \A id \in DOMAIN graphs : graphs'[id] = graphs[id]
  <2>1. graphs' = Put(graphs, stub, g)
    BY DEF MakeStub
  <2> HIDE DEF stub, g
  <2> QED  BY <1>3, <2>1 DEF Put
<1>5. /\ DOMAIN at' = DOMAIN at \union {"stub", "phase"}
      /\ at'.phase = "stub" /\ at'.stub = stub /\ at'.graph = at.graph
  <2>1. {"phase", "graph"} \subseteq DOMAIN at
    BY <1>1 DEF QueueInv, AtInv
  <2>2. at' = Put([at EXCEPT !.phase = "stub"], "stub", stub)
    BY DEF MakeStub
  <2> HIDE DEF stub
  <2> QED  BY <2>1, <2>2 DEF Put
<1>6. UNCHANGED <<program, todo, todo_set, by_name, inlinable, specs, cache,
                  dependencies, inline_dependencies>>
  BY DEF MakeStub
<1>7. Settled' = Settled
  BY <1>3, <1>4, <1>5 DEF Settled
<1>8. /\ DOMAIN g = GraphFields /\ g.name = stub /\ g.key = Key
      /\ g.base = CallSpec
  BY <1>2 DEF QueueInv, GraphsInv, GraphFields
<1>9. stub \in Names /\ stub # <<>> /\ stub[1] = CallSpec
  <2>1. CallSpec \in {fn.name : fn \in ToSet(Functions)} \union Keys
    <3>1. /\ graphs[Id(CallSpec)].name \in Names /\ graphs[Id(CallSpec)].name # <<>>
          /\ graphs[Id(CallSpec)].name[1] = CallSpec
      BY <1>2 DEF QueueInv, GraphsInv
    <3> QED  BY <3>1 DEF Names
  <2>2. Key \in Keys
    BY <1>1 DEF CallKey, Keys
  <2> QED  BY <2>1, <2>2 DEF Names
<1>10. GraphsInv'
  <2>1. Names' = Names
    BY <1>6 DEF Names, Functions
  <2>2. \A f : stub # Id(f)
    BY DEF Id
  <2>3. /\ DOMAIN graphs'[stub] = GraphFields
        /\ graphs'[stub].name \in Names /\ graphs'[stub].name # <<>>
        /\ graphs'[stub].name[1] = graphs'[stub].base
    BY <1>4, <1>8, <1>9
  <2> HIDE DEF stub, g
  <2> QED  BY <1>4, <2>1, <2>2, <2>3 DEF QueueInv, GraphsInv
<1>11. AtInv'
  <2>1. stub \in DOMAIN graphs' /\ stub = <<graphs'[stub].base, graphs'[stub].key>>
        /\ graphs'[stub].base \in DOMAIN cache
    BY <1>2, <1>4, <1>8
  <2>2. at.graph \in Settled
        /\ {"phase", "graph", "changed", "index", "redirected", "sweeps"} \subseteq DOMAIN at
    BY <1>1 DEF QueueInv, AtInv
  <2> HIDE DEF stub, g
  <2> QED  BY <1>5, <1>6, <1>7, <2>1, <2>2 DEF AtInv
<1>12. SpecsInv' /\ CacheInv' /\ CallersInv' /\ ListInv'
  BY <1>6, <1>7 DEF QueueInv, SpecsInv, CacheInv, CallersInv, ListInv
<1> QED  BY <1>10, <1>11, <1>12 DEF QueueInv

\* the stub becomes a variant, and it was not on the list
LEMMA FinishStubQueue == QueueInv /\ FinishStub => QueueInv'
<1> SUFFICES ASSUME QueueInv, FinishStub PROVE QueueInv'
  OBVIOUS
<1> DEFINE copy == [graphs[at.stub] EXCEPT !.removable = 0]
           stub == IF ReturnsMachineInt(copy)
                   THEN [copy EXCEPT !.name = Append(@, Narrow), !.type = Narrow]
                   ELSE copy
<1>1. /\ at # Idle /\ at.phase = "stub"
      /\ at.stub \in DOMAIN graphs
      /\ at.stub = <<graphs[at.stub].base, graphs[at.stub].key>>
      /\ graphs[at.stub].base \in DOMAIN cache
      /\ at.graph \in Settled
      /\ {"phase", "graph", "changed", "index", "redirected", "sweeps"} \subseteq DOMAIN at
  BY DEF FinishStub, Idle, QueueInv, AtInv
<1>2. /\ DOMAIN graphs[at.stub] = GraphFields
      /\ graphs[at.stub].name \in Names /\ graphs[at.stub].name # <<>>
      /\ graphs[at.stub].name[1] = graphs[at.stub].base
  BY <1>1 DEF QueueInv, GraphsInv
<1>3. /\ DOMAIN copy = GraphFields /\ copy.base = graphs[at.stub].base
      /\ copy.key = graphs[at.stub].key /\ copy.name = graphs[at.stub].name
  BY <1>2 DEF GraphFields
<1>4. /\ Append(copy.name, Narrow) \in Names /\ Append(copy.name, Narrow) # <<>>
      /\ Append(copy.name, Narrow)[1] = copy.name[1]
  BY <1>2, <1>3 DEF Names, Keys, Narrow
<1>5. /\ DOMAIN stub = GraphFields /\ stub.base = graphs[at.stub].base
      /\ stub.key = graphs[at.stub].key
      /\ stub.name \in Names /\ stub.name # <<>> /\ stub.name[1] = stub.base
  <2>1. CASE ReturnsMachineInt(copy)
    <3> DEFINE named == [copy EXCEPT !.name = Append(@, Narrow), !.type = Narrow]
    <3>1. stub = named  BY <2>1
    <3> HIDE DEF stub
    <3>2. /\ DOMAIN named = GraphFields /\ named.base = copy.base
          /\ named.key = copy.key /\ named.name = Append(copy.name, Narrow)
      BY <1>3 DEF GraphFields
    <3> QED  BY <1>2, <1>3, <1>4, <3>1, <3>2
  <2>2. CASE ~ ReturnsMachineInt(copy)
    <3>1. stub = copy  BY <2>2
    <3> HIDE DEF stub
    <3> QED  BY <1>2, <1>3, <3>1
  <2> QED  BY <2>1, <2>2
<1>6. PICK entry :
        /\ graphs' = [graphs EXCEPT ![at.stub] = stub]
        /\ cache' = [cache EXCEPT ![stub.base] = Put(@, stub.key, entry)]
        /\ specs' = Put(specs, stub.name, stub.base)
        /\ inline_dependencies' = NoteCalls(inline_dependencies, at.stub, stub)
        /\ todo' = Append(todo, at.stub)
        /\ todo_set' = todo_set \union {at.stub}
        /\ at' = [at EXCEPT !.phase = "specialize"]
        /\ UNCHANGED <<program, dependencies>>
  BY DEF FinishStub
<1> HIDE DEF copy, stub
<1>7. GraphsInv' /\ DOMAIN graphs' = DOMAIN graphs
  BY <1>1, <1>5, <1>6, GraphChanged DEF QueueInv
<1>8. at'.phase = "specialize" /\ at'.graph = at.graph /\ DOMAIN at' = DOMAIN at
  BY <1>1, <1>6
<1>9. Settled' = Settled \union {at.stub} /\ at.stub \notin Settled
  BY <1>1, <1>7, <1>8 DEF Settled
<1>10. AtInv'
  BY <1>1, <1>8, <1>9 DEF AtInv
<1>11. /\ DOMAIN cache' = DOMAIN cache
       /\ DOMAIN cache'[stub.base] = DOMAIN cache[stub.base] \union {stub.key}
       /\ \A f \in DOMAIN cache : f # stub.base => cache'[f] = cache[f]
  BY <1>1, <1>5, <1>6 DEF Put
<1>12. CacheInv'
  <2> SUFFICES ASSUME NEW f, NEW key, <<f, key>> \in Settled'
               PROVE  f \in DOMAIN cache /\ key \in DOMAIN cache'[f]
    BY <1>11 DEF CacheInv
  <2>1. CASE <<f, key>> \in Settled
    <3>1. f \in DOMAIN cache /\ key \in DOMAIN cache[f]
      BY <2>1 DEF QueueInv, CacheInv
    <3> QED  BY <1>11, <3>1
  <2>2. CASE <<f, key>> = at.stub
    <3>1. f = stub.base /\ key = stub.key
      BY <1>1, <1>5, <2>2
    <3> QED  BY <1>1, <1>5, <1>11, <3>1
  <2> QED  BY <1>9, <2>1, <2>2
<1>13. SpecsInv'
  <2>1. /\ DOMAIN specs' = DOMAIN specs \union {stub.name}
        /\ specs'[stub.name] = stub.base
        /\ \A name \in DOMAIN specs : name # stub.name => specs'[name] = specs[name]
    BY <1>6 DEF Put
  <2> QED  BY <1>1, <1>5, <1>6, <1>9, <1>11, <2>1 DEF QueueInv, SpecsInv
<1>14. CallersInv'
  BY <1>6, <1>9, InlineNoted DEF QueueInv
<1>15. ListInv'
  <2> DEFINE K == Settled \union {at.stub}
             last == <<at.stub>>
  <2>1. last \in Seq(K) /\ ToSet(last) = {at.stub}
        /\ IsInjective(last)
    BY DEF ToSet, IsInjective
  <2>2. /\ todo \in Seq(K) /\ IsInjective(todo) /\ ToSet(todo) = todo_set
        /\ todo_set \subseteq Settled
    BY <1>9 DEF QueueInv, ListInv, ToSet
  <2>3. Append(todo, at.stub) = todo \o last
    BY <2>2
  <2>4. ToSet(todo) \cap ToSet(last) = {}
    BY <1>9, <2>1, <2>2
  <2> HIDE DEF K, last
  <2>5. /\ todo \o last \in Seq(K)
        /\ ToSet(todo \o last) = todo_set \union {at.stub}
        /\ IsInjective(todo \o last)
    BY <2>1, <2>2, <2>4, Concatenation
  <2> QED  BY <1>6, <1>9, <2>3, <2>5 DEF ListInv, K, last
<1> QED  BY <1>7, <1>10, <1>12, <1>13, <1>14, <1>15 DEF QueueInv

\* the list grows by callers, while the graphs stay
LEMMA FinishQueue ==
  ASSUME QueueInv, GraphsInv', SpecsInv', Settled' = Settled, at' = Idle,
         \A f \in DOMAIN cache' : f \in DOMAIN cache /\ DOMAIN cache'[f] = DOMAIN cache[f],
         DOMAIN cache' = DOMAIN cache,
         UNCHANGED <<dependencies, inline_dependencies>>,
         \/ UNCHANGED <<todo, todo_set>>
         \/ \E S \in SUBSET Settled : IsFiniteSet(S) /\ Schedule(S)
  PROVE  QueueInv'
<1>1. ListInv'
  <2>1. CASE UNCHANGED <<todo, todo_set>>
    BY <2>1 DEF QueueInv, ListInv
  <2>2. ASSUME NEW S \in SUBSET Settled, IsFiniteSet(S), Schedule(S)
        PROVE  ListInv'
    BY <2>2, ScheduleKeeps DEF QueueInv, ListInv
  <2> QED  BY <2>1, <2>2
<1>2. CacheInv' /\ AtInv' /\ CallersInv'
  BY DEF QueueInv, CacheInv, AtInv, CallersInv
<1> QED  BY <1>1, <1>2 DEF QueueInv

LEMMA FinishInlinableQueue == QueueInv /\ FinishInlinable => QueueInv'
<1> SUFFICES ASSUME QueueInv, FinishInlinable PROVE QueueInv'
  OBVIOUS
<1>1. at # Idle /\ at.phase = "finish" /\ at' = Idle /\ at'.phase = "idle"
  BY DEF FinishInlinable, Idle
<1>2. UNCHANGED <<program, graphs, by_name, specs, cache, dependencies, inline_dependencies>>
  BY DEF FinishInlinable
<1>3. Settled' = Settled
  BY <1>1, <1>2 DEF Settled
<1>4. GraphsInv' /\ SpecsInv'
  BY <1>2, <1>3 DEF QueueInv, GraphsInv, SpecsInv, Names, Functions
<1> DEFINE S == IF IsVariant THEN dependencies[CurrentGraph.base]
                ELSE IF CurrentGraph.name \in DOMAIN inline_dependencies
                THEN inline_dependencies[CurrentGraph.name] ELSE {}
<1>5. S \subseteq Settled /\ IsFiniteSet(S)
  <2>1. IsVariant => CurrentGraph.base \in DOMAIN dependencies
    BY <1>1, GraphsKnown DEF IsVariant, IsSpecialized
  <2> QED  BY <2>1, FS_EmptySet DEF QueueInv, CallersInv
<1>6. Schedule(S)
  BY DEF FinishInlinable
<1> HIDE DEF S
<1> QED  BY <1>1, <1>2, <1>3, <1>4, <1>5, <1>6, FinishQueue

LEMMA FinishRenamedQueue == QueueInv /\ FinishRenamed => QueueInv'
<1> SUFFICES ASSUME QueueInv, FinishRenamed PROVE QueueInv'
  OBVIOUS
<1> DEFINE old == CurrentGraph.name
           new == Append(old, Narrow)
           g == [graphs[Current] EXCEPT !.name = new, !.type = Narrow]
<1>1. at # Idle /\ at.phase = "finish" /\ at' = Idle /\ at'.phase = "idle"
  BY DEF FinishRenamed, Idle
<1>2. /\ Current \in Settled /\ Current \in DOMAIN graphs /\ old \in DOMAIN specs
      /\ CurrentGraph.base \in DOMAIN dependencies
  BY <1>1, GraphsKnown DEF FinishRenamed, ReturnTypeChanges, IsVariant, IsSpecialized
<1>3. /\ DOMAIN graphs[Current] = GraphFields /\ old \in Names /\ old # <<>>
      /\ old[1] = graphs[Current].base
  BY <1>2 DEF QueueInv, GraphsInv, CurrentGraph
<1>4. new \in Names /\ new # <<>> /\ new[1] = old[1]
  BY <1>3 DEF Names, Keys, Narrow
<1>5. /\ UNCHANGED <<program, dependencies, inline_dependencies>>
      /\ graphs' = [graphs EXCEPT ![Current].name = new, ![Current].type = Narrow]
      /\ specs' = Put(specs, new, specs[old])
      /\ cache' = [cache EXCEPT ![CurrentGraph.base][CurrentGraph.key].type = Narrow]
      /\ Schedule(dependencies[CurrentGraph.base])
  BY DEF FinishRenamed
<1>6. DOMAIN g = GraphFields /\ g.name = new /\ g.base = graphs[Current].base
  BY <1>3 DEF GraphFields
<1> HIDE DEF new, old
<1>7. GraphsInv' /\ DOMAIN graphs' = DOMAIN graphs
  <2>1. graphs' = [graphs EXCEPT ![Current] = g]
    BY <1>2, <1>5
  <2> HIDE DEF g
  <2>2. /\ DOMAIN g = GraphFields /\ g.base = graphs[Current].base
        /\ g.name \in Names /\ g.name # <<>> /\ g.name[1] = g.base
    BY <1>3, <1>4, <1>6
  <2>3. GraphsInv /\ UNCHANGED program
    BY <1>5 DEF QueueInv
  <2> QED  BY <1>2, <2>1, <2>2, <2>3, GraphChanged
<1>8. Settled' = Settled
  BY <1>1, <1>7 DEF Settled
<1>9. /\ DOMAIN cache' = DOMAIN cache
      /\ \A f \in DOMAIN cache : DOMAIN cache'[f] = DOMAIN cache[f]
  BY <1>5
<1>10. SpecsInv'
  <2>1. /\ DOMAIN specs' = DOMAIN specs \union {new}
        /\ specs'[new] = specs[old]
        /\ \A name \in DOMAIN specs : name # new => specs'[name] = specs[name]
    BY <1>5 DEF Put
  <2> QED  BY <1>2, <1>4, <1>5, <1>8, <1>9, <2>1 DEF QueueInv, SpecsInv
<1>11. /\ dependencies[CurrentGraph.base] \in SUBSET Settled
       /\ IsFiniteSet(dependencies[CurrentGraph.base])
  BY <1>2 DEF QueueInv, CallersInv
<1> QED  BY <1>1, <1>5, <1>7, <1>8, <1>9, <1>10, <1>11, FinishQueue

LEMMA NextQueue == QueueInv /\ [Next]_vars => QueueInv'
<1> SUFFICES ASSUME QueueInv, [Next]_vars PROVE QueueInv'
  OBVIOUS
<1>1. CASE LeaveCall
  <2>1. at # Idle /\ at.phase = "specialize"
    BY <1>1 DEF LeaveCall, AtCall, Idle
  <2>2. {"phase", "graph"} \subseteq DOMAIN at
    BY <2>1 DEF QueueInv, AtInv
  <2>3. DOMAIN at' = DOMAIN at /\ at'.graph = at.graph /\ at'.phase = "specialize"
    BY <1>1, <2>1, <2>2 DEF LeaveCall
  <2> QED  BY <1>1, <2>1, <2>3, MoveQueue DEF LeaveCall
<1>2. CASE EndSweep
  <2>1. at # Idle /\ at.phase = "specialize"
    BY <1>2 DEF EndSweep, Idle
  <2>2. {"phase", "graph"} \subseteq DOMAIN at
    BY <2>1 DEF QueueInv, AtInv
  <2>3. DOMAIN at' = DOMAIN at /\ at'.graph = at.graph /\ at'.phase = "reoptimize"
    BY <1>2, <2>1, <2>2 DEF EndSweep
  <2> QED  BY <1>2, <2>1, <2>3, MoveQueue DEF EndSweep
<1>3. CASE Finish
  <2>1. at.phase = "finish" /\ at' = Idle /\ at'.phase = "idle"
        /\ UNCHANGED <<program, graphs, todo, todo_set, by_name, inlinable, specs, cache,
                       dependencies, inline_dependencies>>
    BY <1>3 DEF Finish, Idle
  <2>2. Settled' = Settled
    BY <2>1 DEF Settled
  <2>3. GraphsInv' /\ SpecsInv'
    BY <2>1, <2>2 DEF QueueInv, GraphsInv, SpecsInv, Names, Functions
  <2> QED  BY <2>1, <2>2, <2>3, FinishQueue
<1>4. CASE UNCHANGED vars
  BY <1>4 DEF vars, QueueInv, GraphsInv, SpecsInv, CacheInv, AtInv, CallersInv, ListInv,
              Settled, Names, Functions
<1> QED
  BY <1>1, <1>2, <1>3, <1>4, PopQueue, InlineCallQueue, EndOptimizeQueue, UseVariantQueue,
     MakeStubQueue, FinishStubQueue, FinishInlinableQueue, FinishRenamedQueue DEF Next

\* For every set of programs and every bound: the work list has no duplicates,
\* and the set of what is on it is exact, so specialization_todo_set.remove
\* never raises and no graph is left off the list.
THEOREM QueueStaysConsistent == Spec => []QueueConsistent
<1>1. QueueInv => QueueConsistent
  BY DEF QueueInv, ListInv, QueueConsistent
<1> QED  BY <1>1, InitQueue, NextQueue, PTL DEF Spec

(***************************************************************************)
(* Names and types.  A variant is called like itself until it is known to  *)
(* return a machine integer, so no two graphs are ever called the same.    *)
(***************************************************************************)

NameOf(id, type) == IF type = Wide THEN id ELSE Append(id, Narrow)

Shapes ==
  \A id \in DOMAIN graphs :
    /\ graphs[id].name = NameOf(id, graphs[id].type)
    /\ graphs[id].type \in {Wide, Narrow}
    /\ \/ id = Id(graphs[id].base) /\ graphs[id].type = Wide
       \/ id = <<graphs[id].base, graphs[id].key>>

NamesInv ==
  /\ Shapes
  /\ at.phase = "stub" => graphs[at.stub].type = Wide
  /\ \A id \in Settled : /\ graphs[id].name \in DOMAIN by_name
                         /\ by_name[graphs[id].name] = id
  /\ \A f \in DOMAIN cache : \A key \in DOMAIN cache[f] :
       /\ DOMAIN cache[f][key] = {"graph", "type"}
       /\ cache[f][key].graph = <<f, key>> /\ <<f, key>> \in Settled
       /\ cache[f][key].type = graphs[<<f, key>>].type

\* names are as different as the graphs
LEMMA NamesDiffer ==
  ASSUME Shapes, NEW i \in DOMAIN graphs, NEW j, \E b, k : j = <<b, k>>, j # i
  PROVE  /\ graphs[i].name # j
         /\ graphs[i].name # Append(j, Narrow)
<1> PICK b, k : j = <<b, k>>
  OBVIOUS
<1>1. ASSUME NEW c, NEW l
      PROVE  LET name == Append(<<c, l>>, Narrow)
             IN  Len(name) = 3 /\ name[1] = c /\ name[2] = l
  <2>1. <<c, l>> \in Seq({c, l})
    OBVIOUS
  <2> DEFINE s == <<c, l>>
  <2>2. Len(s) = 2 /\ s[1] = c /\ s[2] = l
    OBVIOUS
  <2> HIDE DEF s
  <2>3. \A x : /\ Len(Append(s, x)) = Len(s) + 1
              /\ \A n \in 1 .. Len(s) : Append(s, x)[n] = s[n]
    <3>1. s \in Seq({c, l, Narrow})  BY DEF s
    <3> QED  BY <3>1
  <2> QED  BY <2>2, <2>3 DEF s
<1>2. CASE graphs[i].type = Wide
  <2>1. graphs[i].name = i
    BY <1>2 DEF Shapes, NameOf
  <2>2. i = Id(graphs[i].base) \/ i = <<graphs[i].base, graphs[i].key>>
    BY DEF Shapes
  <2>3. Len(i) # 3
    BY <2>2 DEF Id
  <2> QED  BY <1>1, <2>1, <2>3
<1>3. CASE graphs[i].type # Wide
  <2>1. /\ graphs[i].name = Append(i, Narrow)
        /\ i = <<graphs[i].base, graphs[i].key>>
    BY <1>3 DEF Shapes, NameOf
  <2> DEFINE c == graphs[i].base
             l == graphs[i].key
  <2>2. graphs[i].name = Append(<<c, l>>, Narrow) /\ <<c, l>> # <<b, k>>
    BY <2>1
  <2> HIDE DEF c, l
  <2>3. Len(graphs[i].name) = 3 /\ graphs[i].name[1] = c /\ graphs[i].name[2] = l
    BY <1>1, <2>2
  <2>4. graphs[i].name # <<b, k>>
    BY <2>3
  <2>5. graphs[i].name # Append(<<b, k>>, Narrow)
    BY <1>1, <2>2, <2>3
  <2> QED  BY <2>4, <2>5
<1> QED  BY <1>2, <1>3

LEMMA InitNames == Init => NamesInv
<1> SUFFICES ASSUME Init PROVE NamesInv
  OBVIOUS
<1> DEFINE names == {fn.name : fn \in ToSet(Functions)}
<1>1. /\ DOMAIN graphs = {Id(f) : f \in names}
      /\ \A f \in names : graphs[Id(f)] = BaseGraph(Named(f))
  BY DEF Init, Id
<1>2. \A f \in names : Named(f).name = f
  <2> TAKE f \in names
  <2>1. \E fn \in ToSet(Functions) : fn.name = f  OBVIOUS
  <2> QED  BY <2>1 DEF Named
<1>3. \A f \in names : /\ graphs[Id(f)].name = Id(f) /\ graphs[Id(f)].base = f
                       /\ graphs[Id(f)].type = Wide
  <2> TAKE f \in names
  <2>1. graphs[Id(f)] = BaseGraph(Named(f)) /\ Named(f).name = f
    BY <1>1, <1>2
  <2> HIDE DEF names
  <2> QED  BY <2>1 DEF BaseGraph
<1>4. Shapes
  BY <1>1, <1>3 DEF Shapes, NameOf
<1>5. at.phase = "idle"
  BY DEF Init, Idle
<1>6. Settled = DOMAIN graphs
  BY <1>5 DEF Settled
<1>7. /\ DOMAIN by_name = {Id(f) : f \in names}
      /\ \A f \in names : by_name[Id(f)] = Id(f)
  BY DEF Init
<1>8. \A f \in DOMAIN cache : DOMAIN cache[f] = {}
  BY DEF Init
<1> QED  BY <1>1, <1>3, <1>4, <1>5, <1>6, <1>7, <1>8 DEF NamesInv

\* steps that leave names, types and the cache alone
LEMMA NamesKept ==
  ASSUME NamesInv, DOMAIN graphs' = DOMAIN graphs,
         \A id \in DOMAIN graphs :
           /\ graphs'[id].base = graphs[id].base /\ graphs'[id].key = graphs[id].key
           /\ graphs'[id].name = graphs[id].name /\ graphs'[id].type = graphs[id].type,
         UNCHANGED <<by_name, cache>>,
         SamePlace \/ UNCHANGED at \/ (at.phase # "stub" /\ at'.phase # "stub"),
         at.phase = "stub" => at.stub \in DOMAIN graphs
  PROVE  NamesInv'
<1>1. Settled' = Settled
  BY DEF Settled, SamePlace
<1>2. Shapes'
  BY DEF NamesInv, Shapes
<1>3. at'.phase = "stub" => graphs'[at'.stub].type = Wide
  BY DEF NamesInv, SamePlace
<1>4. \A id \in Settled : id \in DOMAIN graphs
  BY DEF Settled
<1>5. \A f \in DOMAIN cache : \A key \in DOMAIN cache[f] :
        /\ DOMAIN cache[f][key] = {"graph", "type"}
        /\ cache[f][key].graph = <<f, key>> /\ <<f, key>> \in Settled
        /\ cache[f][key].type = graphs'[<<f, key>>].type
  BY <1>4 DEF NamesInv
<1>6. \A id \in Settled : /\ graphs'[id].name \in DOMAIN by_name
                          /\ by_name[graphs'[id].name] = id
  BY <1>4 DEF NamesInv
<1> QED  BY <1>1, <1>2, <1>3, <1>5, <1>6 DEF NamesInv

\* a variant turns out to return a machine integer: its name was its own, and
\* the new one is nobody else's
LEMMA RenamedNames == QueueInv /\ NamesInv /\ FinishRenamed => NamesInv'
<1> SUFFICES ASSUME QueueInv, NamesInv, FinishRenamed PROVE NamesInv'
  OBVIOUS
<1> DEFINE base == CurrentGraph.base
           key == CurrentGraph.key
           new == Append(Current, Narrow)
<1>1. at # Idle /\ at.phase = "finish" /\ at'.phase = "idle"
  BY DEF FinishRenamed, Idle
<1>2. /\ Current \in Settled /\ Current \in DOMAIN graphs /\ base \in DOMAIN cache
      /\ Current # Id(base) /\ CurrentGraph.type = Wide
  BY <1>1, GraphsKnown DEF FinishRenamed, ReturnTypeChanges, IsVariant, IsSpecialized,
                           IsBase, QueueInv, SpecsInv
<1>3. Current = <<base, key>> /\ CurrentGraph.name = Current
  BY <1>2 DEF NamesInv, Shapes, NameOf, CurrentGraph
<1>4. key \in DOMAIN cache[base]
  BY <1>2, <1>3 DEF QueueInv, CacheInv
<1>5. /\ graphs' = [graphs EXCEPT ![Current].name = new, ![Current].type = Narrow]
      /\ by_name' = Put(Restrict(by_name, DOMAIN by_name \ {Current}), new, Current)
      /\ cache' = [cache EXCEPT ![base][key].type = Narrow]
  BY <1>3 DEF FinishRenamed
<1>6. DOMAIN graphs[Current] = GraphFields
  BY <1>2 DEF QueueInv, GraphsInv
<1>7. /\ DOMAIN graphs' = DOMAIN graphs
      /\ \A id \in DOMAIN graphs : id # Current => graphs'[id] = graphs[id]
      /\ graphs'[Current].name = new /\ graphs'[Current].type = Narrow
      /\ graphs'[Current].base = base /\ graphs'[Current].key = key
  <2> HIDE DEF new
  <2> QED  BY <1>2, <1>5, <1>6 DEF GraphFields, CurrentGraph
<1>8. Settled' = Settled
  BY <1>1, <1>7 DEF Settled
<1>9. Shapes'
  <2> SUFFICES ASSUME NEW id \in DOMAIN graphs
               PROVE  /\ graphs'[id].name = NameOf(id, graphs'[id].type)
                      /\ graphs'[id].type \in {Wide, Narrow}
                      /\ \/ id = Id(graphs'[id].base) /\ graphs'[id].type = Wide
                         \/ id = <<graphs'[id].base, graphs'[id].key>>
    BY <1>7 DEF Shapes
  <2>1. CASE id = Current
    <3>1. graphs'[Current].name = NameOf(Current, Narrow)
      BY <1>7 DEF NameOf, Narrow, Wide
    <3> QED  BY <1>3, <1>7, <2>1, <3>1
  <2>2. CASE id # Current
    BY <1>7, <2>2 DEF NamesInv, Shapes
  <2> QED  BY <2>1, <2>2
<1>10. \A id \in Settled : /\ graphs'[id].name \in DOMAIN by_name'
                           /\ by_name'[graphs'[id].name] = id
  <2> SUFFICES ASSUME NEW id \in Settled
               PROVE  /\ graphs'[id].name \in DOMAIN by_name'
                      /\ by_name'[graphs'[id].name] = id
    OBVIOUS
  <2>1. /\ DOMAIN by_name' = (DOMAIN by_name \ {Current}) \union {new}
        /\ by_name'[new] = Current
        /\ \A name \in DOMAIN by_name \ {Current, new} : by_name'[name] = by_name[name]
    <3> HIDE DEF new
    <3> QED  BY <1>5 DEF Put, Restrict
  <2>2. CASE id = Current
    BY <1>7, <2>1, <2>2
  <2>3. CASE id # Current
    <3>1. id \in DOMAIN graphs /\ graphs'[id] = graphs[id]
      BY <1>7, <2>3 DEF Settled
    <3>2. graphs[id].name # Current /\ graphs[id].name # new
      <4>1. Shapes /\ \E b, k : Current = <<b, k>>
        BY <1>3 DEF NamesInv
      <4> QED  BY <2>3, <3>1, <4>1, NamesDiffer
    <3>3. graphs[id].name \in DOMAIN by_name /\ by_name[graphs[id].name] = id
      BY DEF NamesInv
    <3> HIDE DEF new
    <3> QED  BY <2>1, <3>1, <3>2, <3>3
  <2> QED  BY <2>2, <2>3
<1>11. \A f \in DOMAIN cache' : \A k \in DOMAIN cache'[f] :
        /\ DOMAIN cache'[f][k] = {"graph", "type"}
        /\ cache'[f][k].graph = <<f, k>> /\ <<f, k>> \in Settled
        /\ cache'[f][k].type = graphs'[<<f, k>>].type
  <2>1. /\ DOMAIN cache' = DOMAIN cache
        /\ \A f \in DOMAIN cache : DOMAIN cache'[f] = DOMAIN cache[f]
        /\ \A f \in DOMAIN cache : \A k \in DOMAIN cache[f] :
             <<f, k>> # <<base, key>> => cache'[f][k] = cache[f][k]
        /\ cache'[base][key] = [cache[base][key] EXCEPT !.type = Narrow]
    <3> HIDE DEF base, key
    <3> QED  BY <1>2, <1>4, <1>5
  <2> SUFFICES ASSUME NEW f \in DOMAIN cache, NEW k \in DOMAIN cache[f]
               PROVE  /\ DOMAIN cache'[f][k] = {"graph", "type"}
                      /\ cache'[f][k].graph = <<f, k>> /\ <<f, k>> \in Settled
                      /\ cache'[f][k].type = graphs'[<<f, k>>].type
    BY <2>1
  <2>2. /\ DOMAIN cache[f][k] = {"graph", "type"}
        /\ cache[f][k].graph = <<f, k>> /\ <<f, k>> \in Settled
        /\ cache[f][k].type = graphs[<<f, k>>].type
    BY DEF NamesInv
  <2>3. CASE <<f, k>> = <<base, key>>
    <3>1. f = base /\ k = key
      BY <2>3
    <3> HIDE DEF base, key
    <3>2. cache'[f][k] = [cache[f][k] EXCEPT !.type = Narrow]
      BY <2>1, <3>1
    <3> QED  BY <1>3, <1>7, <2>2, <2>3, <3>2
  <2>4. CASE <<f, k>> # <<base, key>>
    <3>1. <<f, k>> # Current /\ <<f, k>> \in DOMAIN graphs
      BY <1>3, <2>2, <2>4 DEF Settled
    <3>2. graphs'[<<f, k>>] = graphs[<<f, k>>]
      BY <1>7, <3>1
    <3> QED  BY <2>1, <2>2, <2>4, <3>2
  <2> QED  BY <2>3, <2>4
<1> QED  BY <1>1, <1>8, <1>9, <1>10, <1>11 DEF NamesInv

LEMMA MakeStubNames == QueueInv /\ NamesInv /\ MakeStub => NamesInv'
<1> SUFFICES ASSUME QueueInv, NamesInv, MakeStub PROVE NamesInv'
  OBVIOUS
<1> DEFINE stub == <<CallSpec, Key>>
           g == [graphs[Id(CallSpec)] EXCEPT !.key = Key, !.name = stub]
<1>1. /\ at # Idle /\ at.phase = "specialize" /\ Call.name \in DOMAIN specs
      /\ Key \notin DOMAIN cache[CallSpec]
  BY DEF MakeStub, Specializes, AtCall, Idle, HasVariant
<1>2. CallSpec \in DOMAIN cache /\ Id(CallSpec) \in DOMAIN graphs
  BY <1>1 DEF QueueInv, SpecsInv, CallSpec, Settled
<1>3. stub \notin Settled /\ Settled = DOMAIN graphs
  BY <1>1 DEF QueueInv, CacheInv, Settled
<1>4. /\ DOMAIN graphs' = DOMAIN graphs \union {stub}
      /\ graphs'[stub] = g
      /\ \A id \in DOMAIN graphs : graphs'[id] = graphs[id]
  <2>1. graphs' = Put(graphs, stub, g)
    BY DEF MakeStub
  <2> HIDE DEF stub, g
  <2> QED  BY <1>3, <2>1 DEF Put
<1>5. at'.phase = "stub" /\ at'.stub = stub
  <2>1. "phase" \in DOMAIN at
    BY <1>1 DEF QueueInv, AtInv
  <2>2. at' = Put([at EXCEPT !.phase = "stub"], "stub", stub)
    BY DEF MakeStub
  <2> HIDE DEF stub
  <2> QED  BY <2>1, <2>2 DEF Put
<1>6. UNCHANGED <<by_name, cache>>
  BY DEF MakeStub
<1>7. Settled' = Settled
  BY <1>3, <1>4, <1>5 DEF Settled
<1>8. g.name = stub /\ g.key = Key /\ g.base = CallSpec /\ g.type = Wide
  <2>1. /\ DOMAIN graphs[Id(CallSpec)] = GraphFields
        /\ graphs[Id(CallSpec)].base = CallSpec
    BY <1>2 DEF QueueInv, GraphsInv
  <2>2. graphs[Id(CallSpec)].type = Wide
    BY <1>2 DEF NamesInv, Shapes, Id
  <2> QED  BY <2>1, <2>2 DEF GraphFields
<1>9. Shapes'
  <2> HIDE DEF g
  <2> QED  BY <1>4, <1>8 DEF NamesInv, Shapes, NameOf
<1>10. \A id \in Settled : graphs'[id] = graphs[id]
  BY <1>3, <1>4
<1>11. at'.phase = "stub" => graphs'[at'.stub].type = Wide
  BY <1>4, <1>5, <1>8
<1> HIDE DEF stub, g
<1> QED  BY <1>6, <1>7, <1>9, <1>10, <1>11 DEF NamesInv

LEMMA FinishStubNames == QueueInv /\ NamesInv /\ FinishStub => NamesInv'
<1> SUFFICES ASSUME QueueInv, NamesInv, FinishStub PROVE NamesInv'
  OBVIOUS
<1> DEFINE copy == [graphs[at.stub] EXCEPT !.removable = 0]
           stub == IF ReturnsMachineInt(copy)
                   THEN [copy EXCEPT !.name = Append(@, Narrow), !.type = Narrow]
                   ELSE copy
           entry == [graph |-> at.stub, type |-> stub.type]
           base == graphs[at.stub].base
           key == graphs[at.stub].key
<1>1. /\ at.phase = "stub" /\ at.stub \in DOMAIN graphs
      /\ at.stub = <<base, key>> /\ base \in DOMAIN cache
      /\ "phase" \in DOMAIN at
  BY DEF FinishStub, Idle, QueueInv, AtInv
<1>2. DOMAIN graphs[at.stub] = GraphFields
  BY <1>1 DEF QueueInv, GraphsInv
<1>3. graphs[at.stub].type = Wide /\ graphs[at.stub].name = at.stub
  BY <1>1 DEF NamesInv, Shapes, NameOf
<1>4. /\ DOMAIN copy = GraphFields /\ copy.base = base /\ copy.key = key
      /\ copy.name = at.stub /\ copy.type = Wide
  BY <1>2, <1>3 DEF GraphFields
<1>5. /\ stub.base = base /\ stub.key = key
      /\ stub.type \in {Wide, Narrow} /\ stub.name = NameOf(at.stub, stub.type)
  <2> HIDE DEF copy, base, key
  <2>1. CASE ReturnsMachineInt(copy)
    <3> DEFINE named == [copy EXCEPT !.name = Append(@, Narrow), !.type = Narrow]
    <3>1. stub = named  BY <2>1
    <3> HIDE DEF stub
    <3>2. /\ named.base = copy.base /\ named.key = copy.key /\ named.type = Narrow
          /\ named.name = Append(copy.name, Narrow)
      BY <1>4 DEF GraphFields
    <3> QED  BY <1>4, <3>1, <3>2 DEF NameOf, Narrow, Wide
  <2>2. CASE ~ ReturnsMachineInt(copy)
    <3>1. stub = copy  BY <2>2
    <3> HIDE DEF stub
    <3> QED  BY <1>4, <3>1 DEF NameOf
  <2> QED  BY <2>1, <2>2
<1>6. /\ graphs' = [graphs EXCEPT ![at.stub] = stub]
      /\ cache' = [cache EXCEPT ![stub.base] = Put(@, stub.key, entry)]
      /\ by_name' = Put(by_name, stub.name, at.stub)
      /\ at' = [at EXCEPT !.phase = "specialize"]
  BY DEF FinishStub
<1>7. entry.graph = at.stub /\ entry.type = stub.type /\ DOMAIN entry = {"graph", "type"}
  OBVIOUS
<1> HIDE DEF copy, stub, entry, base, key
<1>8. /\ DOMAIN graphs' = DOMAIN graphs /\ graphs'[at.stub] = stub
      /\ \A id \in DOMAIN graphs : id # at.stub => graphs'[id] = graphs[id]
  BY <1>1, <1>6
<1>9. at'.phase = "specialize"
  BY <1>1, <1>6
<1>10. /\ Settled' = Settled \union {at.stub} /\ at.stub \notin Settled
       /\ Settled \subseteq DOMAIN graphs
  BY <1>1, <1>8, <1>9 DEF Settled
<1>11. Shapes'
  BY <1>1, <1>5, <1>8 DEF NamesInv, Shapes
<1>12. \A id \in Settled' : /\ graphs'[id].name \in DOMAIN by_name'
                            /\ by_name'[graphs'[id].name] = id
  <2>1. /\ DOMAIN by_name' = DOMAIN by_name \union {stub.name}
        /\ by_name'[stub.name] = at.stub
        /\ \A name \in DOMAIN by_name : name # stub.name => by_name'[name] = by_name[name]
    BY <1>6 DEF Put
  <2>2. ASSUME NEW id \in Settled
        PROVE  graphs'[id].name \in DOMAIN by_name' /\ by_name'[graphs'[id].name] = id
    <3>1. id \in DOMAIN graphs /\ id # at.stub /\ graphs'[id] = graphs[id]
      BY <1>8, <1>10
    <3>2. graphs[id].name # stub.name
      <4>1. graphs[id].name # at.stub /\ graphs[id].name # Append(at.stub, Narrow)
        <5>1. Shapes /\ \E b, k : at.stub = <<b, k>>
          BY <1>1 DEF NamesInv
        <5> QED  BY <3>1, <5>1, NamesDiffer
      <4> QED  BY <1>5, <4>1 DEF NameOf
    <3>3. graphs[id].name \in DOMAIN by_name /\ by_name[graphs[id].name] = id
      BY DEF NamesInv
    <3> QED  BY <2>1, <3>1, <3>2, <3>3
  <2> QED  BY <1>8, <1>10, <2>1, <2>2
<1>13. \A f \in DOMAIN cache' : \A k \in DOMAIN cache'[f] :
        /\ DOMAIN cache'[f][k] = {"graph", "type"}
        /\ cache'[f][k].graph = <<f, k>> /\ <<f, k>> \in Settled'
        /\ cache'[f][k].type = graphs'[<<f, k>>].type
  <2>1. /\ DOMAIN cache' = DOMAIN cache
        /\ DOMAIN cache'[base] = DOMAIN cache[base] \union {key}
        /\ cache'[base][key] = entry
        /\ \A k \in DOMAIN cache[base] : k # key => cache'[base][k] = cache[base][k]
        /\ \A f \in DOMAIN cache : f # base => cache'[f] = cache[f]
    BY <1>1, <1>5, <1>6 DEF Put
  <2> SUFFICES ASSUME NEW f \in DOMAIN cache, NEW k \in DOMAIN cache'[f]
               PROVE  /\ DOMAIN cache'[f][k] = {"graph", "type"}
                      /\ cache'[f][k].graph = <<f, k>> /\ <<f, k>> \in Settled'
                      /\ cache'[f][k].type = graphs'[<<f, k>>].type
    BY <2>1
  <2>2. CASE f = base /\ k = key
    BY <1>1, <1>7, <1>8, <1>10, <2>1, <2>2
  <2>3. CASE ~ (f = base /\ k = key)
    <3>1. k \in DOMAIN cache[f] /\ cache'[f][k] = cache[f][k]
      BY <2>1, <2>3
    <3>2. /\ DOMAIN cache[f][k] = {"graph", "type"}
          /\ cache[f][k].graph = <<f, k>> /\ <<f, k>> \in Settled
          /\ cache[f][k].type = graphs[<<f, k>>].type
      BY <3>1 DEF NamesInv
    <3>3. graphs'[<<f, k>>] = graphs[<<f, k>>]
      BY <1>8, <1>10, <3>2
    <3> QED  BY <1>10, <3>1, <3>2, <3>3
  <2> QED  BY <2>2, <2>3
<1> QED  BY <1>9, <1>11, <1>12, <1>13 DEF NamesInv

LEMMA NextNames == QueueInv /\ NamesInv /\ [Next]_vars => NamesInv'
<1> SUFFICES ASSUME QueueInv, NamesInv, [Next]_vars PROVE NamesInv'
  OBVIOUS
<1>1. at.phase = "stub" => at.stub \in DOMAIN graphs
  <2>1. Idle.phase = "idle"  BY DEF Idle
  <2> QED  BY <2>1 DEF QueueInv, AtInv
<1>2. ASSUME UNCHANGED <<graphs, by_name, cache>>,
             SamePlace \/ UNCHANGED at \/ (at.phase # "stub" /\ at'.phase # "stub")
      PROVE  NamesInv'
  BY <1>1, <1>2, NamesKept
<1>3. ASSUME NEW id \in DOMAIN graphs, NEW g,
             DOMAIN g = GraphFields, g.base = graphs[id].base, g.key = graphs[id].key,
             g.name = graphs[id].name, g.type = graphs[id].type,
             graphs' = [graphs EXCEPT ![id] = g], UNCHANGED <<by_name, cache>>,
             SamePlace \/ UNCHANGED at \/ (at.phase # "stub" /\ at'.phase # "stub")
      PROVE  NamesInv'
  <2>1. DOMAIN graphs' = DOMAIN graphs
    BY <1>3
  <2>2. \A i \in DOMAIN graphs :
          /\ graphs'[i].base = graphs[i].base /\ graphs'[i].key = graphs[i].key
          /\ graphs'[i].name = graphs[i].name /\ graphs'[i].type = graphs[i].type
    BY <1>3
  <2> QED  BY <1>1, <1>3, <2>1, <2>2, NamesKept
<1>4. ASSUME at # Idle
      PROVE  /\ Current \in DOMAIN graphs /\ Optimized \in DOMAIN graphs
             /\ DOMAIN graphs[Current] = GraphFields
             /\ DOMAIN graphs[Optimized] = GraphFields
             /\ "phase" \in DOMAIN at
  BY <1>4, GraphsKnown DEF QueueInv, GraphsInv, AtInv
<1>5. CASE Pop
  BY <1>2, <1>5 DEF Pop
<1>6. CASE InlineCall
  <2>1. at # Idle  BY <1>6 DEF InlineCall, Optimizing, Idle
  <2>2. PICK k, callee : graphs' = [graphs EXCEPT ![Optimized] =
                                      WithBody(graphs[Optimized], k, callee)]
    BY <1>4, <1>6, <2>1 DEF InlineCall
  <2> DEFINE g == WithBody(graphs[Optimized], k, callee)
  <2>3. /\ DOMAIN g = GraphFields /\ g.base = graphs[Optimized].base
        /\ g.key = graphs[Optimized].key /\ g.name = graphs[Optimized].name
        /\ g.type = graphs[Optimized].type
    BY <1>4, <2>1 DEF WithBody, GraphFields
  <2>4. UNCHANGED <<by_name, cache>> /\ SamePlace
    BY <1>6, InlineCallPlace DEF InlineCall
  <2> HIDE DEF g
  <2> QED  BY <1>3, <1>4, <2>1, <2>2, <2>3, <2>4 DEF g
<1>7. CASE EndOptimize
  <2>1. at # Idle /\ at.phase # "stub"  BY <1>7 DEF EndOptimize, Idle
  <2> DEFINE g == [graphs[Current] EXCEPT !.removable = 0]
  <2>2. graphs' = [graphs EXCEPT ![Current] = g]
    BY <1>4, <1>7, <2>1 DEF EndOptimize
  <2>3. /\ DOMAIN g = GraphFields /\ g.base = graphs[Current].base
        /\ g.key = graphs[Current].key /\ g.name = graphs[Current].name
        /\ g.type = graphs[Current].type
    BY <1>4, <2>1 DEF GraphFields
  <2>4. UNCHANGED <<by_name, cache>>
    BY <1>7 DEF EndOptimize
  <2>5. at'.phase \in {"specialize", "finish"}
    BY <1>7, EndOptimizePlace
  <2> HIDE DEF g
  <2> QED  BY <1>3, <1>4, <2>1, <2>2, <2>3, <2>4, <2>5
<1>8. CASE UseVariant
  <2>1. at # Idle /\ at.phase = "specialize"
    BY <1>8 DEF UseVariant, Specializes, AtCall, Idle
  <2>2. PICK calls : graphs' = [graphs EXCEPT ![Current] = [graphs[Current] EXCEPT !.calls = calls]]
    BY <1>4, <1>8, <2>1 DEF UseVariant
  <2> DEFINE g == [graphs[Current] EXCEPT !.calls = calls]
  <2>3. /\ DOMAIN g = GraphFields /\ g.base = graphs[Current].base
        /\ g.key = graphs[Current].key /\ g.name = graphs[Current].name
        /\ g.type = graphs[Current].type
    BY <1>4, <2>1 DEF GraphFields
  <2>4. UNCHANGED <<by_name, cache>> /\ at'.phase = "specialize"
    BY <1>8, <2>1 DEF UseVariant
  <2> HIDE DEF g
  <2> QED  BY <1>3, <1>4, <2>1, <2>2, <2>3, <2>4 DEF g
<1>9. CASE LeaveCall
  <2>1. at.phase = "specialize" /\ at'.phase = "specialize"
    BY <1>9 DEF LeaveCall, AtCall
  <2> QED  BY <1>2, <1>9, <2>1 DEF LeaveCall
<1>10. CASE EndSweep
  <2>1. at.phase = "specialize" /\ at # Idle
    BY <1>10 DEF EndSweep, Idle
  <2>2. at'.phase = "reoptimize"
    BY <1>4, <1>10, <2>1 DEF EndSweep
  <2> QED  BY <1>2, <1>10, <2>1, <2>2 DEF EndSweep
<1>11. CASE FinishInlinable
  BY <1>2, <1>11 DEF FinishInlinable, Idle
<1>12. CASE Finish
  BY <1>2, <1>12 DEF Finish, Idle
<1>13. CASE UNCHANGED vars
  BY <1>2, <1>13 DEF vars
<1> QED
  BY <1>5, <1>6, <1>7, <1>8, <1>9, <1>10, <1>11, <1>12, <1>13, MakeStubNames,
     FinishStubNames, RenamedNames DEF Next

\* For every set of programs and every bound: graphs are found under their
\* names, although names change while calls of the old ones are around, and
\* the cache has the type that each variant returns.
THEOREM NamesStayConsistent == Spec => []NamesConsistent
<1>1. QueueInv /\ NamesInv => NamesConsistent
  <2> SUFFICES ASSUME QueueInv, NamesInv PROVE NamesConsistent
    OBVIOUS
  <2>1. \A id \in DOMAIN graphs : (at.phase = "stub" /\ id = at.stub) \/ id \in Settled
    BY DEF Settled
  <2> QED  BY <2>1 DEF NamesInv, NamesConsistent
<1> QED  BY <1>1, InitQueue, NextQueue, InitNames, NextNames, PTL DEF Spec
-----------------------------------------------------------------------------
(***************************************************************************)
(* Calls.  A call has the name that its callee has, or had before it was   *)
(* known to return a machine integer.                                      *)
(***************************************************************************)

FunctionNames == {fn.name : fn \in ToSet(Functions)}

IsVariantName(name) == Len(name) > 1

\* the graph that has, or had, the name
TargetOf(name) == IF IsVariantName(name) THEN <<name[1], name[2]>> ELSE name

CallFields == {"id", "name", "arg", "type"}

CallsFormed(s) ==
  /\ s \in Seq(ToSet(s))
  /\ \A k \in DOMAIN s :
       /\ DOMAIN s[k] = CallFields
       /\ s[k].id \in Seq(Nat) /\ s[k].type \in {Wide, Narrow}
       /\ Earlier(s, s[k].arg, k - 1)
       /\ \A j \in DOMAIN s \ {k} : Apart(s[j].id, s[k].id)

BodyFormed(g) == CallsFormed(g.calls) /\ Earlier(g.calls, g.ret, Len(g.calls))

\* a variant for machine integers is called with one
Fits(g, c) == IsVariantName(c.name) /\ c.name[2] = Narrow => IsMachineInt(g, c.arg)

\* the callee has, or had, the name and the type that the call expects
Known(c) ==
  /\ TargetOf(c.name) \in Settled
  /\ c.name = NameOf(TargetOf(c.name), c.type)
  /\ c.type = Narrow => graphs[TargetOf(c.name)].type = Narrow
  /\ IsVariantName(c.name) => c.name \in DOMAIN specs

\* graph g is called id
GraphFormed(id, g) ==
  /\ BodyFormed(g) /\ g.key \in Keys
  /\ ~ IsVariantName(id) => g.key = Wide
  /\ IsVariantName(id) /\ g.key = Wide => Named(g.base).result = "int"
  /\ g.type = Narrow => IsMachineInt(g, g.ret)
  /\ \A k \in DOMAIN g.calls : Fits(g, g.calls[k])

CallsInv ==
  \A id \in DOMAIN graphs :
    /\ GraphFormed(id, graphs[id])
    /\ \A k \in DOMAIN graphs[id].calls : Known(graphs[id].calls[k])

VariantsInv ==
  /\ \A f \in FunctionNames : Id(f) \in DOMAIN graphs
  /\ \A id \in Settled : IsVariantName(id) => graphs[id].name \in DOMAIN specs
  /\ \A f \in DOMAIN cache : DOMAIN cache[f] \subseteq Keys
  /\ \A name \in DOMAIN inlinable :
       inlinable[name] \in Settled /\ TargetOf(name) = inlinable[name]

CodeInv == CallsInv /\ VariantsInv

(***************************************************************************)
(* The work that is left.                                                  *)
(***************************************************************************)

Resolved(c) == c.type = graphs[TargetOf(c.name)].type

\* the graph will be optimized again when the callee changes
Noted(id, c) ==
  IF IsVariantName(c.name) THEN id \in dependencies[c.name[1]]
  ELSE c.name \in DOMAIN inline_dependencies /\ id \in inline_dependencies[c.name]

\* the call is to what the callee is called now, and the callee knows about it
Heeded(id, c) == IsOwnVariant(id, c) \/ (Resolved(c) /\ Noted(id, c))

Settles(id, c) ==
  IsOwnVariant(id, c) \/ (Resolved(c) /\ Noted(id, c) /\ c.name \notin DOMAIN inlinable)

Clean(id) == \A k \in DOMAIN graphs[id].calls : Settles(id, graphs[id].calls[k])

\* the graph is or was inlined everywhere
IsInlined(id) == \E name \in DOMAIN inlinable : TargetOf(name) = id

\* the calls before the one that the sweep is at
SweepInv ==
  at.phase \in {"specialize", "stub"} =>
    /\ at.index \in Nat \ {0}
    /\ \A k \in DOMAIN CurrentGraph.calls :
         /\ k < at.index => Heeded(Current, CurrentGraph.calls[k])
         /\ ~ IsVariantName(CurrentGraph.calls[k].name) =>
              Noted(Current, CurrentGraph.calls[k])
         /\ CurrentGraph.calls[k].name \in DOMAIN inlinable => at.redirected

PhaseInv ==
  /\ at.phase = "optimize" => ~ at.redirected
  /\ at.phase = "reoptimize" /\ ~ at.redirected =>
       /\ Clean(Current)
       /\ \A k \in DOMAIN CurrentGraph.calls :
            CurrentGraph.calls[k].name \notin DOMAIN inlinable
  /\ at.phase = "finish" => IsInlined(Current) \/ Clean(Current)

\* a graph that is not on the work list is inlined, or nothing is left to do
RestInv ==
  \A id \in Settled :
    \/ id \in todo_set
    \/ at # Idle /\ id = Current
    \/ IsInlined(id)
    \/ Clean(id)

WorkInv == SweepInv /\ PhaseInv /\ RestInv

-----------------------------------------------------------------------------
(***************************************************************************)
(* A body in the place of a call.                                          *)
(***************************************************************************)

LEMMA Joined ==
  ASSUME NEW S, NEW s \in Seq(S), NEW t \in Seq(S)
  PROVE  /\ s \o t \in Seq(S) /\ Len(s \o t) = Len(s) + Len(t)
         /\ DOMAIN (s \o t) = 1 .. Len(s) + Len(t)
         /\ \A i \in 1 .. Len(s) : (s \o t)[i] = s[i]
         /\ \A i \in 1 .. Len(t) : (s \o t)[Len(s) + i] = t[i]
<1>1. /\ s \o t \in Seq(S) /\ Len(s \o t) = Len(s) + Len(t)
      /\ Len(s) \in Nat /\ Len(t) \in Nat
      /\ DOMAIN (s \o t) = 1 .. Len(s) + Len(t)
      /\ \A i \in 1 .. Len(s) + Len(t) :
           (s \o t)[i] = IF i <= Len(s) THEN s[i] ELSE t[i - Len(s)]
  OBVIOUS
<1> QED  BY <1>1

LEMMA ApartExtended ==
  ASSUME NEW x \in Seq(Nat), NEW y \in Seq(Nat), NEW z \in Seq(Nat), Apart(x, y)
  PROVE  Apart(x \o z, y) /\ Apart(y, x \o z) /\ Apart(z \o x, z \o y)
<1>1. PICK i \in DOMAIN x \intersect DOMAIN y : x[i] # y[i]
  BY DEF Apart
<1>2. i \in 1 .. Len(x) /\ i \in 1 .. Len(y) /\ Len(x) \in Nat /\ Len(y) \in Nat
      /\ Len(z) \in Nat
  BY <1>1
<1>3. i \in DOMAIN (x \o z) /\ (x \o z)[i] = x[i]
  <2> HIDE <1>1
  <2>1. DOMAIN (x \o z) = 1 .. Len(x) + Len(z) /\ (x \o z)[i] = x[i]
    BY <1>2, Joined
  <2> QED  BY <1>2, <2>1
<1>4. Apart(x \o z, y) /\ Apart(y, x \o z)
  BY <1>1, <1>3 DEF Apart
<1>5. /\ Len(z) + i \in DOMAIN (z \o x) /\ (z \o x)[Len(z) + i] = x[i]
      /\ Len(z) + i \in DOMAIN (z \o y) /\ (z \o y)[Len(z) + i] = y[i]
  <2> HIDE <1>1
  <2>1. /\ DOMAIN (z \o x) = 1 .. Len(z) + Len(x)
        /\ DOMAIN (z \o y) = 1 .. Len(z) + Len(y)
        /\ (z \o x)[Len(z) + i] = x[i] /\ (z \o y)[Len(z) + i] = y[i]
    BY <1>2, Joined
  <2> QED  BY <1>2, <2>1
<1>6. Apart(z \o x, z \o y)
  BY <1>1, <1>5 DEF Apart
<1> QED  BY <1>4, <1>6

\* s with t in the place of its k-th element
Spliced(s, k, t) == SubSeq(s, 1, k - 1) \o t \o SubSeq(s, k + 1, Len(s))

LEMMA After ==
  ASSUME NEW S, NEW s \in Seq(S), NEW k \in 1 .. Len(s)
  PROVE  LET b == SubSeq(s, k + 1, Len(s))
         IN  /\ b \in Seq(S) /\ Len(b) = Len(s) - k
             /\ \A i \in 1 .. Len(s) - k : b[i] = s[k + i]
<1> DEFINE b == SubSeq(s, k + 1, Len(s))
           n == Len(s) - k
<1>1. Len(s) \in Nat /\ k \in Nat /\ 1 <= k /\ k <= Len(s) /\ n \in Nat
  OBVIOUS
<1>2. b = [i \in 1 .. Len(s) - (k + 1) + 1 |-> s[i + (k + 1) - 1]]
  BY <1>1
<1>3. Len(s) - (k + 1) + 1 = n
  BY <1>1
<1>4. \A i \in 1 .. n : i + (k + 1) - 1 = k + i /\ k + i \in 1 .. Len(s)
  BY <1>1
<1>5. \A i \in 1 .. n : s[k + i] \in S
  BY <1>4
<1> HIDE DEF b, n
<1>6. b = [i \in 1 .. n |-> s[k + i]]
  BY <1>2, <1>3, <1>4
<1>7. b \in [1 .. n -> S]
  BY <1>5, <1>6
<1>8. b \in Seq(S) /\ Len(b) = n
  BY <1>1, <1>7
<1> QED  BY <1>6, <1>8 DEF b, n

LEMMA Splice ==
  ASSUME NEW S, NEW s \in Seq(S), NEW t \in Seq(S), NEW k \in 1 .. Len(s)
  PROVE  LET r == Spliced(s, k, t)
         IN  /\ r \in Seq(S) /\ Len(r) = Len(s) - 1 + Len(t)
             /\ \A i \in 1 .. k - 1 : r[i] = s[i]
             /\ \A i \in 1 .. Len(t) : r[k - 1 + i] = t[i]
             /\ \A i \in k + 1 .. Len(s) : r[i - 1 + Len(t)] = s[i]
<1> DEFINE a == SubSeq(s, 1, k - 1)
           b == SubSeq(s, k + 1, Len(s))
<1>1. Len(s) \in Nat /\ Len(t) \in Nat /\ k \in Nat /\ 1 <= k /\ k <= Len(s)
  OBVIOUS
<1>2. /\ a \in Seq(S) /\ Len(a) = k - 1
      /\ \A i \in 1 .. k - 1 : a[i] = s[i]
  BY <1>1
<1>3. /\ b \in Seq(S) /\ Len(b) = Len(s) - k
      /\ \A i \in 1 .. Len(s) - k : b[i] = s[k + i]
  BY After
<1>4. Spliced(s, k, t) = (a \o t) \o b
  BY DEF Spliced
<1> HIDE DEF a, b
<1> DEFINE c == a \o t
<1>5. /\ c \in Seq(S) /\ Len(c) = Len(a) + Len(t)
      /\ \A i \in 1 .. Len(a) : c[i] = a[i]
      /\ \A i \in 1 .. Len(t) : c[Len(a) + i] = t[i]
  <2>1. c \in Seq(S) /\ Len(c) = Len(a) + Len(t)
    BY <1>2, Joined, ZenonT(30)
  <2>2. \A i \in 1 .. Len(a) : c[i] = a[i]
    BY <1>2, Joined, SMTT(30)
  <2>3. \A i \in 1 .. Len(t) : c[Len(a) + i] = t[i]
    BY <1>2, Joined, SMTT(30)
  <2> QED  BY <2>1, <2>2, <2>3
<1> HIDE DEF c
<1> DEFINE r == c \o b
<1>6. /\ r \in Seq(S) /\ Len(r) = Len(c) + Len(b)
      /\ \A i \in 1 .. Len(c) : r[i] = c[i]
      /\ \A i \in 1 .. Len(b) : r[Len(c) + i] = b[i]
  <2>1. r \in Seq(S) /\ Len(r) = Len(c) + Len(b)
    BY <1>3, <1>5, Joined, ZenonT(30)
  <2>2. \A i \in 1 .. Len(c) : r[i] = c[i]
    BY <1>3, <1>5, Joined, SMTT(30)
  <2>3. \A i \in 1 .. Len(b) : r[Len(c) + i] = b[i]
    BY <1>3, <1>5, Joined, SMTT(30)
  <2> QED  BY <2>1, <2>2, <2>3
<1> HIDE DEF r
<1>7. Len(a) = k - 1 /\ Len(b) = Len(s) - k /\ Len(c) = k - 1 + Len(t)
  BY <1>2, <1>3, <1>5
<1>8. \A i \in 1 .. k - 1 : r[i] = s[i]
  <2> TAKE i \in 1 .. k - 1
  <2>1. i \in 1 .. Len(a) /\ i \in 1 .. Len(c)
    BY <1>1, <1>7
  <2> QED  BY <1>2, <1>5, <1>6, <2>1
<1>9. \A i \in 1 .. Len(t) : r[k - 1 + i] = t[i]
  <2> TAKE i \in 1 .. Len(t)
  <2>1. k - 1 + i \in 1 .. Len(c) /\ k - 1 + i = Len(a) + i
    BY <1>1, <1>7
  <2> QED  BY <1>5, <1>6, <2>1
<1>10. \A i \in k + 1 .. Len(s) : r[i - 1 + Len(t)] = s[i]
  <2> TAKE i \in k + 1 .. Len(s)
  <2>1. /\ i - k \in 1 .. Len(b) /\ i - 1 + Len(t) = Len(c) + (i - k)
        /\ k + (i - k) = i /\ i - k \in 1 .. Len(s) - k
    BY <1>1, <1>7
  <2> QED  BY <1>3, <1>6, <2>1
<1>11. Len(r) = Len(s) - 1 + Len(t)
  BY <1>1, <1>6, <1>7
<1> QED  BY <1>4, <1>6, <1>8, <1>9, <1>10, <1>11 DEF c, r

\* a sequence has its elements
LEMMA OwnElements ==
  ASSUME NEW S, NEW s \in Seq(S)
  PROVE  s \in Seq(ToSet(s)) /\ DOMAIN s = 1 .. Len(s) /\ Len(s) \in Nat
<1>1. DOMAIN s = 1 .. Len(s) /\ Len(s) \in Nat /\ s \in [1 .. Len(s) -> S]
  OBVIOUS
<1>2. s \in [1 .. Len(s) -> ToSet(s)]
  BY <1>1 DEF ToSet
<1> QED  BY <1>1, <1>2

\* the call c is d with another id and argument
Like(c, d, id, arg) ==
  /\ DOMAIN c = CallFields
  /\ c.id = id /\ c.arg = arg /\ c.name = d.name /\ c.type = d.type

\* a value of g after the inlining of callee for call
Renamed(v, call, callee) ==
  IF v = call.id THEN InCaller(callee.ret, call) ELSE v

\* h is g with its k-th call replaced by the body of callee
IsInlining(g, k, callee, h) ==
  LET call == g.calls[k]
      l == Len(g.calls)
      m == Len(callee.calls)
  IN  /\ h.calls \in Seq(ToSet(h.calls)) /\ Len(h.calls) = l - 1 + m
      /\ \A i \in 1 .. k - 1 :
           Like(h.calls[i], g.calls[i], g.calls[i].id,
                Renamed(g.calls[i].arg, call, callee))
      /\ \A i \in 1 .. m :
           Like(h.calls[k - 1 + i], callee.calls[i], call.id \o callee.calls[i].id,
                InCaller(callee.calls[i].arg, call))
      /\ \A i \in k + 1 .. l :
           Like(h.calls[i - 1 + m], g.calls[i], g.calls[i].id,
                Renamed(g.calls[i].arg, call, callee))
      /\ h.ret = Renamed(g.ret, call, callee)
      /\ h.key = g.key /\ h.base = g.base /\ h.name = g.name /\ h.type = g.type

LEMMA WithBodyInlines ==
  ASSUME NEW g, DOMAIN g = GraphFields, BodyFormed(g),
         NEW callee, BodyFormed(callee), NEW k \in DOMAIN g.calls
  PROVE  IsInlining(g, k, callee, WithBody(g, k, callee))
<1> DEFINE call == g.calls[k]
           l == Len(g.calls)
           m == Len(callee.calls)
           outer == [j \in DOMAIN g.calls |->
                       [g.calls[j] EXCEPT !.arg = Renamed(g.calls[j].arg, call, callee)]]
           inner == [j \in DOMAIN callee.calls |->
                       [callee.calls[j] EXCEPT !.id = call.id \o @,
                                               !.arg = InCaller(@, call)]]
           S == ToSet(outer) \union ToSet(inner)
           h == WithBody(g, k, callee)
<1>1. /\ DOMAIN g.calls = 1 .. l /\ l \in Nat
      /\ DOMAIN callee.calls = 1 .. m /\ m \in Nat
  BY OwnElements DEF BodyFormed, CallsFormed
<1>2. \A j \in 1 .. l :
        Like(outer[j], g.calls[j], g.calls[j].id, Renamed(g.calls[j].arg, call, callee))
  <2> TAKE j \in 1 .. l
  <2>1. DOMAIN g.calls[j] = CallFields
    BY <1>1 DEF BodyFormed, CallsFormed
  <2>2. outer[j] = [g.calls[j] EXCEPT !.arg = Renamed(g.calls[j].arg, call, callee)]
    BY <1>1
  <2> DEFINE arg == Renamed(g.calls[j].arg, call, callee)
  <2> HIDE DEF outer, arg
  <2> QED  BY <2>1, <2>2 DEF Like, CallFields, arg
<1>3. \A j \in 1 .. m :
        Like(inner[j], callee.calls[j], call.id \o callee.calls[j].id,
             InCaller(callee.calls[j].arg, call))
  <2> TAKE j \in 1 .. m
  <2>1. DOMAIN callee.calls[j] = CallFields
    BY <1>1 DEF BodyFormed, CallsFormed
  <2> DEFINE id == call.id \o callee.calls[j].id
             arg == InCaller(callee.calls[j].arg, call)
  <2>2. inner[j] = [callee.calls[j] EXCEPT !.id = id, !.arg = arg]
    BY <1>1
  <2> HIDE DEF inner, id, arg
  <2> QED  BY <2>1, <2>2 DEF Like, CallFields, id, arg
<1>4. outer \in Seq(S) /\ Len(outer) = l
  <2>1. outer \in [1 .. l -> ToSet(outer)]
    BY <1>1 DEF ToSet
  <2> HIDE DEF outer, inner
  <2> QED  BY <1>1, <2>1
<1>5. inner \in Seq(S) /\ Len(inner) = m
  <2>1. inner \in [1 .. m -> ToSet(inner)]
    BY <1>1 DEF ToSet
  <2> HIDE DEF outer, inner
  <2> QED  BY <1>1, <2>1
<1>6. /\ h.calls = Spliced(outer, k, inner)
      /\ h.ret = Renamed(g.ret, call, callee)
      /\ h.key = g.key /\ h.base = g.base /\ h.name = g.name /\ h.type = g.type
  BY DEF WithBody, GraphFields, Renamed, Spliced
<1>7. k \in 1 .. Len(outer)
  BY <1>1, <1>4
<1> HIDE DEF outer, inner, S, h
<1> DEFINE r == Spliced(outer, k, inner)
<1>8. /\ r \in Seq(S) /\ Len(r) = Len(outer) - 1 + Len(inner)
      /\ \A i \in 1 .. k - 1 : r[i] = outer[i]
      /\ \A i \in 1 .. Len(inner) : r[k - 1 + i] = inner[i]
      /\ \A i \in k + 1 .. Len(outer) : r[i - 1 + Len(inner)] = outer[i]
  BY <1>4, <1>5, <1>7, Splice
<1> HIDE DEF r
<1>9. r \in Seq(ToSet(r))
  BY <1>8, OwnElements
<1>10. h.calls = r
  BY <1>6 DEF r
<1>11. \A i \in 1 .. k - 1 :
         Like(h.calls[i], g.calls[i], g.calls[i].id, Renamed(g.calls[i].arg, call, callee))
  <2> TAKE i \in 1 .. k - 1
  <2>1. i \in 1 .. l
    BY <1>1
  <2> HIDE DEF call
  <2> QED  BY <1>2, <1>8, <1>10, <2>1
<1>12. \A i \in 1 .. m :
         Like(h.calls[k - 1 + i], callee.calls[i], call.id \o callee.calls[i].id,
              InCaller(callee.calls[i].arg, call))
  <2> HIDE DEF call
  <2> QED  BY <1>3, <1>5, <1>8, <1>10
<1>13. \A i \in k + 1 .. l :
         Like(h.calls[i - 1 + m], g.calls[i], g.calls[i].id,
              Renamed(g.calls[i].arg, call, callee))
  <2> TAKE i \in k + 1 .. l
  <2>1. i \in 1 .. l
    BY <1>1
  <2> HIDE DEF call
  <2> QED  BY <1>2, <1>4, <1>5, <1>8, <1>10, <2>1
<1> QED  BY <1>4, <1>5, <1>6, <1>8, <1>9, <1>10, <1>11, <1>12, <1>13 DEF IsInlining, h

LEMMA InliningLengths ==
  ASSUME NEW g, BodyFormed(g), NEW callee, BodyFormed(callee),
         NEW k \in DOMAIN g.calls, NEW h, IsInlining(g, k, callee, h)
  PROVE  /\ Len(g.calls) \in Nat /\ DOMAIN g.calls = 1 .. Len(g.calls)
         /\ Len(callee.calls) \in Nat /\ DOMAIN callee.calls = 1 .. Len(callee.calls)
         /\ k \in 1 .. Len(g.calls)
         /\ DOMAIN h.calls = 1 .. Len(h.calls)
<1>1. /\ Len(g.calls) \in Nat /\ DOMAIN g.calls = 1 .. Len(g.calls)
      /\ Len(callee.calls) \in Nat /\ DOMAIN callee.calls = 1 .. Len(callee.calls)
  BY OwnElements DEF BodyFormed, CallsFormed
<1>2. DOMAIN h.calls = 1 .. Len(h.calls)
  BY OwnElements DEF IsInlining
<1> QED  BY <1>1, <1>2

\* before, in and after the inlined body
LEMMA Places ==
  ASSUME NEW l \in Nat, NEW m \in Nat, NEW k \in 1 .. l, NEW n \in 1 .. l - 1 + m
  PROVE  \/ n \in 1 .. k - 1
         \/ \E i \in 1 .. m : n = k - 1 + i
         \/ \E i \in k + 1 .. l : n = i - 1 + m
<1>1. CASE n < k
  BY <1>1
<1>2. CASE k <= n /\ n <= k - 1 + m
  <2>1. n - (k - 1) \in 1 .. m /\ n = k - 1 + (n - (k - 1))
    BY <1>2
  <2> QED  BY <2>1
<1>3. CASE k - 1 + m < n
  <2>1. n + 1 - m \in k + 1 .. l /\ n = (n + 1 - m) - 1 + m
    BY <1>3
  <2> QED  BY <2>1
<1> QED  BY <1>1, <1>2, <1>3

\* ids are not values of other kinds, and those of two calls are not the same
LEMMA IdsDiffer ==
  ASSUME NEW s, CallsFormed(s)
  PROVE  /\ \A k \in DOMAIN s : s[k].id \notin {Number, Unknown, Param}
         /\ \A j, k \in DOMAIN s : s[j].id = s[k].id => j = k
<1>1. \A x : ~ Apart(x, x)
  BY DEF Apart
<1> QED  BY <1>1, CallsAssumption DEF CallsFormed

\* what is computed before the call is not changed
LEMMA ValueBefore ==
  ASSUME NEW g, BodyFormed(g), NEW callee, BodyFormed(callee),
         NEW k \in DOMAIN g.calls, NEW h, IsInlining(g, k, callee, h),
         NEW i \in 1 .. k, NEW v, Earlier(g.calls, v, i - 1)
  PROVE  /\ Renamed(v, g.calls[k], callee) = v
         /\ Earlier(h.calls, v, i - 1)
         /\ IsMachineInt(g, v) => IsMachineInt(h, v)
<1> DEFINE l == Len(g.calls)
           m == Len(callee.calls)
<1>1. /\ l \in Nat /\ m \in Nat /\ k \in 1 .. l
      /\ DOMAIN g.calls = 1 .. l /\ DOMAIN h.calls = 1 .. l - 1 + m
  <2>1. l \in Nat /\ m \in Nat /\ k \in 1 .. l /\ DOMAIN g.calls = 1 .. l
    BY InliningLengths
  <2>2. DOMAIN callee.calls = 1 .. m /\ DOMAIN h.calls = 1 .. Len(h.calls)
    BY InliningLengths
  <2>3. Len(h.calls) = l - 1 + m
    BY DEF IsInlining
  <2> HIDE DEF l, m
  <2> QED  BY <2>1, <2>2, <2>3
<1>2. \A j \in 1 .. k - 1 : /\ h.calls[j].id = g.calls[j].id
                            /\ h.calls[j].type = g.calls[j].type
  BY DEF IsInlining, Like
<1>3. h.key = g.key
  BY DEF IsInlining
<1>4. /\ \A j \in DOMAIN g.calls : g.calls[j].id \notin {Number, Unknown, Param}
      /\ \A a, b \in DOMAIN g.calls : g.calls[a].id = g.calls[b].id => a = b
  BY IdsDiffer DEF BodyFormed
<1> HIDE DEF l, m
<1>5. CASE v \in {Number, Unknown, Param}
  <2>1. v # g.calls[k].id
    BY <1>4, <1>5
  <2>2. Renamed(v, g.calls[k], callee) = v
    BY <2>1 DEF Renamed
  <2>3. Earlier(h.calls, v, i - 1)
    BY <1>5 DEF Earlier
  <2>4. IsMachineInt(g, v) => IsMachineInt(h, v)
    BY <1>3, <1>4, <1>5 DEF IsMachineInt
  <2> QED  BY <2>2, <2>3, <2>4
<1>6. ASSUME NEW j \in 1 .. i - 1, v = g.calls[j].id
      PROVE  /\ v # g.calls[k].id
             /\ Earlier(h.calls, v, i - 1)
             /\ IsMachineInt(g, v) => IsMachineInt(h, v)
  <2>1. j \in 1 .. l /\ j \in 1 .. k - 1 /\ j # k /\ j \in 1 .. l - 1 + m
    BY <1>1
  <2>2. v # g.calls[k].id
    BY <1>1, <1>4, <1>6, <2>1
  <2>3. h.calls[j].id = v /\ h.calls[j].type = g.calls[j].type
    BY <1>2, <1>6, <2>1
  <2>4. Earlier(h.calls, v, i - 1)
    BY <2>3 DEF Earlier
  <2>5. v \notin {Number, Unknown, Param}
    BY <1>1, <1>4, <1>6, <2>1
  <2>6. ASSUME IsMachineInt(g, v) PROVE IsMachineInt(h, v)
    <3>1. PICK a \in DOMAIN g.calls : g.calls[a].id = v /\ g.calls[a].type = Narrow
      BY <2>5, <2>6 DEF IsMachineInt
    <3>2. a = j
      BY <1>1, <1>4, <1>6, <2>1, <3>1
    <3> QED  BY <1>1, <2>1, <2>3, <3>1, <3>2 DEF IsMachineInt
  <2> QED  BY <2>2, <2>4, <2>6
<1> QED  BY <1>5, <1>6 DEF Earlier, Renamed

\* a value of the inlined body
LEMMA ValueInside ==
  ASSUME NEW g, BodyFormed(g), NEW callee, BodyFormed(callee),
         NEW k \in DOMAIN g.calls, NEW h, IsInlining(g, k, callee, h),
         NEW i \in 1 .. Len(callee.calls) + 1, NEW v,
         Earlier(callee.calls, v, i - 1)
  PROVE  /\ Earlier(h.calls, InCaller(v, g.calls[k]), k + i - 2)
         /\ (callee.key = Narrow => IsMachineInt(g, g.calls[k].arg)) =>
              (IsMachineInt(callee, v) => IsMachineInt(h, InCaller(v, g.calls[k])))
<1> DEFINE l == Len(g.calls)
           m == Len(callee.calls)
           call == g.calls[k]
           fits == callee.key = Narrow => IsMachineInt(g, call.arg)
<1>1. /\ l \in Nat /\ m \in Nat /\ k \in 1 .. l
      /\ DOMAIN g.calls = 1 .. l /\ DOMAIN h.calls = 1 .. l - 1 + m
      /\ DOMAIN callee.calls = 1 .. m
  <2>1. l \in Nat /\ m \in Nat /\ k \in 1 .. l /\ DOMAIN g.calls = 1 .. l
    BY InliningLengths
  <2>2. DOMAIN callee.calls = 1 .. m /\ DOMAIN h.calls = 1 .. Len(h.calls)
    BY InliningLengths
  <2>3. Len(h.calls) = l - 1 + m
    BY DEF IsInlining
  <2> HIDE DEF l, m
  <2> QED  BY <2>1, <2>2, <2>3
<1>2. \A j \in 1 .. m : /\ h.calls[k - 1 + j].id = call.id \o callee.calls[j].id
                        /\ h.calls[k - 1 + j].type = callee.calls[j].type
  BY DEF IsInlining, Like
<1>3. /\ \A j \in DOMAIN callee.calls : callee.calls[j].id \notin {Number, Unknown, Param}
      /\ \A a, b \in DOMAIN callee.calls :
           callee.calls[a].id = callee.calls[b].id => a = b
  BY IdsDiffer DEF BodyFormed
<1>4. Number # Param
  BY CallsAssumption
<1>5. Earlier(g.calls, call.arg, k - 1)
  BY DEF BodyFormed, CallsFormed
<1>6. /\ Earlier(h.calls, call.arg, k - 1)
      /\ IsMachineInt(g, call.arg) => IsMachineInt(h, call.arg)
  BY <1>1, <1>5, ValueBefore
<1> HIDE DEF l, m, call
<1>7. i \in 1 .. m + 1
  BY DEF m
<1>8. CASE v = Param
  <2>1. InCaller(v, call) = call.arg
    BY <1>8 DEF InCaller
  <2>2. Earlier(h.calls, call.arg, k + i - 2)
    <3>1. \A j \in 1 .. k - 1 : j \in 1 .. k + i - 2
      BY <1>1, <1>7
    <3> QED  BY <1>6, <3>1 DEF Earlier
  <2>3. IsMachineInt(callee, v) => callee.key = Narrow
    BY <1>3, <1>4, <1>8 DEF IsMachineInt, Narrow
  <2> QED  BY <1>6, <2>1, <2>2, <2>3 DEF call
<1>9. CASE v # Param /\ v \in {Number, Unknown}
  <2>1. InCaller(v, call) = v
    BY <1>9 DEF InCaller
  <2>2. IsMachineInt(callee, v) => v = Number
    BY <1>3, <1>9 DEF IsMachineInt
  <2>3. Earlier(h.calls, v, k + i - 2)
    BY <1>9 DEF Earlier
  <2> QED  BY <2>1, <2>2, <2>3 DEF IsMachineInt, call
<1>10. ASSUME NEW j \in 1 .. i - 1, v = callee.calls[j].id
       PROVE  /\ Earlier(h.calls, InCaller(v, call), k + i - 2)
              /\ IsMachineInt(callee, v) => IsMachineInt(h, InCaller(v, call))
  <2>1. /\ j \in 1 .. m /\ k - 1 + j \in 1 .. k + i - 2
        /\ k - 1 + j \in 1 .. l - 1 + m
    BY <1>1, <1>7
  <2>2. v \notin {Number, Unknown, Param}
    BY <1>1, <1>3, <1>10, <2>1
  <2>3. InCaller(v, call) = call.id \o v
    BY <2>2 DEF InCaller
  <2>4. /\ h.calls[k - 1 + j].id = InCaller(v, call)
        /\ h.calls[k - 1 + j].type = callee.calls[j].type
    BY <1>2, <1>10, <2>1, <2>3
  <2>5. Earlier(h.calls, InCaller(v, call), k + i - 2)
    BY <2>1, <2>4 DEF Earlier
  <2>6. ASSUME IsMachineInt(callee, v) PROVE IsMachineInt(h, InCaller(v, call))
    <3>1. PICK a \in DOMAIN callee.calls :
            callee.calls[a].id = v /\ callee.calls[a].type = Narrow
      BY <2>2, <2>6 DEF IsMachineInt
    <3>2. a = j
      BY <1>1, <1>3, <1>10, <2>1, <3>1
    <3> QED  BY <1>1, <2>1, <2>4, <3>1, <3>2 DEF IsMachineInt
  <2> QED  BY <2>5, <2>6
<1> QED  BY <1>8, <1>9, <1>10 DEF Earlier, call

\* a value that the calls after the inlined one use
LEMMA ValueAfter ==
  ASSUME NEW g, BodyFormed(g), NEW callee, BodyFormed(callee),
         NEW k \in DOMAIN g.calls, NEW h, IsInlining(g, k, callee, h),
         NEW i \in k + 1 .. Len(g.calls) + 1, NEW v, Earlier(g.calls, v, i - 1)
  PROVE  LET value == Renamed(v, g.calls[k], callee)
         IN  /\ Earlier(h.calls, value, i - 2 + Len(callee.calls))
             /\ /\ callee.key = Narrow => IsMachineInt(g, g.calls[k].arg)
                /\ g.calls[k].type = Narrow => IsMachineInt(callee, callee.ret)
                /\ IsMachineInt(g, v)
                => IsMachineInt(h, value)
<1> DEFINE l == Len(g.calls)
           m == Len(callee.calls)
           call == g.calls[k]
           value == Renamed(v, call, callee)
           fits == /\ callee.key = Narrow => IsMachineInt(g, call.arg)
                   /\ call.type = Narrow => IsMachineInt(callee, callee.ret)
<1>1. /\ l \in Nat /\ m \in Nat /\ k \in 1 .. l
      /\ DOMAIN g.calls = 1 .. l /\ DOMAIN h.calls = 1 .. l - 1 + m
      /\ DOMAIN callee.calls = 1 .. m
  <2>1. l \in Nat /\ m \in Nat /\ k \in 1 .. l /\ DOMAIN g.calls = 1 .. l
    BY InliningLengths
  <2>2. DOMAIN callee.calls = 1 .. m /\ DOMAIN h.calls = 1 .. Len(h.calls)
    BY InliningLengths
  <2>3. Len(h.calls) = l - 1 + m
    BY DEF IsInlining
  <2> HIDE DEF l, m
  <2> QED  BY <2>1, <2>2, <2>3
<1>2. /\ \A j \in 1 .. k - 1 : /\ h.calls[j].id = g.calls[j].id
                               /\ h.calls[j].type = g.calls[j].type
      /\ \A j \in k + 1 .. l : /\ h.calls[j - 1 + m].id = g.calls[j].id
                               /\ h.calls[j - 1 + m].type = g.calls[j].type
  BY DEF IsInlining, Like
<1>3. h.key = g.key
  BY DEF IsInlining
<1>4. /\ \A j \in DOMAIN g.calls : g.calls[j].id \notin {Number, Unknown, Param}
      /\ \A a, b \in DOMAIN g.calls : g.calls[a].id = g.calls[b].id => a = b
  BY IdsDiffer DEF BodyFormed
<1>5. i \in k + 1 .. l + 1
  OBVIOUS
<1>6. CASE v = call.id
  <2>1. value = InCaller(callee.ret, call)
    BY <1>6 DEF Renamed
  <2> DEFINE last == m + 1
  <2>2. Earlier(callee.calls, callee.ret, last - 1) /\ last \in 1 .. m + 1
        /\ k + last - 2 = k - 1 + m
    <3>1. Earlier(callee.calls, callee.ret, m)
      BY DEF BodyFormed
    <3>2. last - 1 = m /\ last \in 1 .. m + 1 /\ k + last - 2 = k - 1 + m
      BY <1>1
    <3> QED  BY <3>1, <3>2
  <2> HIDE DEF last
  <2>3. /\ Earlier(h.calls, InCaller(callee.ret, call), k + last - 2)
        /\ (callee.key = Narrow => IsMachineInt(g, call.arg)) =>
             (IsMachineInt(callee, callee.ret)
                => IsMachineInt(h, InCaller(callee.ret, call)))
    <3>1. Earlier(h.calls, InCaller(callee.ret, call), k + last - 2)
      BY <2>2, ValueInside
    <3>2. (callee.key = Narrow => IsMachineInt(g, call.arg)) =>
             (IsMachineInt(callee, callee.ret)
                => IsMachineInt(h, InCaller(callee.ret, call)))
      BY <2>2, ValueInside
    <3> QED  BY <3>1, <3>2
  <2>4. Earlier(h.calls, value, i - 2 + m)
    <3>1. \A j \in 1 .. k - 1 + m : j \in 1 .. i - 2 + m
      BY <1>1, <1>5
    <3> QED  BY <2>1, <2>2, <2>3, <3>1 DEF Earlier
  <2>5. ASSUME fits, IsMachineInt(g, v) PROVE IsMachineInt(h, value)
    <3>1. v \notin {Number, Unknown, Param}
      BY <1>4, <1>6
    <3>2. PICK a \in DOMAIN g.calls : g.calls[a].id = v /\ g.calls[a].type = Narrow
      BY <2>5, <3>1 DEF IsMachineInt
    <3>3. a = k
      BY <1>4, <1>6, <3>2
    <3> QED  BY <2>1, <2>3, <2>5, <3>2, <3>3
  <2> QED  BY <2>4, <2>5
<1>7. CASE v # call.id
  <2>1. value = v
    BY <1>7 DEF Renamed
  <2> HIDE DEF call, value, l, m
  <2>2. CASE v \in {Number, Unknown, Param}
    <3>1. Earlier(h.calls, v, i - 2 + m)
      BY <2>2 DEF Earlier
    <3>2. IsMachineInt(g, v) => IsMachineInt(h, v)
      BY <1>3, <1>4, <2>2 DEF IsMachineInt
    <3> QED  BY <2>1, <3>1, <3>2 DEF value, call, l, m
  <2>3. ASSUME NEW j \in 1 .. i - 1, v = g.calls[j].id
        PROVE  Earlier(h.calls, v, i - 2 + m) /\ (IsMachineInt(g, v) => IsMachineInt(h, v))
    <3>1. j \in 1 .. l /\ j # k
      BY <1>1, <1>5, <1>7, <2>3 DEF call
    <3>2. PICK n \in 1 .. i - 2 + m :
            /\ n \in 1 .. l - 1 + m
            /\ h.calls[n].id = g.calls[j].id /\ h.calls[n].type = g.calls[j].type
      <4>1. CASE j < k
        <5>1. j \in 1 .. k - 1 /\ j \in 1 .. i - 2 + m /\ j \in 1 .. l - 1 + m
          BY <1>1, <1>5, <3>1, <4>1
        <5> QED  BY <1>2, <5>1
      <4>2. CASE k < j
        <5>1. /\ j \in k + 1 .. l /\ j - 1 + m \in 1 .. i - 2 + m
              /\ j - 1 + m \in 1 .. l - 1 + m
          BY <1>1, <1>5, <3>1, <4>2
        <5> QED  BY <1>2, <5>1
      <4> QED  BY <1>1, <3>1, <4>1, <4>2
    <3>3. Earlier(h.calls, v, i - 2 + m)
      BY <2>3, <3>2 DEF Earlier
    <3>4. ASSUME IsMachineInt(g, v) PROVE IsMachineInt(h, v)
      <4>1. v \notin {Number, Unknown, Param}
        BY <1>1, <1>4, <2>3, <3>1
      <4>2. PICK a \in DOMAIN g.calls : g.calls[a].id = v /\ g.calls[a].type = Narrow
        BY <3>4, <4>1 DEF IsMachineInt
      <4>3. a = j
        BY <1>1, <1>4, <2>3, <3>1, <4>2
      <4> QED  BY <1>1, <2>3, <3>2, <4>2, <4>3 DEF IsMachineInt
    <3> QED  BY <3>3, <3>4
  <2> QED  BY <2>1, <2>2, <2>3 DEF Earlier, value, call, l, m
<1> QED  BY <1>6, <1>7

\* the call c of h was d in g, whose values are those of h after f
Follows(c, h, d, g) ==
  /\ c.name = d.name /\ c.type = d.type
  /\ IsMachineInt(g, d.arg) => IsMachineInt(h, c.arg)

\* the calls of the graph, without the inlined one, and of the inlined body
LEMMA InliningCalls ==
  ASSUME NEW g, BodyFormed(g), NEW callee, BodyFormed(callee),
         NEW k \in DOMAIN g.calls, NEW h, IsInlining(g, k, callee, h),
         callee.key = Narrow => IsMachineInt(g, g.calls[k].arg),
         g.calls[k].type = Narrow => IsMachineInt(callee, callee.ret),
         NEW n \in DOMAIN h.calls
  PROVE  \/ \E j \in DOMAIN g.calls : Follows(h.calls[n], h, g.calls[j], g)
         \/ \E j \in DOMAIN callee.calls :
              Follows(h.calls[n], h, callee.calls[j], callee)
<1> DEFINE l == Len(g.calls)
           m == Len(callee.calls)
           call == g.calls[k]
<1>1. /\ l \in Nat /\ m \in Nat /\ k \in 1 .. l
      /\ DOMAIN g.calls = 1 .. l /\ DOMAIN h.calls = 1 .. l - 1 + m
      /\ DOMAIN callee.calls = 1 .. m
  <2>1. l \in Nat /\ m \in Nat /\ k \in 1 .. l /\ DOMAIN g.calls = 1 .. l
    BY InliningLengths
  <2>2. DOMAIN callee.calls = 1 .. m /\ DOMAIN h.calls = 1 .. Len(h.calls)
    BY InliningLengths
  <2>3. Len(h.calls) = l - 1 + m
    BY DEF IsInlining
  <2> HIDE DEF l, m
  <2> QED  BY <2>1, <2>2, <2>3
<1>2. /\ \A j \in DOMAIN g.calls : Earlier(g.calls, g.calls[j].arg, j - 1)
      /\ \A j \in DOMAIN callee.calls : Earlier(callee.calls, callee.calls[j].arg, j - 1)
  BY DEF BodyFormed, CallsFormed
<1>3. CASE n \in 1 .. k - 1
  <2>1. Like(h.calls[n], g.calls[n], g.calls[n].id, Renamed(g.calls[n].arg, call, callee))
    BY <1>3 DEF IsInlining
  <2>2. n \in DOMAIN g.calls /\ n \in 1 .. k
    BY <1>1, <1>3
  <2> DEFINE arg == g.calls[n].arg
  <2>3. Earlier(g.calls, arg, n - 1)
    BY <1>2, <2>2
  <2> HIDE DEF arg
  <2>4. Renamed(arg, call, callee) = arg /\ (IsMachineInt(g, arg) => IsMachineInt(h, arg))
    BY <2>2, <2>3, ValueBefore
  <2>5. Follows(h.calls[n], h, g.calls[n], g)
    BY <2>1, <2>4 DEF Like, Follows, arg
  <2> QED  BY <2>2, <2>5
<1>4. ASSUME NEW i \in 1 .. m, n = k - 1 + i
      PROVE  Follows(h.calls[n], h, callee.calls[i], callee)
  <2>1. Like(h.calls[n], callee.calls[i], call.id \o callee.calls[i].id,
             InCaller(callee.calls[i].arg, call))
    BY <1>4 DEF IsInlining
  <2> DEFINE arg == callee.calls[i].arg
  <2>2. i \in 1 .. Len(callee.calls) + 1 /\ Earlier(callee.calls, arg, i - 1)
    BY <1>1, <1>2
  <2> HIDE DEF arg
  <2>3. IsMachineInt(callee, arg) => IsMachineInt(h, InCaller(arg, call))
    BY <2>2, ValueInside
  <2> QED  BY <2>1, <2>3 DEF Like, Follows, arg
<1>5. ASSUME NEW i \in k + 1 .. l, n = i - 1 + m
      PROVE  i \in DOMAIN g.calls /\ Follows(h.calls[n], h, g.calls[i], g)
  <2>1. Like(h.calls[n], g.calls[i], g.calls[i].id, Renamed(g.calls[i].arg, call, callee))
    BY <1>5 DEF IsInlining
  <2> DEFINE arg == g.calls[i].arg
  <2>2. i \in DOMAIN g.calls /\ i \in k + 1 .. Len(g.calls) + 1
    BY <1>1
  <2>3. Earlier(g.calls, arg, i - 1)
    BY <1>2, <2>2
  <2> HIDE DEF arg
  <2>4. IsMachineInt(g, arg) => IsMachineInt(h, Renamed(arg, call, callee))
    BY <2>2, <2>3, ValueAfter
  <2> QED  BY <2>1, <2>2, <2>4 DEF Like, Follows, arg
<1> HIDE DEF l, m
<1>6. \/ n \in 1 .. k - 1
      \/ \E i \in 1 .. m : n = k - 1 + i
      \/ \E i \in k + 1 .. l : n = i - 1 + m
  <2>1. l \in Nat /\ m \in Nat /\ k \in 1 .. l /\ n \in 1 .. l - 1 + m
    BY <1>1
  <2> QED  BY <2>1, Places
<1> QED  BY <1>1, <1>3, <1>4, <1>5, <1>6

\* what the graph returns
LEMMA InliningReturns ==
  ASSUME NEW g, BodyFormed(g), NEW callee, BodyFormed(callee),
         NEW k \in DOMAIN g.calls, NEW h, IsInlining(g, k, callee, h),
         callee.key = Narrow => IsMachineInt(g, g.calls[k].arg),
         g.calls[k].type = Narrow => IsMachineInt(callee, callee.ret),
         IsMachineInt(g, g.ret)
  PROVE  IsMachineInt(h, h.ret)
<1> DEFINE i == Len(g.calls) + 1
           ret == g.ret
<1>1. Len(g.calls) \in Nat /\ k \in 1 .. Len(g.calls)
  BY InliningLengths
<1>2. i \in k + 1 .. Len(g.calls) + 1 /\ i - 1 = Len(g.calls)
  BY <1>1
<1>3. Earlier(g.calls, ret, i - 1)
  BY <1>2 DEF BodyFormed
<1>4. h.ret = Renamed(ret, g.calls[k], callee)
  BY DEF IsInlining
<1>5. IsMachineInt(g, ret)
  OBVIOUS
<1> HIDE DEF i, ret
<1> QED  BY <1>2, <1>3, <1>4, <1>5, ValueAfter

LEMMA InliningFormed ==
  ASSUME NEW g, BodyFormed(g), NEW callee, BodyFormed(callee),
         NEW k \in DOMAIN g.calls, NEW h, IsInlining(g, k, callee, h)
  PROVE  BodyFormed(h)
<1> DEFINE l == Len(g.calls)
           m == Len(callee.calls)
           call == g.calls[k]
<1>1. /\ l \in Nat /\ m \in Nat /\ k \in 1 .. l
      /\ DOMAIN g.calls = 1 .. l /\ DOMAIN h.calls = 1 .. l - 1 + m
      /\ DOMAIN callee.calls = 1 .. m /\ Len(h.calls) = l - 1 + m
  <2>1. l \in Nat /\ m \in Nat /\ k \in 1 .. l /\ DOMAIN g.calls = 1 .. l
    BY InliningLengths
  <2>2. DOMAIN callee.calls = 1 .. m /\ DOMAIN h.calls = 1 .. Len(h.calls)
    BY InliningLengths
  <2>3. Len(h.calls) = l - 1 + m
    BY DEF IsInlining
  <2> HIDE DEF l, m
  <2> QED  BY <2>1, <2>2, <2>3
<1>2. /\ \A i \in 1 .. k - 1 :
           Like(h.calls[i], g.calls[i], g.calls[i].id, Renamed(g.calls[i].arg, call, callee))
      /\ \A i \in 1 .. m :
           Like(h.calls[k - 1 + i], callee.calls[i], call.id \o callee.calls[i].id,
                InCaller(callee.calls[i].arg, call))
      /\ \A i \in k + 1 .. l :
           Like(h.calls[i - 1 + m], g.calls[i], g.calls[i].id,
                Renamed(g.calls[i].arg, call, callee))
  BY DEF IsInlining
<1>3. /\ \A j \in DOMAIN g.calls :
           /\ g.calls[j].id \in Seq(Nat) /\ g.calls[j].type \in {Wide, Narrow}
           /\ Earlier(g.calls, g.calls[j].arg, j - 1)
      /\ \A i, j \in DOMAIN g.calls : i # j => Apart(g.calls[i].id, g.calls[j].id)
  BY DEF BodyFormed, CallsFormed
<1>4. /\ \A j \in DOMAIN callee.calls :
           /\ callee.calls[j].id \in Seq(Nat) /\ callee.calls[j].type \in {Wide, Narrow}
           /\ Earlier(callee.calls, callee.calls[j].arg, j - 1)
      /\ \A i, j \in DOMAIN callee.calls :
           i # j => Apart(callee.calls[i].id, callee.calls[j].id)
  BY DEF BodyFormed, CallsFormed
<1> HIDE DEF l, m, call
<1> DEFINE Inside(n) == \E i \in 1 .. m : n = k - 1 + i /\ h.calls[n].id = call.id \o callee.calls[i].id
           Outside(n) == \E i \in 1 .. l :
                           /\ i # k /\ n = (IF i < k THEN i ELSE i - 1 + m)
                           /\ h.calls[n].id = g.calls[i].id
<1>5. ASSUME NEW n \in DOMAIN h.calls
      PROVE  /\ DOMAIN h.calls[n] = CallFields
             /\ h.calls[n].id \in Seq(Nat) /\ h.calls[n].type \in {Wide, Narrow}
             /\ Earlier(h.calls, h.calls[n].arg, n - 1)
             /\ Inside(n) \/ Outside(n)
  <2>1. CASE n \in 1 .. k - 1
    <3>1. n \in 1 .. l /\ n # k /\ n < k /\ n \in 1 .. k
      BY <1>1, <2>1
    <3>2. /\ DOMAIN h.calls[n] = CallFields
          /\ h.calls[n].id = g.calls[n].id /\ h.calls[n].type = g.calls[n].type
          /\ h.calls[n].arg = Renamed(g.calls[n].arg, call, callee)
      BY <1>2, <2>1 DEF Like
    <3> DEFINE arg == g.calls[n].arg
    <3>3. Earlier(g.calls, arg, n - 1)
      BY <1>1, <1>3, <3>1
    <3> HIDE DEF arg
    <3>4. Earlier(h.calls, arg, n - 1)
      BY <3>1, <3>3, ValueBefore
    <3>5. Renamed(arg, call, callee) = arg
      BY <3>1, <3>3, ValueBefore DEF call
    <3>6. Earlier(h.calls, h.calls[n].arg, n - 1)
      BY <3>2, <3>4, <3>5 DEF arg
    <3>7. Outside(n)
      BY <3>1, <3>2
    <3> HIDE DEF Inside, Outside
    <3> QED  BY <1>1, <1>3, <3>1, <3>2, <3>6, <3>7
  <2>2. ASSUME NEW i \in 1 .. m, n = k - 1 + i
        PROVE  /\ DOMAIN h.calls[n] = CallFields
               /\ h.calls[n].id \in Seq(Nat) /\ h.calls[n].type \in {Wide, Narrow}
               /\ Earlier(h.calls, h.calls[n].arg, n - 1)
               /\ Inside(n)
    <3>1. /\ DOMAIN h.calls[n] = CallFields
          /\ h.calls[n].id = call.id \o callee.calls[i].id
          /\ h.calls[n].type = callee.calls[i].type
          /\ h.calls[n].arg = InCaller(callee.calls[i].arg, call)
      BY <1>2, <2>2 DEF Like
    <3> DEFINE arg == callee.calls[i].arg
    <3>2. i \in 1 .. Len(callee.calls) + 1 /\ k + i - 2 = n - 1
      BY <1>1, <2>2 DEF m
    <3>3. Earlier(callee.calls, arg, i - 1)
      BY <1>1, <1>4
    <3> HIDE DEF arg
    <3>4. Earlier(h.calls, InCaller(arg, call), k + i - 2)
      BY <3>2, <3>3, ValueInside DEF call
    <3>5. Earlier(h.calls, h.calls[n].arg, n - 1)
      BY <3>1, <3>2, <3>4 DEF arg
    <3>6. call.id \o callee.calls[i].id \in Seq(Nat)
      <4>1. call.id \in Seq(Nat) /\ callee.calls[i].id \in Seq(Nat)
        BY <1>1, <1>3, <1>4 DEF call
      <4> DEFINE x == call.id
                 y == callee.calls[i].id
      <4>2. x \in Seq(Nat) /\ y \in Seq(Nat)
        BY <4>1
      <4> HIDE DEF x, y
      <4>3. x \o y \in Seq(Nat)
        BY <4>2
      <4> QED  BY <4>3 DEF x, y
    <3>7. Inside(n)
      BY <2>2, <3>1
    <3> HIDE DEF Inside
    <3> QED  BY <1>1, <1>4, <3>1, <3>5, <3>6, <3>7
  <2>3. ASSUME NEW i \in k + 1 .. l, n = i - 1 + m
        PROVE  /\ DOMAIN h.calls[n] = CallFields
               /\ h.calls[n].id \in Seq(Nat) /\ h.calls[n].type \in {Wide, Narrow}
               /\ Earlier(h.calls, h.calls[n].arg, n - 1)
               /\ Outside(n)
    <3>1. i \in 1 .. l /\ i # k /\ ~ (i < k) /\ i \in k + 1 .. Len(g.calls) + 1
          /\ i - 2 + Len(callee.calls) = n - 1
      BY <1>1, <2>3 DEF l, m
    <3>2. /\ DOMAIN h.calls[n] = CallFields
          /\ h.calls[n].id = g.calls[i].id /\ h.calls[n].type = g.calls[i].type
          /\ h.calls[n].arg = Renamed(g.calls[i].arg, call, callee)
      BY <1>2, <2>3 DEF Like
    <3> DEFINE arg == g.calls[i].arg
    <3>3. Earlier(g.calls, arg, i - 1)
      BY <1>1, <1>3, <3>1
    <3> HIDE DEF arg
    <3>4. Earlier(h.calls, Renamed(arg, call, callee), i - 2 + Len(callee.calls))
      BY <3>1, <3>3, ValueAfter DEF call
    <3>5. Earlier(h.calls, h.calls[n].arg, n - 1)
      BY <3>1, <3>2, <3>4 DEF arg
    <3>6. Outside(n)
      BY <2>3, <3>1, <3>2
    <3> HIDE DEF Outside
    <3> QED  BY <1>1, <1>3, <3>1, <3>2, <3>5, <3>6
  <2>4. \/ n \in 1 .. k - 1
        \/ \E i \in 1 .. m : n = k - 1 + i
        \/ \E i \in k + 1 .. l : n = i - 1 + m
    <3>1. l \in Nat /\ m \in Nat /\ k \in 1 .. l /\ n \in 1 .. l - 1 + m
      BY <1>1
    <3> QED  BY <3>1, Places
  <2> HIDE DEF Inside, Outside
  <2> QED  BY <2>1, <2>2, <2>3, <2>4
<1>6. ASSUME NEW a \in DOMAIN h.calls, NEW b \in DOMAIN h.calls, a # b
      PROVE  Apart(h.calls[a].id, h.calls[b].id)
  <2>1. \A x, y \in Seq(Nat) : \A z \in Seq(Nat) :
          Apart(x, y) => Apart(x \o z, y) /\ Apart(y, x \o z) /\ Apart(z \o x, z \o y)
    BY ApartExtended
  <2>2. call.id \in Seq(Nat) /\ \A i \in 1 .. l :
          i # k => Apart(g.calls[i].id, call.id) /\ Apart(call.id, g.calls[i].id)
    BY <1>1, <1>3 DEF call
  <2>3. CASE Outside(a) /\ Outside(b)
    <3>1. PICK i \in 1 .. l, j \in 1 .. l :
            /\ a = (IF i < k THEN i ELSE i - 1 + m) /\ h.calls[a].id = g.calls[i].id
            /\ b = (IF j < k THEN j ELSE j - 1 + m) /\ h.calls[b].id = g.calls[j].id
      BY <2>3
    <3>2. i # j
      BY <1>6, <3>1
    <3> QED  BY <1>1, <1>3, <3>1, <3>2
  <2>4. CASE Inside(a) /\ Inside(b)
    <3>1. PICK i \in 1 .. m, j \in 1 .. m :
            /\ a = k - 1 + i /\ h.calls[a].id = call.id \o callee.calls[i].id
            /\ b = k - 1 + j /\ h.calls[b].id = call.id \o callee.calls[j].id
      BY <2>4
    <3>2. Apart(callee.calls[i].id, callee.calls[j].id)
          /\ callee.calls[i].id \in Seq(Nat) /\ callee.calls[j].id \in Seq(Nat)
      BY <1>1, <1>4, <1>6, <3>1
    <3>3. Apart(call.id \o callee.calls[i].id, call.id \o callee.calls[j].id)
      BY <2>1, <2>2, <3>2
    <3> QED  BY <3>1, <3>3
  <2>5. CASE Outside(a) /\ Inside(b)
    <3>1. PICK i \in 1 .. l, j \in 1 .. m :
            /\ i # k /\ h.calls[a].id = g.calls[i].id
            /\ h.calls[b].id = call.id \o callee.calls[j].id
      BY <2>5
    <3>2. Apart(call.id, g.calls[i].id) /\ g.calls[i].id \in Seq(Nat)
          /\ callee.calls[j].id \in Seq(Nat)
      BY <1>1, <1>3, <1>4, <2>2, <3>1
    <3>3. Apart(g.calls[i].id, call.id \o callee.calls[j].id)
      BY <2>1, <2>2, <3>2
    <3> QED  BY <3>1, <3>3
  <2>6. CASE Inside(a) /\ Outside(b)
    <3>1. PICK i \in 1 .. l, j \in 1 .. m :
            /\ i # k /\ h.calls[b].id = g.calls[i].id
            /\ h.calls[a].id = call.id \o callee.calls[j].id
      BY <2>6
    <3>2. Apart(call.id, g.calls[i].id) /\ g.calls[i].id \in Seq(Nat)
          /\ callee.calls[j].id \in Seq(Nat)
      BY <1>1, <1>3, <1>4, <2>2, <3>1
    <3>3. Apart(call.id \o callee.calls[j].id, g.calls[i].id)
      BY <2>1, <2>2, <3>2
    <3> QED  BY <3>1, <3>3
  <2> HIDE DEF Inside, Outside
  <2> QED  BY <1>5, <2>3, <2>4, <2>5, <2>6
<1>7. Earlier(h.calls, h.ret, Len(h.calls))
  <2> DEFINE i == l + 1
             ret == g.ret
  <2>1. i \in k + 1 .. Len(g.calls) + 1 /\ i - 1 = Len(g.calls)
        /\ i - 2 + Len(callee.calls) = Len(h.calls)
    BY <1>1 DEF l, m
  <2>2. Earlier(g.calls, ret, i - 1)
    BY <2>1 DEF BodyFormed
  <2>3. h.ret = Renamed(ret, call, callee)
    BY DEF IsInlining, call
  <2> HIDE DEF i, ret
  <2>4. Earlier(h.calls, Renamed(ret, call, callee), i - 2 + Len(callee.calls))
    BY <2>1, <2>2, ValueAfter DEF call
  <2> QED  BY <2>1, <2>3, <2>4
<1>8. h.calls \in Seq(ToSet(h.calls))
  BY DEF IsInlining
<1> HIDE DEF Inside, Outside
<1> QED  BY <1>5, <1>6, <1>7, <1>8 DEF BodyFormed, CallsFormed

(***************************************************************************)
(* Names.                                                                  *)
(***************************************************************************)

LEMMA FunctionName == \A f : Len(Id(f)) = 1 /\ Id(f)[1] = f /\ TargetOf(Id(f)) = Id(f)
BY DEF Id, TargetOf, IsVariantName

LEMMA Appended ==
  ASSUME NEW S, NEW s \in Seq(S), NEW x \in S
  PROVE  /\ Len(Append(s, x)) = Len(s) + 1
         /\ \A i \in 1 .. Len(s) : Append(s, x)[i] = s[i]
OBVIOUS

LEMMA PairAppended == \A f, key, x : Len(Append(<<f, key>>, x)) = 3
<1> SUFFICES ASSUME NEW f, NEW key, NEW x PROVE Len(Append(<<f, key>>, x)) = 3
  OBVIOUS
<1> DEFINE s == <<f, key>>
           S == {f, key, x}
<1>1. s \in Seq(S) /\ x \in S /\ Len(s) = 2
  OBVIOUS
<1> HIDE DEF s, S
<1>2. Len(Append(s, x)) = Len(s) + 1
  BY <1>1, Appended
<1>3. Len(Append(s, x)) = 3
  BY <1>1, <1>2
<1> QED  BY <1>3 DEF s

LEMMA VariantName ==
  ASSUME NEW f, NEW key, NEW type \in {Wide, Narrow}
  PROVE  LET name == NameOf(<<f, key>>, type)
         IN  /\ IsVariantName(name) /\ TargetOf(name) = <<f, key>>
             /\ name[1] = f /\ name[2] = key
<1> DEFINE id == <<f, key>>
           name == NameOf(id, type)
           S == {f, key, Narrow}
<1>1. id \in Seq(S) /\ Narrow \in S /\ Len(id) = 2 /\ id[1] = f /\ id[2] = key
  OBVIOUS
<1> HIDE DEF id, S
<1>2. Len(name) \in {2, 3} /\ name[1] = f /\ name[2] = key
  <2>1. CASE type = Wide
    BY <1>1, <2>1 DEF NameOf
  <2>2. CASE type # Wide
    <3>1. Len(Append(id, Narrow)) = 3
      BY <1>1, Appended, SMTT(30)
    <3>2. Append(id, Narrow)[1] = id[1] /\ Append(id, Narrow)[2] = id[2]
      BY <1>1, Appended, SMTT(30)
    <3> QED  BY <1>1, <2>2, <3>1, <3>2 DEF NameOf
  <2> QED  BY <2>1, <2>2
<1> HIDE DEF name
<1> QED  BY <1>2 DEF IsVariantName, TargetOf, name, id

\* a graph has its id from its base and key, and its name from its id
LEMMA GraphNames ==
  ASSUME Shapes, NEW id \in DOMAIN graphs
  PROVE  /\ graphs[id].name = NameOf(id, graphs[id].type)
         /\ graphs[id].type \in {Wide, Narrow}
         /\ TargetOf(graphs[id].name) = id
         /\ graphs[id].name[1] = graphs[id].base /\ id[1] = graphs[id].base
         /\ IsVariantName(graphs[id].name) <=> IsVariantName(id)
         /\ IsVariantName(id) => /\ id = <<graphs[id].base, graphs[id].key>>
                                 /\ graphs[id].name[2] = graphs[id].key
         /\ ~ IsVariantName(id) => /\ id = Id(graphs[id].base)
                                   /\ graphs[id].name = id /\ graphs[id].type = Wide
<1> DEFINE g == graphs[id]
<1>1. /\ g.name = NameOf(id, g.type) /\ g.type \in {Wide, Narrow}
      /\ \/ id = Id(g.base) /\ g.type = Wide
         \/ id = <<g.base, g.key>>
  BY DEF Shapes
<1>2. CASE id = Id(g.base) /\ g.type = Wide
  <2>1. g.name = id
    BY <1>1, <1>2 DEF NameOf
  <2>2. Len(id) = 1 /\ id[1] = g.base /\ TargetOf(id) = id
    BY <1>2, FunctionName
  <2>3. ~ IsVariantName(id)
    BY <2>2 DEF IsVariantName
  <2> HIDE DEF g
  <2> QED  BY <1>1, <1>2, <2>1, <2>2, <2>3 DEF g
<1>3. CASE id = <<g.base, g.key>>
  <2> DEFINE f == g.base
             key == g.key
             type == g.type
             name == NameOf(<<f, key>>, type)
  <2>1. /\ IsVariantName(name) /\ TargetOf(name) = <<f, key>>
        /\ name[1] = f /\ name[2] = key
    BY <1>1, VariantName
  <2>2. Len(<<f, key>>) = 2 /\ <<f, key>>[1] = f
    OBVIOUS
  <2>3. IsVariantName(<<f, key>>)
    BY <2>2 DEF IsVariantName
  <2>4. g.name = name
    BY <1>1, <1>3
  <2> HIDE DEF name
  <2> QED  BY <1>1, <1>3, <2>1, <2>2, <2>3, <2>4
<1> QED  BY <1>1, <1>2, <1>3

\* what a call says of its callee
LEMMA KnownNames ==
  ASSUME Shapes, NEW c, Known(c), c.type \in {Wide, Narrow}
  PROVE  LET id == TargetOf(c.name)
         IN  /\ id \in DOMAIN graphs /\ id \in Settled
             /\ graphs[id].base = c.name[1]
             /\ IsVariantName(c.name) <=> IsVariantName(id)
             /\ IsVariantName(c.name) => graphs[id].key = c.name[2]
             /\ ~ IsVariantName(c.name) =>
                  id = c.name /\ c.name = Id(c.name[1]) /\ Resolved(c)
             /\ Resolved(c) <=> c.name = graphs[id].name
<1> DEFINE id == TargetOf(c.name)
<1>1. /\ id \in Settled /\ id \in DOMAIN graphs
      /\ c.name = NameOf(id, c.type)
      /\ c.type = Narrow => graphs[id].type = Narrow
  BY DEF Known, Settled
<1> HIDE DEF id
<1> DEFINE g == graphs[id]
<1>2. /\ g.name = NameOf(id, g.type) /\ g.type \in {Wide, Narrow}
      /\ id[1] = g.base
      /\ IsVariantName(id) => id = <<g.base, g.key>>
      /\ ~ IsVariantName(id) => id = Id(g.base) /\ g.type = Wide
  BY <1>1, GraphNames
<1>3. Narrow # Wide
  BY DEF Narrow, Wide
<1>4. CASE ~ IsVariantName(id)
  <2>1. c.type = Wide /\ g.type = Wide
    BY <1>1, <1>2, <1>3, <1>4
  <2>2. c.name = id /\ g.name = id
    BY <1>1, <1>2, <2>1 DEF NameOf
  <2> QED  BY <1>1, <1>2, <1>4, <2>1, <2>2, FunctionName DEF Resolved, id
<1>5. CASE IsVariantName(id)
  <2> DEFINE f == g.base
             key == g.key
             type == c.type
             name == NameOf(<<f, key>>, type)
  <2>1. /\ IsVariantName(name) /\ TargetOf(name) = <<f, key>>
        /\ name[1] = f /\ name[2] = key
    BY VariantName
  <2>2. c.name = name /\ id = <<f, key>>
    BY <1>1, <1>2, <1>5
  <2> HIDE DEF name
  <2>3. Resolved(c) <=> c.name = g.name
    <3>1. Resolved(c) => c.name = g.name
      BY <1>1, <1>2 DEF Resolved, id
    <3>2. CASE c.type # g.type
      <4>1. c.type = Wide /\ g.type = Narrow
        BY <1>1, <1>2, <3>2
      <4>2. c.name = id /\ g.name = Append(id, Narrow)
        BY <1>1, <1>2, <1>3, <4>1 DEF NameOf
      <4>3. Len(<<f, key>>) = 2
        OBVIOUS
      <4>4. Len(Append(<<f, key>>, Narrow)) = 3
        BY PairAppended
      <4> QED  BY <2>2, <4>2, <4>3, <4>4, <3>1
    <3> QED  BY <3>1, <3>2 DEF Resolved, id
  <2> QED  BY <1>1, <1>5, <2>1, <2>2, <2>3 DEF id
<1> QED  BY <1>4, <1>5

(***************************************************************************)
(* What a step does to the graphs.                                         *)
(***************************************************************************)

\* the graph id, perhaps a new one, becomes g
GraphChanges(id, g) ==
  /\ DOMAIN graphs' = DOMAIN graphs \union {id} /\ graphs'[id] = g
  /\ \A i \in DOMAIN graphs \ {id} : graphs'[i] = graphs[i]

\* what calls are known by only grows
KnownGrows ==
  /\ UNCHANGED program
  /\ Settled \subseteq Settled' /\ DOMAIN specs \subseteq DOMAIN specs'
  /\ \A id \in Settled : graphs[id].type = Narrow => graphs'[id].type = Narrow

LEMMA KnownKept == ASSUME KnownGrows, NEW c, Known(c) PROVE Known(c)'
BY DEF Known, KnownGrows

LEMMA CallsSame ==
  ASSUME CallsInv, KnownGrows, UNCHANGED graphs
  PROVE  CallsInv'
<1> SUFFICES ASSUME NEW id \in DOMAIN graphs
             PROVE  /\ GraphFormed(id, graphs[id])'
                    /\ \A k \in DOMAIN graphs[id].calls : Known(graphs[id].calls[k])'
  BY DEF CallsInv
<1>1. GraphFormed(id, graphs[id])'
  BY DEF CallsInv, GraphFormed, Named, Functions, KnownGrows
<1>2. ASSUME NEW k \in DOMAIN graphs[id].calls PROVE Known(graphs[id].calls[k])'
  <2>1. PICK c : c = graphs[id].calls[k]
    OBVIOUS
  <2>2. Known(c)
    BY <2>1 DEF CallsInv
  <2>3. Known(c)'
    BY <2>2, KnownKept
  <2> QED  BY <2>1, <2>3
<1> QED  BY <1>1, <1>2

LEMMA CallsStep ==
  ASSUME CallsInv, KnownGrows, NEW id, NEW g, GraphChanges(id, g),
         GraphFormed(id, g), \A k \in DOMAIN g.calls : Known(g.calls[k])
  PROVE  CallsInv'
<1>1. \A i, f : GraphFormed(i, f) => GraphFormed(i, f)'
  BY DEF GraphFormed, Named, Functions, KnownGrows
<1>2. \A i, f : (\A k \in DOMAIN f.calls : Known(f.calls[k])) =>
                (\A k \in DOMAIN f.calls : Known(f.calls[k])')
  <2> TAKE i, f
  <2> HAVE \A k \in DOMAIN f.calls : Known(f.calls[k])
  <2> TAKE k \in DOMAIN f.calls
  <2>1. PICK c : c = f.calls[k]
    OBVIOUS
  <2>2. Known(c)
    BY <2>1
  <2>3. Known(c)'
    BY <2>2, KnownKept
  <2> QED  BY <2>1, <2>3
<1> SUFFICES ASSUME NEW i \in DOMAIN graphs'
             PROVE  /\ GraphFormed(i, graphs[i])'
                    /\ \A k \in DOMAIN graphs'[i].calls : Known(graphs[i].calls[k])'
  BY DEF CallsInv
<1>3. PICK f : f = graphs'[i]
  OBVIOUS
<1>4. GraphFormed(i, f) /\ \A k \in DOMAIN f.calls : Known(f.calls[k])
  BY <1>3 DEF CallsInv, GraphChanges
<1>5. GraphFormed(i, f)' /\ \A k \in DOMAIN f.calls : Known(f.calls[k])'
  BY <1>1, <1>2, <1>4
<1> QED  BY <1>3, <1>5

LEMMA InlineCallEffect ==
  ASSUME QueueInv, NamesInv, CallsInv, VariantsInv, InlineCall
  PROVE  /\ at # Idle /\ Optimized \in DOMAIN graphs
         /\ Settled' = Settled
         /\ \E k, h :
              LET name == graphs[Optimized].calls[k].name
              IN  /\ k \in DOMAIN graphs[Optimized].calls
                  /\ name \in DOMAIN inlinable
                  /\ IsInlining(graphs[Optimized], k, graphs[TargetOf(name)], h)
                  /\ DOMAIN h = GraphFields /\ GraphChanges(Optimized, h)
<1>1. at # Idle
  BY DEF InlineCall, Optimizing, Idle
<1>2. Optimized \in DOMAIN graphs
  BY <1>1, GraphsKnown
<1> DEFINE g == graphs[Optimized]
           k == Min(InlinableCalls)
           name == g.calls[k].name
           callee == inlinable[name]
           h == WithBody(g, k, graphs[callee])
<1>3. DOMAIN g = GraphFields /\ BodyFormed(g)
  BY <1>2 DEF QueueInv, GraphsInv, CallsInv, GraphFormed
<1>4. k \in InlinableCalls
  <2>1. InlinableCalls # {}
    BY DEF InlineCall
  <2>2. DOMAIN g.calls \subseteq Nat
    BY <1>3, OwnElements DEF BodyFormed, CallsFormed
  <2>3. \E m \in InlinableCalls : \A n \in InlinableCalls : m <= n
    <3>1. InlinableCalls \subseteq Nat
      BY <2>2 DEF InlinableCalls
    <3> QED  BY <2>1, <3>1, LeastNatural
  <2> HIDE DEF g
  <2> QED  BY <2>3 DEF Min
<1>5. k \in DOMAIN g.calls /\ name \in DOMAIN inlinable
  BY <1>4 DEF InlinableCalls
<1>6. callee = TargetOf(name) /\ callee \in DOMAIN graphs
  BY <1>5 DEF VariantsInv, Settled
<1>7. graphs' = [graphs EXCEPT ![Optimized] = h] /\ SamePlace
  BY <1>2, InlineCallPlace DEF InlineCall
<1>8. IsInlining(g, k, graphs[callee], h)
  <2>1. BodyFormed(graphs[callee])
    BY <1>6 DEF CallsInv, GraphFormed
  <2> HIDE DEF g, k, name, callee
  <2> QED  BY <1>3, <1>5, <2>1, WithBodyInlines
<1>9. DOMAIN h = GraphFields
  BY <1>3 DEF WithBody, GraphFields
<1> HIDE DEF g, k, h, callee, name
<1>10. GraphChanges(Optimized, h)
  BY <1>2, <1>7 DEF GraphChanges
<1>11. Settled' = Settled
  BY <1>2, <1>7 DEF Settled, SamePlace
<1> QED  BY <1>1, <1>2, <1>5, <1>6, <1>8, <1>9, <1>10, <1>11 DEF g, name

\* what inlining needs of the call: it fits, and so does what it expects
LEMMA InlinedFits ==
  ASSUME NamesInv, CallsInv, NEW id \in DOMAIN graphs,
         NEW k \in DOMAIN graphs[id].calls
  PROVE  LET g == graphs[id]
             callee == graphs[TargetOf(g.calls[k].name)]
         IN  /\ BodyFormed(g) /\ BodyFormed(callee)
             /\ TargetOf(g.calls[k].name) \in DOMAIN graphs
             /\ callee.base = g.calls[k].name[1]
             /\ callee.key = Narrow => IsMachineInt(g, g.calls[k].arg)
             /\ g.calls[k].type = Narrow => IsMachineInt(callee, callee.ret)
<1> DEFINE g == graphs[id]
           c == g.calls[k]
           target == TargetOf(c.name)
<1>1. GraphFormed(id, g) /\ Known(c)
  BY DEF CallsInv
<1>2. c.type \in {Wide, Narrow} /\ Fits(g, c)
  BY <1>1 DEF GraphFormed, BodyFormed, CallsFormed
<1> HIDE DEF g, c
<1>3. /\ target \in DOMAIN graphs
      /\ graphs[target].base = c.name[1]
      /\ IsVariantName(c.name) <=> IsVariantName(target)
      /\ IsVariantName(c.name) => graphs[target].key = c.name[2]
  BY <1>1, <1>2, KnownNames DEF NamesInv
<1>4. GraphFormed(target, graphs[target])
  BY <1>3 DEF CallsInv
<1>5. Narrow # Wide
  BY DEF Narrow, Wide
<1>6. graphs[target].key = Narrow => IsMachineInt(g, c.arg)
  BY <1>2, <1>3, <1>4, <1>5 DEF GraphFormed, Fits
<1>7. c.type = Narrow => IsMachineInt(graphs[target], graphs[target].ret)
  BY <1>1, <1>4 DEF GraphFormed, Known
<1> QED  BY <1>1, <1>3, <1>4, <1>6, <1>7 DEF GraphFormed, g, c

LEMMA InlineCallCalls ==
  ASSUME QueueInv, NamesInv, CallsInv, VariantsInv, InlineCall
  PROVE  CallsInv'
<1> DEFINE g == graphs[Optimized]
<1>1. PICK k, h :
        /\ k \in DOMAIN g.calls
        /\ g.calls[k].name \in DOMAIN inlinable
        /\ IsInlining(g, k, graphs[TargetOf(g.calls[k].name)], h)
        /\ GraphChanges(Optimized, h)
  BY InlineCallEffect
<1> k \in DOMAIN g.calls
  BY <1>1
<1>2. Optimized \in DOMAIN graphs /\ Settled' = Settled
  BY InlineCallEffect
<1> DEFINE target == TargetOf(g.calls[k].name)
           callee == graphs[target]
<1>3. /\ BodyFormed(g) /\ BodyFormed(callee) /\ target \in DOMAIN graphs
      /\ callee.key = Narrow => IsMachineInt(g, g.calls[k].arg)
      /\ g.calls[k].type = Narrow => IsMachineInt(callee, callee.ret)
  BY <1>2, InlinedFits
<1>4. /\ GraphFormed(Optimized, g) /\ GraphFormed(target, callee)
      /\ \A j \in DOMAIN g.calls : Known(g.calls[j])
      /\ \A j \in DOMAIN callee.calls : Known(callee.calls[j])
  BY <1>2, <1>3 DEF CallsInv
<1> HIDE DEF g, target, callee
<1>5. IsInlining(g, k, callee, h)
  BY <1>1 DEF target, callee
<1>6. BodyFormed(h)
  BY <1>3, <1>5, InliningFormed
<1>7. h.key = g.key /\ h.base = g.base /\ h.type = g.type
  BY <1>5 DEF IsInlining
<1>8. h.type = Narrow => IsMachineInt(h, h.ret)
  <2> SUFFICES ASSUME h.type = Narrow PROVE IsMachineInt(h, h.ret)
    OBVIOUS
  <2>1. IsMachineInt(g, g.ret)
    BY <1>4, <1>7 DEF GraphFormed
  <2> QED  BY <1>3, <1>5, <2>1, InliningReturns
<1>9. ASSUME NEW n \in DOMAIN h.calls
      PROVE  Fits(h, h.calls[n]) /\ Known(h.calls[n])
  <2>1. \/ \E j \in DOMAIN g.calls : Follows(h.calls[n], h, g.calls[j], g)
        \/ \E j \in DOMAIN callee.calls : Follows(h.calls[n], h, callee.calls[j], callee)
    BY <1>3, <1>5, InliningCalls
  <2>2. \A d, f : Follows(h.calls[n], h, d, f) /\ Fits(f, d) => Fits(h, h.calls[n])
    BY DEF Follows, Fits
  <2>3. \A d, f : Follows(h.calls[n], h, d, f) /\ Known(d) => Known(h.calls[n])
    BY DEF Follows, Known
  <2>4. /\ \A j \in DOMAIN g.calls : Fits(g, g.calls[j])
        /\ \A j \in DOMAIN callee.calls : Fits(callee, callee.calls[j])
    BY <1>4 DEF GraphFormed
  <2> QED  BY <1>4, <2>1, <2>2, <2>3, <2>4
<1>10. GraphFormed(Optimized, h)
  BY <1>4, <1>6, <1>7, <1>8, <1>9 DEF GraphFormed
<1>11. KnownGrows
  <2>1. \A id \in Settled : graphs'[id].type = graphs[id].type
    BY <1>1, <1>2, <1>7 DEF GraphChanges, Settled, g
  <2> QED  BY <1>2, <2>1 DEF KnownGrows, InlineCall
<1> QED  BY <1>1, <1>9, <1>10, <1>11, CallsStep

\* a graph whose calls, result and key stay
LEMMA SameBody ==
  ASSUME NEW id, NEW g, GraphFormed(id, g), NEW h,
         h.calls = g.calls, h.ret = g.ret, h.key = g.key, h.base = g.base,
         h.type = Narrow => IsMachineInt(g, g.ret)
  PROVE  GraphFormed(id, h)
<1>1. \A v : IsMachineInt(h, v) <=> IsMachineInt(g, v)
  BY DEF IsMachineInt
<1>2. BodyFormed(h)
  BY DEF GraphFormed, BodyFormed
<1>3. \A k \in DOMAIN h.calls : Fits(h, h.calls[k])
  BY <1>1 DEF GraphFormed, Fits
<1> QED  BY <1>1, <1>2, <1>3 DEF GraphFormed

LEMMA EndOptimizeEffect ==
  ASSUME QueueInv, EndOptimize
  PROVE  /\ at # Idle /\ Current \in DOMAIN graphs /\ Current \in Settled
         /\ Settled' = Settled
         /\ \E h : /\ GraphChanges(Current, h)
                   /\ h.calls = CurrentGraph.calls /\ h.ret = CurrentGraph.ret
                   /\ h.key = CurrentGraph.key /\ h.base = CurrentGraph.base
                   /\ h.type = CurrentGraph.type /\ h.name = CurrentGraph.name
<1>1. at # Idle /\ at.phase # "stub"
  BY DEF EndOptimize, Idle
<1>2. Current \in DOMAIN graphs /\ Current \in Settled
  BY <1>1, GraphsKnown
<1> DEFINE h == [graphs[Current] EXCEPT !.removable = 0]
<1>3. graphs' = [graphs EXCEPT ![Current] = h]
  BY <1>2 DEF EndOptimize
<1>4. DOMAIN graphs[Current] = GraphFields
  BY <1>2 DEF QueueInv, GraphsInv
<1>5. /\ h.calls = CurrentGraph.calls /\ h.ret = CurrentGraph.ret
      /\ h.key = CurrentGraph.key /\ h.base = CurrentGraph.base
      /\ h.type = CurrentGraph.type /\ h.name = CurrentGraph.name
  BY <1>4 DEF GraphFields, CurrentGraph
<1> HIDE DEF h
<1>6. GraphChanges(Current, h)
  BY <1>2, <1>3 DEF GraphChanges
<1>7. Settled' = Settled
  <2>1. at'.phase \in {"specialize", "finish"}
    BY EndOptimizePlace
  <2> QED  BY <1>1, <1>2, <1>3, <2>1 DEF Settled
<1> QED  BY <1>1, <1>2, <1>5, <1>6, <1>7

LEMMA EndOptimizeCalls ==
  ASSUME QueueInv, CallsInv, EndOptimize
  PROVE  CallsInv'
<1>1. PICK h : /\ GraphChanges(Current, h)
               /\ h.calls = CurrentGraph.calls /\ h.ret = CurrentGraph.ret
               /\ h.key = CurrentGraph.key /\ h.base = CurrentGraph.base
               /\ h.type = CurrentGraph.type
  BY EndOptimizeEffect
<1>2. Current \in DOMAIN graphs /\ Settled' = Settled
  BY EndOptimizeEffect
<1>3. /\ GraphFormed(Current, CurrentGraph)
      /\ \A k \in DOMAIN h.calls : Known(h.calls[k])
  BY <1>1, <1>2 DEF CallsInv, CurrentGraph
<1>4. GraphFormed(Current, h)
  <2>1. h.type = Narrow => IsMachineInt(CurrentGraph, CurrentGraph.ret)
    BY <1>1, <1>3 DEF GraphFormed
  <2> QED  BY <1>1, <1>3, <2>1, SameBody
<1>5. KnownGrows
  <2>1. \A id \in Settled : graphs'[id].type = graphs[id].type
    BY <1>1, <1>2 DEF GraphChanges, Settled, CurrentGraph
  <2> QED  BY <1>2, <2>1 DEF KnownGrows, EndOptimize
<1> QED  BY <1>1, <1>3, <1>4, <1>5, CallsStep

\* a call that gets another name, and perhaps a narrower type
LEMMA CallReplaced ==
  ASSUME NEW g, BodyFormed(g), NEW i \in DOMAIN g.calls, NEW c,
         DOMAIN c = CallFields, c.id = g.calls[i].id, c.arg = g.calls[i].arg,
         c.type \in {Wide, Narrow}, g.calls[i].type = Narrow => c.type = Narrow,
         NEW h, h.calls = [g.calls EXCEPT ![i] = c], h.ret = g.ret, h.key = g.key
  PROVE  BodyFormed(h) /\ \A v : IsMachineInt(g, v) => IsMachineInt(h, v)
<1>1. /\ DOMAIN h.calls = DOMAIN g.calls
      /\ h.calls[i] = c
      /\ \A j \in DOMAIN g.calls : j # i => h.calls[j] = g.calls[j]
  OBVIOUS
<1>2. \A j \in DOMAIN g.calls : /\ h.calls[j].id = g.calls[j].id
                                /\ h.calls[j].arg = g.calls[j].arg
                                /\ g.calls[j].type = Narrow => h.calls[j].type = Narrow
  BY <1>1
<1>3. \A v : IsMachineInt(g, v) => IsMachineInt(h, v)
  BY <1>1, <1>2 DEF IsMachineInt
<1>4. /\ DOMAIN g.calls = 1 .. Len(g.calls) /\ Len(g.calls) \in Nat
      /\ h.calls \in Seq(ToSet(h.calls)) /\ Len(h.calls) = Len(g.calls)
  <2>1. DOMAIN g.calls = 1 .. Len(g.calls) /\ Len(g.calls) \in Nat
    BY OwnElements DEF BodyFormed, CallsFormed
  <2> DEFINE n == Len(g.calls)
             s == h.calls
             S == ToSet(s)
  <2>2. s \in [1 .. n -> S] /\ n \in Nat
    BY <1>1, <2>1 DEF ToSet
  <2> HIDE DEF n, s, S
  <2>3. s \in Seq(S) /\ Len(s) = n
    BY <2>2
  <2> QED  BY <2>1, <2>3 DEF n, s, S
<1>5. \A v, n : n \in 0 .. Len(g.calls) /\ Earlier(g.calls, v, n) => Earlier(h.calls, v, n)
  BY <1>2, <1>4 DEF Earlier
<1>6. Earlier(h.calls, h.ret, Len(h.calls))
  BY <1>4, <1>5 DEF BodyFormed
<1>7. ASSUME NEW k \in DOMAIN h.calls
      PROVE  /\ DOMAIN h.calls[k] = CallFields
             /\ h.calls[k].id \in Seq(Nat) /\ h.calls[k].type \in {Wide, Narrow}
             /\ Earlier(h.calls, h.calls[k].arg, k - 1)
             /\ \A j \in DOMAIN h.calls \ {k} : Apart(h.calls[j].id, h.calls[k].id)
  <2>1. k \in DOMAIN g.calls /\ k - 1 \in 0 .. Len(g.calls)
    BY <1>1, <1>4
  <2>2. /\ DOMAIN g.calls[k] = CallFields
        /\ g.calls[k].id \in Seq(Nat) /\ g.calls[k].type \in {Wide, Narrow}
        /\ Earlier(g.calls, g.calls[k].arg, k - 1)
        /\ \A j \in DOMAIN g.calls \ {k} : Apart(g.calls[j].id, g.calls[k].id)
    BY <2>1 DEF BodyFormed, CallsFormed
  <2>3. DOMAIN h.calls[k] = CallFields /\ h.calls[k].type \in {Wide, Narrow}
    BY <1>1, <2>1, <2>2
  <2>4. Earlier(h.calls, h.calls[k].arg, k - 1)
    BY <1>2, <1>5, <2>1, <2>2
  <2>5. \A j \in DOMAIN h.calls \ {k} : Apart(h.calls[j].id, h.calls[k].id)
    BY <1>1, <1>2, <2>1, <2>2
  <2> QED  BY <1>2, <2>1, <2>2, <2>3, <2>4, <2>5
<1> QED  BY <1>3, <1>4, <1>6, <1>7 DEF BodyFormed, CallsFormed

\* the call that the sweep is at, when it is specialized
LEMMA SpecializedCall ==
  ASSUME QueueInv, CallsInv, Specializes
  PROVE  /\ at # Idle /\ at.phase = "specialize"
         /\ Current \in DOMAIN graphs /\ Current \in Settled
         /\ at.index \in DOMAIN CurrentGraph.calls
         /\ GraphFormed(Current, CurrentGraph) /\ Known(Call)
         /\ DOMAIN Call = CallFields /\ Call.type \in {Wide, Narrow}
         /\ Call.name \in DOMAIN specs
         /\ CallSpec = Call.name[1] /\ CallSpec \in DOMAIN cache
         /\ Current # Id(CallSpec)
         /\ Key \in Keys
         /\ Key = Narrow => IsMachineInt(CurrentGraph, Call.arg)
         /\ Key = Wide => Named(CallSpec).result = "int"
<1>1. /\ at # Idle /\ at.phase = "specialize" /\ Call.name \in DOMAIN specs
      /\ Current # Id(CallSpec) /\ at.index \in DOMAIN CurrentGraph.calls
  BY DEF Specializes, AtCall, Idle
<1>2. Current \in DOMAIN graphs /\ Current \in Settled
  BY <1>1, GraphsKnown
<1>3. CallSpec = Call.name[1] /\ CallSpec \in DOMAIN cache
  BY <1>1 DEF QueueInv, SpecsInv, CallSpec
<1>4. Key \in CallKey(CurrentGraph, Call, CallSpec)
  BY DEF Specializes, Key
<1>5. /\ Key \in Keys
      /\ Key = Narrow => IsMachineInt(CurrentGraph, Call.arg)
      /\ Key = Wide => Named(CallSpec).result = "int"
  BY <1>4 DEF CallKey, Keys, Narrow, Wide
<1>6. GraphFormed(Current, CurrentGraph) /\ Known(Call)
  BY <1>1, <1>2 DEF CallsInv, CurrentGraph, Call
<1>7. DOMAIN Call = CallFields /\ Call.type \in {Wide, Narrow}
  BY <1>1, <1>6 DEF GraphFormed, BodyFormed, CallsFormed, Call
<1> QED  BY <1>1, <1>2, <1>3, <1>5, <1>6, <1>7

LEMMA RedirectedKnown ==
  ASSUME QueueInv, NamesInv, CallsInv, VariantsInv, Specializes, HasVariant
  PROVE  /\ DOMAIN Redirected = CallFields
         /\ Redirected.id = Call.id /\ Redirected.arg = Call.arg
         /\ Redirected.type \in {Wide, Narrow}
         /\ Call.type = Narrow => Redirected.type = Narrow
         /\ Known(Redirected) /\ Fits(CurrentGraph, Redirected)
         /\ Resolved(Redirected)
         /\ IsVariantName(Redirected.name) /\ Redirected.name[1] = CallSpec
<1> DEFINE f == CallSpec
           key == Key
           id == <<f, key>>
           variant == cache[f][key]
<1>1. /\ GraphFormed(Current, CurrentGraph) /\ Known(Call)
      /\ at.index \in DOMAIN CurrentGraph.calls
      /\ DOMAIN Call = CallFields /\ Call.type \in {Wide, Narrow}
      /\ f = Call.name[1] /\ f \in DOMAIN cache
      /\ key = Narrow => IsMachineInt(CurrentGraph, Call.arg)
  BY SpecializedCall
<1>2. /\ id \in Settled /\ id \in DOMAIN graphs
      /\ variant.graph = id /\ variant.type = graphs[id].type
  BY <1>1 DEF NamesInv, HasVariant, Settled
<1>3. Shapes
  BY DEF NamesInv
<1>4. Narrow # Wide
  BY DEF Narrow, Wide
<1>5. CASE Call.type = Narrow /\ variant.type = Wide
  <2>1. Redirected = Call
    BY <1>5 DEF Redirected
  <2>2. graphs[TargetOf(Call.name)].type = Narrow
    BY <1>1, <1>5 DEF Known
  <2>3. Resolved(Call)
    BY <1>5, <2>2 DEF Resolved
  <2>4. IsVariantName(Call.name)
    <3> SUFFICES ASSUME ~ IsVariantName(Call.name) PROVE FALSE
      OBVIOUS
    <3> DEFINE c == Call
    <3>1. Known(c) /\ c.type \in {Wide, Narrow} /\ ~ IsVariantName(c.name)
      BY <1>1
    <3> HIDE DEF c
    <3>2. /\ ~ IsVariantName(TargetOf(c.name)) /\ TargetOf(c.name) \in DOMAIN graphs
      BY <1>3, <3>1, KnownNames
    <3>3. graphs[TargetOf(c.name)].type = Wide
      BY <1>3, <3>2, GraphNames
    <3> QED  BY <1>4, <2>2, <3>3 DEF c
  <2>5. Fits(CurrentGraph, Call)
    BY <1>1 DEF GraphFormed, Call
  <2> QED  BY <1>1, <1>5, <2>1, <2>3, <2>4, <2>5
<1>6. CASE ~ (Call.type = Narrow /\ variant.type = Wide)
  <2> DEFINE name == graphs[id].name
             type == graphs[id].type
  <2>1. Redirected = [Call EXCEPT !.name = name, !.type = type]
    BY <1>2, <1>6 DEF Redirected
  <2>2. /\ DOMAIN Redirected = CallFields
        /\ Redirected.id = Call.id /\ Redirected.arg = Call.arg
        /\ Redirected.name = name /\ Redirected.type = type
    <3> HIDE DEF name, type
    <3> QED  BY <1>1, <2>1 DEF CallFields
  <2>3. /\ name = NameOf(id, type) /\ type \in {Wide, Narrow}
    BY <1>2, <1>3 DEF Shapes
  <2>4. /\ IsVariantName(name) /\ TargetOf(name) = id
        /\ name[1] = f /\ name[2] = key
    <3> HIDE DEF f, key, name, type
    <3> QED  BY <2>3, VariantName
  <2>5. IsVariantName(id)
    <3>1. Len(id) = 2
      OBVIOUS
    <3> QED  BY <3>1 DEF IsVariantName
  <2>6. name \in DOMAIN specs
    BY <1>2, <2>5 DEF VariantsInv
  <2>7. Call.type = Narrow => type = Narrow
    BY <1>2, <1>6, <2>3
  <2> HIDE DEF f, key, name
  <2>8. Resolved(Redirected)
    BY <2>2, <2>4 DEF Resolved
  <2>9. Known(Redirected)
    BY <1>2, <2>2, <2>3, <2>4, <2>6 DEF Known
  <2>10. Fits(CurrentGraph, Redirected)
    BY <1>1, <2>2, <2>4 DEF Fits
  <2> QED  BY <2>2, <2>3, <2>4, <2>7, <2>8, <2>9, <2>10 DEF f
<1> QED  BY <1>5, <1>6

LEMMA UseVariantEffect ==
  ASSUME QueueInv, UseVariant
  PROVE  /\ at'.phase = "specialize" /\ at'.graph = at.graph
         /\ at'.index = at.index + 1
         /\ at'.redirected = (at.redirected \/ Redirected # Call)
         /\ Settled' = Settled
         /\ \E h : /\ GraphChanges(Current, h)
                   /\ h.calls = [CurrentGraph.calls EXCEPT ![at.index] = Redirected]
                   /\ h.ret = CurrentGraph.ret /\ h.key = CurrentGraph.key
                   /\ h.base = CurrentGraph.base /\ h.type = CurrentGraph.type
                   /\ h.name = CurrentGraph.name
<1>1. at # Idle /\ at.phase = "specialize"
  BY DEF UseVariant, Specializes, AtCall, Idle
<1>2. Current \in DOMAIN graphs /\ Current \in Settled
  BY <1>1, GraphsKnown
<1> DEFINE calls == [CurrentGraph.calls EXCEPT ![at.index] = Redirected]
           h == [graphs[Current] EXCEPT !.calls = calls]
<1>3. DOMAIN graphs[Current] = GraphFields
  BY <1>2 DEF QueueInv, GraphsInv
<1>4. graphs' = [graphs EXCEPT ![Current] = h]
  <2>1. graphs' = [graphs EXCEPT ![Current].calls[at.index] = Redirected]
    BY DEF UseVariant
  <2> QED  BY <1>2, <1>3, <2>1 DEF CurrentGraph, GraphFields
<1> HIDE DEF calls
<1>5. /\ h.calls = calls /\ h.ret = CurrentGraph.ret /\ h.key = CurrentGraph.key
      /\ h.base = CurrentGraph.base /\ h.type = CurrentGraph.type
      /\ h.name = CurrentGraph.name
  BY <1>3 DEF GraphFields, CurrentGraph
<1> HIDE DEF h
<1>6. GraphChanges(Current, h)
  BY <1>2, <1>4 DEF GraphChanges
<1>7. /\ at'.phase = "specialize" /\ at'.graph = at.graph
      /\ at'.index = at.index + 1
      /\ at'.redirected = (at.redirected \/ Redirected # Call)
  <2>1. {"phase", "graph", "changed", "index", "redirected", "sweeps"} \subseteq DOMAIN at
    BY <1>1 DEF QueueInv, AtInv
  <2>2. at' = [at EXCEPT !.index = at.index + 1,
                         !.redirected = at.redirected \/ Redirected # Call]
    BY DEF UseVariant
  <2> QED  BY <1>1, <2>1, <2>2
<1>8. Settled' = Settled
  BY <1>1, <1>2, <1>4, <1>7 DEF Settled
<1> QED  BY <1>5, <1>6, <1>7, <1>8 DEF calls

LEMMA UseVariantCalls ==
  ASSUME QueueInv, NamesInv, CallsInv, VariantsInv, UseVariant
  PROVE  CallsInv'
<1>1. PICK h : /\ GraphChanges(Current, h)
               /\ h.calls = [CurrentGraph.calls EXCEPT ![at.index] = Redirected]
               /\ h.ret = CurrentGraph.ret /\ h.key = CurrentGraph.key
               /\ h.base = CurrentGraph.base /\ h.type = CurrentGraph.type
  BY UseVariantEffect
<1>2. Settled' = Settled
  BY UseVariantEffect
<1>3. Specializes /\ HasVariant
  BY DEF UseVariant
<1>4. /\ Current \in DOMAIN graphs /\ GraphFormed(Current, CurrentGraph)
      /\ at.index \in DOMAIN CurrentGraph.calls
  BY <1>3, SpecializedCall
<1> DEFINE g == CurrentGraph
           i == at.index
           c == Redirected
           d == Call
<1>5. /\ DOMAIN c = CallFields /\ c.id = d.id /\ c.arg = d.arg
      /\ c.type \in {Wide, Narrow} /\ (d.type = Narrow => c.type = Narrow)
      /\ Known(c) /\ Fits(g, c)
  BY <1>3, RedirectedKnown
<1>6. d = g.calls[i]
  BY DEF Call
<1>7. BodyFormed(g)
  BY <1>4 DEF GraphFormed
<1> HIDE DEF g, c, i, d
<1>8. /\ h.calls = [g.calls EXCEPT ![i] = c] /\ h.ret = g.ret /\ h.key = g.key
      /\ h.base = g.base /\ h.type = g.type /\ i \in DOMAIN g.calls
      /\ GraphFormed(Current, g)
  BY <1>1, <1>4 DEF g, c, i
<1>9. BodyFormed(h) /\ \A v : IsMachineInt(g, v) => IsMachineInt(h, v)
  <2>1. c.id = g.calls[i].id /\ c.arg = g.calls[i].arg
        /\ (g.calls[i].type = Narrow => c.type = Narrow)
    BY <1>5, <1>6
  <2> QED  BY <1>5, <1>7, <1>8, <2>1, CallReplaced
<1>10. ASSUME NEW k \in DOMAIN h.calls
       PROVE  Fits(h, h.calls[k]) /\ Known(h.calls[k])
  <2>1. k \in DOMAIN g.calls /\ h.calls[k] \in {c, g.calls[k]}
    BY <1>8
  <2>2. Fits(g, g.calls[k]) /\ Known(g.calls[k])
    BY <1>4, <2>1 DEF GraphFormed, CallsInv, g, CurrentGraph
  <2>3. \A e : Fits(g, e) => Fits(h, e)
    BY <1>9 DEF Fits
  <2>4. Fits(h, c) /\ Fits(h, g.calls[k])
    BY <1>5, <2>2, <2>3
  <2> QED  BY <1>5, <2>1, <2>2, <2>4
<1>11. GraphFormed(Current, h)
  BY <1>8, <1>9, <1>10 DEF GraphFormed
<1>12. KnownGrows
  <2>1. \A id \in Settled : graphs'[id].type = graphs[id].type
    BY <1>1, <1>2 DEF GraphChanges, Settled, CurrentGraph
  <2> QED  BY <1>2, <2>1 DEF KnownGrows, UseVariant
<1> QED  BY <1>1, <1>10, <1>11, <1>12, CallsStep

LEMMA MakeStubEffect ==
  ASSUME QueueInv, NamesInv, MakeStub
  PROVE  LET stub == <<CallSpec, Key>>
             f == Id(CallSpec)
         IN  /\ f \in DOMAIN graphs /\ stub \notin DOMAIN graphs
             /\ Settled = DOMAIN graphs /\ Settled' = Settled
             /\ at'.phase = "stub" /\ at'.stub = stub /\ at'.graph = at.graph
             /\ at'.index = at.index /\ at'.redirected = at.redirected
             /\ \E h : /\ GraphChanges(stub, h)
                       /\ h.calls = graphs[f].calls /\ h.ret = graphs[f].ret
                       /\ h.key = Key /\ h.base = CallSpec
                       /\ h.type = Wide /\ h.name = stub
<1> DEFINE stub == <<CallSpec, Key>>
           f == Id(CallSpec)
           h == [graphs[f] EXCEPT !.key = Key, !.name = stub]
<1>1. /\ at # Idle /\ at.phase = "specialize" /\ Call.name \in DOMAIN specs
      /\ Key \notin DOMAIN cache[CallSpec]
  BY DEF MakeStub, Specializes, AtCall, Idle, HasVariant
<1>2. CallSpec \in DOMAIN cache /\ f \in DOMAIN graphs
  BY <1>1 DEF QueueInv, SpecsInv, CallSpec, Settled
<1>3. stub \notin Settled /\ Settled = DOMAIN graphs
  BY <1>1 DEF QueueInv, CacheInv, Settled
<1>4. /\ DOMAIN graphs[f] = GraphFields /\ graphs[f].base = CallSpec
  BY <1>2 DEF QueueInv, GraphsInv
<1>5. graphs[f].type = Wide
  <2>1. Len(f) = 1
    BY FunctionName
  <2>2. ~ IsVariantName(f)
    BY <2>1 DEF IsVariantName
  <2>3. Shapes
    BY DEF NamesInv
  <2> HIDE DEF f
  <2> QED  BY <1>2, <2>2, <2>3, GraphNames
<1>6. at'.phase = "stub" /\ at'.stub = stub /\ at'.graph = at.graph
      /\ at'.index = at.index /\ at'.redirected = at.redirected
  <2>1. {"phase", "graph", "changed", "index", "redirected", "sweeps"} \subseteq DOMAIN at
    BY <1>1 DEF QueueInv, AtInv
  <2>2. at' = Put([at EXCEPT !.phase = "stub"], "stub", stub)
    BY DEF MakeStub
  <2> HIDE DEF stub
  <2> QED  BY <2>1, <2>2 DEF Put
<1>7. graphs' = Put(graphs, stub, h)
  BY DEF MakeStub
<1> HIDE DEF stub, f
<1>8. /\ h.calls = graphs[f].calls /\ h.ret = graphs[f].ret
      /\ h.key = Key /\ h.base = CallSpec
      /\ h.type = Wide /\ h.name = stub
  BY <1>4, <1>5 DEF GraphFields
<1> HIDE DEF h
<1>9. GraphChanges(stub, h)
  BY <1>3, <1>7 DEF GraphChanges, Put
<1>10. Settled' = Settled
  BY <1>3, <1>6, <1>9 DEF Settled, GraphChanges
<1> QED  BY <1>2, <1>3, <1>6, <1>8, <1>9, <1>10 DEF stub, f

LEMMA MakeStubCalls ==
  ASSUME QueueInv, NamesInv, CallsInv, MakeStub
  PROVE  CallsInv'
<1> DEFINE stub == <<CallSpec, Key>>
           f == Id(CallSpec)
           g == graphs[f]
<1>1. PICK h : /\ GraphChanges(stub, h)
               /\ h.calls = g.calls /\ h.ret = g.ret
               /\ h.key = Key /\ h.base = CallSpec /\ h.type = Wide
  BY MakeStubEffect
<1>2. /\ f \in DOMAIN graphs /\ stub \notin DOMAIN graphs
      /\ Settled = DOMAIN graphs /\ Settled' = Settled
  BY MakeStubEffect
<1>3. /\ Key \in Keys
      /\ Key = Wide => Named(CallSpec).result = "int"
  <2>1. Specializes
    BY DEF MakeStub
  <2> QED  BY <2>1, SpecializedCall
<1>4. GraphFormed(f, g) /\ \A k \in DOMAIN g.calls : Known(g.calls[k])
  BY <1>2 DEF CallsInv
<1>5. ~ IsVariantName(f) /\ IsVariantName(stub)
  <2>1. Len(f) = 1 /\ Len(stub) = 2
    BY FunctionName
  <2> QED  BY <2>1 DEF IsVariantName
<1>6. Narrow # Wide
  BY DEF Narrow, Wide
<1> HIDE DEF stub, f, g
<1>7. g.key = Wide
  BY <1>4, <1>5 DEF GraphFormed
<1>8. \A v : IsMachineInt(g, v) => IsMachineInt(h, v)
  BY <1>1, <1>7 DEF IsMachineInt, Wide
<1>9. BodyFormed(h)
  BY <1>1, <1>4 DEF GraphFormed, BodyFormed
<1>10. \A k \in DOMAIN h.calls : Fits(h, h.calls[k])
  BY <1>1, <1>4, <1>8 DEF GraphFormed, Fits
<1>11. GraphFormed(stub, h)
  BY <1>1, <1>3, <1>5, <1>6, <1>9, <1>10 DEF GraphFormed
<1>12. KnownGrows
  <2>1. \A id \in Settled : graphs'[id].type = graphs[id].type
    BY <1>1, <1>2 DEF GraphChanges
  <2> QED  BY <1>2, <2>1 DEF KnownGrows, MakeStub
<1> QED  BY <1>1, <1>4, <1>11, <1>12, CallsStep

LEMMA FinishStubEffect ==
  ASSUME QueueInv, NamesInv, FinishStub
  PROVE  LET id == at.stub
             g == graphs[id]
         IN  /\ at # Idle /\ at.phase = "stub"
             /\ id \in DOMAIN graphs /\ id \notin Settled
             /\ id = <<g.base, g.key>> /\ g.base \in DOMAIN cache
             /\ Settled' = Settled \union {id}
             /\ at'.phase = "specialize" /\ at'.graph = at.graph
             /\ at'.index = at.index /\ at'.redirected = at.redirected
             /\ todo_set' = todo_set \union {id}
             /\ inline_dependencies' =
                  NoteCalls(inline_dependencies, id, graphs'[id])
             /\ \E h : /\ GraphChanges(id, h)
                       /\ h.calls = g.calls /\ h.ret = g.ret
                       /\ h.key = g.key /\ h.base = g.base
                       /\ h.type \in {Wide, Narrow}
                       /\ h.type = Narrow => IsMachineInt(g, g.ret)
                       /\ h.type = Wide => ~ ReturnsMachineInt(g)
                       /\ h.name = NameOf(id, h.type)
                       /\ specs' = Put(specs, h.name, h.base)
                       /\ \E entry : cache' = [cache EXCEPT ![h.base] = Put(@, h.key, entry)]
                       /\ \/ UNCHANGED inlinable
                          \/ inlinable' = Put(inlinable, h.name, id)
<1> DEFINE id == at.stub
           g == graphs[id]
           copy == [g EXCEPT !.removable = 0]
           h == IF ReturnsMachineInt(copy)
                THEN [copy EXCEPT !.name = Append(@, Narrow), !.type = Narrow]
                ELSE copy
<1>1. /\ at # Idle /\ at.phase = "stub"
      /\ id \in DOMAIN graphs
      /\ id = <<g.base, g.key>> /\ g.base \in DOMAIN cache
      /\ {"phase", "graph", "changed", "index", "redirected", "sweeps"} \subseteq DOMAIN at
  BY DEF FinishStub, Idle, QueueInv, AtInv
<1>2. DOMAIN g = GraphFields
  BY <1>1 DEF QueueInv, GraphsInv
<1>3. g.type = Wide /\ g.name = id
  BY <1>1 DEF NamesInv, Shapes, NameOf
<1>4. /\ DOMAIN copy = GraphFields /\ copy.base = g.base /\ copy.key = g.key
      /\ copy.calls = g.calls /\ copy.ret = g.ret
      /\ copy.name = id /\ copy.type = Wide
  <2> HIDE DEF g, id
  <2> QED  BY <1>2, <1>3 DEF GraphFields
<1>5. /\ graphs' = [graphs EXCEPT ![id] = h]
      /\ specs' = Put(specs, h.name, h.base)
      /\ \E entry : cache' = [cache EXCEPT ![h.base] = Put(@, h.key, entry)]
      /\ UNCHANGED inlinable \/ inlinable' = Put(inlinable, h.name, id)
      /\ todo_set' = todo_set \union {id}
      /\ inline_dependencies' = NoteCalls(inline_dependencies, id, h)
  BY DEF FinishStub
<1>6. /\ h.calls = g.calls /\ h.ret = g.ret
      /\ h.key = g.key /\ h.base = g.base
      /\ h.type \in {Wide, Narrow}
      /\ h.type = Narrow => IsMachineInt(g, g.ret)
      /\ h.type = Wide => ~ ReturnsMachineInt(g)
      /\ h.name = NameOf(id, h.type)
  <2> HIDE DEF copy, g, id
  <2>1. CASE ReturnsMachineInt(copy)
    <3> DEFINE named == [copy EXCEPT !.name = Append(@, Narrow), !.type = Narrow]
    <3>1. h = named
      BY <2>1
    <3>2. /\ named.calls = g.calls /\ named.ret = g.ret
          /\ named.key = g.key /\ named.base = g.base
          /\ named.type = Narrow /\ named.name = Append(id, Narrow)
      BY <1>4 DEF GraphFields
    <3>3. IsMachineInt(g, g.ret)
      BY <1>4, <2>1 DEF ReturnsMachineInt, IsMachineInt
    <3> HIDE DEF named, h
    <3> QED  BY <3>1, <3>2, <3>3 DEF NameOf, Narrow, Wide
  <2>2. CASE ~ ReturnsMachineInt(copy)
    <3>1. h = copy
      BY <2>2
    <3>2. ~ ReturnsMachineInt(g)
      BY <1>4, <2>2 DEF ReturnsMachineInt, IsMachineInt
    <3> HIDE DEF h
    <3> QED  BY <1>4, <3>1, <3>2 DEF NameOf, Narrow, Wide
  <2> QED  BY <2>1, <2>2
<1> HIDE DEF copy, h
<1>7. GraphChanges(id, h)
  BY <1>1, <1>5 DEF GraphChanges
<1>8. /\ at'.phase = "specialize" /\ at'.graph = at.graph
      /\ at'.index = at.index /\ at'.redirected = at.redirected
  <2>1. at' = [at EXCEPT !.phase = "specialize"]
    BY DEF FinishStub
  <2> QED  BY <1>1, <2>1
<1>9. id \notin Settled /\ Settled' = Settled \union {id}
  BY <1>1, <1>7, <1>8 DEF Settled, GraphChanges
<1>10. graphs'[id] = h
  BY <1>7 DEF GraphChanges
<1> HIDE DEF g, id
<1> QED  BY <1>1, <1>5, <1>6, <1>7, <1>8, <1>9, <1>10 DEF g, id


LEMMA FinishStubCalls ==
  ASSUME QueueInv, NamesInv, CallsInv, FinishStub
  PROVE  CallsInv'
<1> DEFINE id == at.stub
           g == graphs[id]
<1>1. PICK h : /\ GraphChanges(id, h)
               /\ h.calls = g.calls /\ h.ret = g.ret
               /\ h.key = g.key /\ h.base = g.base
               /\ h.type = Narrow => IsMachineInt(g, g.ret)
               /\ specs' = Put(specs, h.name, h.base)
  BY FinishStubEffect
<1>2. id \in DOMAIN graphs /\ id \notin Settled /\ Settled' = Settled \union {id}
  BY FinishStubEffect
<1>3. GraphFormed(id, g) /\ \A k \in DOMAIN g.calls : Known(g.calls[k])
  BY <1>2 DEF CallsInv
<1> HIDE DEF id, g
<1>4. GraphFormed(id, h)
  BY <1>1, <1>3, SameBody
<1>5. KnownGrows
  <2>1. \A i \in Settled : i \in DOMAIN graphs
    BY DEF Settled
  <2>2. \A i \in Settled : graphs'[i] = graphs[i]
    BY <1>1, <1>2, <2>1 DEF GraphChanges
  <2>3. DOMAIN specs \subseteq DOMAIN specs'
    BY <1>1 DEF Put
  <2> QED  BY <1>2, <2>2, <2>3 DEF KnownGrows, FinishStub
<1> QED  BY <1>1, <1>3, <1>4, <1>5, CallsStep

LEMMA FinishRenamedEffect ==
  ASSUME QueueInv, NamesInv, FinishRenamed
  PROVE  LET new == NameOf(Current, Narrow)
             f == CurrentGraph.base
         IN  /\ at # Idle /\ at.phase = "finish" /\ at' = Idle
             /\ Current \in DOMAIN graphs /\ Current \in Settled
             /\ Settled' = Settled
             /\ Current = <<f, CurrentGraph.key>> /\ f \in DOMAIN cache
             /\ CurrentGraph.key \in DOMAIN cache[f]
             /\ CurrentGraph.type = Wide /\ CurrentGraph.name = Current
             /\ IsMachineInt(CurrentGraph, CurrentGraph.ret)
             /\ DOMAIN specs' = DOMAIN specs \union {new}
             /\ DOMAIN cache' = DOMAIN cache
             /\ \A b \in DOMAIN cache : DOMAIN cache'[b] = DOMAIN cache[b]
             /\ todo_set' = todo_set \union dependencies[f]
             /\ \E h : /\ GraphChanges(Current, h)
                       /\ h.calls = CurrentGraph.calls /\ h.ret = CurrentGraph.ret
                       /\ h.key = CurrentGraph.key /\ h.base = f
                       /\ h.type = Narrow /\ h.name = new
<1> DEFINE base == CurrentGraph.base
           key == CurrentGraph.key
           new == Append(Current, Narrow)
           h == [CurrentGraph EXCEPT !.name = new, !.type = Narrow]
<1>1. at # Idle /\ at.phase = "finish" /\ at' = Idle /\ at'.phase = "idle"
  BY DEF FinishRenamed, Idle
<1>2. /\ Current \in Settled /\ Current \in DOMAIN graphs /\ base \in DOMAIN cache
      /\ Current # Id(base) /\ CurrentGraph.type = Wide
      /\ IsMachineInt(CurrentGraph, CurrentGraph.ret)
  BY <1>1, GraphsKnown DEF FinishRenamed, ReturnTypeChanges, IsVariant, IsSpecialized,
                           IsBase, QueueInv, SpecsInv, ReturnsMachineInt
<1>3. Current = <<base, key>> /\ CurrentGraph.name = Current
  BY <1>2 DEF NamesInv, Shapes, NameOf, CurrentGraph
<1>4. key \in DOMAIN cache[base]
  BY <1>2, <1>3 DEF QueueInv, CacheInv
<1>5. /\ graphs' = [graphs EXCEPT ![Current].name = new, ![Current].type = Narrow]
      /\ specs' = Put(specs, new, specs[Current])
      /\ cache' = [cache EXCEPT ![base][key].type = Narrow]
      /\ todo_set' = todo_set \union dependencies[base]
  BY <1>3 DEF FinishRenamed, Schedule
<1>6. DOMAIN graphs[Current] = GraphFields
  BY <1>2 DEF QueueInv, GraphsInv
<1>7. new = NameOf(Current, Narrow)
  BY DEF NameOf, Narrow, Wide
<1> HIDE DEF new
<1>8. graphs' = [graphs EXCEPT ![Current] = h]
  BY <1>2, <1>5, <1>6 DEF GraphFields, CurrentGraph
<1>9. /\ h.calls = CurrentGraph.calls /\ h.ret = CurrentGraph.ret
      /\ h.key = key /\ h.base = base
      /\ h.type = Narrow /\ h.name = new
  BY <1>6 DEF GraphFields, CurrentGraph
<1> HIDE DEF h
<1>10. GraphChanges(Current, h)
  BY <1>2, <1>8 DEF GraphChanges
<1>11. Settled' = Settled
  BY <1>1, <1>2, <1>10 DEF Settled, GraphChanges
<1>12. DOMAIN specs' = DOMAIN specs \union {new}
  BY <1>5 DEF Put
<1> HIDE DEF base, key
<1>13. /\ DOMAIN cache' = DOMAIN cache
       /\ \A b \in DOMAIN cache : DOMAIN cache'[b] = DOMAIN cache[b]
  BY <1>2, <1>4, <1>5
<1> QED  BY <1>1, <1>2, <1>3, <1>4, <1>5, <1>7, <1>9, <1>10, <1>11, <1>12, <1>13
            DEF base, key

LEMMA FinishRenamedCalls ==
  ASSUME QueueInv, NamesInv, CallsInv, FinishRenamed
  PROVE  CallsInv'
<1>1. PICK h : /\ GraphChanges(Current, h)
               /\ h.calls = CurrentGraph.calls /\ h.ret = CurrentGraph.ret
               /\ h.key = CurrentGraph.key /\ h.base = CurrentGraph.base
               /\ h.type = Narrow
  BY FinishRenamedEffect
<1>2. /\ Current \in DOMAIN graphs /\ Settled' = Settled
      /\ IsMachineInt(CurrentGraph, CurrentGraph.ret)
      /\ DOMAIN specs \subseteq DOMAIN specs'
  BY FinishRenamedEffect
<1>3. GraphFormed(Current, CurrentGraph)
      /\ \A k \in DOMAIN CurrentGraph.calls : Known(CurrentGraph.calls[k])
  BY <1>2 DEF CallsInv, CurrentGraph
<1>4. GraphFormed(Current, h)
  BY <1>1, <1>2, <1>3, SameBody
<1>5. KnownGrows
  <2>1. \A i \in Settled : i \in DOMAIN graphs
    BY DEF Settled
  <2>2. \A i \in Settled : graphs'[i] = graphs[i] \/ graphs'[i].type = Narrow
    BY <1>1, <2>1 DEF GraphChanges
  <2> QED  BY <1>2, <2>2 DEF KnownGrows, FinishRenamed
<1> QED  BY <1>1, <1>3, <1>4, <1>5, CallsStep

\* steps that change no graph and make none
LEMMA OtherSteps ==
  ASSUME QueueInv,
         \/ Pop \/ LeaveCall \/ EndSweep \/ FinishInlinable \/ Finish \/ UNCHANGED vars
  PROVE  /\ UNCHANGED <<program, graphs, specs, cache>> /\ Settled' = Settled
<1>1. UNCHANGED <<program, graphs, specs, cache>>
  BY DEF Pop, LeaveCall, EndSweep, FinishInlinable, Finish, vars
<1>2. \/ UNCHANGED at
      \/ at.phase # "stub" /\ at'.phase # "stub"
  <2>1. {"phase", "graph", "changed", "index", "redirected", "sweeps"} \subseteq DOMAIN at
        \/ at = Idle
    BY DEF QueueInv, AtInv
  <2>2. CASE Pop \/ FinishInlinable \/ Finish
    BY <2>2 DEF Pop, FinishInlinable, Finish, Idle
  <2>3. CASE LeaveCall
    BY <2>3 DEF LeaveCall, AtCall
  <2>4. CASE EndSweep
    <3>1. at.phase = "specialize" /\ at # Idle
      BY <2>4 DEF EndSweep, Idle
    <3>2. at' = [at EXCEPT !.phase = "reoptimize", !.sweeps = @ + 1]
      BY <2>4 DEF EndSweep
    <3> QED  BY <2>1, <3>1, <3>2
  <2>5. CASE UNCHANGED vars
    BY <2>5 DEF vars
  <2> QED  BY <2>2, <2>3, <2>4, <2>5
<1>3. Settled' = Settled
  BY <1>1, <1>2 DEF Settled
<1> QED  BY <1>1, <1>3

LEMMA NextCalls ==
  ASSUME QueueInv, NamesInv, CallsInv, VariantsInv, [Next]_vars
  PROVE  CallsInv'
<1>1. CASE \/ Pop \/ LeaveCall \/ EndSweep \/ FinishInlinable \/ Finish
           \/ UNCHANGED vars
  <2>1. UNCHANGED <<program, graphs, specs>> /\ Settled' = Settled
    BY <1>1, OtherSteps
  <2>2. KnownGrows
    BY <2>1 DEF KnownGrows
  <2> QED  BY <2>1, <2>2, CallsSame
<1> QED
  BY <1>1, InlineCallCalls, EndOptimizeCalls, UseVariantCalls, MakeStubCalls,
     FinishStubCalls, FinishRenamedCalls DEF Next

(***************************************************************************)
(* The initial states.                                                     *)
(***************************************************************************)

LEMMA InitGraphs ==
  ASSUME Init
  PROVE  /\ at = Idle /\ Settled = DOMAIN graphs
         /\ DOMAIN graphs = {Id(f) : f \in FunctionNames}
         /\ \A f \in FunctionNames :
              /\ Named(f) \in ToSet(Functions) /\ Named(f).name = f
              /\ graphs[Id(f)] = BaseGraph(Named(f))
<1>1. at = Idle /\ at.phase = "idle"
  BY DEF Init, Idle
<1>2. /\ DOMAIN graphs = {Id(f) : f \in FunctionNames}
      /\ \A f \in FunctionNames : graphs[Id(f)] = BaseGraph(Named(f))
  BY DEF Init, Id, FunctionNames
<1>3. ASSUME NEW f \in FunctionNames
      PROVE  Named(f) \in ToSet(Functions) /\ Named(f).name = f
  <2>1. \E fn \in ToSet(Functions) : fn.name = f
    BY DEF FunctionNames
  <2> QED  BY <2>1 DEF Named
<1> QED  BY <1>1, <1>2, <1>3 DEF Settled

LEMMA InitCalls == Init => CallsInv
<1> SUFFICES ASSUME Init PROVE CallsInv
  OBVIOUS
<1> SUFFICES ASSUME NEW f \in FunctionNames
             PROVE  /\ GraphFormed(Id(f), graphs[Id(f)])
                    /\ \A k \in DOMAIN graphs[Id(f)].calls : Known(graphs[Id(f)].calls[k])
  BY InitGraphs DEF CallsInv
<1> DEFINE fn == Named(f)
           g == graphs[Id(f)]
<1>1. program \in ProgramSet
  BY DEF Init
<1>2. fn \in ToSet(Functions) /\ fn.name = f /\ g = BaseGraph(fn)
  BY InitGraphs
<1> HIDE DEF fn, g
<1>3. /\ g.calls = fn.calls /\ g.ret = fn.ret /\ g.key = Wide /\ g.type = Wide
  BY <1>2 DEF BaseGraph, Wide
<1>4. /\ fn.calls \in Seq(ToSet(fn.calls))
      /\ Earlier(fn.calls, fn.ret, Len(fn.calls))
      /\ \A k \in DOMAIN fn.calls :
           /\ DOMAIN fn.calls[k] = CallFields
           /\ fn.calls[k].id \in Seq(Nat)
           /\ \E b \in FunctionNames : fn.calls[k].name = Id(b)
           /\ fn.calls[k].type = Wide
           /\ Earlier(fn.calls, fn.calls[k].arg, k - 1)
           /\ \A j \in DOMAIN fn.calls \ {k} : Apart(fn.calls[j].id, fn.calls[k].id)
  BY <1>1, <1>2, CallsAssumption DEF Functions, FunctionNames, CallFields, Id, Wide
<1>5. BodyFormed(g)
  BY <1>3, <1>4 DEF BodyFormed, CallsFormed
<1>6. \A b : ~ IsVariantName(Id(b))
  <2> TAKE b
  <2>1. Len(Id(b)) = 1
    BY FunctionName
  <2> QED  BY <2>1 DEF IsVariantName
<1>7. Wide \in Keys /\ Narrow # Wide
  BY DEF Keys, Narrow, Wide
<1>8. GraphFormed(Id(f), g)
  BY <1>3, <1>4, <1>5, <1>6, <1>7 DEF GraphFormed, Fits
<1>9. ASSUME NEW k \in DOMAIN g.calls PROVE Known(g.calls[k])
  <2>1. PICK b \in FunctionNames : g.calls[k].name = Id(b) /\ g.calls[k].type = Wide
    BY <1>3, <1>4
  <2>2. TargetOf(Id(b)) = Id(b) /\ Id(b) \in Settled
    BY FunctionName, InitGraphs
  <2> QED  BY <1>6, <1>7, <2>1, <2>2 DEF Known, NameOf
<1> QED  BY <1>8, <1>9 DEF g

LEMMA InitVariants == Init => VariantsInv
<1> SUFFICES ASSUME Init PROVE VariantsInv
  OBVIOUS
<1>1. \A f \in FunctionNames : Id(f) \in DOMAIN graphs
  BY InitGraphs
<1>2. \A f : ~ IsVariantName(Id(f))
  <2> TAKE f
  <2>1. Len(Id(f)) = 1
    BY FunctionName
  <2> QED  BY <2>1 DEF IsVariantName
<1>3. \A id \in Settled : ~ IsVariantName(id)
  BY <1>2, InitGraphs
<1>4. \A f \in DOMAIN cache : DOMAIN cache[f] = {}
  BY DEF Init
<1>5. PICK small \in SUBSET FunctionNames :
        inlinable = [id \in {Id(f) : f \in small} |-> id]
  BY DEF Init, FunctionNames
<1>6. \A name \in DOMAIN inlinable :
        inlinable[name] \in Settled /\ TargetOf(name) = inlinable[name]
  BY <1>5, FunctionName, InitGraphs
<1> QED  BY <1>1, <1>3, <1>4, <1>6 DEF VariantsInv

(***************************************************************************)
(* Variants and what is inlined.                                           *)
(***************************************************************************)

\* what the steps keep that make no variant and inline no new function
LEMMA VariantsSame ==
  ASSUME VariantsInv, UNCHANGED <<program, inlinable>>,
         DOMAIN graphs \subseteq DOMAIN graphs', DOMAIN specs \subseteq DOMAIN specs',
         DOMAIN cache' = DOMAIN cache,
         \A f \in DOMAIN cache : DOMAIN cache'[f] = DOMAIN cache[f],
         Settled' = Settled,
         \A id \in Settled : IsVariantName(id) => graphs'[id].name \in DOMAIN specs'
  PROVE  VariantsInv'
<1>1. FunctionNames' = FunctionNames
  BY DEF FunctionNames, Functions
<1> QED  BY <1>1 DEF VariantsInv

\* a step that changes one graph but not its name
LEMMA VariantsKept ==
  ASSUME VariantsInv, UNCHANGED <<program, inlinable, specs, cache>>,
         Settled' = Settled, NEW id, NEW h, GraphChanges(id, h),
         id \in DOMAIN graphs => h.name = graphs[id].name
  PROVE  VariantsInv'
<1>1. \A i \in Settled : i \in DOMAIN graphs /\ graphs'[i].name = graphs[i].name
  BY DEF GraphChanges, Settled
<1>2. DOMAIN graphs \subseteq DOMAIN graphs'
  BY DEF GraphChanges
<1>3. \A i \in Settled : IsVariantName(i) => graphs'[i].name \in DOMAIN specs'
  BY <1>1 DEF VariantsInv
<1> QED  BY <1>2, <1>3, VariantsSame

LEMMA InlineCallVariants ==
  ASSUME QueueInv, NamesInv, CallsInv, VariantsInv, InlineCall
  PROVE  VariantsInv'
<1>1. PICK k, h :
        /\ IsInlining(graphs[Optimized], k,
                      graphs[TargetOf(graphs[Optimized].calls[k].name)], h)
        /\ GraphChanges(Optimized, h)
  BY InlineCallEffect
<1>2. Settled' = Settled
  BY InlineCallEffect
<1>3. h.name = graphs[Optimized].name
  BY <1>1 DEF IsInlining
<1>4. UNCHANGED <<program, inlinable, specs, cache>>
  BY DEF InlineCall
<1> QED  BY <1>1, <1>2, <1>3, <1>4, VariantsKept

LEMMA EndOptimizeVariants ==
  ASSUME QueueInv, VariantsInv, EndOptimize
  PROVE  VariantsInv'
<1>1. PICK h : GraphChanges(Current, h) /\ h.name = CurrentGraph.name
  BY EndOptimizeEffect
<1>2. Settled' = Settled
  BY EndOptimizeEffect
<1>3. UNCHANGED <<program, inlinable, specs, cache>>
  BY DEF EndOptimize
<1> QED  BY <1>1, <1>2, <1>3, VariantsKept DEF CurrentGraph

LEMMA UseVariantVariants ==
  ASSUME QueueInv, VariantsInv, UseVariant
  PROVE  VariantsInv'
<1>1. PICK h : GraphChanges(Current, h) /\ h.name = CurrentGraph.name
  BY UseVariantEffect
<1>2. Settled' = Settled
  BY UseVariantEffect
<1>3. UNCHANGED <<program, inlinable, specs, cache>>
  BY DEF UseVariant
<1> QED  BY <1>1, <1>2, <1>3, VariantsKept DEF CurrentGraph

LEMMA MakeStubVariants ==
  ASSUME QueueInv, NamesInv, VariantsInv, MakeStub
  PROVE  VariantsInv'
<1> DEFINE stub == <<CallSpec, Key>>
<1>1. PICK h : GraphChanges(stub, h)
  BY MakeStubEffect
<1>2. Settled' = Settled /\ stub \notin DOMAIN graphs
  BY MakeStubEffect
<1>3. UNCHANGED <<program, inlinable, specs, cache>>
  BY DEF MakeStub
<1> HIDE DEF stub
<1> QED  BY <1>1, <1>2, <1>3, VariantsKept

LEMMA FinishStubVariants ==
  ASSUME QueueInv, NamesInv, CallsInv, VariantsInv, FinishStub
  PROVE  VariantsInv'
<1> DEFINE id == at.stub
           g == graphs[id]
<1>1. PICK h : /\ GraphChanges(id, h)
               /\ h.key = g.key /\ h.base = g.base /\ h.type \in {Wide, Narrow}
               /\ h.name = NameOf(id, h.type)
               /\ specs' = Put(specs, h.name, h.base)
               /\ \E entry : cache' = [cache EXCEPT ![h.base] = Put(@, h.key, entry)]
               /\ \/ UNCHANGED inlinable
                  \/ inlinable' = Put(inlinable, h.name, id)
  BY FinishStubEffect
<1>2. /\ id \in DOMAIN graphs /\ id \notin Settled /\ Settled' = Settled \union {id}
      /\ id = <<g.base, g.key>> /\ g.base \in DOMAIN cache
  BY FinishStubEffect
<1>3. g.key \in Keys
  BY <1>2 DEF CallsInv, GraphFormed
<1>4. TargetOf(h.name) = id
  BY <1>1, <1>2, VariantName
<1> HIDE DEF id, g
<1>5. FunctionNames' = FunctionNames /\ DOMAIN graphs' = DOMAIN graphs
  BY <1>1, <1>2 DEF FunctionNames, Functions, GraphChanges, FinishStub
<1>6. /\ DOMAIN specs' = DOMAIN specs \union {h.name}
  BY <1>1 DEF Put
<1>7. \A i \in Settled' : IsVariantName(i) => graphs'[i].name \in DOMAIN specs'
  <2>1. \A i \in Settled : i \in DOMAIN graphs /\ graphs'[i] = graphs[i]
    BY <1>1, <1>2 DEF GraphChanges, Settled
  <2>2. graphs'[id] = h
    BY <1>1 DEF GraphChanges
  <2> QED  BY <1>2, <1>6, <2>1, <2>2 DEF VariantsInv
<1>8. \A f \in DOMAIN cache' : DOMAIN cache'[f] \subseteq Keys
  <2>1. PICK entry : cache' = [cache EXCEPT ![g.base] = Put(@, g.key, entry)]
    BY <1>1
  <2>2. /\ DOMAIN cache' = DOMAIN cache
        /\ \A f \in DOMAIN cache : f # g.base => cache'[f] = cache[f]
        /\ cache'[g.base] = Put(cache[g.base], g.key, entry)
    BY <1>2, <2>1
  <2>3. DOMAIN cache'[g.base] = DOMAIN cache[g.base] \union {g.key}
    BY <2>2 DEF Put
  <2> QED  BY <1>2, <1>3, <2>2, <2>3 DEF VariantsInv
<1>9. \A name \in DOMAIN inlinable' :
        inlinable'[name] \in Settled' /\ TargetOf(name) = inlinable'[name]
  <2>1. CASE UNCHANGED inlinable
    BY <1>2, <2>1 DEF VariantsInv
  <2>2. CASE inlinable' = Put(inlinable, h.name, id)
    BY <1>2, <1>4, <2>2 DEF VariantsInv, Put
  <2> QED  BY <1>1, <2>1, <2>2
<1> QED  BY <1>5, <1>7, <1>8, <1>9 DEF VariantsInv

LEMMA FinishInlinableVariants ==
  ASSUME QueueInv, NamesInv, VariantsInv, FinishInlinable
  PROVE  VariantsInv'
<1>1. at # Idle
  BY DEF FinishInlinable, Idle
<1>2. Current \in Settled /\ Current \in DOMAIN graphs
  BY <1>1, GraphsKnown
<1>3. TargetOf(CurrentGraph.name) = Current
  BY <1>2, GraphNames DEF NamesInv, CurrentGraph
<1>4. UNCHANGED <<program, graphs, specs, cache>> /\ Settled' = Settled
  BY OtherSteps
<1>5. FunctionNames' = FunctionNames
  BY <1>4 DEF FunctionNames, Functions
<1>6. inlinable' = Put(inlinable, CurrentGraph.name, Current)
  BY DEF FinishInlinable
<1>7. \A name \in DOMAIN inlinable' :
        inlinable'[name] \in Settled /\ TargetOf(name) = inlinable'[name]
  BY <1>2, <1>3, <1>6 DEF VariantsInv, Put
<1> QED  BY <1>4, <1>5, <1>7 DEF VariantsInv

LEMMA FinishRenamedVariants ==
  ASSUME QueueInv, NamesInv, VariantsInv, FinishRenamed
  PROVE  VariantsInv'
<1> DEFINE new == NameOf(Current, Narrow)
<1>1. PICK h : GraphChanges(Current, h) /\ h.name = new
  BY FinishRenamedEffect
<1>2. /\ Settled' = Settled /\ DOMAIN specs' = DOMAIN specs \union {new}
      /\ DOMAIN cache' = DOMAIN cache
      /\ \A b \in DOMAIN cache : DOMAIN cache'[b] = DOMAIN cache[b]
  BY FinishRenamedEffect
<1>3. UNCHANGED <<program, inlinable>>
  BY DEF FinishRenamed
<1> HIDE DEF new
<1>4. \A i \in Settled : IsVariantName(i) => graphs'[i].name \in DOMAIN specs'
  <2>1. \A i \in Settled : i \in DOMAIN graphs
    BY DEF Settled
  <2> QED  BY <1>1, <1>2, <2>1 DEF GraphChanges, VariantsInv
<1>5. DOMAIN graphs \subseteq DOMAIN graphs'
  BY <1>1 DEF GraphChanges
<1> QED  BY <1>2, <1>3, <1>4, <1>5, VariantsSame

LEMMA NextVariants ==
  ASSUME QueueInv, NamesInv, CallsInv, VariantsInv, [Next]_vars
  PROVE  VariantsInv'
<1>1. CASE Pop \/ LeaveCall \/ EndSweep \/ Finish \/ UNCHANGED vars
  <2>1. UNCHANGED <<program, graphs, specs, cache>> /\ Settled' = Settled
    BY <1>1, OtherSteps
  <2>2. UNCHANGED inlinable
    BY <1>1 DEF Pop, LeaveCall, EndSweep, Finish, vars
  <2>3. \A i \in Settled : IsVariantName(i) => graphs'[i].name \in DOMAIN specs'
    BY <2>1 DEF VariantsInv
  <2> QED  BY <2>1, <2>2, <2>3, VariantsSame
<1> QED
  BY <1>1, InlineCallVariants, EndOptimizeVariants, UseVariantVariants,
     MakeStubVariants, FinishStubVariants, FinishInlinableVariants,
     FinishRenamedVariants DEF Next

-----------------------------------------------------------------------------
(***************************************************************************)
(* What the work that is left needs of the run.                            *)
(***************************************************************************)

\* the limit of the sweeps is not met when another one is due
SweepsSuffice == at.phase = "reoptimize" /\ at.redirected => at.sweeps < MaxSweeps

NotedGrows ==
  /\ \A f \in DOMAIN dependencies :
       f \in DOMAIN dependencies' /\ dependencies[f] \subseteq dependencies'[f]
  /\ \A name \in DOMAIN inline_dependencies :
       /\ name \in DOMAIN inline_dependencies'
       /\ inline_dependencies[name] \subseteq inline_dependencies'[name]

\* the step has no news for a caller
Unaffected(c) ==
  /\ graphs'[TargetOf(c.name)].type = graphs[TargetOf(c.name)].type
  /\ c.name \in DOMAIN inlinable' => c.name \in DOMAIN inlinable

LEMMA KnownCall ==
  ASSUME QueueInv, NamesInv, CallsInv,
         NEW id \in DOMAIN graphs, NEW k \in DOMAIN graphs[id].calls
  PROVE  LET c == graphs[id].calls[k]
             target == TargetOf(c.name)
         IN  /\ Known(c) /\ c.type \in {Wide, Narrow}
             /\ target \in DOMAIN graphs /\ target \in Settled
             /\ graphs[target].base = c.name[1]
             /\ IsVariantName(c.name) <=> IsVariantName(target)
             /\ IsVariantName(c.name) => /\ c.name \in DOMAIN specs
                                         /\ graphs[target].key = c.name[2]
             /\ ~ IsVariantName(c.name) => Resolved(c)
             /\ Resolved(c) <=> c.name = graphs[target].name
<1> DEFINE c == graphs[id].calls[k]
<1>1. Known(c) /\ c.type \in {Wide, Narrow}
  BY DEF CallsInv, GraphFormed, BodyFormed, CallsFormed
<1>2. Shapes
  BY DEF NamesInv
<1> HIDE DEF c
<1>3. /\ TargetOf(c.name) \in DOMAIN graphs /\ TargetOf(c.name) \in Settled
      /\ graphs[TargetOf(c.name)].base = c.name[1]
      /\ IsVariantName(c.name) <=> IsVariantName(TargetOf(c.name))
  BY <1>1, <1>2, KnownNames
<1>4. IsVariantName(c.name) => /\ c.name \in DOMAIN specs
                               /\ graphs[TargetOf(c.name)].key = c.name[2]
  BY <1>1, <1>2, KnownNames DEF Known
<1>5. /\ ~ IsVariantName(c.name) => Resolved(c)
      /\ Resolved(c) <=> c.name = graphs[TargetOf(c.name)].name
  BY <1>1, <1>2, KnownNames
<1> QED  BY <1>1, <1>3, <1>4, <1>5 DEF c

LEMMA NotedKept ==
  ASSUME QueueInv, NotedGrows, NEW c, Known(c), NEW id, Noted(id, c)
  PROVE  Noted(id, c)'
<1>1. CASE IsVariantName(c.name)
  <2>1. c.name[1] \in DOMAIN dependencies
    BY <1>1 DEF Known, QueueInv, SpecsInv
  <2> QED  BY <1>1, <2>1 DEF Noted, NotedGrows
<1>2. CASE ~ IsVariantName(c.name)
  BY <1>2 DEF Noted, NotedGrows
<1> QED  BY <1>1, <1>2

LEMMA ResolvedKept ==
  ASSUME NEW c, Unaffected(c), Resolved(c)
  PROVE  Resolved(c)'
BY DEF Unaffected, Resolved

\* nothing is left to do for a graph to whose calls nothing happens
LEMMA CleanKept ==
  ASSUME QueueInv, NamesInv, CallsInv, NotedGrows, NEW id \in DOMAIN graphs,
         graphs'[id].calls = graphs[id].calls, Clean(id),
         \A k \in DOMAIN graphs[id].calls :
           IsOwnVariant(id, graphs[id].calls[k]) \/ Unaffected(graphs[id].calls[k])
  PROVE  Clean(id)'
<1> SUFFICES ASSUME NEW k \in DOMAIN graphs[id].calls
             PROVE  Settles(id, graphs[id].calls[k])'
  BY DEF Clean
<1>1. PICK c : c = graphs[id].calls[k]
  OBVIOUS
<1>2. /\ Known(c) /\ Settles(id, c)
      /\ IsOwnVariant(id, c) \/ Unaffected(c)
  BY <1>1, KnownCall DEF Clean
<1>3. CASE IsOwnVariant(id, c)
  <2>1. IsOwnVariant(id, c)'
    BY <1>3 DEF IsOwnVariant, Id
  <2> QED  BY <1>1, <2>1 DEF Settles
<1>4. CASE ~ IsOwnVariant(id, c)
  <2>1. Noted(id, c)' /\ Resolved(c)'
    BY <1>2, <1>4, NotedKept, ResolvedKept DEF Settles
  <2>2. Settles(id, c)'
    BY <1>2, <1>4, <2>1 DEF Settles, Unaffected
  <2> QED  BY <1>1, <2>2
<1> QED  BY <1>3, <1>4

LEMMA HeededKept ==
  ASSUME QueueInv, NotedGrows, NEW c, Known(c), Unaffected(c), NEW id, Heeded(id, c)
  PROVE  Heeded(id, c)'
<1>1. CASE IsOwnVariant(id, c)
  BY <1>1 DEF Heeded, IsOwnVariant, Id
<1>2. CASE Resolved(c) /\ Noted(id, c)
  BY <1>2, NotedKept, ResolvedKept DEF Heeded
<1> QED  BY <1>1, <1>2 DEF Heeded

\* a step that has no news for any caller
Quiet ==
  /\ NotedGrows /\ UNCHANGED inlinable
  /\ \A i \in Settled : graphs'[i].type = graphs[i].type

LEMMA QuietCalls ==
  ASSUME QueueInv, NamesInv, CallsInv, Quiet, NEW id \in DOMAIN graphs,
         NEW k \in DOMAIN graphs[id].calls
  PROVE  Unaffected(graphs[id].calls[k])
<1>1. TargetOf(graphs[id].calls[k].name) \in Settled
  BY KnownCall
<1> QED  BY <1>1 DEF Unaffected, Quiet

LEMMA CleanQuiet ==
  ASSUME QueueInv, NamesInv, CallsInv, Quiet, NEW id \in DOMAIN graphs,
         graphs'[id].calls = graphs[id].calls, Clean(id)
  PROVE  Clean(id)'
<1>1. \A k \in DOMAIN graphs[id].calls : Unaffected(graphs[id].calls[k])
  BY QuietCalls
<1> QED  BY <1>1, CleanKept DEF Quiet

\* a step of the optimization of the graph of the work list
LEMMA RestQuiet ==
  ASSUME QueueInv, NamesInv, CallsInv, RestInv, Quiet,
         Settled' = Settled, UNCHANGED todo_set,
         at # Idle, at'.phase # "idle", at'.graph = at.graph,
         \A i \in Settled : graphs'[i].name = graphs[i].name,
         \A i \in Settled \ {Current} : graphs'[i].calls = graphs[i].calls
  PROVE  RestInv'
<1> SUFFICES ASSUME NEW id \in Settled
             PROVE  \/ id \in todo_set
                    \/ at' # Idle /\ id = Current
                    \/ IsInlined(id)'
                    \/ Clean(id)'
  BY DEF RestInv, Current, Idle
<1>1. at' # Idle
  BY DEF Idle
<1>2. CASE id = Current
  BY <1>1, <1>2
<1>3. CASE id # Current
  <2>1. id \in DOMAIN graphs
    BY DEF Settled
  <2>2. Clean(id) => Clean(id)'
    BY <1>3, <2>1, CleanQuiet
  <2>3. IsInlined(id) => IsInlined(id)'
    BY DEF IsInlined, Quiet
  <2> QED  BY <1>3, <2>2, <2>3 DEF RestInv
<1> QED  BY <1>2, <1>3

\* the sweep stands still while a variant is made
LEMMA SweepKept ==
  ASSUME QueueInv, NamesInv, CallsInv, SweepInv, NotedGrows,
         at.phase \in {"specialize", "stub"}, at'.graph = at.graph,
         at'.index = at.index, at'.redirected = at.redirected,
         Current \in DOMAIN graphs, graphs'[Current] = graphs[Current],
         \A k \in DOMAIN CurrentGraph.calls : Unaffected(CurrentGraph.calls[k])
  PROVE  SweepInv'
<1>1. CurrentGraph' = CurrentGraph /\ Current' = Current
  BY DEF CurrentGraph, Current
<1> SUFFICES ASSUME NEW k \in DOMAIN CurrentGraph.calls
             PROVE  LET c == CurrentGraph.calls[k]
                    IN  /\ k < at.index => Heeded(Current, c)'
                        /\ ~ IsVariantName(c.name) => Noted(Current, c)'
                        /\ c.name \in DOMAIN inlinable' => at.redirected
  BY <1>1 DEF SweepInv
<1>2. PICK c, id : c = CurrentGraph.calls[k] /\ id = Current
  OBVIOUS
<1>3. Known(c) /\ Unaffected(c)
  BY <1>2, KnownCall DEF CurrentGraph
<1>4. /\ k < at.index => Heeded(id, c)
      /\ ~ IsVariantName(c.name) => Noted(id, c)
      /\ c.name \in DOMAIN inlinable => at.redirected
  BY <1>2 DEF SweepInv
<1>5. /\ Noted(id, c) => Noted(id, c)'
      /\ Heeded(id, c) => Heeded(id, c)'
      /\ c.name \in DOMAIN inlinable' => c.name \in DOMAIN inlinable
  BY <1>3, NotedKept, HeededKept DEF Unaffected
<1> QED  BY <1>1, <1>2, <1>4, <1>5

LEMMA PopWork ==
  ASSUME QueueInv, NamesInv, CallsInv, WorkInv, Pop
  PROVE  WorkInv'
<1>1. /\ todo_set' = todo_set \ {Head(todo)}
      /\ UNCHANGED <<graphs, inlinable, dependencies, inline_dependencies>>
      /\ at = Idle /\ at'.graph = Head(todo)
      /\ at'.phase = "optimize" /\ ~ at'.redirected
  <2>1. at = Idle
    BY DEF Pop, QueueInv, AtInv
  <2> QED  BY <2>1 DEF Pop
<1>2. Settled' = Settled
  BY OtherSteps
<1>3. SweepInv' /\ PhaseInv'
  BY <1>1 DEF SweepInv, PhaseInv
<1>4. Quiet
  BY <1>1 DEF Quiet, NotedGrows
<1>5. ASSUME NEW id \in Settled
      PROVE  \/ id \in todo_set'
             \/ at' # Idle /\ id = Current'
             \/ IsInlined(id)'
             \/ Clean(id)'
  <2>1. CASE id = Head(todo)
    BY <1>1, <2>1 DEF Idle, Current
  <2>2. CASE id # Head(todo)
    <3>1. id \in DOMAIN graphs
      BY DEF Settled
    <3>2. Clean(id) => Clean(id)'
      BY <1>1, <1>4, <3>1, CleanQuiet
    <3>3. IsInlined(id) => IsInlined(id)'
      BY <1>1 DEF IsInlined
    <3> QED  BY <1>1, <2>2, <3>2, <3>3 DEF WorkInv, RestInv
  <2> QED  BY <2>1, <2>2
<1>6. RestInv'
  BY <1>2, <1>5 DEF RestInv
<1> QED  BY <1>3, <1>6 DEF WorkInv

LEMMA InlineCallWork ==
  ASSUME QueueInv, NamesInv, CallsInv, VariantsInv, WorkInv, InlineCall
  PROVE  WorkInv'
<1>1. PICK h : GraphChanges(Optimized, h) /\ h.name = graphs[Optimized].name
               /\ h.type = graphs[Optimized].type
  BY InlineCallEffect DEF IsInlining
<1>2. at # Idle /\ Settled' = Settled /\ Optimized \in DOMAIN graphs
  BY InlineCallEffect
<1>3. Current \in Settled /\ Current \in DOMAIN graphs
  BY <1>2, GraphsKnown
<1>4. /\ UNCHANGED <<todo_set, inlinable, dependencies, inline_dependencies>>
      /\ SamePlace /\ at' # Idle
      /\ at.phase \in {"optimize", "reoptimize", "stub"}
      /\ InlinableCalls # {}
  BY InlineCallPlace DEF InlineCall, Optimizing
<1>5. /\ \A i \in DOMAIN graphs : /\ graphs'[i].type = graphs[i].type
                                  /\ graphs'[i].name = graphs[i].name
      /\ \A i \in DOMAIN graphs : i # Optimized => graphs'[i] = graphs[i]
  BY <1>1, <1>2 DEF GraphChanges
<1>6. \A i \in Settled : i \in DOMAIN graphs
  BY DEF Settled
<1>7. Quiet
  BY <1>4, <1>5, <1>6 DEF Quiet, NotedGrows
<1>8. at.phase = "stub" => Optimized \notin Settled
  BY DEF Optimized, Settled
<1>9. at.phase # "stub" => Optimized = Current
  BY DEF Optimized
<1>10. RestInv'
  BY <1>2, <1>3, <1>4, <1>5, <1>6, <1>7, <1>8, <1>9, RestQuiet
  DEF WorkInv, Idle, SamePlace
<1>11. SweepInv'
  <2>1. CASE at.phase = "stub"
    <3>1. graphs'[Current] = graphs[Current]
      BY <1>3, <1>5, <1>8, <2>1
    <3>2. \A k \in DOMAIN CurrentGraph.calls : Unaffected(CurrentGraph.calls[k])
      BY <1>3, <1>7, QuietCalls DEF CurrentGraph
    <3> QED  BY <1>3, <1>4, <1>7, <2>1, <3>1, <3>2, SweepKept
         DEF WorkInv, Quiet, SamePlace
  <2>2. CASE at.phase # "stub"
    BY <1>4, <2>2 DEF SweepInv, SamePlace
  <2> QED  BY <2>1, <2>2
<1>12. PhaseInv'
  <2>1. IsInlined(Current)' <=> IsInlined(Current)
    BY <1>4 DEF IsInlined, Current, SamePlace
  <2>2. at.phase = "reoptimize" => at.redirected
    <3> SUFFICES ASSUME at.phase = "reoptimize", ~ at.redirected PROVE FALSE
      OBVIOUS
    <3>1. \A k \in DOMAIN CurrentGraph.calls :
            CurrentGraph.calls[k].name \notin DOMAIN inlinable
      BY DEF WorkInv, PhaseInv
    <3>2. Optimized = Current
      BY <1>9
    <3> QED  BY <1>4, <3>1, <3>2 DEF CurrentGraph, InlinableCalls
  <2> QED  BY <1>4, <2>1, <2>2 DEF WorkInv, PhaseInv, SamePlace
<1> QED  BY <1>10, <1>11, <1>12 DEF WorkInv

LEMMA EndOptimizeWork ==
  ASSUME QueueInv, NamesInv, CallsInv, VariantsInv, WorkInv, SweepsSuffice, EndOptimize
  PROVE  WorkInv'
<1>1. PICK h : /\ GraphChanges(Current, h) /\ h.calls = CurrentGraph.calls
               /\ h.type = CurrentGraph.type /\ h.name = CurrentGraph.name
  BY EndOptimizeEffect
<1>2. /\ at # Idle /\ Current \in DOMAIN graphs /\ Current \in Settled
      /\ Settled' = Settled
  BY EndOptimizeEffect
<1>3. /\ UNCHANGED <<todo_set, inlinable, dependencies>>
      /\ at.phase \in {"optimize", "reoptimize"} /\ InlinableCalls = {}
      /\ inline_dependencies' = NoteCalls(inline_dependencies, Current, CurrentGraph)
  BY DEF EndOptimize
<1>4. /\ at'.graph = at.graph /\ at'.phase \in {"specialize", "finish"}
      /\ at'.phase = "specialize" =>
           /\ at'.index = 1
           /\ \/ at.redirected /\ at.sweeps < MaxSweeps
              \/ at.phase = "optimize" /\ CurrentGraph.name \notin DOMAIN inlinable
      /\ at'.phase = "finish" =>
           /\ ~ (at.redirected /\ at.sweeps < MaxSweeps)
           /\ ~ (at.phase = "optimize" /\ CurrentGraph.name \notin DOMAIN inlinable)
  BY EndOptimizePlace
<1>5. /\ \A i \in DOMAIN graphs : /\ graphs'[i].type = graphs[i].type
                                  /\ graphs'[i].name = graphs[i].name
                                  /\ graphs'[i].calls = graphs[i].calls
  BY <1>1, <1>2 DEF GraphChanges, CurrentGraph
<1>6. \A i \in Settled : i \in DOMAIN graphs
  BY DEF Settled
<1>7. /\ NotedGrows
      /\ \A k \in DOMAIN CurrentGraph.calls :
           /\ CurrentGraph.calls[k].name \in DOMAIN inline_dependencies'
           /\ Current \in inline_dependencies'[CurrentGraph.calls[k].name]
  <2> DEFINE names == {CurrentGraph.calls[k].name : k \in DOMAIN CurrentGraph.calls}
  <2>1. /\ DOMAIN inline_dependencies' = DOMAIN inline_dependencies \union names
        /\ \A name \in DOMAIN inline_dependencies \union names :
             inline_dependencies'[name] =
               (IF name \in DOMAIN inline_dependencies
                THEN inline_dependencies[name] ELSE {})
                 \union (IF name \in names THEN {Current} ELSE {})
    BY <1>3 DEF NoteCalls
  <2>2. \A k \in DOMAIN CurrentGraph.calls : CurrentGraph.calls[k].name \in names
    OBVIOUS
  <2> HIDE DEF names
  <2> QED  BY <1>3, <2>1, <2>2 DEF NotedGrows
<1>8. Quiet
  BY <1>3, <1>5, <1>6, <1>7 DEF Quiet
<1>9. RestInv'
  BY <1>2, <1>3, <1>4, <1>5, <1>6, <1>8, RestQuiet DEF WorkInv
<1>10. /\ Current' = Current /\ CurrentGraph'.calls = CurrentGraph.calls
       /\ CurrentGraph'.name = CurrentGraph.name
  BY <1>2, <1>4, <1>5 DEF Current, CurrentGraph
<1>11. SweepInv'
  <2> SUFFICES ASSUME at'.phase = "specialize", NEW k \in DOMAIN CurrentGraph.calls
               PROVE  /\ ~ k < 1
                      /\ ~ IsVariantName(CurrentGraph.calls[k].name) =>
                           Noted(Current, CurrentGraph.calls[k])'
                      /\ CurrentGraph.calls[k].name \notin DOMAIN inlinable
    BY <1>3, <1>4, <1>10 DEF SweepInv
  <2>1. k \in Nat \ {0}
    <3>1. CurrentGraph.calls \in Seq(ToSet(CurrentGraph.calls))
      BY <1>2 DEF CallsInv, GraphFormed, BodyFormed, CallsFormed, CurrentGraph
    <3> QED  BY <3>1
  <2>2. CurrentGraph.calls[k].name \notin DOMAIN inlinable
    BY <1>3 DEF InlinableCalls, Optimized, CurrentGraph
  <2>3. ~ IsVariantName(CurrentGraph.calls[k].name) =>
          Noted(Current, CurrentGraph.calls[k])'
    BY <1>7, <1>10 DEF Noted
  <2> QED  BY <2>1, <2>2, <2>3
<1>12. PhaseInv'
  <2>1. IsInlined(Current)' <=> IsInlined(Current)
    BY <1>3, <1>10 DEF IsInlined
  <2>2. Clean(Current) => Clean(Current)'
    <3>1. PICK id : id = Current
      OBVIOUS
    <3>2. Clean(id) => Clean(id)'
      BY <1>2, <1>5, <1>8, <3>1, CleanQuiet
    <3> QED  BY <1>10, <3>1, <3>2
  <2>3. CurrentGraph.name \in DOMAIN inlinable => IsInlined(Current)
    <3>1. TargetOf(CurrentGraph.name) = Current
      BY <1>2, GraphNames DEF NamesInv, CurrentGraph
    <3> QED  BY <3>1 DEF IsInlined
  <2>4. at'.phase = "finish" => IsInlined(Current) \/ Clean(Current)
    <3>1. at.phase = "reoptimize" /\ at'.phase = "finish" => ~ at.redirected
      BY <1>4 DEF SweepsSuffice
    <3> QED  BY <1>3, <1>4, <2>3, <3>1 DEF WorkInv, PhaseInv
  <2> QED  BY <1>4, <2>1, <2>2, <2>4 DEF PhaseInv
<1> QED  BY <1>9, <1>11, <1>12 DEF WorkInv

\* a call of a variant is specialized, except in the function it is a variant of
LEMMA VariantCalls ==
  ASSUME QueueInv, NamesInv, CallsInv, AtCall, IsVariantName(Call.name)
  PROVE  Specializes \/ IsOwnVariant(Current, Call)
<1> DEFINE c == CurrentGraph.calls[at.index]
           target == TargetOf(c.name)
           f == c.name[1]
<1>1. at # Idle /\ at.index \in DOMAIN CurrentGraph.calls
  BY DEF AtCall, Idle
<1>2. Current \in DOMAIN graphs
  BY <1>1, GraphsKnown
<1>3. Call = c
  BY DEF Call
<1>4. /\ target \in DOMAIN graphs /\ graphs[target].base = f
      /\ IsVariantName(target) /\ c.name \in DOMAIN specs
      /\ graphs[target].key = c.name[2]
  BY <1>1, <1>2, <1>3, KnownCall DEF CurrentGraph
<1>5. Fits(CurrentGraph, c)
  BY <1>1, <1>2 DEF CallsInv, GraphFormed, CurrentGraph
<1>6. CallSpec = f /\ f \in DOMAIN cache
  BY <1>3, <1>4 DEF CallSpec, QueueInv, SpecsInv
<1>7. Current = Id(f) => IsOwnVariant(Current, Call)
  BY <1>3 DEF IsOwnVariant, IsVariantName
<1>8. CallKey(CurrentGraph, Call, CallSpec) # {}
  <2>1. GraphFormed(target, graphs[target])
    BY <1>4 DEF CallsInv
  <2>2. /\ c.name[2] \in {Narrow, Wide}
        /\ c.name[2] = Wide => Named(f).result = "int"
    BY <1>4, <2>1 DEF GraphFormed, Keys, Narrow, Wide
  <2>3. c.name[2] = Narrow => IsMachineInt(CurrentGraph, c.arg)
    BY <1>3, <1>5 DEF Fits
  <2> HIDE DEF c, f
  <2> QED  BY <1>3, <1>6, <2>2, <2>3 DEF CallKey
<1> QED  BY <1>3, <1>4, <1>6, <1>7, <1>8 DEF Specializes

\* a function has no more variants than there are keys
LEMMA VariantsSuffice ==
  ASSUME MaxVariants > 0, VariantsInv, Specializes, ~ HasVariant,
         CallSpec \in DOMAIN cache
  PROVE  ~ TooManyVariants
<1>1. DOMAIN cache[CallSpec] \subseteq Keys
  BY DEF VariantsInv
<1>2. Key \in Keys /\ Key \notin DOMAIN cache[CallSpec]
  <2>1. Key \in CallKey(CurrentGraph, Call, CallSpec)
    BY DEF Key, Specializes
  <2> QED  BY <2>1 DEF CallKey, Keys, HasVariant
<1>3. PICK other : DOMAIN cache[CallSpec] \subseteq {other}
  BY <1>1, <1>2 DEF Keys
<1>4. IsFiniteSet({other}) /\ Cardinality({other}) = 1
  BY FS_Singleton
<1>5. Cardinality(DOMAIN cache[CallSpec]) \in Nat /\ Cardinality(DOMAIN cache[CallSpec]) <= 1
  BY <1>3, <1>4, FS_Subset, FS_CardinalityType
<1> QED  BY <1>5, BoundsAssumption DEF TooManyVariants

LEMMA LeaveCallWork ==
  ASSUME MaxVariants > 0, QueueInv, NamesInv, CallsInv, VariantsInv, WorkInv, LeaveCall
  PROVE  WorkInv'
<1>1. /\ at # Idle /\ at.phase = "specialize"
      /\ at.index \in DOMAIN CurrentGraph.calls
      /\ UNCHANGED <<graphs, todo_set, inlinable, dependencies, inline_dependencies>>
  BY DEF LeaveCall, AtCall, Idle
<1>2. Current \in DOMAIN graphs /\ Current \in Settled
  BY <1>1, GraphsKnown
<1>3. Settled' = Settled
  BY OtherSteps
<1>4. /\ at'.graph = at.graph /\ at'.phase = "specialize"
      /\ at'.index = at.index + 1 /\ at'.redirected = at.redirected
  <2>1. {"phase", "graph", "changed", "index", "redirected", "sweeps"} \subseteq DOMAIN at
    BY <1>1 DEF QueueInv, AtInv
  <2>2. at' = [at EXCEPT !.index = @ + 1]
    BY DEF LeaveCall
  <2> QED  BY <1>1, <2>1, <2>2
<1>5. Quiet
  BY <1>1 DEF Quiet, NotedGrows
<1>6. RestInv'
  BY <1>1, <1>3, <1>4, <1>5, RestQuiet DEF WorkInv
<1>7. ~ Specializes
  <2> SUFFICES ASSUME Specializes PROVE FALSE
    OBVIOUS
  <2>1. CallSpec \in DOMAIN cache
    BY SpecializedCall
  <2> QED  BY <2>1, VariantsSuffice DEF LeaveCall
<1>8. Heeded(Current, Call)
  <2>1. CASE IsVariantName(Call.name)
    BY <1>1, <1>7, <2>1, VariantCalls DEF AtCall, Heeded
  <2>2. CASE ~ IsVariantName(Call.name)
    <3>1. Resolved(Call) /\ Noted(Current, Call)
      BY <1>1, <1>2, <2>2, KnownCall DEF WorkInv, SweepInv, Call, CurrentGraph
    <3> QED  BY <3>1 DEF Heeded
  <2> QED  BY <2>1, <2>2
<1>9. /\ Current' = Current /\ CurrentGraph' = CurrentGraph
  BY <1>1, <1>4 DEF Current, CurrentGraph
<1>10. /\ \A id, c : Heeded(id, c) => Heeded(id, c)'
       /\ \A id, c : Noted(id, c) => Noted(id, c)'
  BY <1>1 DEF Heeded, IsOwnVariant, Id, Resolved, Noted
<1>11. SweepInv'
  <2>1. at.index \in Nat \ {0} /\ at.index + 1 \in Nat \ {0}
    BY <1>1 DEF WorkInv, SweepInv
  <2> SUFFICES ASSUME NEW k \in DOMAIN CurrentGraph.calls
               PROVE  /\ k < at.index + 1 => Heeded(Current, CurrentGraph.calls[k])'
                      /\ ~ IsVariantName(CurrentGraph.calls[k].name) =>
                           Noted(Current, CurrentGraph.calls[k])'
                      /\ CurrentGraph.calls[k].name \in DOMAIN inlinable =>
                           at.redirected
    BY <1>1, <1>4, <1>9, <2>1 DEF SweepInv
  <2>2. PICK c, id : c = CurrentGraph.calls[k] /\ id = Current
    OBVIOUS
  <2>3. k \in Nat
    <3>1. CurrentGraph.calls \in Seq(ToSet(CurrentGraph.calls))
      BY <1>2 DEF CallsInv, GraphFormed, BodyFormed, CallsFormed, CurrentGraph
    <3> QED  BY <3>1
  <2>4. k < at.index + 1 => Heeded(id, c)
    <3>1. CASE k = at.index
      BY <1>8, <2>2, <3>1 DEF Call
    <3>2. CASE k # at.index
      <4>1. k < at.index + 1 => k < at.index
        BY <2>1, <2>3, <3>2
      <4> QED  BY <1>1, <2>2, <4>1 DEF WorkInv, SweepInv
    <3> QED  BY <3>1, <3>2
  <2>5. /\ ~ IsVariantName(c.name) => Noted(id, c)
        /\ c.name \in DOMAIN inlinable => at.redirected
    BY <1>1, <2>2 DEF WorkInv, SweepInv
  <2> QED  BY <1>9, <1>10, <2>2, <2>4, <2>5
<1>12. PhaseInv'
  BY <1>4 DEF PhaseInv
<1> QED  BY <1>6, <1>11, <1>12 DEF WorkInv

LEMMA UseVariantWork ==
  ASSUME QueueInv, NamesInv, CallsInv, VariantsInv, WorkInv, UseVariant
  PROVE  WorkInv'
<1> DEFINE i == at.index
<1>1. PICK h : /\ GraphChanges(Current, h)
               /\ h.calls = [CurrentGraph.calls EXCEPT ![i] = Redirected]
               /\ h.type = CurrentGraph.type /\ h.name = CurrentGraph.name
  BY UseVariantEffect
<1>2. /\ at'.phase = "specialize" /\ at'.graph = at.graph /\ at'.index = i + 1
      /\ at'.redirected = (at.redirected \/ Redirected # Call)
      /\ Settled' = Settled
  BY UseVariantEffect
<1>3. /\ Specializes /\ HasVariant /\ UNCHANGED <<todo_set, inlinable, inline_dependencies>>
      /\ dependencies' = [dependencies EXCEPT ![CallSpec] = @ \union {Current}]
  BY DEF UseVariant
<1>4. /\ at # Idle /\ at.phase = "specialize" /\ i \in DOMAIN CurrentGraph.calls
      /\ Current \in DOMAIN graphs /\ Current \in Settled
      /\ CallSpec \in DOMAIN cache
  BY <1>3, SpecializedCall
<1>5. /\ Known(Redirected) /\ Resolved(Redirected)
      /\ IsVariantName(Redirected.name) /\ Redirected.name[1] = CallSpec
  BY <1>3, RedirectedKnown
<1>6. /\ \A j \in DOMAIN graphs : /\ graphs'[j].type = graphs[j].type
                                  /\ graphs'[j].name = graphs[j].name
      /\ \A j \in DOMAIN graphs \ {Current} : graphs'[j].calls = graphs[j].calls
  BY <1>1, <1>4 DEF GraphChanges, CurrentGraph
<1>7. \A j \in Settled : j \in DOMAIN graphs
  BY DEF Settled
<1>8. NotedGrows /\ Current \in dependencies'[CallSpec]
  <2>1. CallSpec \in DOMAIN dependencies
    BY <1>4 DEF QueueInv, SpecsInv
  <2> QED  BY <1>3, <2>1 DEF NotedGrows
<1>9. Quiet
  BY <1>3, <1>6, <1>7, <1>8 DEF Quiet
<1>10. RestInv'
  BY <1>2, <1>3, <1>4, <1>6, <1>7, <1>9, RestQuiet DEF WorkInv
<1>11. /\ Current' = Current /\ CurrentGraph'.name = CurrentGraph.name
       /\ CurrentGraph'.calls = [CurrentGraph.calls EXCEPT ![i] = Redirected]
  BY <1>1, <1>2 DEF Current, CurrentGraph, GraphChanges
<1>12. SweepInv'
  <2>1. i \in Nat \ {0} /\ i + 1 \in Nat \ {0}
    BY <1>4 DEF WorkInv, SweepInv
  <2> SUFFICES ASSUME NEW k \in DOMAIN CurrentGraph.calls
               PROVE  /\ k < i + 1 => Heeded(Current, CurrentGraph.calls[k])'
                      /\ ~ IsVariantName(CurrentGraph'.calls[k].name) =>
                           Noted(Current, CurrentGraph.calls[k])'
                      /\ CurrentGraph'.calls[k].name \in DOMAIN inlinable =>
                           at.redirected \/ Redirected # Call
    BY <1>2, <1>3, <1>11, <2>1 DEF SweepInv
  <2>2. PICK c, id : c = CurrentGraph'.calls[k] /\ id = Current
    OBVIOUS
  <2>3. CASE k = i
    <3>1. c = Redirected /\ Call = CurrentGraph.calls[i]
      BY <1>4, <1>11, <2>2, <2>3 DEF Call
    <3>2. Unaffected(c)
      <4>1. TargetOf(c.name) \in Settled
        BY <1>5, <3>1 DEF Known
      <4> QED  BY <1>9, <4>1 DEF Unaffected, Quiet
    <3>3. Resolved(c)'
      BY <1>5, <3>1, <3>2, ResolvedKept
    <3>4. IsVariantName(c.name) /\ Noted(id, c)'
      BY <1>5, <1>8, <2>2, <3>1 DEF Noted
    <3>5. c = Call /\ c.name \in DOMAIN inlinable => at.redirected
      BY <1>4, <2>3, <3>1 DEF WorkInv, SweepInv
    <3>6. Heeded(id, c)'
      BY <3>3, <3>4 DEF Heeded
    <3> QED  BY <1>11, <2>2, <3>1, <3>4, <3>5, <3>6
  <2>4. CASE k # i
    <3>1. c = CurrentGraph.calls[k]
      BY <1>11, <2>2, <2>4
    <3>2. Known(c) /\ Unaffected(c)
      BY <1>4, <1>9, <3>1, KnownCall, QuietCalls DEF CurrentGraph
    <3>3. /\ k < i => Heeded(id, c)
          /\ ~ IsVariantName(c.name) => Noted(id, c)
          /\ c.name \in DOMAIN inlinable => at.redirected
      BY <1>4, <2>2, <3>1 DEF WorkInv, SweepInv
    <3>4. Noted(id, c) => Noted(id, c)'
      BY <1>8, <3>2, NotedKept
    <3>5. Heeded(id, c) => Heeded(id, c)'
      BY <1>8, <3>2, HeededKept
    <3>6. k < i + 1 => k < i
      <4>1. CurrentGraph.calls \in Seq(ToSet(CurrentGraph.calls))
        BY <1>4 DEF CallsInv, GraphFormed, BodyFormed, CallsFormed, CurrentGraph
      <4>2. k \in Nat
        BY <4>1
      <4> QED  BY <2>1, <2>4, <4>2
    <3> QED  BY <1>11, <2>2, <3>3, <3>4, <3>5, <3>6
  <2> QED  BY <2>3, <2>4
<1>13. PhaseInv'
  BY <1>2 DEF PhaseInv
<1> QED  BY <1>10, <1>12, <1>13 DEF WorkInv

LEMMA MakeStubWork ==
  ASSUME QueueInv, NamesInv, CallsInv, WorkInv, MakeStub
  PROVE  WorkInv'
<1> DEFINE stub == <<CallSpec, Key>>
<1>1. PICK h : GraphChanges(stub, h)
  BY MakeStubEffect
<1>2. /\ stub \notin DOMAIN graphs /\ Settled = DOMAIN graphs /\ Settled' = Settled
      /\ at'.phase = "stub" /\ at'.graph = at.graph
      /\ at'.index = at.index /\ at'.redirected = at.redirected
  BY MakeStubEffect
<1>3. /\ at # Idle /\ at.phase = "specialize"
      /\ UNCHANGED <<todo_set, inlinable, dependencies, inline_dependencies>>
  BY DEF MakeStub, Specializes, AtCall, Idle
<1>4. Current \in Settled /\ Current \in DOMAIN graphs
  BY <1>3, GraphsKnown
<1> HIDE DEF stub
<1>5. \A i \in Settled : graphs'[i] = graphs[i]
  BY <1>1, <1>2 DEF GraphChanges
<1>6. Quiet
  BY <1>3, <1>5 DEF Quiet, NotedGrows
<1>7. RestInv'
  BY <1>2, <1>3, <1>5, <1>6, RestQuiet DEF WorkInv
<1>8. SweepInv'
  <2>1. \A k \in DOMAIN CurrentGraph.calls : Unaffected(CurrentGraph.calls[k])
    BY <1>4, <1>6, QuietCalls DEF CurrentGraph
  <2> QED  BY <1>2, <1>3, <1>4, <1>5, <1>6, <2>1, SweepKept DEF WorkInv, Quiet
<1>9. PhaseInv'
  BY <1>2 DEF PhaseInv
<1> QED  BY <1>7, <1>8, <1>9 DEF WorkInv

LEMMA NoteCallsGrows ==
  ASSUME NEW id, NEW g,
         inline_dependencies' = NoteCalls(inline_dependencies, id, g),
         UNCHANGED dependencies
  PROVE  NotedGrows
BY DEF NoteCalls, NotedGrows

\* nobody calls a variant that is being made
LEMMA FinishStubWork ==
  ASSUME QueueInv, NamesInv, CallsInv, WorkInv, FinishStub
  PROVE  WorkInv'
<1> DEFINE stub == at.stub
<1>1. PICK h : /\ GraphChanges(stub, h) /\ h.type \in {Wide, Narrow}
               /\ h.name = NameOf(stub, h.type)
               /\ \/ UNCHANGED inlinable
                  \/ inlinable' = Put(inlinable, h.name, stub)
  BY FinishStubEffect
<1>2. /\ at # Idle /\ at.phase = "stub"
      /\ stub \in DOMAIN graphs /\ stub \notin Settled
      /\ Settled' = Settled \union {stub}
      /\ stub = <<graphs[stub].base, graphs[stub].key>>
      /\ at'.phase = "specialize" /\ at'.graph = at.graph
      /\ at'.index = at.index /\ at'.redirected = at.redirected
      /\ todo_set' = todo_set \union {stub}
      /\ inline_dependencies' = NoteCalls(inline_dependencies, stub, graphs'[stub])
  BY FinishStubEffect
<1>3. Current \in Settled /\ Current \in DOMAIN graphs
  BY <1>2, GraphsKnown
<1>4. TargetOf(h.name) = stub
  BY <1>1, <1>2, VariantName
<1>5. NotedGrows
  BY <1>2, NoteCallsGrows DEF FinishStub
<1> HIDE DEF stub
<1>6. \A i \in Settled : i \in DOMAIN graphs /\ graphs'[i] = graphs[i]
  BY <1>1, <1>2 DEF GraphChanges, Settled
<1>7. /\ DOMAIN inlinable \subseteq DOMAIN inlinable'
      /\ DOMAIN inlinable' \subseteq DOMAIN inlinable \union {h.name}
  BY <1>1 DEF Put
<1>8. ASSUME NEW i \in Settled, NEW k \in DOMAIN graphs[i].calls
      PROVE  Unaffected(graphs[i].calls[k])
  <2>1. TargetOf(graphs[i].calls[k].name) \in Settled
    BY <1>6, KnownCall
  <2> QED  BY <1>2, <1>4, <1>6, <1>7, <2>1 DEF Unaffected
<1>9. RestInv'
  <2> SUFFICES ASSUME NEW id \in Settled'
               PROVE  \/ id \in todo_set'
                      \/ at' # Idle /\ id = Current'
                      \/ IsInlined(id)'
                      \/ Clean(id)'
    BY DEF RestInv
  <2>1. CASE id = stub
    BY <1>2, <2>1
  <2>2. CASE id \in Settled
    <3>1. Clean(id) => Clean(id)'
      BY <1>5, <1>6, <1>8, <2>2, CleanKept
    <3>2. IsInlined(id) => IsInlined(id)'
      BY <1>6, <1>7, <2>2 DEF IsInlined
    <3>3. id = Current => at' # Idle /\ id = Current'
      BY <1>2 DEF Idle, Current
    <3> QED  BY <1>2, <2>2, <3>1, <3>2, <3>3 DEF WorkInv, RestInv
  <2> QED  BY <1>2, <2>1, <2>2
<1>10. SweepInv'
  <2>1. \A k \in DOMAIN CurrentGraph.calls : Unaffected(CurrentGraph.calls[k])
    BY <1>3, <1>8 DEF CurrentGraph
  <2> QED  BY <1>2, <1>3, <1>5, <1>6, <2>1, SweepKept DEF WorkInv
<1>11. PhaseInv'
  BY <1>2 DEF PhaseInv
<1> QED  BY <1>9, <1>10, <1>11 DEF WorkInv

LEMMA EndSweepWork ==
  ASSUME QueueInv, NamesInv, CallsInv, WorkInv, EndSweep
  PROVE  WorkInv'
<1>1. /\ at # Idle /\ at.phase = "specialize"
      /\ at.index \notin DOMAIN CurrentGraph.calls
      /\ UNCHANGED <<graphs, todo_set, inlinable, dependencies, inline_dependencies>>
  BY DEF EndSweep, AtCall, Idle
<1>2. Current \in DOMAIN graphs /\ Current \in Settled
  BY <1>1, GraphsKnown
<1>3. Settled' = Settled
  BY OtherSteps
<1>4. /\ at'.graph = at.graph /\ at'.phase = "reoptimize"
      /\ at'.redirected = at.redirected
  <2>1. {"phase", "graph", "changed", "index", "redirected", "sweeps"} \subseteq DOMAIN at
    BY <1>1 DEF QueueInv, AtInv
  <2>2. at' = [at EXCEPT !.phase = "reoptimize", !.sweeps = @ + 1]
    BY DEF EndSweep
  <2> QED  BY <1>1, <2>1, <2>2
<1>5. Quiet
  BY <1>1 DEF Quiet, NotedGrows
<1>6. RestInv'
  BY <1>1, <1>3, <1>4, <1>5, RestQuiet DEF WorkInv
<1>7. SweepInv'
  BY <1>4 DEF SweepInv
<1>8. PhaseInv'
  <2>1. ~ at.redirected => /\ Clean(Current)
                           /\ \A k \in DOMAIN CurrentGraph.calls :
                                CurrentGraph.calls[k].name \notin DOMAIN inlinable
    <3>1. CurrentGraph.calls \in Seq(ToSet(CurrentGraph.calls))
      BY <1>2 DEF CallsInv, GraphFormed, BodyFormed, CallsFormed, CurrentGraph
    <3>2. at.index \in Nat \ {0}
      BY <1>1 DEF WorkInv, SweepInv
    <3>3. \A k \in DOMAIN CurrentGraph.calls : k < at.index
      BY <1>1, <3>1, <3>2
    <3> QED
      BY <1>1, <3>3 DEF WorkInv, SweepInv, Clean, Settles, Heeded, CurrentGraph
  <2>2. Clean(Current) => Clean(Current)'
    <3>1. PICK id : id = Current
      OBVIOUS
    <3>2. Clean(id) => Clean(id)'
      BY <1>1, <1>2, <1>5, <3>1, CleanQuiet
    <3>3. Current' = Current
      BY <1>4 DEF Current
    <3> QED  BY <3>1, <3>2, <3>3
  <2>3. CurrentGraph' = CurrentGraph
    BY <1>1, <1>4 DEF Current, CurrentGraph
  <2> QED  BY <1>1, <1>4, <2>1, <2>2, <2>3 DEF PhaseInv
<1> QED  BY <1>6, <1>7, <1>8 DEF WorkInv

LEMMA FinishInlinableWork ==
  ASSUME QueueInv, NamesInv, CallsInv, WorkInv, FinishInlinable
  PROVE  WorkInv'
<1> DEFINE name == CurrentGraph.name
<1>1. /\ at # Idle /\ at.phase = "finish" /\ at' = Idle /\ at'.phase = "idle"
      /\ inlinable' = Put(inlinable, name, Current)
      /\ UNCHANGED <<graphs, dependencies, inline_dependencies>>
  BY DEF FinishInlinable, Idle
<1>2. Current \in DOMAIN graphs /\ Current \in Settled
  BY <1>1, GraphsKnown
<1>3. Settled' = Settled
  BY OtherSteps
<1>4. /\ todo_set \subseteq todo_set'
      /\ IsVariant => dependencies[CurrentGraph.base] \subseteq todo_set'
      /\ ~ IsVariant /\ name \in DOMAIN inline_dependencies =>
           inline_dependencies[name] \subseteq todo_set'
  BY DEF FinishInlinable, Schedule
<1>5. DOMAIN inlinable' = DOMAIN inlinable \union {name}
  BY <1>1 DEF Put
<1>6. /\ IsVariantName(name) <=> IsVariantName(Current)
      /\ name[1] = CurrentGraph.base
      /\ ~ IsVariantName(Current) => Current = Id(CurrentGraph.base)
      /\ TargetOf(name) = Current
  BY <1>2, GraphNames DEF NamesInv, CurrentGraph
<1>7. \A f : ~ IsVariantName(Id(f))
  <2> TAKE f
  <2>1. Len(Id(f)) = 1
    BY FunctionName
  <2> QED  BY <2>1 DEF IsVariantName
<1>8. IsVariant <=> IsVariantName(name) /\ name \in DOMAIN specs
  BY <1>6, <1>7 DEF IsVariant, IsBase, IsSpecialized
<1> HIDE DEF name
<1>9. ASSUME NEW id \in Settled, Clean(id), id \notin todo_set'
      PROVE  Clean(id)'
  <2>1. id \in DOMAIN graphs
    BY DEF Settled
  <2> SUFFICES ASSUME NEW k \in DOMAIN graphs[id].calls
               PROVE  \/ IsOwnVariant(id, graphs[id].calls[k])
                      \/ Unaffected(graphs[id].calls[k])
    BY <1>1, <1>9, <2>1, CleanKept DEF NotedGrows
  <2>2. PICK c : c = graphs[id].calls[k]
    OBVIOUS
  <2> SUFFICES ASSUME ~ IsOwnVariant(id, c) PROVE Unaffected(c)
    BY <2>2
  <2>3. Settles(id, c) /\ Known(c)
    BY <1>9, <2>1, <2>2, KnownCall DEF Clean
  <2>4. c.name # name
    <3> SUFFICES ASSUME c.name = name PROVE FALSE
      OBVIOUS
    <3>1. CASE IsVariantName(name)
      <4>1. IsVariant
        BY <1>8, <2>3, <3>1 DEF Known
      <4>2. id \in dependencies[CurrentGraph.base]
        BY <1>6, <2>3, <3>1 DEF Settles, Noted
      <4> QED  BY <1>4, <1>9, <4>1, <4>2
    <3>2. CASE ~ IsVariantName(name)
      <4>1. name \in DOMAIN inline_dependencies /\ id \in inline_dependencies[name]
        BY <2>3, <3>2 DEF Settles, Noted
      <4> QED  BY <1>4, <1>8, <1>9, <3>2, <4>1
    <3> QED  BY <3>1, <3>2
  <2> QED  BY <1>1, <1>5, <2>2, <2>4 DEF Unaffected
<1>10. RestInv'
  <2> SUFFICES ASSUME NEW id \in Settled, id \notin todo_set'
               PROVE  IsInlined(id)' \/ Clean(id)'
    BY <1>3 DEF RestInv
  <2>1. CASE id = Current
    BY <1>5, <1>6, <2>1 DEF IsInlined
  <2>2. CASE id # Current
    <3>1. IsInlined(id) \/ Clean(id)
      BY <1>4, <2>2 DEF WorkInv, RestInv
    <3> QED  BY <1>1, <1>5, <1>9, <3>1 DEF IsInlined
  <2> QED  BY <2>1, <2>2
<1>11. SweepInv' /\ PhaseInv'
  BY <1>1 DEF SweepInv, PhaseInv
<1> QED  BY <1>10, <1>11 DEF WorkInv

\* callers are put back, and only what is inlined everywhere can be left with the
\* old name in other calls
LEMMA FinishRenamedWork ==
  ASSUME QueueInv, NamesInv, CallsInv, VariantsInv, WorkInv, FinishRenamed
  PROVE  WorkInv'
<1> DEFINE f == CurrentGraph.base
           new == NameOf(Current, Narrow)
<1>1. PICK h : /\ GraphChanges(Current, h) /\ h.calls = CurrentGraph.calls
               /\ h.name = new
  BY FinishRenamedEffect
<1>2. /\ at # Idle /\ at.phase = "finish" /\ at' = Idle
      /\ Current \in DOMAIN graphs /\ Current \in Settled
      /\ Settled' = Settled
      /\ Current = <<f, CurrentGraph.key>> /\ CurrentGraph.name = Current
      /\ todo_set' = todo_set \union dependencies[f]
  BY FinishRenamedEffect
<1>3. UNCHANGED <<inlinable, dependencies, inline_dependencies>>
  BY DEF FinishRenamed
<1>4. IsVariantName(Current)
  <2>1. Len(Current) = 2
    BY <1>2
  <2> QED  BY <2>1 DEF IsVariantName
<1>5. new # Current
  <2>1. new = Append(Current, Narrow)
    BY DEF NameOf, Narrow, Wide
  <2>2. Len(Append(Current, Narrow)) = 3 /\ Len(Current) = 2
    BY <1>2, PairAppended
  <2> QED  BY <2>1, <2>2
<1> HIDE DEF f, new
<1>6. \A i \in Settled : /\ i \in DOMAIN graphs
                         /\ i # Current => graphs'[i] = graphs[i]
                         /\ graphs'[i].calls = graphs[i].calls
  BY <1>1 DEF GraphChanges, Settled, CurrentGraph
<1>7. \A id : IsInlined(id) => IsInlined(id)'
  BY <1>3 DEF IsInlined
<1>8. IsInlined(Current) \/ Clean(Current)
  BY <1>2 DEF WorkInv, PhaseInv
<1>9. ASSUME NEW id \in Settled, Clean(id), id \notin todo_set'
      PROVE  Clean(id)'
  <2> SUFFICES ASSUME NEW k \in DOMAIN graphs[id].calls
               PROVE  \/ IsOwnVariant(id, graphs[id].calls[k])
                      \/ Unaffected(graphs[id].calls[k])
    BY <1>3, <1>6, <1>9, CleanKept DEF NotedGrows
  <2>1. PICK c : c = graphs[id].calls[k]
    OBVIOUS
  <2> SUFFICES ASSUME ~ IsOwnVariant(id, c) PROVE Unaffected(c)
    BY <2>1
  <2>2. Settles(id, c)
    BY <1>9, <2>1 DEF Clean
  <2>3. /\ TargetOf(c.name) \in Settled
        /\ graphs[TargetOf(c.name)].base = c.name[1]
        /\ IsVariantName(c.name) <=> IsVariantName(TargetOf(c.name))
    BY <1>6, <2>1, KnownCall
  <2>4. TargetOf(c.name) # Current
    <3> SUFFICES ASSUME TargetOf(c.name) = Current PROVE FALSE
      OBVIOUS
    <3>1. IsVariantName(c.name) /\ c.name[1] = f
      BY <1>4, <2>3 DEF f, CurrentGraph
    <3>2. id \in dependencies[f]
      BY <2>2, <3>1 DEF Settles, Noted
    <3> QED  BY <1>2, <1>9, <3>2
  <2> QED  BY <1>3, <1>6, <2>1, <2>3, <2>4 DEF Unaffected
<1>10. RestInv'
  <2> SUFFICES ASSUME NEW id \in Settled, id \notin todo_set'
               PROVE  IsInlined(id)' \/ Clean(id)'
    BY <1>2 DEF RestInv
  <2>1. CASE id = Current
    BY <1>7, <1>8, <1>9, <2>1
  <2>2. CASE id # Current
    <3>1. IsInlined(id) \/ Clean(id)
      BY <1>2, <2>2 DEF WorkInv, RestInv
    <3> QED  BY <1>7, <1>9, <3>1
  <2> QED  BY <2>1, <2>2
<1>11. SweepInv' /\ PhaseInv'
  BY <1>2 DEF SweepInv, PhaseInv, Idle
<1> QED  BY <1>10, <1>11 DEF WorkInv

LEMMA FinishWork ==
  ASSUME QueueInv, NamesInv, CallsInv, WorkInv, Finish
  PROVE  WorkInv'
<1>1. /\ at # Idle /\ at.phase = "finish" /\ at' = Idle /\ at'.phase = "idle"
      /\ UNCHANGED <<graphs, todo_set, inlinable, dependencies, inline_dependencies>>
  BY DEF Finish, Idle
<1>2. Settled' = Settled
  BY OtherSteps
<1>3. Quiet
  BY <1>1 DEF Quiet, NotedGrows
<1>4. RestInv'
  <2> SUFFICES ASSUME NEW id \in Settled, id \notin todo_set
               PROVE  IsInlined(id)' \/ Clean(id)'
    BY <1>1, <1>2 DEF RestInv
  <2>1. IsInlined(id) \/ Clean(id)
    BY <1>1 DEF WorkInv, RestInv, PhaseInv
  <2>2. id \in DOMAIN graphs
    BY DEF Settled
  <2>3. Clean(id) => Clean(id)'
    BY <1>1, <1>3, <2>2, CleanQuiet
  <2> QED  BY <1>1, <2>1, <2>3 DEF IsInlined
<1>5. SweepInv' /\ PhaseInv'
  BY <1>1 DEF SweepInv, PhaseInv
<1> QED  BY <1>4, <1>5 DEF WorkInv

LEMMA NextWork ==
  ASSUME MaxVariants > 0, QueueInv, NamesInv, CodeInv, WorkInv, SweepsSuffice,
         [Next]_vars
  PROVE  WorkInv'
<1>1. CallsInv /\ VariantsInv
  BY DEF CodeInv
<1>2. CASE UNCHANGED vars
  <2>1. UNCHANGED <<program, graphs, todo_set, inlinable, dependencies,
                    inline_dependencies, at>>
    BY <1>2 DEF vars
  <2>2. Settled' = Settled /\ Current' = Current /\ CurrentGraph' = CurrentGraph
    BY <2>1 DEF Settled, Current, CurrentGraph
  <2>3. /\ \A c : Resolved(c)' <=> Resolved(c)
        /\ \A id, c : Noted(id, c)' <=> Noted(id, c)
        /\ \A id, c : IsOwnVariant(id, c)' <=> IsOwnVariant(id, c)
    BY <2>1 DEF Resolved, Noted, IsOwnVariant, Id
  <2>4. /\ \A id : Clean(id)' <=> Clean(id)
        /\ \A id : IsInlined(id)' <=> IsInlined(id)
    BY <2>1, <2>3 DEF Clean, Settles, IsInlined
  <2>5. RestInv'
    BY <2>1, <2>2, <2>4 DEF WorkInv, RestInv
  <2>6. PhaseInv'
    BY <2>1, <2>2, <2>4 DEF WorkInv, PhaseInv
  <2>7. SweepInv'
    BY <2>1, <2>2, <2>3 DEF WorkInv, SweepInv, Heeded
  <2> QED  BY <2>5, <2>6, <2>7 DEF WorkInv
<1> QED
  BY <1>1, <1>2, PopWork, InlineCallWork, EndOptimizeWork, LeaveCallWork,
     UseVariantWork, MakeStubWork, FinishStubWork, EndSweepWork,
     FinishInlinableWork, FinishRenamedWork, FinishWork DEF Next

LEMMA InitWork == Init => WorkInv
<1> SUFFICES ASSUME Init PROVE WorkInv
  OBVIOUS
<1>1. at.phase = "idle"
  BY DEF Init, Idle
<1>2. todo_set = {Id(f) : f \in FunctionNames}
  BY DEF Init, FunctionNames
<1>3. RestInv
  BY <1>2, InitGraphs DEF RestInv
<1> QED  BY <1>1, <1>3 DEF WorkInv, SweepInv, PhaseInv

LEMMA NextCode ==
  ASSUME QueueInv, NamesInv, CodeInv, [Next]_vars
  PROVE  CodeInv'
BY NextCalls, NextVariants DEF CodeInv

LEMMA InitCode == Init => CodeInv
BY InitCalls, InitVariants DEF CodeInv

-----------------------------------------------------------------------------
(***************************************************************************)
(* The calls of a graph that is not on the work list are to the variants   *)
(* for what is known of their arguments.                                   *)
(***************************************************************************)

\* the call is to the variant for what is known of its argument, or to one that
\* returns more than that one does so far
Best(g, id, c) ==
  c.name \in DOMAIN specs /\ id # Id(c.name[1]) =>
    \A key \in CallKey(g, c, c.name[1]) :
      \/ TargetOf(c.name) = <<c.name[1], key>>
      \/ /\ IsVariantName(c.name) /\ c.type = Narrow
         /\ <<c.name[1], key>> \in Settled
         /\ graphs[<<c.name[1], key>>].type = Wide

AllBest(id) ==
  \A k \in DOMAIN graphs[id].calls : Best(graphs[id], id, graphs[id].calls[k])

SweepBest ==
  at.phase \in {"specialize", "stub"} =>
    \A k \in DOMAIN CurrentGraph.calls :
      k < at.index => Best(CurrentGraph, Current, CurrentGraph.calls[k])

PhaseBest ==
  /\ at.phase = "reoptimize" /\ ~ at.redirected => AllBest(Current)
  /\ at.phase = "finish" => IsInlined(Current) \/ AllBest(Current)

RestBest ==
  \A id \in Settled :
    \/ id \in todo_set
    \/ at # Idle /\ id = Current
    \/ IsInlined(id)
    \/ AllBest(id)

BestInv == SweepBest /\ PhaseBest /\ RestBest

\* names that are new are those of variants
SpecsGrow ==
  /\ DOMAIN specs \subseteq DOMAIN specs'
  /\ \A name \in DOMAIN specs' \ DOMAIN specs : IsVariantName(name)

\* no variant of the function is renamed
WidthsStay(f) ==
  \A key : LET variant == <<f, key>>
           IN  variant \in Settled /\ graphs[variant].type = Wide =>
                 variant \in Settled' /\ graphs'[variant].type = Wide

LEMMA BestKept ==
  ASSUME SpecsGrow, NEW c, Known(c), NEW id, NEW g, NEW h, Best(g, id, c),
         CallKey(h, c, c.name[1])' = CallKey(g, c, c.name[1]),
         IsVariantName(c.name) => IsOwnVariant(id, c) \/ WidthsStay(c.name[1])
  PROVE  Best(h, id, c)'
<1> SUFFICES ASSUME c.name \in DOMAIN specs', id # Id(c.name[1]),
                    NEW key \in CallKey(h, c, c.name[1])'
             PROVE  \/ TargetOf(c.name) = <<c.name[1], key>>
                    \/ /\ IsVariantName(c.name) /\ c.type = Narrow
                       /\ <<c.name[1], key>> \in Settled'
                       /\ graphs'[<<c.name[1], key>>].type = Wide
  BY DEF Best
<1>1. c.name \in DOMAIN specs
  BY DEF SpecsGrow, Known
<1> DEFINE variant == <<c.name[1], key>>
<1>2. \/ TargetOf(c.name) = variant
      \/ /\ IsVariantName(c.name) /\ c.type = Narrow
         /\ variant \in Settled /\ graphs[variant].type = Wide
  BY <1>1 DEF Best
<1>3. ~ IsOwnVariant(id, c)
  BY DEF IsOwnVariant
<1>4. IsVariantName(c.name) /\ variant \in Settled /\ graphs[variant].type = Wide =>
        variant \in Settled' /\ graphs'[variant].type = Wide
  BY <1>3 DEF WidthsStay
<1> QED  BY <1>2, <1>4

LEMMA KeySame ==
  ASSUME UNCHANGED program, NEW g, NEW h, h.calls = g.calls, h.key = g.key,
         NEW c, NEW f
  PROVE  CallKey(h, c, f)' = CallKey(g, c, f)
BY DEF CallKey, IsMachineInt, Named, Functions

LEMMA AllBestKept ==
  ASSUME CallsInv, UNCHANGED program, SpecsGrow, NEW id \in DOMAIN graphs,
         graphs'[id].calls = graphs[id].calls, graphs'[id].key = graphs[id].key,
         \A k \in DOMAIN graphs[id].calls :
           LET call == graphs[id].calls[k]
           IN  IsVariantName(call.name) =>
                 IsOwnVariant(id, call) \/ WidthsStay(call.name[1]),
         AllBest(id)
  PROVE  AllBest(id)'
<1> SUFFICES ASSUME NEW k \in DOMAIN graphs[id].calls
             PROVE  Best(graphs[id], id, graphs[id].calls[k])'
  BY DEF AllBest
<1>1. PICK c, g, h : c = graphs[id].calls[k] /\ g = graphs[id] /\ h = graphs'[id]
  OBVIOUS
<1>2. /\ Known(c) /\ Best(g, id, c)
      /\ IsVariantName(c.name) => IsOwnVariant(id, c) \/ WidthsStay(c.name[1])
  BY <1>1 DEF CallsInv, AllBest
<1>3. CallKey(h, c, c.name[1])' = CallKey(g, c, c.name[1])
  BY <1>1, KeySame
<1>4. Best(h, id, c)'
  BY <1>2, <1>3, BestKept
<1>5. h = graphs'[id] /\ c = graphs'[id].calls[k]
  BY <1>1
<1> QED  BY <1>4, <1>5

\* a step that has no news of the variants
BestQuiet ==
  /\ UNCHANGED program /\ SpecsGrow
  /\ \A f : WidthsStay(f)

LEMMA AllBestQuiet ==
  ASSUME CallsInv, BestQuiet, NEW id \in DOMAIN graphs,
         graphs'[id].calls = graphs[id].calls, graphs'[id].key = graphs[id].key,
         AllBest(id)
  PROVE  AllBest(id)'
BY AllBestKept DEF BestQuiet

\* a step that settles no graph
LEMMA RestBestQuiet ==
  ASSUME QueueInv, CallsInv, RestBest, BestQuiet, Settled' = Settled,
         UNCHANGED <<todo_set, inlinable>>,
         at # Idle, at'.phase # "idle", at'.graph = at.graph,
         \A i \in Settled \ {Current} : graphs'[i] = graphs[i]
  PROVE  RestBest'
<1> SUFFICES ASSUME NEW id \in Settled, id # Current, id \notin todo_set
             PROVE  IsInlined(id)' \/ AllBest(id)'
  BY DEF RestBest, Current, Idle
<1>1. id \in DOMAIN graphs /\ graphs'[id] = graphs[id]
  BY DEF Settled
<1>2. AllBest(id) => AllBest(id)'
  BY <1>1, AllBestQuiet
<1> QED  BY <1>1, <1>2 DEF RestBest, IsInlined

\* the variants have the types that they had
LEMMA TypesStay ==
  ASSUME UNCHANGED <<program, specs>>, Settled' = Settled,
         \A i \in Settled : graphs'[i].type = graphs[i].type
  PROVE  BestQuiet
BY DEF BestQuiet, SpecsGrow, WidthsStay

LEMMA InitBest == Init => BestInv
<1> SUFFICES ASSUME Init PROVE BestInv
  OBVIOUS
<1>1. at.phase = "idle"
  BY DEF Init, Idle
<1>2. todo_set = {Id(f) : f \in FunctionNames}
  BY DEF Init, FunctionNames
<1>3. RestBest
  BY <1>2, InitGraphs DEF RestBest
<1> QED  BY <1>1, <1>3 DEF BestInv, SweepBest, PhaseBest

LEMMA PopBest ==
  ASSUME QueueInv, CallsInv, BestInv, Pop
  PROVE  BestInv'
<1>1. /\ todo_set' = todo_set \ {Head(todo)} /\ UNCHANGED <<graphs, inlinable>>
      /\ at = Idle /\ at'.graph = Head(todo)
      /\ at'.phase = "optimize"
  <2>1. at = Idle
    BY DEF Pop, QueueInv, AtInv
  <2> QED  BY <2>1 DEF Pop
<1>2. UNCHANGED <<program, graphs, specs>> /\ Settled' = Settled
  BY OtherSteps
<1>3. BestQuiet
  BY <1>2, TypesStay
<1>4. ASSUME NEW id \in Settled, id \notin todo_set', ~ (at' # Idle /\ id = Current')
      PROVE  IsInlined(id)' \/ AllBest(id)'
  <2>1. id \notin todo_set
    BY <1>1, <1>4 DEF Idle, Current
  <2>2. id \in DOMAIN graphs
    BY DEF Settled
  <2>3. AllBest(id) => AllBest(id)'
    BY <1>2, <1>3, <2>2, AllBestQuiet
  <2> QED  BY <1>1, <2>1, <2>3 DEF BestInv, RestBest, IsInlined
<1> QED  BY <1>1, <1>2, <1>4 DEF BestInv, SweepBest, PhaseBest, RestBest

\* the sweep stands still while a variant is made
LEMMA SweepBestKept ==
  ASSUME CallsInv, SweepBest, BestQuiet,
         at.phase \in {"specialize", "stub"}, at'.graph = at.graph,
         at'.index = at.index,
         Current \in DOMAIN graphs, graphs'[Current] = graphs[Current]
  PROVE  SweepBest'
<1>1. CurrentGraph' = CurrentGraph /\ Current' = Current
  BY DEF CurrentGraph, Current
<1> SUFFICES ASSUME NEW k \in DOMAIN CurrentGraph.calls, k < at.index
             PROVE  Best(CurrentGraph, Current, CurrentGraph.calls[k])'
  BY <1>1 DEF SweepBest
<1>2. PICK c, g, id : c = CurrentGraph.calls[k] /\ g = CurrentGraph /\ id = Current
  OBVIOUS
<1>3. Known(c) /\ Best(g, id, c)
  BY <1>2 DEF CallsInv, SweepBest, CurrentGraph
<1>4. CallKey(g, c, c.name[1])' = CallKey(g, c, c.name[1])
  BY KeySame DEF BestQuiet
<1>5. Best(g, id, c)'
  BY <1>3, <1>4, BestKept DEF BestQuiet
<1> QED  BY <1>1, <1>2, <1>5

LEMMA InlineCallBest ==
  ASSUME QueueInv, NamesInv, CallsInv, VariantsInv, WorkInv, BestInv, InlineCall
  PROVE  BestInv'
<1>1. PICK h : GraphChanges(Optimized, h) /\ h.name = graphs[Optimized].name
               /\ h.type = graphs[Optimized].type
  BY InlineCallEffect DEF IsInlining
<1>2. at # Idle /\ Settled' = Settled /\ Optimized \in DOMAIN graphs
  BY InlineCallEffect
<1>3. Current \in Settled /\ Current \in DOMAIN graphs
  BY <1>2, GraphsKnown
<1>4. /\ UNCHANGED <<program, todo_set, inlinable, specs>>
      /\ SamePlace
      /\ at.phase \in {"optimize", "reoptimize", "stub"}
      /\ InlinableCalls # {}
  BY InlineCallPlace DEF InlineCall, Optimizing
<1>5. \A i \in Settled : i \in DOMAIN graphs
  BY DEF Settled
<1>6. \A i \in DOMAIN graphs : /\ graphs'[i].type = graphs[i].type
                               /\ i # Optimized => graphs'[i] = graphs[i]
  BY <1>1, <1>2 DEF GraphChanges
<1>7. BestQuiet
  BY <1>2, <1>4, <1>5, <1>6, TypesStay
<1>8. at.phase = "stub" => Optimized \notin Settled
  BY DEF Optimized, Settled
<1>9. at.phase # "stub" => Optimized = Current
  BY DEF Optimized
<1>10. RestBest'
  <2>1. \A i \in Settled \ {Current} : graphs'[i] = graphs[i]
    BY <1>5, <1>6, <1>8, <1>9
  <2> QED  BY <1>2, <1>4, <1>7, <2>1, RestBestQuiet DEF BestInv, SamePlace
<1>11. SweepBest'
  <2>1. CASE at.phase = "stub"
    <3>1. graphs'[Current] = graphs[Current]
      BY <1>3, <1>6, <1>8, <2>1
    <3> QED  BY <1>3, <1>4, <1>7, <2>1, <3>1, SweepBestKept DEF BestInv, SamePlace
  <2>2. CASE at.phase # "stub"
    BY <1>4, <2>2 DEF SweepBest, SamePlace
  <2> QED  BY <2>1, <2>2
<1>12. PhaseBest'
  <2>1. at.phase = "reoptimize" => at.redirected
    <3> SUFFICES ASSUME at.phase = "reoptimize", ~ at.redirected PROVE FALSE
      OBVIOUS
    <3>1. \A k \in DOMAIN CurrentGraph.calls :
            CurrentGraph.calls[k].name \notin DOMAIN inlinable
      BY DEF WorkInv, PhaseInv
    <3>2. Optimized = Current
      BY <1>9
    <3> QED  BY <1>4, <3>1, <3>2 DEF CurrentGraph, InlinableCalls
  <2> QED  BY <1>4, <2>1 DEF PhaseBest, SamePlace
<1> QED  BY <1>10, <1>11, <1>12 DEF BestInv

LEMMA EndOptimizeBest ==
  ASSUME QueueInv, NamesInv, CallsInv, WorkInv, BestInv, SweepsSuffice, EndOptimize
  PROVE  BestInv'
<1>1. PICK h : /\ GraphChanges(Current, h) /\ h.calls = CurrentGraph.calls
               /\ h.key = CurrentGraph.key
               /\ h.type = CurrentGraph.type /\ h.name = CurrentGraph.name
  BY EndOptimizeEffect
<1>2. /\ at # Idle /\ Current \in DOMAIN graphs /\ Current \in Settled
      /\ Settled' = Settled
  BY EndOptimizeEffect
<1>3. /\ UNCHANGED <<program, todo_set, inlinable, specs>>
      /\ at.phase \in {"optimize", "reoptimize"}
  BY DEF EndOptimize
<1>4. /\ at'.graph = at.graph /\ at'.phase \in {"specialize", "finish"}
      /\ at'.phase = "specialize" => at'.index = 1
      /\ at'.phase = "finish" =>
           /\ ~ (at.redirected /\ at.sweeps < MaxSweeps)
           /\ ~ (at.phase = "optimize" /\ CurrentGraph.name \notin DOMAIN inlinable)
  BY EndOptimizePlace
<1>5. \A i \in Settled : i \in DOMAIN graphs
  BY DEF Settled
<1>6. \A i \in DOMAIN graphs : /\ graphs'[i].type = graphs[i].type
                               /\ graphs'[i].name = graphs[i].name
                               /\ graphs'[i].calls = graphs[i].calls
                               /\ graphs'[i].key = graphs[i].key
                               /\ i # Current => graphs'[i] = graphs[i]
  BY <1>1, <1>2 DEF GraphChanges, CurrentGraph
<1>7. BestQuiet
  BY <1>2, <1>3, <1>5, <1>6, TypesStay
<1>8. RestBest'
  BY <1>2, <1>3, <1>4, <1>5, <1>6, <1>7, RestBestQuiet DEF BestInv
<1>9. Current' = Current /\ CurrentGraph'.calls = CurrentGraph.calls
  BY <1>2, <1>4, <1>6 DEF Current, CurrentGraph
<1>10. SweepBest'
  <2> SUFFICES ASSUME at'.phase = "specialize", NEW k \in DOMAIN CurrentGraph.calls
               PROVE  ~ k < 1
    BY <1>4, <1>9 DEF SweepBest
  <2>1. CurrentGraph.calls \in Seq(ToSet(CurrentGraph.calls))
    BY <1>2 DEF CallsInv, GraphFormed, BodyFormed, CallsFormed, CurrentGraph
  <2> QED  BY <2>1
<1>11. PhaseBest'
  <2>1. IsInlined(Current)' <=> IsInlined(Current)
    BY <1>3, <1>9 DEF IsInlined
  <2>2. AllBest(Current) => AllBest(Current)'
    <3>1. PICK id : id = Current
      OBVIOUS
    <3>2. AllBest(id) => AllBest(id)'
      BY <1>2, <1>6, <1>7, <3>1, AllBestQuiet
    <3> QED  BY <1>9, <3>1, <3>2
  <2>3. at'.phase = "finish" => IsInlined(Current) \/ AllBest(Current)
    <3>1. at.phase = "reoptimize" /\ at'.phase = "finish" => ~ at.redirected
      BY <1>4 DEF SweepsSuffice
    <3>2. TargetOf(CurrentGraph.name) = Current
      BY <1>2, GraphNames DEF NamesInv, CurrentGraph
    <3> QED  BY <1>3, <1>4, <3>1, <3>2 DEF BestInv, PhaseBest, IsInlined
  <2> QED  BY <1>4, <2>1, <2>2, <2>3 DEF PhaseBest
<1> QED  BY <1>8, <1>10, <1>11 DEF BestInv

LEMMA LeaveCallBest ==
  ASSUME MaxVariants > 0, QueueInv, NamesInv, CallsInv, VariantsInv, BestInv, LeaveCall
  PROVE  BestInv'
<1>1. /\ at # Idle /\ at.phase = "specialize"
      /\ at.index \in DOMAIN CurrentGraph.calls /\ AtCall
      /\ UNCHANGED <<program, graphs, specs, todo_set, inlinable>>
  BY DEF LeaveCall, AtCall, Idle
<1>2. Current \in DOMAIN graphs /\ Current \in Settled
  BY <1>1, GraphsKnown
<1>3. Settled' = Settled
  BY OtherSteps
<1>4. /\ at'.graph = at.graph /\ at'.phase = "specialize"
      /\ at'.index = at.index + 1
  <2>1. {"phase", "graph", "changed", "index", "redirected", "sweeps"} \subseteq DOMAIN at
    BY <1>1 DEF QueueInv, AtInv
  <2>2. at' = [at EXCEPT !.index = @ + 1]
    BY DEF LeaveCall
  <2> QED  BY <1>1, <2>1, <2>2
<1>5. BestQuiet
  BY <1>1, <1>3, TypesStay
<1>6. RestBest'
  BY <1>1, <1>3, <1>4, <1>5, RestBestQuiet DEF BestInv
<1>7. Current' = Current /\ CurrentGraph' = CurrentGraph
  BY <1>1, <1>4 DEF Current, CurrentGraph
<1>8. ~ Specializes
  <2> SUFFICES ASSUME Specializes PROVE FALSE
    OBVIOUS
  <2>1. CallSpec \in DOMAIN cache
    BY SpecializedCall
  <2> QED  BY <2>1, VariantsSuffice DEF LeaveCall
<1>9. Best(CurrentGraph, Current, Call)
  <2> SUFFICES ASSUME Call.name \in DOMAIN specs, Current # Id(Call.name[1])
               PROVE  CallKey(CurrentGraph, Call, Call.name[1]) = {}
    BY DEF Best
  <2>1. CallSpec = Call.name[1]
    BY DEF QueueInv, SpecsInv, CallSpec
  <2> QED  BY <1>1, <1>8, <2>1 DEF Specializes
<1>10. SweepBest'
  <2> SUFFICES ASSUME NEW k \in DOMAIN CurrentGraph.calls, k < at.index + 1
               PROVE  Best(CurrentGraph, Current, CurrentGraph.calls[k])'
    BY <1>4, <1>7 DEF SweepBest
  <2>1. PICK c, g, id : c = CurrentGraph.calls[k] /\ g = CurrentGraph /\ id = Current
    OBVIOUS
  <2>2. k \in Nat /\ at.index \in Nat
    <3>1. CurrentGraph.calls \in Seq(ToSet(CurrentGraph.calls))
      BY <1>2 DEF CallsInv, GraphFormed, BodyFormed, CallsFormed, CurrentGraph
    <3> QED  BY <1>1, <3>1
  <2>3. Best(g, id, c) /\ Known(c)
    <3>1. CASE k = at.index
      BY <1>2, <1>9, <2>1, <3>1 DEF Call, CallsInv, CurrentGraph
    <3>2. CASE k # at.index
      <4>1. k < at.index
        BY <2>2, <3>2
      <4> QED  BY <1>1, <1>2, <2>1, <4>1 DEF BestInv, SweepBest, CallsInv, CurrentGraph
    <3> QED  BY <3>1, <3>2
  <2>4. CallKey(g, c, c.name[1])' = CallKey(g, c, c.name[1])
    BY <1>1, KeySame
  <2>5. Best(g, id, c)'
    BY <1>5, <2>3, <2>4, BestKept DEF BestQuiet
  <2> QED  BY <1>7, <2>1, <2>5
<1>11. PhaseBest'
  BY <1>4 DEF PhaseBest
<1> QED  BY <1>6, <1>10, <1>11 DEF BestInv

\* what is known of the argument of a call depends on the calls before it only
LEMMA ArgumentBefore ==
  ASSUME NEW g, BodyFormed(g), NEW i \in DOMAIN g.calls, NEW c,
         c.id = g.calls[i].id, NEW h, h.calls = [g.calls EXCEPT ![i] = c],
         h.key = g.key, NEW k \in DOMAIN g.calls, k <= i
  PROVE  IsMachineInt(h, g.calls[k].arg) <=> IsMachineInt(g, g.calls[k].arg)
<1> DEFINE v == g.calls[k].arg
<1>1. /\ DOMAIN g.calls = 1 .. Len(g.calls) /\ Len(g.calls) \in Nat
  BY OwnElements DEF BodyFormed, CallsFormed
<1>2. /\ DOMAIN h.calls = DOMAIN g.calls
      /\ \A j \in DOMAIN g.calls : j # i => h.calls[j] = g.calls[j]
      /\ \A j \in DOMAIN g.calls : h.calls[j].id = g.calls[j].id
  OBVIOUS
<1>3. Earlier(g.calls, v, k - 1)
  BY DEF BodyFormed, CallsFormed
<1>4. /\ \A j \in DOMAIN g.calls : g.calls[j].id \notin {Number, Unknown, Param}
      /\ \A a, b \in DOMAIN g.calls : g.calls[a].id = g.calls[b].id => a = b
  BY IdsDiffer DEF BodyFormed
<1>5. g.calls[i].id # v
  <2> SUFFICES ASSUME g.calls[i].id = v PROVE FALSE
    OBVIOUS
  <2>1. v \notin {Number, Unknown, Param}
    BY <1>4
  <2>2. PICK j \in 1 .. k - 1 : g.calls[j].id = v
    BY <1>3, <2>1 DEF Earlier
  <2>3. j \in DOMAIN g.calls /\ j # i
    BY <1>1, <2>2
  <2> QED  BY <1>4, <2>2, <2>3
<1> HIDE DEF v
<1>6. \A j \in DOMAIN g.calls :
        h.calls[j].id = v /\ h.calls[j].type = Narrow
          <=> g.calls[j].id = v /\ g.calls[j].type = Narrow
  BY <1>2, <1>5
<1>7. IsMachineInt(h, v) <=> IsMachineInt(g, v)
  BY <1>2, <1>6 DEF IsMachineInt
<1> QED  BY <1>7 DEF v

\* the call goes to the variant for its key, or to one that returns more
LEMMA RedirectedBest ==
  ASSUME QueueInv, NamesInv, CallsInv, VariantsInv, Specializes, HasVariant
  PROVE  /\ CallKey(CurrentGraph, Call, CallSpec) = {Key}
         /\ \/ TargetOf(Redirected.name) = <<CallSpec, Key>>
            \/ /\ Redirected.type = Narrow /\ <<CallSpec, Key>> \in Settled
               /\ graphs[<<CallSpec, Key>>].type = Wide
<1>1. CallKey(CurrentGraph, Call, CallSpec) = {Key}
  <2>1. Key \in CallKey(CurrentGraph, Call, CallSpec)
    BY DEF Specializes, Key
  <2> QED  BY <2>1 DEF CallKey
<1> DEFINE f == CallSpec
           key == Key
           id == <<f, key>>
           variant == cache[f][key]
<1>2. /\ f \in DOMAIN cache /\ DOMAIN Call = CallFields
  BY SpecializedCall
<1>3. /\ id \in Settled /\ id \in DOMAIN graphs
      /\ variant.graph = id /\ variant.type = graphs[id].type
  BY <1>2 DEF NamesInv, HasVariant, Settled
<1>4. CASE Call.type = Narrow /\ variant.type = Wide
  <2>1. Redirected = Call
    BY <1>4 DEF Redirected
  <2> QED  BY <1>1, <1>3, <1>4, <2>1
<1>5. CASE ~ (Call.type = Narrow /\ variant.type = Wide)
  <2> DEFINE name == graphs[id].name
             type == graphs[id].type
  <2>1. Redirected = [Call EXCEPT !.name = name, !.type = type]
    BY <1>3, <1>5 DEF Redirected
  <2>2. Redirected.name = name
    <3> HIDE DEF name, type
    <3> QED  BY <1>2, <2>1 DEF CallFields
  <2>3. TargetOf(name) = id
    <3>1. Shapes
      BY DEF NamesInv
    <3> HIDE DEF id
    <3> QED  BY <1>3, <3>1, GraphNames
  <2> QED  BY <1>1, <2>2, <2>3
<1> QED  BY <1>4, <1>5

LEMMA UseVariantBest ==
  ASSUME QueueInv, NamesInv, CallsInv, VariantsInv, BestInv, UseVariant
  PROVE  BestInv'
<1> DEFINE i == at.index
<1>1. PICK h : /\ GraphChanges(Current, h)
               /\ h.calls = [CurrentGraph.calls EXCEPT ![i] = Redirected]
               /\ h.key = CurrentGraph.key /\ h.type = CurrentGraph.type
  BY UseVariantEffect
<1>2. /\ at'.phase = "specialize" /\ at'.graph = at.graph /\ at'.index = i + 1
      /\ Settled' = Settled
  BY UseVariantEffect
<1>3. Specializes /\ HasVariant /\ UNCHANGED <<program, todo_set, inlinable, specs>>
  BY DEF UseVariant
<1>4. /\ at # Idle /\ at.phase = "specialize" /\ i \in DOMAIN CurrentGraph.calls
      /\ Current \in DOMAIN graphs /\ Current \in Settled
      /\ CallSpec = Call.name[1] /\ BodyFormed(CurrentGraph)
  BY <1>3, SpecializedCall DEF GraphFormed
<1>5. /\ Known(Redirected) /\ IsVariantName(Redirected.name)
      /\ Redirected.name[1] = CallSpec
      /\ Redirected.id = Call.id /\ Redirected.arg = Call.arg
  BY <1>3, RedirectedKnown
<1>6. \A j \in Settled : /\ j \in DOMAIN graphs /\ graphs'[j].type = graphs[j].type
                         /\ j # Current => graphs'[j] = graphs[j]
  BY <1>1, <1>4 DEF GraphChanges, CurrentGraph, Settled
<1>7. BestQuiet
  BY <1>2, <1>3, <1>6, TypesStay
<1>8. RestBest'
  BY <1>2, <1>3, <1>4, <1>6, <1>7, RestBestQuiet DEF BestInv
<1>9. /\ Current' = Current /\ CurrentGraph' = h
  BY <1>1, <1>2 DEF Current, CurrentGraph, GraphChanges
<1>10. SweepBest'
  <2> SUFFICES ASSUME NEW k \in DOMAIN CurrentGraph.calls, k < i + 1
               PROVE  Best(CurrentGraph, Current, CurrentGraph.calls[k])'
    BY <1>1, <1>2, <1>9 DEF SweepBest
  <2>1. PICK g, id : g = CurrentGraph /\ id = Current
    OBVIOUS
  <2>2. k \in Nat /\ i \in Nat
    <3>1. CurrentGraph.calls \in Seq(ToSet(CurrentGraph.calls))
      BY <1>4 DEF BodyFormed, CallsFormed
    <3> QED  BY <1>4, <3>1
  <2>3. IsMachineInt(h, g.calls[k].arg) <=> IsMachineInt(g, g.calls[k].arg)
    <3>1. k <= i
      BY <2>2
    <3>2. PICK c : c = Redirected /\ c.id = g.calls[i].id
      BY <1>5, <2>1 DEF Call
    <3>3. /\ h.calls = [g.calls EXCEPT ![i] = c] /\ h.key = g.key
          /\ BodyFormed(g) /\ i \in DOMAIN g.calls /\ k \in DOMAIN g.calls
      BY <1>1, <1>4, <2>1, <3>2
    <3> HIDE DEF i
    <3> QED  BY <3>1, <3>2, <3>3, ArgumentBefore
  <2>4. \A c, f : c.arg = g.calls[k].arg => CallKey(h, c, f)' = CallKey(g, c, f)
    BY <1>3, <2>3 DEF CallKey, IsMachineInt, Named, Functions
  <2>5. PICK c : c = h.calls[k]
    OBVIOUS
  <2>6. CASE k = i
    <3>1. c = Redirected /\ c.arg = g.calls[k].arg /\ g.calls[k] = Call
      BY <1>1, <1>4, <1>5, <2>1, <2>5, <2>6 DEF Call
    <3> DEFINE f == CallSpec
               key == Key
               variant == <<f, key>>
    <3>2. /\ CallKey(g, Call, f) = {key}
          /\ \/ TargetOf(c.name) = variant
             \/ c.type = Narrow /\ variant \in Settled /\ graphs[variant].type = Wide
      BY <1>3, <2>1, <3>1, RedirectedBest
    <3>3. c.name[1] = f /\ IsVariantName(c.name)
      BY <1>5, <3>1
    <3>4. CallKey(g, c, f) = CallKey(g, Call, f)
      BY <3>1 DEF CallKey
    <3> HIDE DEF f, key
    <3>5. Best(g, id, c)
      BY <3>2, <3>3, <3>4 DEF Best
    <3>6. CallKey(h, c, c.name[1])' = CallKey(g, c, c.name[1])
      BY <2>4, <3>1
    <3>7. Known(c)
      BY <1>5, <3>1
    <3>8. Best(h, id, c)'
      BY <1>7, <3>5, <3>6, <3>7, BestKept DEF BestQuiet
    <3> QED  BY <1>9, <2>1, <2>5, <3>8
  <2>7. CASE k # i
    <3>1. c = g.calls[k] /\ k < i
      BY <1>1, <2>1, <2>2, <2>5, <2>7
    <3>2. Best(g, id, c) /\ Known(c)
      BY <1>4, <2>1, <3>1 DEF BestInv, SweepBest, CallsInv, CurrentGraph
    <3>3. CallKey(h, c, c.name[1])' = CallKey(g, c, c.name[1])
      BY <2>4, <3>1
    <3>4. Best(h, id, c)'
      BY <1>7, <3>2, <3>3, BestKept DEF BestQuiet
    <3> QED  BY <1>9, <2>1, <2>5, <3>4
  <2> QED  BY <2>6, <2>7
<1>11. PhaseBest'
  BY <1>2 DEF PhaseBest
<1> QED  BY <1>8, <1>10, <1>11 DEF BestInv

LEMMA MakeStubBest ==
  ASSUME QueueInv, NamesInv, CallsInv, BestInv, MakeStub
  PROVE  BestInv'
<1> DEFINE stub == <<CallSpec, Key>>
<1>1. PICK h : GraphChanges(stub, h)
  BY MakeStubEffect
<1>2. /\ stub \notin DOMAIN graphs /\ Settled = DOMAIN graphs /\ Settled' = Settled
      /\ at'.phase = "stub" /\ at'.graph = at.graph /\ at'.index = at.index
  BY MakeStubEffect
<1>3. /\ at # Idle /\ at.phase = "specialize"
      /\ UNCHANGED <<program, todo_set, inlinable, specs>>
  BY DEF MakeStub, Specializes, AtCall, Idle
<1>4. Current \in Settled /\ Current \in DOMAIN graphs
  BY <1>3, GraphsKnown
<1> HIDE DEF stub
<1>5. \A i \in Settled : graphs'[i] = graphs[i]
  BY <1>1, <1>2 DEF GraphChanges
<1>6. BestQuiet
  BY <1>2, <1>3, <1>5, TypesStay
<1>7. RestBest'
  BY <1>2, <1>3, <1>5, <1>6, RestBestQuiet DEF BestInv
<1>8. SweepBest'
  BY <1>2, <1>3, <1>4, <1>5, <1>6, SweepBestKept DEF BestInv
<1>9. PhaseBest'
  BY <1>2 DEF PhaseBest
<1> QED  BY <1>7, <1>8, <1>9 DEF BestInv

LEMMA FinishStubBest ==
  ASSUME QueueInv, NamesInv, CallsInv, BestInv, FinishStub
  PROVE  BestInv'
<1> DEFINE stub == at.stub
<1>1. PICK h : /\ GraphChanges(stub, h) /\ h.type \in {Wide, Narrow}
               /\ h.name = NameOf(stub, h.type)
               /\ specs' = Put(specs, h.name, h.base)
               /\ \/ UNCHANGED inlinable
                  \/ inlinable' = Put(inlinable, h.name, stub)
  BY FinishStubEffect
<1>2. /\ at # Idle /\ at.phase = "stub"
      /\ stub \in DOMAIN graphs /\ stub \notin Settled
      /\ Settled' = Settled \union {stub}
      /\ stub = <<graphs[stub].base, graphs[stub].key>>
      /\ at'.phase = "specialize" /\ at'.graph = at.graph
      /\ at'.index = at.index /\ todo_set' = todo_set \union {stub}
  BY FinishStubEffect
<1>3. Current \in Settled /\ Current \in DOMAIN graphs
  BY <1>2, GraphsKnown
<1>4. IsVariantName(h.name)
  BY <1>1, <1>2, VariantName
<1>5. UNCHANGED program
  BY DEF FinishStub
<1> HIDE DEF stub
<1>6. \A i \in Settled : i \in DOMAIN graphs /\ graphs'[i] = graphs[i]
  BY <1>1, <1>2 DEF GraphChanges, Settled
<1>7. DOMAIN inlinable \subseteq DOMAIN inlinable'
  BY <1>1 DEF Put
<1>8. BestQuiet
  <2>1. SpecsGrow
    BY <1>1, <1>4 DEF SpecsGrow, Put
  <2> QED  BY <1>2, <1>5, <1>6, <2>1 DEF BestQuiet, WidthsStay
<1>9. RestBest'
  <2> SUFFICES ASSUME NEW id \in Settled, id # Current, id \notin todo_set
               PROVE  IsInlined(id)' \/ AllBest(id)'
    BY <1>2 DEF RestBest, Current, Idle
  <2>1. AllBest(id) => AllBest(id)'
    BY <1>6, <1>8, AllBestQuiet
  <2> QED  BY <1>6, <1>7, <2>1 DEF BestInv, RestBest, IsInlined
<1>10. SweepBest'
  BY <1>2, <1>3, <1>6, <1>8, SweepBestKept DEF BestInv
<1>11. PhaseBest'
  BY <1>2 DEF PhaseBest
<1> QED  BY <1>9, <1>10, <1>11 DEF BestInv

LEMMA EndSweepBest ==
  ASSUME QueueInv, CallsInv, WorkInv, BestInv, EndSweep
  PROVE  BestInv'
<1>1. /\ at # Idle /\ at.phase = "specialize"
      /\ at.index \notin DOMAIN CurrentGraph.calls
      /\ UNCHANGED <<program, graphs, specs, todo_set, inlinable>>
  BY DEF EndSweep, AtCall, Idle
<1>2. Current \in DOMAIN graphs /\ Current \in Settled
  BY <1>1, GraphsKnown
<1>3. Settled' = Settled
  BY OtherSteps
<1>4. at'.graph = at.graph /\ at'.phase = "reoptimize"
  <2>1. {"phase", "graph", "changed", "index", "redirected", "sweeps"} \subseteq DOMAIN at
    BY <1>1 DEF QueueInv, AtInv
  <2>2. at' = [at EXCEPT !.phase = "reoptimize", !.sweeps = @ + 1]
    BY DEF EndSweep
  <2> QED  BY <1>1, <2>1, <2>2
<1>5. BestQuiet
  BY <1>1, <1>3, TypesStay
<1>6. RestBest'
  BY <1>1, <1>3, <1>4, <1>5, RestBestQuiet DEF BestInv
<1>7. SweepBest'
  BY <1>4 DEF SweepBest
<1>8. AllBest(Current)
  <2>1. CurrentGraph.calls \in Seq(ToSet(CurrentGraph.calls))
    BY <1>2 DEF CallsInv, GraphFormed, BodyFormed, CallsFormed, CurrentGraph
  <2>2. at.index \in Nat \ {0}
    BY <1>1 DEF WorkInv, SweepInv
  <2>3. \A k \in DOMAIN CurrentGraph.calls : k < at.index
    BY <1>1, <2>1, <2>2
  <2> QED  BY <1>1, <2>3 DEF BestInv, SweepBest, AllBest, CurrentGraph
<1>9. PhaseBest'
  <2>1. PICK id : id = Current
    OBVIOUS
  <2>2. AllBest(id)'
    BY <1>1, <1>2, <1>5, <1>8, <2>1, AllBestQuiet
  <2>3. Current' = Current
    BY <1>4 DEF Current
  <2> QED  BY <1>4, <2>1, <2>2, <2>3 DEF PhaseBest
<1> QED  BY <1>6, <1>7, <1>9 DEF BestInv

LEMMA FinishInlinableBest ==
  ASSUME QueueInv, NamesInv, CallsInv, BestInv, FinishInlinable
  PROVE  BestInv'
<1>1. /\ at # Idle /\ at.phase = "finish" /\ at' = Idle /\ at'.phase = "idle"
      /\ inlinable' = Put(inlinable, CurrentGraph.name, Current)
      /\ UNCHANGED <<program, graphs, specs>> /\ todo_set \subseteq todo_set'
  BY DEF FinishInlinable, Idle, Schedule
<1>2. Settled' = Settled
  BY OtherSteps
<1>3. BestQuiet
  BY <1>1, <1>2, TypesStay
<1>4. DOMAIN inlinable' = DOMAIN inlinable \union {CurrentGraph.name}
  BY <1>1 DEF Put
<1>5. RestBest'
  <2> SUFFICES ASSUME NEW id \in Settled, id \notin todo_set'
               PROVE  IsInlined(id)' \/ AllBest(id)'
    BY <1>2 DEF RestBest
  <2>1. CASE id = Current
    <3>1. Current \in DOMAIN graphs
      BY <1>1, GraphsKnown
    <3>2. TargetOf(CurrentGraph.name) = Current
      BY <3>1, GraphNames DEF NamesInv, CurrentGraph
    <3> QED  BY <1>4, <2>1, <3>2 DEF IsInlined
  <2>2. CASE id # Current
    <3>1. IsInlined(id) \/ AllBest(id)
      BY <1>1, <2>2 DEF BestInv, RestBest
    <3>2. id \in DOMAIN graphs
      BY DEF Settled
    <3>3. AllBest(id) => AllBest(id)'
      BY <1>1, <1>3, <3>2, AllBestQuiet
    <3> QED  BY <1>1, <1>4, <3>1, <3>3 DEF IsInlined
  <2> QED  BY <2>1, <2>2
<1>6. SweepBest' /\ PhaseBest'
  BY <1>1 DEF SweepBest, PhaseBest
<1> QED  BY <1>5, <1>6 DEF BestInv

LEMMA FinishBest ==
  ASSUME QueueInv, CallsInv, BestInv, Finish
  PROVE  BestInv'
<1>1. /\ at # Idle /\ at.phase = "finish" /\ at'.phase = "idle"
      /\ UNCHANGED <<program, graphs, specs, todo_set, inlinable>>
  BY DEF Finish, Idle
<1>2. Settled' = Settled
  BY OtherSteps
<1>3. BestQuiet
  BY <1>1, <1>2, TypesStay
<1>4. RestBest'
  <2> SUFFICES ASSUME NEW id \in Settled, id \notin todo_set
               PROVE  IsInlined(id)' \/ AllBest(id)'
    BY <1>1, <1>2 DEF RestBest
  <2>1. IsInlined(id) \/ AllBest(id)
    BY <1>1 DEF BestInv, RestBest, PhaseBest
  <2>2. id \in DOMAIN graphs
    BY DEF Settled
  <2>3. AllBest(id) => AllBest(id)'
    BY <1>1, <1>3, <2>2, AllBestQuiet
  <2> QED  BY <1>1, <2>1, <2>3 DEF IsInlined
<1>5. SweepBest' /\ PhaseBest'
  BY <1>1 DEF SweepBest, PhaseBest
<1> QED  BY <1>4, <1>5 DEF BestInv

\* the callers of the variant are put on the work list
LEMMA FinishRenamedBest ==
  ASSUME QueueInv, NamesInv, CallsInv, VariantsInv, WorkInv, BestInv, FinishRenamed
  PROVE  BestInv'
<1> DEFINE f == CurrentGraph.base
           new == NameOf(Current, Narrow)
<1>1. PICK h : /\ GraphChanges(Current, h) /\ h.calls = CurrentGraph.calls
               /\ h.key = CurrentGraph.key
  BY FinishRenamedEffect
<1>2. /\ at # Idle /\ at.phase = "finish" /\ at' = Idle
      /\ Current \in DOMAIN graphs /\ Current \in Settled
      /\ Settled' = Settled
      /\ Current = <<f, CurrentGraph.key>>
      /\ DOMAIN specs' = DOMAIN specs \union {new}
      /\ todo_set' = todo_set \union dependencies[f]
  BY FinishRenamedEffect
<1>3. UNCHANGED <<program, inlinable, dependencies>>
  BY DEF FinishRenamed
<1>4. IsVariantName(new)
  BY <1>2, VariantName
<1> HIDE DEF f, new
<1>5. \A i \in Settled : /\ i \in DOMAIN graphs
                         /\ i # Current => graphs'[i] = graphs[i]
                         /\ graphs'[i].calls = graphs[i].calls
                         /\ graphs'[i].key = graphs[i].key
  BY <1>1 DEF GraphChanges, Settled, CurrentGraph
<1>6. \A id : IsInlined(id) => IsInlined(id)'
  BY <1>3 DEF IsInlined
<1>7. SpecsGrow
  BY <1>2, <1>4 DEF SpecsGrow
<1>8. \A b : b # f => WidthsStay(b)
  <2> SUFFICES ASSUME NEW b, b # f, NEW key, <<b, key>> \in Settled
               PROVE  <<b, key>> \in Settled' /\ graphs'[<<b, key>>] = graphs[<<b, key>>]
    BY DEF WidthsStay
  <2>1. <<b, key>> # Current
    BY <1>2
  <2> QED  BY <1>2, <1>5, <2>1
<1>9. ASSUME NEW id \in Settled, Clean(id), AllBest(id), id \notin todo_set'
      PROVE  AllBest(id)'
  <2> SUFFICES ASSUME NEW k \in DOMAIN graphs[id].calls,
                      IsVariantName(graphs[id].calls[k].name)
               PROVE  \/ IsOwnVariant(id, graphs[id].calls[k])
                      \/ WidthsStay(graphs[id].calls[k].name[1])
    BY <1>3, <1>5, <1>7, <1>9, AllBestKept
  <2>1. PICK c : c = graphs[id].calls[k]
    OBVIOUS
  <2> SUFFICES ASSUME ~ IsOwnVariant(id, c) PROVE WidthsStay(c.name[1])
    BY <2>1
  <2>2. id \in dependencies[c.name[1]]
    BY <1>9, <2>1 DEF Clean, Settles, Noted
  <2>3. c.name[1] # f
    BY <1>2, <1>9, <2>2
  <2> QED  BY <1>8, <2>1, <2>3
<1>10. RestBest'
  <2> SUFFICES ASSUME NEW id \in Settled, id \notin todo_set'
               PROVE  IsInlined(id)' \/ AllBest(id)'
    BY <1>2 DEF RestBest
  <2>1. CASE id = Current
    <3>1. IsInlined(id) \/ (Clean(id) /\ AllBest(id))
      BY <1>2, <2>1 DEF WorkInv, PhaseInv, BestInv, PhaseBest
    <3> QED  BY <1>6, <1>9, <3>1
  <2>2. CASE id # Current
    <3>1. IsInlined(id) \/ (Clean(id) /\ AllBest(id))
      BY <1>2, <2>2 DEF WorkInv, RestInv, BestInv, RestBest
    <3> QED  BY <1>6, <1>9, <3>1
  <2> QED  BY <2>1, <2>2
<1>11. SweepBest' /\ PhaseBest'
  BY <1>2 DEF SweepBest, PhaseBest, Idle
<1> QED  BY <1>10, <1>11 DEF BestInv

LEMMA NextBest ==
  ASSUME MaxVariants > 0, QueueInv, NamesInv, CodeInv, WorkInv, BestInv, SweepsSuffice,
         [Next]_vars
  PROVE  BestInv'
<1>1. CallsInv /\ VariantsInv
  BY DEF CodeInv
<1>2. CASE UNCHANGED vars
  <2>1. UNCHANGED <<program, graphs, todo_set, inlinable, specs, at>>
    BY <1>2 DEF vars
  <2>2. Settled' = Settled /\ Current' = Current /\ CurrentGraph' = CurrentGraph
    BY <2>1 DEF Settled, Current, CurrentGraph
  <2>3. \A g, id, c : Best(g, id, c)' <=> Best(g, id, c)
    BY <2>1, <2>2 DEF Best, CallKey, Named, Functions
  <2>4. /\ \A id : AllBest(id)' <=> AllBest(id)
        /\ \A id : IsInlined(id)' <=> IsInlined(id)
    BY <2>1, <2>2 DEF AllBest, IsInlined, Best, CallKey, Named, Functions
  <2>5. RestBest'
    BY <2>1, <2>2, <2>4 DEF BestInv, RestBest
  <2>6. PhaseBest'
    BY <2>1, <2>2, <2>4 DEF BestInv, PhaseBest
  <2>7. SweepBest'
    BY <2>1, <2>2 DEF BestInv, SweepBest, Best, CallKey, Named, Functions
  <2> QED  BY <2>5, <2>6, <2>7 DEF BestInv
<1> QED
  BY <1>1, <1>2, PopBest, InlineCallBest, EndOptimizeBest, LeaveCallBest,
     UseVariantBest, MakeStubBest, FinishStubBest, EndSweepBest,
     FinishInlinableBest, FinishRenamedBest, FinishBest DEF Next

-----------------------------------------------------------------------------
(***************************************************************************)
(* The end: the work list is empty.                                        *)
(***************************************************************************)

\* nothing is left to do for a graph that is not inlined everywhere
LEMMA DoneClean ==
  ASSUME QueueInv, NamesInv, VariantsInv, WorkInv, Done,
         NEW id \in DOMAIN graphs \ Inlined
  PROVE  Clean(id) /\ id \in Settled /\ id \notin todo_set /\ at = Idle /\ ~ IsInlined(id)
<1>1. at = Idle
  BY DEF Done, QueueInv, AtInv
<1>2. todo_set = {}
  BY DEF Done, QueueInv, ListInv, ToSet
<1>3. id \in Settled
  BY DEF Done, Settled
<1>4. ~ IsInlined(id)
  <2> SUFFICES ASSUME NEW name \in DOMAIN inlinable, TargetOf(name) = id PROVE FALSE
    BY DEF IsInlined
  <2>1. inlinable[name] = id
    BY DEF VariantsInv
  <2> QED  BY <2>1 DEF Inlined, Range
<1> QED  BY <1>1, <1>2, <1>3, <1>4 DEF WorkInv, RestInv

LEMMA DoneResolved ==
  ASSUME QueueInv, NamesInv, CodeInv, WorkInv
  PROVE  CallsResolved
<1> SUFFICES ASSUME Done, NEW id \in DOMAIN graphs \ Inlined,
                    NEW k \in DOMAIN graphs[id].calls,
                    ~ IsOwnVariant(id, graphs[id].calls[k])
             PROVE  LET call == graphs[id].calls[k]
                    IN  /\ call.name \in DOMAIN by_name
                        /\ call.type = graphs[by_name[call.name]].type
  BY DEF CallsResolved, ToSet
<1> DEFINE c == graphs[id].calls[k]
           target == TargetOf(c.name)
<1>1. Clean(id)
  BY DoneClean DEF CodeInv
<1>2. Resolved(c)
  BY <1>1 DEF Clean, Settles
<1>3. target \in Settled /\ c.name = graphs[target].name
  BY <1>2, KnownCall DEF CodeInv
<1>4. c.name \in DOMAIN by_name /\ by_name[c.name] = target
  BY <1>3 DEF NamesInv
<1> QED  BY <1>2, <1>4 DEF Resolved

LEMMA DoneFixpoint ==
  ASSUME QueueInv, NamesInv, CodeInv, WorkInv, BestInv
  PROVE  FixpointReached
<1>1. CallsInv /\ VariantsInv
  BY DEF CodeInv
<1>2. ASSUME Done, NEW id \in DOMAIN graphs \ Inlined,
             NEW k \in DOMAIN graphs[id].calls,
             ~ IsOwnVariant(id, graphs[id].calls[k]),
             graphs[id].calls[k].name \in DOMAIN specs,
             id # Id(specs[graphs[id].calls[k].name]),
             NEW key \in CallKey(graphs[id], graphs[id].calls[k],
                                 specs[graphs[id].calls[k].name])
      PROVE  LET call == graphs[id].calls[k]
                 variants == cache[specs[call.name]]
             IN  /\ key \in DOMAIN variants
                 /\ \/ call.name = graphs[variants[key].graph].name
                    \/ call.type = Narrow /\ variants[key].type = Wide
  <2> DEFINE c == graphs[id].calls[k]
             f == specs[c.name]
             variant == <<f, key>>
             target == TargetOf(c.name)
  <2>1. f = c.name[1] /\ f \in DOMAIN cache
    BY <1>2 DEF QueueInv, SpecsInv
  <2>2. Clean(id) /\ AllBest(id)
    BY <1>1, <1>2, DoneClean DEF BestInv, RestBest
  <2>3. \/ target = variant
        \/ c.type = Narrow /\ variant \in Settled /\ graphs[variant].type = Wide
    BY <1>2, <2>1, <2>2 DEF AllBest, Best
  <2>4. Resolved(c)
    BY <1>2, <2>2 DEF Clean, Settles
  <2>5. target \in Settled /\ c.name = graphs[target].name
    BY <1>1, <2>4, KnownCall
  <2>6. variant \in Settled
    BY <2>3, <2>5
  <2> HIDE DEF f, target, c
  <2>7. key \in DOMAIN cache[f]
    BY <2>6 DEF QueueInv, CacheInv
  <2>8. cache[f][key].graph = variant /\ cache[f][key].type = graphs[variant].type
    BY <2>1, <2>7 DEF NamesInv
  <2>9. \/ c.name = graphs[cache[f][key].graph].name
        \/ c.type = Narrow /\ cache[f][key].type = Wide
    BY <2>3, <2>5, <2>8
  <2> QED  BY <2>7, <2>9 DEF f, c
<1>3. ASSUME Done, NEW id \in DOMAIN graphs \ Inlined,
             NEW k \in DOMAIN graphs[id].calls, ~ IsOwnVariant(id, graphs[id].calls[k])
      PROVE  graphs[id].calls[k].name \notin DOMAIN inlinable
  BY <1>1, <1>3, DoneClean DEF Clean, Settles
<1>4. ASSUME Done, NEW id \in DOMAIN graphs \ Inlined, NEW call \in ToSet(graphs[id].calls),
             ~ IsOwnVariant(id, call)
      PROVE  /\ call.name \notin DOMAIN inlinable
             /\ call.name \in DOMAIN specs /\ id # Id(specs[call.name]) =>
                  LET variants == cache[specs[call.name]]
                  IN  \A key \in CallKey(graphs[id], call, specs[call.name]) :
                        /\ key \in DOMAIN variants
                        /\ \/ call.name = graphs[variants[key].graph].name
                           \/ call.type = Narrow /\ variants[key].type = Wide
  <2>1. PICK k \in DOMAIN graphs[id].calls : call = graphs[id].calls[k]
    BY DEF ToSet
  <2> QED  BY <1>2, <1>3, <1>4, <2>1
<1> QED  BY <1>4 DEF FixpointReached

(***************************************************************************)
(* The theorems.                                                           *)
(***************************************************************************)

\* For every set of programs and every bound: a call that will be inlined
\* expects the type that the inlined body returns, or it has the name that the
\* body had before it was found to return a machine integer, and expects any
\* integer.
THEOREM InlinedCallsAgree == Spec => []InlinedTypesAgree
<1>1. QueueInv /\ NamesInv /\ CallsInv /\ VariantsInv => InlinedTypesAgree
  <2> SUFFICES ASSUME QueueInv, NamesInv, CallsInv, VariantsInv,
                      NEW id \in DOMAIN graphs, NEW k \in DOMAIN graphs[id].calls,
                      graphs[id].calls[k].name \in DOMAIN inlinable
               PROVE  LET call == graphs[id].calls[k]
                          callee == graphs[inlinable[call.name]]
                      IN  \/ call.type = callee.type
                          \/ /\ callee.name = Append(call.name, Narrow)
                             /\ call.type = Wide /\ callee.type = Narrow
    BY DEF InlinedTypesAgree, ToSet
  <2> DEFINE c == graphs[id].calls[k]
             target == TargetOf(c.name)
  <2>1. inlinable[c.name] = target
    BY DEF VariantsInv
  <2>2. /\ target \in DOMAIN graphs /\ c.type \in {Wide, Narrow}
        /\ c.name = NameOf(target, c.type)
        /\ c.type = Narrow => graphs[target].type = Narrow
    BY KnownCall DEF Known
  <2>3. /\ graphs[target].name = NameOf(target, graphs[target].type)
        /\ graphs[target].type \in {Wide, Narrow}
    BY <2>2 DEF NamesInv, Shapes
  <2> HIDE DEF c, target
  <2>4. CASE c.type # graphs[target].type
    <3>1. c.type = Wide /\ graphs[target].type = Narrow
      BY <2>2, <2>3, <2>4
    <3>2. c.name = target /\ graphs[target].name = Append(target, Narrow)
      BY <2>2, <2>3, <3>1 DEF NameOf, Narrow, Wide
    <3> QED  BY <2>1, <3>1, <3>2 DEF c
  <2> QED  BY <2>1, <2>4 DEF c
<1> QED
  BY <1>1, InitQueue, NextQueue, InitNames, NextNames, InitCalls, NextCalls,
     InitVariants, NextVariants, PTL DEF Spec

\* For every set of programs: if a function may have its two variants, and unless
\* the limit of the sweeps is met when another one is due, every call that is left
\* in a graph that is not inlined everywhere is to a graph that is found under that
\* name and returns what the call expects, calls of a function's own variants
\* excepted.
THEOREM CallsStayResolved ==
  ASSUME MaxVariants > 0
  PROVE  Spec /\ []SweepsSuffice => []CallsResolved
<1> DEFINE Inv == QueueInv /\ NamesInv /\ CodeInv /\ WorkInv
<1>1. Init => Inv
  BY InitQueue, InitNames, InitCode, InitWork
<1>2. Inv /\ SweepsSuffice /\ [Next]_vars => Inv'
  <2> SUFFICES ASSUME Inv, SweepsSuffice, [Next]_vars PROVE Inv'
    OBVIOUS
  <2>1. QueueInv'
    BY NextQueue
  <2>2. NamesInv'
    BY NextNames
  <2>3. CodeInv'
    BY NextCode
  <2>4. WorkInv'
    BY NextWork
  <2> QED  BY <2>1, <2>2, <2>3, <2>4
<1>3. Inv => CallsResolved
  BY DoneResolved
<1> HIDE DEF Inv
<1> QED  BY <1>1, <1>2, <1>3, PTL DEF Spec

\* For every set of programs: if a function may have its two variants, and unless
\* the limit of the sweeps is met when another one is due, nothing is left to do in
\* the end for a graph that is not inlined everywhere.  None of its calls is of a function to be
\* inlined, and every one is to the variant for what is known of its argument,
\* unless that one returns less; calls of a function's own variants excepted.
THEOREM NothingLeftToDo ==
  ASSUME MaxVariants > 0
  PROVE  Spec /\ []SweepsSuffice => []FixpointReached
<1> DEFINE Inv == QueueInv /\ NamesInv /\ CodeInv /\ WorkInv /\ BestInv
<1>1. Init => Inv
  BY InitQueue, InitNames, InitCode, InitWork, InitBest
<1>2. Inv /\ SweepsSuffice /\ [Next]_vars => Inv'
  <2> SUFFICES ASSUME Inv, SweepsSuffice, [Next]_vars PROVE Inv'
    OBVIOUS
  <2>1. QueueInv'
    BY NextQueue
  <2>2. NamesInv'
    BY NextNames
  <2>3. CodeInv'
    BY NextCode
  <2>4. WorkInv'
    BY NextWork
  <2>5. BestInv'
    BY NextBest
  <2> QED  BY <2>1, <2>2, <2>3, <2>4, <2>5
<1>3. Inv => FixpointReached
  BY DoneFixpoint
<1> HIDE DEF Inv
<1> QED  BY <1>1, <1>2, <1>3, PTL DEF Spec
=============================================================================
