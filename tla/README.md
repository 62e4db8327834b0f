# Pydrofoil in TLA+

Pydrofoil turns instruction set specifications written in Sail into fast
emulators: it reads the intermediate representation of the Sail compiler (JIB),
optimizes it, writes RPython code, and the RPython toolchain makes an emulator
with a tracing JIT of it.  This directory holds TLA+ models of the parts of
Pydrofoil whose correctness is hard to test, configurations with which TLC
checks them on small instances, and proofs, checked by TLAPS, for instances of
every size.

Paths below are relative to the repository: `mem.py` is `pydrofoil/mem.py`.

## Inventory

### The compiler

Python 2, run when an emulator is built, one thread.

| component | source | state | operations |
|---|---|---|---|
| parser, types, names | `parse.py`, `types.py`, `infer.py`, `mangle.py` | none that survives a call | text to syntax tree; inference of types |
| SSA construction | `ir.py` (`SSABuilder`, `construct_ir`) | variables of each block, phis at joins | one graph per function |
| IR passes | `ir.py` (`_bare_optimize`, `inline`, ...) | a graph of blocks, rewritten in place | about twenty passes, in rounds until a round changes nothing |
| local optimizer | `ir.py` (`LocalOptimizer`) | replacements of operations, what is known in a block, casts that come later | constant folding, unboxing of vectors and integers, merging of sums |
| specialization | `specialize.py` | a cache of variants per function; the work list; who depends on whom; names of graphs | optimize one graph of the work list, make variants, rename them, note functions that became small |
| range analysis | `absinterp.py` | the range of every value at the end of every block | one pass over the blocks, then rewriting of integer operations |
| splitting | `splitgraph.py`, `graphalgorithms.py` | none | cut a large function into several; dominators |
| code generation | `makecode.py`, `emitfunction.py`, `operations.py`, `binaryop.py` | the text written so far | RPython code of functions and types |

`makecode.py` makes the graph of each function and gives it to the
`FixpointSpecializer` or emits it.  `specialize_all` runs the passes on every
graph of its work list; the passes call back into the specializer at each call
they meet (`specialize_call`), inline bodies of graphs that it declared small,
and the specializer puts graphs back on the work list when a callee changes.
The integer pass of `absinterp.py` reads the graph as a whole and rewrites it.

### The emulator

RPython, compiled with a tracing JIT: every loop of the guest can be executed by
the interpreter, recorded by the tracer, or executed by compiled code that was
specialized to constants seen while tracing.

| component | source | state | operations |
|---|---|---|---|
| guest memory | `mem.py` | words, a status per word and the current version (`FlatMemory`); a dictionary of blocks and two caches of the last block (`BlockMemory`); two memories (`SplitMemory`) | `read`, `write`, `close`, each aligned or byte by byte |
| bit vectors, integers, reals | `bitvector.py`, `supportcode.py`, `real.py` | immutable values, each with several representations | arithmetic |
| floating point | `softfloat` | flags of the C library | bindings |
| RISC-V emulator | `riscv/supportcoderiscv.py` | step number, instruction count, pending tick, reservation, configuration | run loop, clock, reset, load of the program |
| ARM emulator | `arm/supportcodearm.py` | cycle count, memory | repetitions, cycle limit |
| program loading | `elf.py`, `dtb.py` | none | parse and serialise |

The generated model (`outriscv.py`, `outarm.py`) calls the memory through
`supportcode.py`.  The run loop calls the generated `step`.  Ctrl-C sets a flag
asynchronously, which the loop polls.

### What is hard

* **Compiled code remembers.**  `FlatMemory` folds instruction words into
  compiled loops, guarded by a version object; `BlockMemory` folds block
  objects through `@jit.elidable`.  Stores, other accesses and repetitions of
  the run must not leave a loop with something that is no longer so.  Tests run
  untranslated and do not see this.
* **Two caches filled by different kinds of access**, bypassed by a third.
* **Accesses in pieces.**  An unaligned access is a series of accesses of one
  byte; it may cross words, blocks, segments, and fail half way.
* **One flag for two purposes.**  `tick` in the run loop stands for clock ticks
  and for speed figures, both of which may be due at once, and a pending tick
  suppresses the poll for Ctrl-C.
* **A work list with moving names.**  A variant may change its name and type
  after calls of it were made, inlined elsewhere, or finished.
* **Ranges that change under a condition.**  Conditions are evaluated in one
  block and tested in another, and ranges of values are those at the end of a
  block.
* **Many representations of one value.**  A vector is small, sparse or generic,
  an integer small or big; which one depends on the operations that made it, and
  the code has fast paths for pairs of them.  The optimizer adds a fourth, the
  machine word, and looks ahead for casts to decide where to use it.
* **Passes that trust each other.**  A pass that sends an edge past a block,
  drops a test or moves a read relies on a shape of the graph that other passes
  and inlining change.
* **Phis that become assignments.**  Parallel assignment is made sequential,
  and operations used once are evaluated where they are used.

The file `PROJECT.json` lists each hazard at its line, with the properties that
cover it, or the reason why none does.

### What makes each component correct

* memory: a plain byte memory; no compiled loop disagrees with it; compiled
  code is thrown away a bounded number of times.
* run loop: the clock counts every instruction once; the limit is met exactly;
  the loop ends for a reason and, when it should, at all.
* range analysis: every value of every execution lies in its range, so that
  decided branches, removed checks and folded constants are right; the analysis
  fails only at a conversion that cannot succeed or a condition that is out of date.
* specialization: ends; then every call of a graph that is not inlined everywhere
  is of a graph with that name and type, none is left to be inlined, and each is of
  the best variant there is, but for what a function calls of its own variants.
* SSA construction, IR passes, emission: the graph, after every pass, and the
  code made from it compute what the instructions of the function do; no
  assertion of the compiler fails; the rounds of passes end.
* local optimizer: a rewritten expression computes what it did, and no two
  rewritings undo each other.
* bit vectors and integers: all representations agree with the mathematical
  value.

## Modules

| module | models | role |
|---|---|---|
| `MemBase` | `MemBase` of `mem.py` | requests in pieces, shared by the memories |
| `GuestMemory` | - | abstract: bytes, a request, its result, all at once |
| `ClearableMemory` | - | the same, and the memory may be cleared when idle |
| `FlatMemory` | `FlatMemory`, `Version` | statuses, versions, traces |
| `BlockMemory` | `BlockMemory`, repeated `__init__` | blocks, caches, folded blocks |
| `SplitMemory` | `SplitMemory` | routing to two memories, faults |
| `FlatMemoryProofs`, `BlockMemoryProofs`, `SplitMemoryProofs` | - | theorems |
| `RiscvRun` | `run_sail`, loop of `_main` | run loop |
| `RiscvRunProofs` | - | theorems |
| `Binary` | - | powers of two, bits, numbers combined bit by bit |
| `Ranges` | `Range` | pure operators on ranges |
| `RangeAnalysis` | `AbstractInterpreter`, folding of `IntOpOptimizer` | the analysis, one action per operation and link, and then a run |
| `RangeAnalysisProofs` | - | theorems about `Ranges` and `RangeAnalysis` |
| `Specialization` | `specialize.py`, `inline`, `should_inline`, `optimize` | work list |
| `SpecializationProofs` | - | theorems |
| `ExactValues` | - | what vectors and integers mean, without words |
| `Digits` | loops over words of `bitvector.py` and `rbigint` as it is used | numbers of several words |
| `BitVectors` | `SmallBitVector`, `SparseBitVector`, `GenericBitVector` | operations on vectors |
| `BigIntegers` | `SmallInteger`, `BigInteger` | integers, their sums, differences, comparisons |
| `SailIntegers` | `SmallInteger`, `BigInteger` | their products, quotients, shifts, slices; vectors and integers |
| `ValueMachine` | - | a program that computes with them |
| `WordProofs` | - | theorems about `Digits` and `BitVectors` |
| `ValueProofs` | - | theorems about `BigIntegers`, `SailIntegers` and `ValueMachine` |
| `Expressions` | `Operation`, `Cast`, constants of `ir.py` | programs without jumps, and their meaning |
| `LocalOptimizer` | `LocalOptimizer` | its rewritings |
| `OptimizerRun` | `local_optimize` under `repeat` | passes over an expression |
| `Jib` | classes of `parse.py` | instructions of a function, and what they do |
| `SsaGraphs` | `Graph`, `Block`, `Next`, phis | graphs, their traversals, and what they do |
| `SsaBuilder` | `SSABuilder`, `construct_ir` | instructions to graph |
| `GraphPasses`, `GraphOptimizer` | passes of `_bare_optimize`, `inline` | graph to graph |
| `CodeEmission` | `emitfunction.py` | graph to code |
| `CompileRun` | `construct_ir`, `light_simplify`, `make_code` | a model is compiled |
| `MC...` | - | instances for TLC |

`FlatMemory`, `BlockMemory` and `SplitMemory` extend `MemBase` and instantiate
their abstract memory with a refinement mapping; `SplitMemory` is composed of
two instances of `FlatMemory`.  `RangeAnalysis` extends `Ranges`.
`Ranges`, `Digits` and `ExactValues` extend `Binary`, whose recursions are
functions, so that theorems can be proved about them.
`BitVectors` and `BigIntegers` extend `Digits`, `SailIntegers` extends both, and
they meet `ExactValues` in `ValueMachine`; `Expressions` extends `SailIntegers`, so
that the optimizer is checked against the vectors and integers it replaces.
`Jib`, `SsaGraphs`, `SsaBuilder`, `GraphPasses`, `GraphOptimizer`,
`CodeEmission` and `CompileRun` extend each other in this order, which is the
way a function takes.  Definitions whose comment begins with "mutant" are
changed versions of a definition, with a plausible mistake; a property is kept
only if TLC finds it violated with such a mistake in place.

### Memory

`request` is what a `read` or `write` of `MemBase` is doing: how many bytes are
done, and the size of each piece (`_unaligned_read`, `_unaligned_write`), so
that every intermediate state of an unaligned access is a state of the model.

In `FlatMemory`, `mem`, `status` and `version` are the fields of the class.
`traces` are compiled instruction fetches: for each, the word it is for, the
version it is guarded by, and the status and contents it has folded.  A fetch is
one of three actions:
`ReadInterpreted` (no JIT), `ReadTraced` (the word is marked, and the results of
the elidable calls are recorded) and `ReadCompiled` (if the guard on the version
holds, the loop serves the word from what it folded, or loads it if the status
it folded was MUTABLE).  Which of them happens
is free, as it is for the guest.  `ImplementsGuestMemory` says that no choice
can be told from a plain byte memory.

In `BlockMemory`, `heap` holds all blocks ever created, `blocks` is the
dictionary, `last` and `lastAddr` are the two caches.  `folded` is what compiled
loops contain.  `CacheHit`, `CacheMiss`, `TracedAccess`
and `CompiledAccess` are the ways through `get_block`; `Reset` is the call of
`__init__` by `arm/supportcodearm.py:233` between repetitions.
It may come after loops were compiled: the triples of `folded` say in which run
each was, and what is left of the heap are the blocks that loops contain
(`Collected`).  `misled` remembers that a loop of an earlier run (`Stale`) has
served a piece of the request in progress, which is the one case that
`ImplementsClearableMemory` excepts, and no more than that request.

In `SplitMemory` each segment is an instance of `FlatMemory` without compiled
loops (what they fold is the subject of `FlatMemory`); the actions route the
next piece of a request to one of them, by `InMem1` and `InMem2`, and change its
words and statuses as that memory does.  `AccessFault` is the `ValueError` for
an address in neither.

### Run loop

The variables are the locals of `run_sail`, the guest's `pc` and `htif` fields,
and history variables for clock ticks and printed figures.  `Options` is the set of
command lines the process may have been started with.  An iteration of the
loop is one action: `StopLoop`, `TickClock`, `PrintKips`, `Step` or
`StepRaises`; after the loop, `ReportCtrlC` or `FinishIteration`.  `PressCtrlC`
may happen at any moment.  The guest is free: any next pc, retiring or not,
done or not, raising or not.

### Range analysis

A function is a sequence of blocks of operations, in topological order as
`topo_order` gives it.  `AnalyzeOperation` is an iteration of
`AbstractInterpreter.analyze_block`; `AnalyzeGoto`, `AnalyzeDecided`,
`AnalyzeBranch` and `AnalyzeEnd` are the ways through `analyze_link`, and
`SkipBlock` leaves out a block that was not reached.  An analysis that meets an
operand it does not know, or builds an empty range, ends in the phase
"crashed".  When it is done, `Call`, `RunOperation`, `RunRaises`, `RunGoto`,
`RunBranch` and `RunEnd` execute the function with any arguments of the
instance, with a meaning of the operations that is defined independently
(integers of any size; `int_to_int64` raises if the number does not fit), and
the properties compare each state of the execution with the ranges.  `None` is
an open end of a range.  `FoldsTo` is the folding of
`IntOpOptimizer._optimize_op`.  The variable `known` is history: it keeps the
ranges of a block as they were before each operation, which the code forgets.
What `Graph.check` and the order of the blocks promise is the assumption
`GraphsAssumption` (`WellFormed`): names are given once, links lead on, a phi
has results of earlier blocks, conditions are Booleans.

### Specialization

Functions have one integer argument, about which one thing is known or not: that
it is a machine integer.  A graph is the sequence of its calls, the value it
returns, and the number of other operations, of which some the optimizer will
remove.  `at` is where `specialize_all` is: a graph is popped from the work list
(`Pop`), inlined into until nothing is left to inline (`InlineCall`,
`EndOptimize`), its calls are specialized one by one (`UseVariant`, `MakeStub`,
`FinishStub`, `LeaveCall`), sweeps are repeated while something changed
(`EndSweep`), and then its callers learn what changed (`FinishInlinable`,
`FinishRenamed`, `Finish`).  A call becomes one of the variant as `Redirected`
says: the code converts the result of the variant back when it is narrower
(`_reconstruct_result`), and a call that was of a narrower variant already stays
as it is.  `at.changed` is what `optimize` returns (`Reports`, `MayFind`): that a
call was redirected is no part of it (`ir.py:1423`), so that `Finish` may find
nothing to tell the callers where something did change.  Two exceptions that the
code makes are operators: `Inlined`, the graphs that are inlined everywhere and
therefore never specialized, and `IsOwnVariant`, the calls that a function makes of
its own variants, which `specialize_call` leaves alone.  That
functions have names of their own and call functions of the program with
arguments computed before is in `ProgramsAssumption` and `CallsAssumption`.

### Bit vectors and integers

`register` holds one value as the code represents it, and `value` what it stands
for.  Each action applies one method of `bitvector.py` to the register, with
other operands in every representation they can have, and computes `value` with
`ExactValues`.  A word has `WordBits` bits, so that a vector of a few words and
both ends of the machine integers are a handful of states.  `Digits` is the
arithmetic on arrays of words, with carries and borrows, as the loops of
`GenericBitVector` and `rbigint` do it.  A loop is its step, from an index and a
carry to a digit and the next carry, rippled through the array (`Ripple`), so
that the steps can be reasoned about one by one.

### Local optimizer

`expression` is a tree of operations, whose leaves are constants, variables with
their values, and casts; a variable of an object type knows whether a later
operation of its block casts it (`boxed` operations whose machine form the code
finds in the block).  `OptimizePass` is one call of `local_optimize`: operands
first, then the `optimize_` method of the operation, then constant folding.
`Meaning` is the set of values the expression can have, computed with the
operations of `BitVectors` and `SailIntegers` on objects and with wrap-around
or undefined results on machine words; it is empty if the program raises.
`passes` counts, and `done` is what `repeat` waits for.

### Compilation of functions

`model` is the list of functions.  `at` says how many were begun, and which of
the passes in `Passes` runs next on `graph`; `Construct` is `construct_ir`,
`RunPass` the next pass, `NextRound` the loop of `repeat` in `_optimize`, and
`Finish` registers a small graph with `inlinable_functions` and makes its code.
`meaning` is the result of the instructions for all inputs and
registers, computed from the instructions alone (`JibResult`); `GraphResult`
runs a graph, and runs emitted code, where operations in `printed` are
evaluated when they are used.  Operations and blocks have numbers where the code
has objects.

What is abstracted: constants are compared by value; children of a block are
visited in one fixed order; dictionaries keep the order of insertion; the
comment that goes with an assertion is always made; uninitialized values are not
compared; the code of a function is made when its graph is finished, because a
graph does not change afterwards.

## Runs

| run | instance | states | what it shows |
|---|---|---|---|
| `flat` | 2 words of 2 bytes, bits for bytes, 2 compiled loops | 406 353 | statuses, versions and folding never show; compiled code is discarded at most once per word |
| `block` | 2 blocks of 2 bytes, 1 reset at any time, 1 folded block a run | 857 554 | caches and folded blocks never show, a repetition starts from zeros, and the blocks that older loops still have are not its blocks |
| `split` | 16 addresses, adjacent segments at 2..3 and 4..5, holes around | 24 997 | routing by the first byte is right for aligned pieces; failed and wrapping accesses |
| `riscv_run` | limit 7, tick every 3, figure every 2; and no limit and no ticks; 2 iterations, 3 pcs | 2 650 | clock, assertion, limit; Ctrl-C and the guest's own end stop the loop |
| `ranges` | 823 functions, machine integers -3..2, arguments -4..4 | 458 186 | ranges, constants put in and dead blocks are right, and the analysis fails only for the two reasons of `FailuresExplained` |
| `specialize` | programs of four functions in both orders, with methods, recursion and mutual recursion, and of up to seven with variants renamed while they are inlined | 857 322 | the work list ends in a consistent, finished state |
| `values` | words of 2 bits, vectors of 1..6 bits, integers of up to 2 words, shifts up to 6 | 4 152 | every operation is exact on every representation, equality and order do not depend on it, conversions raise when they must and return the number, and `touint` of a negative machine integer wraps |
| `int_mul` | big integers times MININT | violation | finding 1 |
| `optimize` | 117 226 programs, words of 4 bits, vectors of 1, 2, 4 and 5 bits | 333 641 | optimized programs compute what they did, and passes settle |
| `compile` | functions with conditionals, conjunctions, loops, assertions, calls and handlers, alone and inlined | 44 866 | graphs and code compute what the instructions say, after every pass |
| `compile_throw` | a function that throws after a call, inlined | violation | finding 2 |
| `emit_overlap` | a loop condition computed from a variable that changes after it | violation | finding 3 |

### The bounds, and why they are enough

* Memories: two words or blocks of two bytes and accesses of one or two bytes
  are the smallest in which an access is aligned, is unaligned inside a word,
  and crosses from one to the other.  A byte is a bit: nothing depends on its
  value.  Two compiled loops (`MaxTraces`) may have folded different words under
  different versions; a third could only repeat one of them, and the theorems
  hold for any number.
* `SplitMemory`: adjacent segments with holes on both sides and the wrap around
  at 2^4 give every pair of regions two consecutive bytes can lie in.
* Run loop: with ticks every 3 and figures every 2, both are due together after
  6 steps, below the limit of 7; two iterations reach the branch `if i:`.
  `KipsPeriod` and `ShowPeriod` stand for 2^20 (assertion) and 2^32 (mask); what
  is used of them is that the first divides the second.  Without a limit, step
  numbers are kept modulo `StepWrap`, a multiple of `ShowPeriod`, so that
  nothing the loop reads changes.
* Ranges: machine integers -3..2 have an asymmetric minimum, and arguments -4..4
  lie on both sides of both ends.  The functions combine every operation with
  conditions before and after it, with a conversion to a machine integer of one,
  both or no operand, merges of paths, phis, a condition tested twice, Boolean
  arguments and phis, and results of calls.  The
  functions of the run keep away from two patterns described under
  "Observations", where the analysis is wrong or fails.
* Specialization: `MaxSmall` 4 stands for 25 operations; `MaxSweeps` 5 stands for
  100, and no program of the run takes more than 3; `MaxVariants` is the 64 of the
  code, which is never met, because there are two keys.
  Four functions in a chain with a shortcut give a variant that is called from
  two places, a caller that is finished before its callee changes, and one that
  is inlined before and after; recursion and renamed variants that are inlined take
  a few functions more.
* Values: with words of two bits, six bits are three words, so that carries and
  shifts run through a middle word and the last word may be full, partly used or
  a single bit.  Integers of two words (`MaxDigits`) have products of four, which
  are cut down before the program goes on.  Shifts to `MaxShift` pass the size of
  every vector.
* Optimizer: words of four bits leave room for a vector that fits with bits to
  spare, one that fills a word, one that is a bit wider, and one of a single bit.
  The numbers are zero, minus one, a small one, both ends of the machine integers
  and one below them.  `PassLimit` 8 stands for 1000, and no program takes
  as many.
* Compilation: numbers below 5 and inputs 0 and 1 decide each condition both
  ways; `Fuel`, the jumps a run may make, is more than the longest loop that
  ends needs, so that an endless run is told from one that ends.  `MaxRounds` 6
  stands for 1000; the property `RepeatEnds` says that no function needs it.

Deadlock checking is off only for the models whose program ends: the run loop,
the analysis, the work list and the optimizer.  The memories and the machine
that computes with values never stop, and `CompileRun` has an action, `Stop`,
for a model that is finished.

### Fairness

* `RiscvRun`: weak fairness of `Emulator`, the disjunction of all steps of the
  program: it is one thread that nothing blocks.  No fairness is assumed of
  Ctrl-C.  `LimitStops` assumes, in the property itself, strong fairness of
  `Retire`: a guest that executes nothing but instructions that do not retire
  (`wfi` forever) counts no instructions, and the code does not promise that it
  ends.  `CtrlCStopsWithoutTicks` is for command lines on which no tick is ever
  due, and assumes nothing of the guest: among finitely many pcs, backward jumps
  must happen.
* `Specialization`: weak fairness of `Next`; the translator takes its next step.
* `Settles` and `RepeatEnds` are invariants on counters of passes and rounds, so
  that the loops they are about end without an assumption of fairness.

## Theorems

| module | theorem | for all |
|---|---|---|
| `FlatMemoryProofs` | `TypeCorrect`, `TracesCoherent`, `StatusTransitionsCorrect`, `VersionsCount`, `FlatMemoryImplementsGuestMemory` | sizes, words, access widths, numbers of loops |
| `BlockMemoryProofs` | `BlockTypeCorrect`, `CachesStayCurrent`, `BlocksStayDistinct`, `FoldedBlocksCurrent`, `BlockMemoryImplementsClearableMemory` | sizes, blocks, numbers of resets and of folded blocks |
| `SplitMemoryProofs` | `RoutedAccessesInside`, `SplitMemoryImplementsGuestMemory` | widths of addresses and words, segments |
| `RiscvRunProofs` | `RunTypeCorrect`, `KipsAssertionHolds`, `EndsForAReasonHolds`, `ClockExact` | guests, limits, periods, iterations |
| `SpecializationProofs` | `QueueStaysConsistent`, `NamesStayConsistent`, `InlinedCallsAgree`, `CallsStayResolved`, `NothingLeftToDo` | programs, numbers of variants and sweeps |
| `RangeAnalysisProofs` | `AddSubSound`, `MulSound`, `TdivSound`, `EdivSound`, `LshiftSound`, `RshiftSound`, `ToMachineIntSound`, `UnionSound`, `ComparisonsSound`, `NarrowingSound`, `UndecidedNarrowsToNonempty` | ranges and numbers |
| `RangeAnalysisProofs` | `AnalysisInvariant`, `RangesAreSound`, `DeadBlocksStayDead`, `FoldingIsSound`, `AnalysisFailuresExplained` | functions, arguments, widths of machine integers |
| `WordProofs` | `ArrayArithmeticExact` | bases, lengths of arrays |
| `ValueProofs` | `NegationExact`, `AdditionExact`, `SubtractionExact`, `OrderingExact`, `EqualityOfIntegersExact`, `ToIntExact`, `ToUintExact` | widths of words, lengths of integers |
| `ValueProofs` | `ValuesRepresented`, `ValuesTyped`, `ValuesExact`, `EqualityCorrect`, `OrderCorrect`, `ConversionsCorrect` | widths of words, sizes of vectors, lengths of integers, chains of operations |

The assumptions are those that the modules name (`ASSUME ...Assumption`):
sizes are positive, access widths divide the word, segments are aligned as the
constructor asserts, `ShowPeriod` is a multiple of `KipsPeriod`, graphs are as
`Graph.check` leaves them, functions call functions of the program, a word has
two bits or more (`WordBits`) and `Base` is two to that power.  The theorems
about single operations on integers are for integers in their
proper form (`SailInteger`: no leading zeros, and no big integer is zero), which
`ValuesRepresented` shows to be the only ones there are.  Some theorems assume
more.  The six about `ValueMachine` are for programs that do not multiply a big
integer by the smallest machine integer (`MinIntProducts = FALSE`), because that
product is wrong: finding 1, and the run `int_mul`, which makes it.  Like the run
`values`, they leave out the shifts of a machine word or integer to the right by its
width or more, which C does not define (guards of `Arith_rshift` and
`Rshift_integer`).
`CallsStayResolved` and `NothingLeftToDo` are for a limit on variants that is not
zero (`MaxVariants > 0`; the model has two keys, and no call has a third variant
made), and for runs in which the sweeps end before their limit (`SweepsSuffice`).
Neither can be left out: the observations have a program for each.
`InlinedCallsAgree`, `QueueStaysConsistent` and `NamesStayConsistent` assume nothing.
`AnalysisFailuresExplained` is for graphs in SSA form (`OperandsGiven`: operands are
computed before they are used on every path, and a phi has an operand for each
block that leads to its own); the functions of the run `ranges` are in that form
(`DominatingAssumption`).
`ClockExact` is for runs with a limit, because without one the model counts
steps modulo `StepWrap`, and an equation between counters says nothing then.

The arguments:

* **FlatMemory.**  That a loop agrees with the memory while its version is
  current is not inductive: a version must not become current again.
  `TracesInv` adds that versions of loops are not later than the current one;
  a new version is later than all, so the loops whose fold becomes wrong
  are out of date.  Words are only ever folded once they are not NORMAL, and a
  store to an IMMUTABLE word makes a new version.  `VersionsCount` is the count
  of MUTABLE words, by cardinality: each change of version adds exactly one.
* **Refinement.**  The abstract bytes are those of the memory with the rest of a
  pending store already done, so that a store happens at once when it starts and
  its pieces are stutters; a read happens when its last piece does.  `RefinementInv` adds to the above `ReadsAgree`: the bytes that a pending
  read has collected are those of the memory.  Then every step maps to a step of
  `GuestMemory` or to a stutter, one lemma per action.
* **BlockMemory.**  `BlockInv` is `PointersOK` (dictionary, caches and loops
  refer to blocks of the heap, which are complete) together with
  `CachesCurrent` and `BlocksDistinct`; none of the three is inductive alone.
  `GetBlock` states what `_get_block` returns and leaves alone;
  `AccessPreserves` is the common part of all accesses.  For the refinement,
  `AccessSteps` says that each of the four ways of an access (cached, not cached,
  traced, compiled by a loop of this run) is one to the block that `_get_block`
  would return, and
  `Allocated` that a block made by the way changes no byte; what remains is the
  argument of `FlatMemory`.
* **SplitMemory.**  `RequestInv` says what a request in progress is.  An aligned
  access that starts before the end of a segment ends before it, because ends of
  segments are ends of words and no access is wider than a word; accesses of one
  byte are aligned.  That is `RoutedAccessesInside`, and it is why a memory that
  checks no bounds may be routed to by the first byte alone.  `RefinementInv`
  adds that the bytes read so far are those of the memory (`Progress`) and that
  no byte so far met a hole.  The bytes of a pending write count as stored up to
  the first hole, and no further: then `AccessFault` changes nothing that can
  be seen, and what a failed write leaves behind is what the abstract one does.
* **Specialization.**  `QueueInv` ties the work list to graphs, variants, the
  cache and the lists of callers, so that a variant is only made when none is
  cached and only queued when it is not.  `NamesInv` adds what a name is: the
  number of the variant until it is known to return a machine integer, and that
  number with `i` appended from then on; so a new name is never taken.
  `CallsResolved` speaks of the end, and its invariant of every moment.
  `CallsInv` says what graphs and calls are: a call is of a function or of one of
  its variants, by the name it has or by the one it had (`Known`), and with the
  type that goes with the name.  So a call agrees with its target exactly when it
  has the target's name, and `InlinedCallsAgree` follows: a call that disagrees with
  an inlinable graph has the name that the graph had before, and expects the less
  that went with it.  `WorkInv` says what is left to do.  A graph is on the work
  list, is the one being optimized, is inlined everywhere (`IsInlined`), or is
  `Clean`: each of its calls is not to be inlined, and is `Heeded`, which is that it
  has the type of its target and is noted with the callee (`dependencies` or
  `inline_dependencies`), or is of a variant of the graph's own function.  A change
  of a callee takes that away from the noted callers only, and they are what
  `Finish...` puts on the work list; while a graph is optimized, `SweepInv` says it
  of the calls that the sweep has passed, and `PhaseInv` of all of them when
  the last sweep redirected none.  `BestInv` has the same three parts for another
  fact: a call that the sweep has passed, or that is of a graph off the work list, is
  of the variant for what is known of its argument, or of one that returns more
  than that one does so far.  An argument may become better known in a sweep only by
  a call before it, and such a sweep is followed by another.  In the end the work
  list is empty, so every graph that is not inlined everywhere is clean
  (`DoneClean`), and `DoneResolved` and `DoneFixpoint` read the two properties off.
* **Run loop.**  `RunInv` adds why a tick is pending: a full count implies a
  tick (`FullCountTicks`), any other tick was asked for by `--print-kips` at
  a multiple of the period (`OtherTicksAreKips`).  `ClockInv` is the counting
  equation, which `TickClock` preserves because it is taken at a full count.
* **Ranges.**  By cases on open ends; products by monotonicity in each
  factor, so that the extremes lie in the corners; `Tdiv` from the same for
  quotients rounded to zero, and the shifts from it for powers of two.  `Pow2` is
  a recursive function: that it exists and what it is, and the least and
  greatest ends of a finite set of ranges (the union of a phi), are proved by
  induction.  `UndecidedNarrowsToNonempty` explains the
  observation about empty ranges:
  if a comparison of two ranges is not decided, narrowing the same ranges by it
  leaves numbers in both, so an empty range can only come from ranges that
  changed since the comparison.
* **Range analysis.**  The invariant has three layers.  `TypeInv` says that
  ranges are ranges.  `AnalysisInv` says what the analysis has done:
  an operation that it has passed turned the ranges before it into those after
  it (`OperationsDone`), a block that it has left has had its effect on the blocks
  its link leads to, which only become weaker from then on (`LinksDone`), and a
  block knows no names of later blocks (`NamesOrdered`).  `RunInv` says that the
  ranges at the point where a run is hold for it, that a comparison still has
  the value its operands give it, and that a name is from the block itself or in
  the range that the block left last has for it (`FromInv`, which a phi
  needs).  A step of the run is then right because the analysis has passed the
  same point: `TransferSound` for operations, `PhiSound` for phis, `BranchSound`
  for what a condition tells of its operands.  `RangesSound` alone is not
  inductive: it says nothing in the middle of a block.  For `FoldingIsSound`,
  `StableInv` adds that from where it was computed to the end of its block a range
  loses no number but those that a conversion in between fails for
  (`FailsAhead`).  For `AnalysisFailuresExplained`, `GivenInv` adds that the names which
  the graph gives at a point have ranges there, and that a block with ranges has
  a predecessor that was analysed before it, from which a phi has an operand
  (`OperandsKnown`, `PhiKnown`, `ConditionKnown`).  Ranges made from ranges with numbers
  have numbers, because the operations are right on numbers (`HasNumber` turns
  `AddSubSound` and its kin into `ArithmeticValid`, and `Covers` into a phi with a
  number); a condition that is not decided and still has the range that its
  operands give it leaves numbers in both of them (`UndecidedNarrowsToNonempty`,
  `BranchValid`).
* **Arrays of words.**  `Rest(d, i)` is the number that the digits of `d` above the first
  `i` stand for; above a digit, it is the digit and `Base` times the rest.  Each
  step of a loop is exact in the sense that the digit and `Base` times the new
  carry are what went in (`AddDigitIs` and its kin: the code finds the carry by
  comparing a wrapped sum with an operand), so from the top down the rest of the
  result is that of the operands with the carry that comes in.  A difference
  leaves no borrow: a borrow out of the highest digit would make what is left to
  store negative at every index, and at the lowest that is the difference.  The
  comparisons rest on `UpperDecides` (the larger rest decides, whatever is
  below), and equality on `SameData`: without leading zeros an integer has one
  array of digits.  The sums and
  differences of integers are then a matter of signs, and of the two ends of
  the machine integers.
* **Bit vectors.**  The words of a number (`WordsOf(n, len)`) are its digits in
  `Base`, and word `k` holds its bits from `First(k)` on (`WordAt`).  `Low` and
  `Up` are the bits of a number below a position and from it on; all that shifts,
  masks and parts do is said with them, and two words are equal if they have the
  same bits, so that parts of words joined by `or` are found bit by bit
  (`OrWords`, `AndWords`).  `IsVector(v, size, n)` says that `v` is a proper representation
  of `n` in a size: small, if the size is at most a word; sparse, and then `n` is
  a word; or generic, and then its data are the words of `n`.  There is one
  lemma per operation of `BitVectors`: from proper operands the result is
  a proper representation of the exact result, in each combination of
  representations.
* **Products and quotients of integers.**  A big integer is multiplied by a
  power of two by shifting (`PowerOfTwoIs`: the code's test finds them, and
  beside them only zero and the smallest machine integer), by any other word
  digit by digit; a positive one is divided by a power of two by shifting.  The other quotients are
  rbigint's, and the lemmas are about the ends of the machine integers: what
  does not fit becomes big, and a remainder fits where the code takes that for
  granted (`TruncatedInRange`, `EuclideanInRange`).
* **ValueMachine.**  `Represented` says that `register` is a proper representation
  of `value` (`Means`): `IsVector` for a vector, `IsExact` for an integer.  It is
  `TypeOK` and `Exact` together, and neither is inductive alone.  Results depend on
  numbers, so that their form does not follow from the form of the operands; and
  a vector with a bit above its size, or an integer with a leading zero, can
  stand for the right number and be compared, shifted or extended wrongly
  afterwards.  `StepRepresented` has a case for every action, from the lemma of
  its operation; the operands that an action takes from `BitVectorsOf` and
  `Integers1` are proper by `VectorOperand` and `IntegerOperand`.  All five
  properties of the run `values` follow.

The provers know nothing of `^` and of bitwise operators, and no module of the
library that has theorems can be applied to recursive functions.  So `Pow2` and
`Combined` are recursive functions of `Binary`, and that such functions exist and
satisfy their equations is proved by induction on sets.  `WordProofs` and
`RangeAnalysisProofs` each begin with these lemmas, so that neither waits for the
proofs of the other.

Checked by TLC only: all liveness (`Terminates`, `LimitStops`
and `CtrlCStopsWithoutTicks`), because
the prover has no reasoning about fairness
and ENABLED that would carry it;
and `OptimizerRun` and `CompileRun`, whose expressions and graphs are traversed by
recursive operators, which the provers do not know.

## Findings

1. **A big integer times the smallest machine integer has the wrong sign**
   (`int_mul`).  `BigInteger.int_mul` tests for a power of two with
   `other & (other - 1) == 0` (`bitvector.py:1682`); in translated code
   `MININT - 1` wraps around and the test holds.  Untranslated tests do not see it.
2. **An exception is lost when a function that throws after a call is inlined**
   (`compile_throw`).  `remove_double_exception_check` (`ir.py:4129`) looks at one
   way into the block of the second test and decides the test for all of them.
3. **A condition is computed from the new value of a loop variable**
   (`emit_overlap`).  `remove_phis` asserts that no source of an assignment is the
   target of another (`emitfunction.py:374`), but a source may be an operation
   printed in its assignment, whose operands are not looked at.

### Observations

No run states these; some can be seen by giving a module other constants, and
then the property named fails.

| what | constants | property |
|---|---|---|
| With one variant too many `specialize_call` gives up before it notes the caller as a dependency (`specialize.py:73`) | `specialize` with `MaxVariants = 0` | `CallsResolved`, `FixpointReached` |
| A call that is inlined after the last of the sweeps is not specialized, and its caller is not noted (`ir.py:1421`) | `specialize` with `ProgramSet <- SweepPrograms`, `MaxSweeps = 1` | `CallsResolved`, `FixpointReached` |
| With ticks and no limit, Ctrl-C is polled in the `elif` of the tick's branch, so a loop that jumps back only when a tick is due is never polled (`supportcoderiscv.py:748`) | `riscv_run` with `Options <- MCOptionsTick` | `CtrlCStops` |
| Shifts of a machine word by its width or more, which the boxed operation defines and C does not (`bitvector.py:203`) | `optimize` with `LongShifts = TRUE` | `SameMeaning` |
| A loop that keeps the previous value of a variable in another one fails the assertion of `remove_phis` (`emitfunction.py:374`) | `compile` with `Models <- MCKeepsLastModels` | `AssertionsHold` |
| A loop that starts where two paths meet fails an assertion of `SSABuilder` (`ir.py:151`, `:246`) | `compile` with `Models <- MCMeetsBeforeModels` | `AssertionsHold` |

The Sail compiler may never lay out a function in the last two ways: the code
asserts that it does not.

Some are part of what the runs check, as the exceptions their properties name.
A loop compiled before a repetition keeps blocks of the last one, because
`_get_block` is elidable and `__init__` replaces the dictionary (`mem.py:238`):
`Misled`.  Narrowing by a condition uses ranges of its operands at the branch;
with two conditions computed before either is tested, the range can be empty
(`absinterp.py:532`), as it is for a conversion of a number known not to fit
(`absinterp.py:445`), code that always raises but is not translated:
`FailuresExplained`.  The range of a number at the end of its block includes the
effect of a conversion that comes later in the block (`absinterp.py:598`).  The
constant that is put in its place then fits, and a function that should raise
returns: `MustRaise`.  Functions that are inlined everywhere are not specialized
(`ir.py:1421`), and some are emitted nevertheless, as are small methods, or a
variant that is renamed while it stays inlinable under its old name
(`specialize.py:154`); they may call a name that is gone: `Inlined`.  With
`Inlined == {}`, `CallsResolved` fails for `PlainPrograms`, `MethodPrograms` and
`RenamedPrograms`.  When functions call each other,
inlining brings a call of its own variant into a function, where `specialize_call`
leaves it alone even when the variant is renamed (`specialize.py:62`):
`IsOwnVariant`, without which `CallsResolved` fails for `MutualPrograms`.

What `optimize` returns says nothing of the calls it redirected (`ir.py:1423`).  A
variant that comes to return a machine integer by that alone is not renamed and its
callers are not told, so that in the end it returns less than it could; the programs
of the run have such variants, and `FixpointReached` asks no more of a call than
what the variants do return.

Met while reading, and stated by no property: when the sum of two
numbers of any size is made first, `_add_sub_opt_reduce_additions` leaves `opname`
unbound (`ir.py:3089`), which the literal `MAXINT` in a comparison can bring about,
and so can a sum of four terms or more (those of `optimize` have three at most);
a second iteration of the RISC-V program starts with `htif_done` still set when the
guest ended the first, and executes nothing, because the model is initialised after
it and not before (`supportcoderiscv.py:577`); small functions whose variants call the
function are inlined again and again up to the limit of sweeps; with
`--print-kips`, a guest that waits with `wfi` at a step number where a figure is
due keeps the poll for Ctrl-C away; the speed figures come every 2^32
instructions, although the arithmetic and the assertion are for 2^20; a
conditional jump with equal targets would be a `KeyError` in
`_setup_variable_map` (`ir.py:247`); `remove_if_phi_constant` (`ir.py:1645`) does
not give the phis of its new target a value for the predecessor, which only
matters for targets that have any.

## Not modelled, and why

* Parser, type inference, name mangling, ELF and device tree: text and bytes in,
  text and bytes out, no state between calls.
* The generated models (`outriscv.py` and others) and the text of the code: output
  of the compiler; what it decides about the meaning of the code is in
  `CodeEmission`.
* SoftFloat: a vendored C library; the bindings are calls.  Reals: fractions on
  immutable values.
* `close` of a memory and its `mmap` variant: no caller uses the variant.
* Reservation of `lr`/`sc`: a field that is set, cleared and compared; the
  guest's code that calls it is generated.
* Address range hints (`promote_addr_region`): they only choose guards.
* Tuples, bit vector widths, constants and Bools as specialization keys; the
  splitting of calls by constant arguments; which graphs are emitted in the end
  (`extract_needed_extra_graphs`), so that `CallsResolved` speaks of emitted graphs and others.
* Integers: powers and conversions to and from strings; packing of vectors.
* Optimizer: folding of phis is modelled on graphs only, with machine integers;
  casts of union variants, reads of the platform's memory, and operations of
  earlier blocks that are used again, are left out.
* Passes over unions, enums and allocations, and ranges as a pass of `compile`:
  the graphs there have numbers and Booleans only.
* Splitting of functions of more than 150 blocks, and `graphalgorithms.py`, which
  computes dominators: `Graph.check`, which uses them, is modelled with sets of
  dominators.
* The ARM run loop, beyond the reset of the memory.

## Plan

What is left, in order:

1. `ArmRun`: repetitions, cycle limit, Ctrl-C, termination and exit status,
   composed with `BlockMemory`.
2. `GraphAlgorithms`: both computations of dominators against their definition,
   and `split_graph` as one more pass of `CompileRun`.
3. Bools and constants as keys in `Specialization`, with
   `split_for_arg_constness`; the recomputation of conversions in
   `RangeAnalysis`.
4. Unions, enums and allocations in `SsaGraphs`, and the passes over them.
5. Theorems: that a pass of the local optimizer keeps what an expression means,
   by induction on its depth, once expressions are functions on positions instead
   of trees that recursive operators go through.
