# A TLA+ verification of the MQSS passes suite

The repository is a collection of MLIR passes over CUDA-Q's *Quake* dialect: quantum kernels
go in as lists of gates, and each pass rewrites small patterns of gates (cancel two equal gates,
commute two gates, replace a gate by an equivalent sequence), or converts from and to other
formats.  This directory models the rewriting core (what every rewriting pass does with every
operation of a kernel, how MLIR's walk and the rewriting interleave, and how a pass is run over
the kernels of a module by several threads), the QASM 3 front end, which fills a kernel with
the gates of a program, the mapping to a device with QMAP and back, the two code generators (TikZ diagrams,
matrix products) and the dependency graph of a kernel.  TLC checks small instances; TLAPS proves, for circuits,
programs, modules, graphs and devices of every size, that the rewriting of nineteen passes keeps what a kernel does (of all 24 where nothing stands between the gates of a pattern), and the invariants of
the walk, of the walk by several threads, of the front end, of the graph, of the mapping to a device, of the conversion to matrix products and of the diagrams.

## Inventory

| Component | Source | State | Operations and interactions | What makes it correct |
|---|---|---|---|---|
| Support library | `lib/Support/CodeGen/Quake/QuakeOperations.cpp` | none; reads the block | neighbour lookup on a qubit index, extraction of qubit indices and angles, counting of qubits and bits | finds the gate that is next on that wire; returns the value the operand has |
| Rewrite templates | `include/Support/Transforms/*.hpp` | none; rewrites the block | `patternCancellation`, `commuteOperation`, `patternSwitch`; call the lookup, then create and erase | a rewrite keeps what the circuit does |
| Transformation passes | `lib/Passes/Transforms/*.cpp` | none | one callback per operation of the walk | the whole run keeps what the circuit does; nothing but gates is touched; the run ends |
| Decomposition passes | `lib/Passes/Decompositions/*.cpp` | none | as above | as above, and every gate to be replaced is replaced, exactly once |
| Base class | `include/Passes/BaseMQSSPass.hpp` | the list of kernels | collects the kernels of a module, walks them with MLIR's `parallelForEach` | each kernel once, nothing else, all or nothing |
| QASM 3 front end | `lib/Interfaces/QASMToQuake.cpp`, `GatesMap.cpp`, `lib/Passes/CodeGen/QASM3ToQuake.cpp` | register map, measurement map, static gate table, shared input stream | statements in, operations before the `return` out | same circuit as the QASM program; gives up on nothing the table has; every measurement comes out |
| QMAP pass | `lib/Passes/Transforms/QuakeQMap.cpp` | the circuit given to and got from the external mapper, the map from qubits to places, the function being rebuilt | loads every gate, maps, clears the block, rebuilds gate by gate | the operations it covers come out on the qubits they were on, on each qubit in order, within the device |
| TikZ generator | `lib/Passes/CodeGen/QuakeToTikz.cpp` | one row of cells per qubit, an output stream the kernels of a module share | one cell per row and operation, then the rows one by one into the stream | rows equally long, links that meet, kernels not mixed |
| LinAlg generator | `lib/Passes/CodeGen/QuakeToLinAlg.cpp`, `lib/Interfaces/InlineGatesToArithLinAlg.cpp` | functions inserted so far, found by name; the state vector; the kernels to erase | one matrix and one multiplication per gate, erasure at the end | the product has the gates in order; one name, one matrix; nothing erased before all is converted |
| Quake DAG | `lib/Support/DAG/QuakeDAG.cpp` | a boost graph, a map from names to vertices, the last vertex on each qubit | a vertex per qubit and gate, one for the measurements, edges along the qubits | edges are the dependences of the block, and with several registers lose none; no cycle |
| Optimization levels | `lib/Optimizer/OptimizationLevels.cpp` | a pass manager | O1 to O3 | what the passes do |
| Examples, tools, tests, scripts | `lib/Passes/Examples`, `tools`, `tests`, `docs` | none | | |

The hard behaviours: the walk holds an iterator while the callback erases and inserts; a rewrite
looks at one wire only while the gates it moves lie on two; operations that are no gates are
invisible to the lookup; qubits are told apart by an index without its register; null and dangling
operations; kernels are rewritten, and drawn into one stream, by several threads; functions and vertices are looked up
by names that do not tell everything apart; a mapped circuit comes back with its qubits moved.  Nothing is persisted and no messages are
exchanged, so crash recovery and delivery are no concern here.  `PROJECT.json` lists every hazard at
its line, with the properties that cover it.

## Modules

| Module | Models | Correspondence |
|---|---|---|
| `QuakeOps` | the operations of a block, and the support library's lookups | `getPreviousOperationOnTarget`, `extractIndexFromQuakeExtractRefOp`, `extractDoubleArgumentValue`, ... under their own names |
| `RewritePatterns` | one call of each of the 24 callbacks | one operator per template and per pass; `Callback(p, blk, cur)` is the table; `Rewritten` carries a rewrite out |
| `KernelPass` | `kernel.walk(callback)` over one kernel | `Visit` is one call of the callback, `VisitFuncOp` the last call, on the function |
| `ParallelPass` | `BaseMQSSPass::runOnOperation` over a module | `Collect` is `getQuakeKernels` with the failure exit; `Claim`, `Visit`, `VisitFuncOp`, `Join` are `parallelForEach` |
| `GateTable` | the gate table of the QASM front end, and the table of implicit controls | one operator per entry that writes a gate out as a sequence, tables for those that create one operation; `AssertsHold` is what the entries assert |
| `QasmToQuake` | the pass `convert-qasm3-to-quake` on one function | `Allocate` is `runOnOperation` up to the registers, `insertGate` and `SkipStatement` one turn of its loop, `MeasureAll` and `parseAndInsertMeasurements` its two ends |
| `QasmPrograms` | the programs the parser returns: statements, and the arities of the standard library's gates | external; as `QASMToQuake.cpp` uses them |
| `QasmMeaning` | what the gates of the QASM standard library and of Quake do, as matrices | no code; a reference to hold the table against |
| `Kernels` | a function with its allocations, and the counts of qubits and classical bits | `getNumberOfQubits`, `getNumberOfClassicalBits` (`CountOperand` is one turn of its loop), `getParametersValues` |
| `QuakeQMap` | the pass `quake-qmap` on one function | `Begin` and `LoadGate` fill QMAP's circuit, `PlaceQubits` and `MapGate` stand for the mapper (which may map any gate that no gate left before it shares a qubit with), `Clear` empties the block, `BuildGate` rebuilds it (`convertedBack`), `Return` adds the end |
| `QuakeToTikz` | the pass `quake-to-tikz` over a module | `Take` is `parallelForEach` and the test of the name, `dumpQuakeOperationToTikz` one call of the walk's callback (`GateCells`, `MeterCells`), `Write` one row into the stream |
| `QuakeToLinAlg` | the pass `quake-to-linalg` over a module | `BeginKernel`, `ConvertGate` (`FunctionName`, `inlineFunction`, `insertMulN`), `EndKernel`, and `Erase`, the loop at the end |
| `QuakeDAG` | `QuakeDAG::parse_mlir`, called on one graph any number of times | `Begin` is its loop over the qubits, `InsertGate` (`Connect`) and `SkipOperation` the walk, `InsertMeasurement` the end |
| `KernelMeaning` | what a pass over one kernel keeps: `MeaningPreserved`, `AdjacentRewritesSound`, and `Rewriting`, the instance of `EquivalentRewriting` | no code |
| `EquivalentRewriting` | abstract: a circuit is replaced by equivalent circuits, until done | no code; what a pass promises |
| `CircuitMeaning` | what a circuit does (a fold over its operations); a reference to hold rewrites against | no code |
| `MCKernelPass`, `MCParallelPass`, `MCQasmToQuake`, `MCQuakeQMap`, `MCQuakeToTikz`, `MCQuakeToLinAlg`, `MCQuakeDAG` | instances for TLC, the properties that need a reference or an `INSTANCE` | |
| `PassLemmas` | lemmas about data (least elements of sets of naturals, counting the elements below a number, functions defined step by step, sums and folds, selections from sequences, sequences of sequences and their concatenation), and about the rewriting: places, lookups, the rewrite of each callback, and a walk that stays on its input | |
| `KernelPassProofs`, `ParallelPassProofs`, `QasmToQuakeProofs`, `QuakeQMapProofs`, `QuakeToLinAlgProofs`, `QuakeToTikzProofs`, `QuakeDAGProofs` | the proofs about `KernelPass`, `ParallelPass`, `QasmToQuake`, `QuakeQMap`, `QuakeToLinAlg`, `QuakeToTikz` and `QuakeDAG` | |

`RewritePatterns` extends `QuakeOps`; `KernelPass` and `ParallelPass` extend `RewritePatterns`; `KernelMeaning` puts `KernelPass` and `CircuitMeaning` together.
`ParallelPass` instantiates `KernelPass` once per function of the module, so that what is shown
of a walk carries over to every kernel of a module.  `GateTable` extends `QuakeOps` too, and
`QasmToQuake` extends `GateTable` and `QasmPrograms`: what the front end inserts are the operations the passes rewrite.
`Kernels` extends `QuakeOps`, and `QuakeQMap`, `QuakeToTikz`, `QuakeToLinAlg` and `QuakeDAG` extend `Kernels`.

**The block.**  MLIR's block is a linked list.  All passes insert only directly behind the operation
they were called with, so a block is an array: operation *i* of the input sits at place `6 * i` and
the five places behind it receive what a pass inserts there (five is the longest insertion, that of
`ReverseCx`).  `NoOp` is an empty or erased place, and the linked list is the array without them.
Operations that only define operands (`quake.alloca`, `quake.extract_ref`, `arith.constant`) are
folded into the operands: a wire is `[reg, idx]`, an angle `[constant, ticks]`.

**Angles.**  A tick is a sixteenth of a turn.  The library reads constants through a cast to
`float`; for multiples of `2*pi` the residue of the cast decides what the passes do, and one tick
stands for it (`AsFloat`).

**Undefined behaviour.**  A method called on a null operation ends the process.  A read of an
operation that was erased (`ReductionPattern` goes on trying patterns on it) either finds nothing or
crashes; `Outcomes` has both.

**Debug and release builds.**  The front end leans on `assert`, and `build.sh` builds for release unless told
otherwise, so `QasmToQuake` has both builds: where an assertion fails, a debug build aborts and a release build goes
on with what the code does then (an unknown gate inserts nothing, `iswap` its unfinished decomposition).  A
register that was not allocated throws in both.  The operations are then verified as MLIR does behind every
pass: gates have their number of targets, indices lie in their registers (`Verified`).  The `return`
of a function without a body is a pointer that was never set: `Allocate` lets it pass or abort.

**Mutants.**  Some operators are preceded by a variant of themselves marked `Mutant:`, the operator
with a plausible mistake in it.  Nothing refers to them; they record which property notices
which mistake (see `mutants` in `PROJECT.json`).

## Runs

The longer runs need one to two minutes each on two cores.

| Run | Instance | Shows |
|---|---|---|
| `walk` (`Walk.cfg`) | all 24 passes; all circuits of up to 3 of 16 operations on 2 qubits, `mz` and `reset` among them; 424,409 states | `TypeOK`; `IteratorValid`: the saved iterator is never erased; `RestUntouched`: the walk meets the input and never its own insertions; `NonGatesUntouched`: only gates are erased, moved or created; `AdjacentRewritesSound`: a rewrite with nothing between its gates keeps the meaning; `OneRunSuffices`: ten passes leave nothing to do |
| `implements` (`Implements.cfg`) | 19 passes; all unitary circuits of up to 3 of 15 gates on 2 qubits; 272,938 states | `ImplementsRewriting`: the pass implements `EquivalentRewriting`, its liveness included, under `circuit <- Circuit(blk)`, `finished <- (status # "running")` |
| `one_gate` (`OneGate.cfg`) | `CxToHCzH`, `CzToHCxH`, `ReverseCx`; 3 qubits; doubly controlled and non-Clifford gates, controlled rotations, `swap`, `mz`, `reset`; 35,106 states | `MeaningPreserved` at every point of the walk; `Termination` |
| `parallel` (`Parallel.cfg`) | 4 passes, 2 threads, modules of up to 3 functions; 68,418 states | `OneWalkPerKernel`; `WholeModuleOrNothing`; `KernelsWalkedAlone`: each function takes exactly steps of a `KernelPass`; `Returns` |
| `qasm` (`Qasm.cfg`) | all 44 gates of the standard library on every choice of operands of 3 qubits in 2 registers, pairs of gates with measurements, programs with modifiers, without sizes, with undeclared registers; both builds, kernels and other functions; 33,560 states | `GatesFaithful`: after every gate call what is inserted so far equals the calls so far, up to a global phase; `AbortsOnUnsupported`: a kernel is given up only at a gate the table does not have; `ResultsOfBits`: each assigned bit has its `mz`, in the order of the bits, where no two have one number; `TypeOK` |
| `dag` (`Dag.cfg`) | up to 2 kernels of up to 3 operations, on 3 qubits in one or two registers, put into one graph; 79,366 states | `EdgesAreDependences`: the edges of a call are the dependences of a kernel on one register, no more and no less, and a kernel on two has a path for each of its dependences; `OneVertexPerGate`; `Acyclic`, after a second kernel too; `LoopsOnlyAtSharedIndices` |
| `linalg` (`LinAlg.cfg`) | modules of up to 3 functions, kernels on 3, 4 and 13 qubits; 26,853 states | `ProductOfGates`: the returned vector is the initial one times the gates in order; `OneNameOneMatrix`: two calls of one function are for gates that do the same; `CallsMatchDeclarations`; `ErasedAtTheEnd`: no kernel goes before all are converted; `Replaced`: all go |
| `tikz` (`Tikz.cfg`) | modules of 1 or 2 functions on 3 qubits, up to 2 operations, 1 or 2 threads; 22,793 states | `ColumnsAlign`, `LinksMeet`, `DiagramShowsKernel`: rows, links and columns are those of the kernel, whatever was drawn before; `OneDiagramAfterTheOther` with one thread or one kernel; `EveryKernelOnce` with any number |
| `qmap` (`QMap.cfg`) | kernels on 2 or 3 qubits, up to 3 operations, a line of 3 qubits, every layout, up to 1 swap before a gate while one on two qubits is left, every order of gates on different qubits, the whole register measured at the end of kernels of at most 2 operations, both builds; 307,569 states | `MappedKeepsKernel`: a kernel of operations the pass covers has the same ones, on each qubit in the same order, when the layout and the swaps are undone; `FitsDevice`: what is built acts on coupled pairs of the device; `MeasurementsHaveBits`: qubits measured one by one have different bits; `CoveredKernelsReturn` |
| `linalg_adjoint` | a gate and its adjoint | violated: `t` and `t<adj>` on a qubit call one function, so are one matrix |
| `cx_across_control` | `CancellationDoubleCx` on `cx`, `h` | violated: `cx q0 q1; h q0; cx q0 q1` becomes `h q0` |
| `switch_crash` | `SwitchXH` on `x`, `h` | violated: `h; h` dereferences null |

The three violated runs are disagreements of the code with its own documentation, comments or tests;
`findings` in `PROJECT.json` quotes both sides.  Relatives of them follow from the
same models and are left out of the runs:

* `ReductionPattern` makes `mz` of `h; mz; h`, since the lookup steps over what is no gate (`README.md:184` calls that
  impossible), and nothing of `x q[0]; x r[0]`, since it compares indices without registers.
* `CommuteCxX` and `CommuteCxRx` move a `cx` over a gate on its control and `CommuteCxZ` over a gate on its target.
* `HXHToZ` and `HZHToX` dereference null on `x; x; h`; `ReductionPattern` reads the operation it erased.
* `NormalizeArgAngle` makes of `rx(argument)` a rotation by the constant `2*pi - 1`, and changes the sign of a
  controlled rotation by `5*pi/2`; `CancellationNullRotation` leaves `rx(2*pi)` in the circuit, since the cast
  to `float` keeps it from being a multiple of the double `2*pi`.
* A controlled `quake.apply` in a function that is no kernel fails the pass for the whole module, though
  the comment at `BaseMQSSPass.hpp:64` says such functions are skipped.
* One run of `CancellationDoubleCx` leaves two equal `cx` behind when what stood between them is cancelled
  later: `cx q0 q1; cx q1 q2; cx q0 q1; cx q1 q2` loses the second and the fourth gate, and the callback does not come back to the first.
* The front end loses measurements of a program with two classical registers (`meas[0] = measure q[0]; meas0[0] = measure q[1]`).
* `QuakeQMap` drops `swap`, gates with two controls and controlled `s`, `t` and `h`, reads `s<adj>` as `s`, and, if the
  device is larger than the kernel, allocates a register too small for the places of the qubits.
* `QuakeToTikz` pushes no cell for the control of a swap, and mixes the rows of the kernels that
  two threads write.
* `QuakeToLinAlg` leaves the callers of a kernel without it.
* The dependency graph of a kernel with two registers orders gates that have no qubit in common: `h q[0]; x q[1], r[0]`
  gets an edge from the `h` to the `x`, since the history has one entry for `q[0]` and `r[0]`.

That is why five passes are not in `implements`, why its circuits have no controlled rotations, no
measurements and no second register, and what `Covered`, `IsDrawable` and the premises of `FitsDevice` and `OneDiagramAfterTheOther` leave out.

**Which circuits.**  The five passes left out of `implements` are unsound on some unitary
circuits; the other nineteen are sound on all of them, crashes apart.  Soundness with measurements
between the gates of a pattern is not to be had (`h; mz; h` above), so `walk` checks it where
nothing stands between them, and `one_gate` for the passes that look at one gate only.

**Bounds.**  `MaxOps = 3`: a pattern has at most three gates, and a gate that comes between or before
the gates of a two-gate pattern makes three.  A rewrite looks back from the current operation only, so a
longer circuit adds gates the callback steps over.  Two qubits are enough for a `cx` in
both directions and gates on either wire; `one_gate` has a third, for gates that touch one wire of
a replaced gate.  Two threads and three functions give two kernels in parallel with a third still to
be claimed.

In `qasm` the angles are multiples of a quarter turn, and of all signs among the parameters of a gate, which tells its
parameters apart; a decomposition that is right for those and wrong for others would have to use an angle in
another way than scaled by a constant, and none does.  Three qubits in two registers are as many as any gate has operands, in
every order, and one register more than a lookup by index could mix up.

In `qmap` a line of three qubits has a pair that is not coupled and one swap that brings it together, and every
layout of the kernel's qubits; a second swap of the same gate goes through the same loop.  `FitsDevice` and
`MappedKeepsKernel` rest on the mapper only as far as `MapGate` says: a layout of distinct places, swaps of coupled pairs, and gates on coupled
pairs, each gate and each measurement of the circuit once, those on one qubit in their order and the others in any.  The recorded results in
`tests/golden-cases/QuakeQMapPass-02.qke` have gates and measurements on different qubits in another order than the kernel, as this allows; whether
a barrier holds gates back is left open, since the loop that rebuilds drops it.  Settings under which QMAP changes the circuit itself are not covered:
the tests switch its optimizations off, and with `addMeasurementsToMappedCircuit`, which they switch on, they map kernels that measure every qubit once at the end.  In `tikz` three rows let a link pass over a row, two operations let one column follow another, and
a second kernel takes the second thread.  In `dag` a second kernel with the same gates makes every vertex of the
first one meet its namesake; the vertex of the measurement is met whatever the kernels.  Three gates on two registers of equal indices
put a gate of the one between two of the other.  In `linalg` the sizes 3 and 4 tell the
number of qubits in a name apart, and 13 qubits have indices of two digits.

**Equivalence of circuits.**  `CircuitMeaning` carries the Clifford gates by the images of the Pauli
operators and keeps everything else (non-Clifford rotations, measurements, resets) as events, which may
trade places when all the Pauli operators they depend on commute.  Equal meanings are equal circuits up to
a global phase; the converse does not hold in general, so it errs on the side of a false alarm.  `QasmMeaning` has the matrices
themselves, over the integers with `exp(i*pi/4)` and with the factors `1/sqrt(2)` counted, so its comparison is exact.

**Fairness.**  `KernelPass` has `WF_vars(Next)`: the thread of a pass runs straight through, nothing in it
blocks.  `ParallelPass` has `WF_vars(Next)` as well, which asks only that some thread that can go
on does; the threads of the pool never wait for one another, and the wait of `parallelForEach` is `Join`.
`QasmToQuake` has `WF_vars(Next)`, being one loop of one thread; its properties are invariants and do not rest
on it.  `QuakeToLinAlg` and `QuakeQMap` are one thread each and have `WF_vars(Next)` for `Replaced` and
`CoveredKernelsReturn`.  `QuakeToTikz` and `QuakeDAG` have safety properties only and state no fairness.  Deadlock
checking is off because every run ends.

## Proofs

**`KernelPassProofs`**, for every set of wires, every `MaxOps`, every set of input circuits and all
24 passes:

* `TypeCorrect` (`TypeOK`), `IteratorStaysValid` (`IteratorValid`), `WalkMeetsTheInput`
  (`RestUntouched`) and `MeasurementsStay` (`NonGatesUntouched`), from the assumptions
  `QuakeOpsAssumption` (there is room for an operation; the index of a wire is an integer) and
  `KernelPassAssumption` (inputs are circuits that fit; passes are passes).

The inductive invariant `IInv` is the conjunction of the four.  None but the type invariant is
inductive alone: that the iterator stays valid needs that what is ahead is the input's (so that the following
operation is six places on and not among the five that are written), and that measurements stay needs that the inserted
places were empty.  The argument is in `PassLemmas` and has three parts.  First, facts about places: the first and the last of
a set of places exist and are what their names say (well-foundedness of the naturals), so the
lookups return places before, and the next node places behind, the current one.  Second, every
callback's rewrite is well formed (`CallbackWellFormed`, one lemma per template and pass): it
erases gates at or before the current place only and inserts at most five gates.  Third, a step with a
well-formed rewrite keeps the walk on its input (`RewrittenMeetsInput`); `MeetsInput(c, b, n)` says of a circuit, a block
and an iterator what the invariant says of the variables, so the lemma serves every walk.

`OneRunIsEnough` (`OneRunSuffices`) takes three gates on two wires to circuits of every length.  The invariant
`NothingLeftBehind` says it of the part of the block the walk has passed: called there, on the block as it is now, the callback
would do nothing.  A rewrite could undo that in two ways.  It could take away what stood between the gates of a pattern: the passes that look back
match gates on one wire that follow each other, and erase *everything* on that wire from the first of them to the current one
(`SweepsWire`), so that every lookup from behind finds what it found before (`LookupsKept`, `TemplatesKept`).  And it could insert
something to be replaced: what these passes insert is not of the kind they look for (`LooksFinish`, `LooksBackFinishes`).
The iterator adds the rest: it skips no operation (`NothingSkipped`).  `CancellationDoubleCx` looks along one wire and erases
gates on two, and its second run has work to do (above), at a size the run does not reach; the attempt to prove it found the circuit.

`PassesKeepMeaning` (`MeaningPreserved`) and `PassesRewriteEquivalently` (every step is a step of `EquivalentRewriting`, instantiated in `KernelMeaning` as
`Rewriting`, or a stutter) carry the meaning of circuits to every length.  Their premise `Covered` says when:

* The operations are as the dialect has them (`ProperOps`): a target, two of a `swap`, no wire twice, one angle of a rotation.
* The five `LocalPasses` (the decompositions of `cx` and `cz`, `CancellationNullRotation`, `NormalizeArgAngle`) keep the meaning of every kernel, with measurements,
  arguments and registers of any kind, except that `NormalizeArgAngle` needs angles that one turn less does not change (`AngleIsKept`); a controlled
  rotation by `5*pi/2` is not one, and neither is an argument.
* The fourteen `OneWirePasses` look back along a wire for gates, and the gates they erase have this wire only.  They need wires of different indices
  (`OneRegister`) and nothing but gates (`GatesOnly`); what happens without is in the list above (`mz` of `h; mz; h`, nothing of `x q[0]; x r[0]`).

The premise holds of every pass in every state of `implements`, so the run checks what the theorem says.
The argument has four layers.  *Pauli operators.*  `Images` says that the images of the Pauli operators of a wire are Pauli operators, anticommute, and commute
with those of every other wire; every operation keeps that (`ApplyIsMeaning`), by counting in sets modulo two.  *Operations.*  From it follow the identities the
passes rest on (`h; x; h` is `z`, `h h; cx; h h` is `cx` reversed, `s<adj>; z` is `s`, a full turn is nothing, ...), and that a gate trades places
with every operation that is on none of its wires (`Trades`): a Clifford gate because it changes the images of its wires only (`ConfinedTrades`), an event, such as
the rotation `CommuteRxCx` moves, because the images of its wires stay and the Pauli operators of two events on different wires commute (`EventTrades`).  The events then come in
another order, so the theorem is about meanings that are the `Same`: equal images, and events in the same order but for independent ones (`SameOrder`, preserved by every further operation, `SameApply`).  *Blocks.*  A meaning is a function `f` over the places (`Runs`), and what a circuit means is what `f` ends in.  A gate with nothing
behind it on its wires may as well stand last (`Gather`); so the pattern of a pass can be gathered in front of the current operation, replaced there, and
what stood between stays where it is.  *The walk.*  `MeaningKept` is the invariant: the block consists of proper operations and means what the input means.
It rests on `IInv`: the current operation is at a home place with nothing behind it, so that what is inserted is in the order of its
places.  A null dereference leaves the block as it is.

`AdjacentRewritesKeepMeaning` (`AdjacentRewritesSound`) is about all 24 passes, the five `TwoWirePasses` that are not sound among them, and about
blocks with measurements, resets and everything else: a visit with nothing between the operations it changes (`Parted`) keeps the meaning.  The pattern is gathered
with `Gather` again, on all the wires of its gates where one of them has two (`ControlledNeighbour`); two equal gates are then nothing (`PauliTwice`, `HTwice`, `ControlledTwice`), and a `cx`
goes through an `x` or `rx` on its target and a `z` on its control (`ThroughCx`, `RotationThroughCx`).  `ProperlyUnderstood` is the invariant: it adds to `IInv` that the block consists of
proper operations, which every callback keeps whatever stands in its way (`BlockStaysProper`).  The premise `Understood` holds in every state of `walk`.  It asks for proper operations and wires of different
indices (as above), for angles that one turn less does not change (`NormalizeArgAngle`), and for no controlled `h` (`ReductionPattern`): two of them do cancel, but to
the reference they are two events.

**`ParallelPassProofs`**, for every number of functions and threads as well:

* `TypeCorrect` (`TypeOK`), `OneWalk` (`OneWalkPerKernel`), `AllOrNothing` (`WholeModuleOrNothing`) and
  `WalksMeetTheInput`: in every function the walk meets the body of that function and nothing else, with `ParallelPassAssumption` (modules are
  sequences of functions; there is a thread) for `KernelPassAssumption`.

`OneWalkPerKernel` is not inductive: a thread could claim what another one holds, had a kernel two entries in the list or were the
counter behind.  `IInv` adds that the list has each kernel once (`KernelsListed`, from `InOrderEnumerates`), that
what a thread holds is among the entries handed out, that what has not been handed out is as given, that what has been handed out and is held by nobody is
done, and that nobody holds anything after the join.  `WholeModuleOrNothing` follows from the last three.

`KernelsAreWalkedAlone` (`KernelsWalkedAlone`) composes the two modules: what happens to a function is, step by step, what `KernelPass` does to its body, or nothing.
The definitions of an instance are of their own for the prover, so `CallbackOfKernel` and `BlockOfKernel` first show that the callbacks and lookups of every
`Kernel(f)` are those of the module.  The refinement needs two facts more than `IInv`: a walk nobody has begun is at its start (`WalksBegin`; `Claim` writes the start into it
once more), and none has crashed while threads are at work (`NoneCrashed`; a thread does not look at the status).

**`QuakeDAGProofs`**, for every set of kernels and every number of calls on one graph: `TypeCorrect` (`TypeOK`)
and `GraphIsAcyclic` (`Acyclic`).  A cycle could come from two calls that put edges between vertices of equal names in different
orders.  The invariant rules it out by ranks: qubits come first, gates by their number, the measurement last, and every edge goes
up in rank or is a loop, whatever call it is from; the history of a qubit only names vertices of lower rank than the next gate.

Under the same assumptions the module proves `GatesHaveVertices` (`OneVertexPerGate`), `GraphIsDependences`
(`EdgesAreDependences`) and `LoopsAreSharedIndices` (`LoopsOnlyAtSharedIndices`).  The invariant `EInv` adds to the one above that the number
in a gate's name is the count of gates before it (so that no two gates of a call have one name, and a new gate overwrites
no vertex of this call), and `HistoryIsLast`: the history of a qubit is the vertex of the last gate on it, or of the qubit where no gate was on it
yet.  The edges of one gate are made by a fold over its operands that reads and writes the history; the proof goes
through it operand by operand, and a loop is what an earlier operand of the same index leaves in the history.
The history knows indices, so the invariant says that the edges follow them (`EdgesFollowIndices`).  From there to qubits: in one register the gates on
a qubit are those on its index (`IndexGivesQubit`), and the edges are the dependences; of several registers the gates on a qubit are some of those on its index,
and the edges along the index lead from each to the next (`IndexPath`).

**`QuakeToLinAlgProofs`**, for every set of modules in which all gates of one name have equally many parameters
(`QuakeToLinAlgAssumption`; Quake's dialect fixes the number per operation): `TypeCorrect` (`TypeOK`), `ProductIsGates` (`ProductOfGates`),
`CallsAreDeclared` (`CallsMatchDeclarations`) and `KernelsGoTogether` (`ErasedAtTheEnd`).  The invariant `IInv` says that the multiplications of a
kernel form a chain (the first one takes the initial vector, each other one the result of the one before), that they are those of the gates met, one each,
that every declaration was made for a gate with its name, number of qubits and number of parameters, and that the kernels noted for erasure are exactly those that
have been converted.  The product that is returned is defined by recursion along the chain; `ProductOfChain`
gives its value for every length, by the absence of a least counterexample.

`SharedMatricesAreRight` (`OneNameOneMatrix`) has a premise on the module, `NamesTellGates`: at most ten qubits, told apart by their indices, and no gate
beside an adjoint of its name.  Outside it the property is false: of `t` and `t<adj>` (the run `linalg_adjoint`), of equal indices in two registers, and of
indices of two digits, which run together in a name (`swap` of 1 and 12, and of 11 and 2).  Inside it, the name of a function is read backwards: indices of
one digit are their concatenation (`ConcatenatedDigits`), which with the numbers of controls and targets gives the operands.
`NamedAfterGates` adds to `IInv` that a multiplication calls the function with the name of its gate.

**`QasmToQuakeProofs`**, for every set of programs in which the gates of the standard library have their parameters and at least their qubits
(`QasmToQuakeAssumption`; the parser's type check sees to that), and both builds:

* `TypeCorrect` (`TypeOK`): every entry of the table inserts Quake operations on operands of the call (`EntryInserts`, entry by entry for those that
  write a sequence).
* `GivesUpOnUnsupported` (`AbortsOnUnsupported`): three tables have to agree, which nothing in the code compares: the numbers of implicit controls by name,
  the numbers of targets, controls and parameters the entries assert, and those of the standard library (`ControlsAgree`, `EntryArities`).
* `ResultsInOrder` (`ResultsOfBits`): the code collects the measurements in a `std::map`; that a finite set of bits has one
  order and that the operations follow it are `OrderExists` and `MeasuredQubitsAre`.  What stands before must be no measurement, so
  the invariant `IInv` has `MeasurementsBehind` next to `TypeOK` and `AbortsOnUnsupported`.

**`QuakeToTikzProofs`**, for every set of modules and every number of threads: `TypeCorrect` (`TypeOK`), `ColumnsStayAligned`
(`ColumnsAlign`), `LinksLeadToTheirEnds` (`LinksMeet`), `ColumnsShowOperations` (`DiagramShowsKernel`), `DiagramsFollow`
(`OneDiagramAfterTheOther`) and `KernelsAreDrawnOnce` (`EveryKernelOnce`).  The assumptions (`QuakeToTikzAssumption`,
`OneRegisterAssumption`) are what Quake gives: operands are allocated qubits, gates have targets and a swap two, the operands of one
operation are different, which are different indices where there is one register.  Links and columns are not inductive: what is in
a column depends on how many cells each row has had before.  `IInv` therefore says that the rows are equally long and that column
`k` is the one of operation `k` in every row (`ColumnsOfOperations`); `CellsAreTheCell` shows that an operation adds exactly one cell to a row,
and from the cell of each row follow links and columns.  Of the stream `IInv` says that nothing is written before the walk of its function is over
(`Progress`, without which a diagram could change between two of its pieces), that the `n`-th piece of a function in the stream is the
`n`-th of its diagram (`PiecesInOrder`), and, with one thread or one kernel, that the last piece is an end or belongs to the function being written (`LastPiece`).

**`QuakeQMapProofs`**, for every set of functions, every device and both builds, with any layout, any number of swaps and any order of gates on different qubits: `TypesAreKept` (`TypeOK`),
`MeasuredQubitsHaveBits` (`MeasurementsHaveBits`), `MappedFitsDevice` (`FitsDevice`) and `MappingKeepsKernel` (`MappedKeepsKernel`).  The
assumptions are that the coupling is symmetric and joins different qubits of the device, that a function has at least one qubit and no more than the
device (`QuakeQMapAssumption`), and what the dialect asks of operands (`OperandsAssumption`).

* *Bits.*  The count of bits is a fold over the measured operands that a measurement of the whole register enters with a
  value of its own for every qubit.  `Apart` says what holds after each operand, whether a register was measured before, between or behind: the bits given
  are below the count and differ, and an index that has one is of the register or below the count.  The proof follows the fold operand by operand.
* *Device.*  None of the rest is inductive as it stands.  `IInv` adds that the layout and the places are injective
  (`QubitsPlaced`; a swap keeps that) and that every gate of the mapped circuit is on a coupled pair (`MappedIsExecutable`); `BuiltSoFar` says that what has been rebuilt is
  what the mapped gates so far become, in a register of the kernel's size.
* *The kernel is kept.*  `LoadedSoFar`: what has been loaded does what the kernel does up to the operation the walk is at (one operation
  may be loaded as several gates, or none, as a barrier behind a measurement).  `MappedSoFar`: on each qubit, the gates mapped so far, undone from the layout on,
  followed by the ones the mapper has left do what the loaded ones do, *and* the mapped ones leave the qubits at the places where the mapper has them; without
  the second half a swap would break it.  That a gate may be mapped before others is `FreeGateFirst`: on a qubit it acts on nothing comes before it, and on
  any other it does nothing.  The order is told qubit by qubit (`Among`, the operations on one qubit), since it is all the mapper keeps.
  `DoneBy` and `DoesBy` give the operations a loaded gate and an operation of the kernel stand for, so that both sides are a concatenation over a
  sequence (`Joined` in `PassLemmas`) and one step of the pass adds one part to each.  That undoing a swap brings each qubit back rests on the places being injective.

Only model-checked: that the front end's table does what the standard
library says (`GatesFaithful`, a product of matrices over the circuit), the liveness part of `ImplementsRewriting`, termination and the other liveness properties.

## Not modelled, and the plan

Left out for good: the builder's constants and dead operands, printing, the tools' argument
parsing and file I/O, the numbers in the matrices of the LinAlg generator and the affine maps it multiplies with, the mapper inside QMAP, the
attribute for negated controls (no part of the repository creates it), the parser and the
floating-point evaluation of the arguments of QASM gates, nested regions (`cc.if` is one opaque operation), the
wording of the cells of a diagram, and the data race of two threads in one `raw_ostream` below the level of a
row.  `O1` to `O3` put one pass each into a pass manager and are what that pass is; the examples print.

What a next step would take up:

1. Several kernels on the one input stream of the QASM front end, with the threads of the pass manager.
2. Pipelines: sequences of passes as compositions of `KernelPass`.
