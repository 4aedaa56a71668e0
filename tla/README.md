# Simit: TLA+ models of the compiler and the runtime

Simit is a language for computing on sparse systems that are seen both as graphs
and as tensors.  A C++ program builds *sets* (`src/src/graph.h`), compiles a
Simit program to *functions* (`src/src/program.cpp`, `src/src/frontend`,
`src/src/lower`, `src/src/backend`), *binds* sets and tensors to the functions'
arguments and externs, and runs them, on the CPU through LLVM or on a GPU
through CUDA.

The models cover both halves.  The runtime half is where mutable state lives:
the sets, the references into them, the compiled functions that hold addresses
of their buffers, the indices built from them.  The compiler half is a chain of
rewrites, each of which may lose what an earlier one promised: the parser, the
passes and the type checker of the front end, the emitter, the lowering of
tensor algebra to loops, and the generated code, on the CPU and in GPU kernels.

## The system's parts

| Part | State | Operations | What makes it correct |
|---|---|---|---|
| Sets (`graph.h`, `graph.cpp`) | element count, capacity, endpoints array, field buffers | `addField`, `add`, `remove`, field writes, growth | every usable slot is allocated and zero when fresh; edges point at elements; clients see a list of elements |
| Field references (`graph.h`) | cached data pointers, `fieldReferences` | five special members, `getField`, pointer repair on growth | a live reference reads its field's current buffer |
| Function, CPU (`function.cpp`, `llvm_function.cpp`) | bound actuals, extern pointers, harness, tensor indices, `initialized` | `bind`, `init`, `run`, `runSafe` | a run reads what is bound, from memory that is alive and fits |
| Function, GPU (`gpu_function.cpp`) | device handles, dirty bits | `bind`, `init`, `unmapArgs`, `run`, `mapArgs`, `runSafe` | host and device copies behave as one memory |
| Grid sets, boxes (`graph.h`, `graph.cpp`, `grid_ops.h`, `inline.cpp`) | ordered references to points and edges, loop counters | constructor, `getGridPoint`, `getGridEdge`, `createBox`, the emitted loop nest | generator, accessors and generated code number the same way |
| Path indices (`path_indices.cpp`) | bound sets, memo of built indices | `bind`, `buildSegmented` | an index lists exactly the neighbours its path expression describes |
| Parser (`frontend/parser.cpp`) | position, call stack, symbol table | parse functions, look-ahead, error recovery | scopes nest however errors are recovered from; it terminates |
| Front end (`frontend/`) | the program tree, scopes, instances of generic functions, emitted IR | folding, element sources, cloning, checking, emission | what the checker accepts is emitted, with the types it inferred |
| Storage (`storage.cpp`, `environment.cpp`, `path_expression_analysis.cpp`) | storage kind and path expression per tensor, tensor indices | inference, registration | every entry that may be non-zero has a place |
| Lowering, transformations (`lower/`, `inline.cpp`, `flatten.cpp`, `temps.cpp`, ...) | IR trees | rewrites | the rewritten program computes the same tensors |
| Code generation, CPU (`backend/llvm`) | stack variables, buffers, globals | the emitted loads, stores, loops, allocations | runs compute what the source means, also the second time |
| GPU kernels (`backend/gpu`) | kernels, their arguments, device memory, threads | sharding, fusion, launches, atomic additions | the parallel run leaves what the sequential one would |
| Set layouts, reordering, timers, meshes, printers, solvers, generated modules | | | not modelled |

How they interact: the parser's tree goes through the front end to the IR of a
procedure; lowering turns that into loops over arrays whose shape comes from the
path indices; a function's harness holds addresses taken from sets when it is
initialised; a set's growth moves its buffers and repairs only registered field
references; the path index builder reads the endpoints arrays of bound sets and
its result is kept by the function; on the GPU every buffer has a second copy.

The host program is single threaded, so on the CPU what is hard to test is
*sequences*: a call that throws half way, a rebind, a second `init`, a second run
on used memory, a change to a set between two runs, an error recovered from
inside two scopes, one pass undoing what another relied on.  On the GPU the
threads of a kernel really interleave.  `PROJECT.json` lists each hazard at its
line.

`simit_uassert` throws `SimitException` (`error.cpp`), so a failed user
assertion is an ordinary step that leaves whatever had been changed before it.
`simit_iassert` is compiled in only with `SIMIT_ASSERTS`; in the front end a
failed one is recorded (`aborts`), since the checker is there to prevent it.

## Modules

| Module | Models | Extends / instantiates |
|---|---|---|
| `SetSpec` | the abstract list of elements a client sees | |
| `SimitSet` | the buffers of `graph.h`/`graph.cpp` | instantiates `SetSpec` |
| `SimitSetProofs` | theorems about `SimitSet` | `SimitSet` |
| `FieldRefs` | `FieldRefBase` and its registration | |
| `FieldRefsProofs` | theorems about `FieldRefs` | `FieldRefs` |
| `LLVMFunction` | a function's life on the CPU, with the client | |
| `LLVMFunctionProofs` | theorems about `LLVMFunction` | `LLVMFunction` |
| `FunctionSpec` | a function that works in place on the client's memory | |
| `GpuFunction` | host and device copies | instantiates `FunctionSpec` |
| `GpuFunctionProofs` | theorems about `GpuFunction` | `GpuFunction`, `DataLemmas` |
| `PathIndex` | the path index builder and its memo | |
| `GridSet` | grid sets, the emitted grid arithmetic, maps through a grid | |
| `BoxGraph` | the box generator and its accessors | |
| `GraphProofs` | theorems about `BoxGraph`, `GridSet` and `PathIndex` | those three |
| `Parser` | the recursive-descent parser as a pushdown machine | |
| `ParserProofs` | theorems about `Parser` | `Parser`, `DataLemmas` |
| `Fir` | the front end's tree: nodes, copies, queries, rewriting | |
| `TypeChecker` | the checker's environment, types and their comparison, instances of generic functions | `Fir` |
| `TypeRules` | the typing rule of every construct | `TypeChecker` |
| `IREmitter` | what is emitted for every construct | `TypeRules` |
| `FrontendPasses` | constant folding, constant checks, element sources, the intrinsics | `IREmitter` |
| `Frontend` | the driver, cloning, and the order of the passes | `FrontendPasses` |
| `Ir` | the nodes of a procedure, their queries and the builder | |
| `Flatten` | inlined calls, flattening, temporaries | `Ir` |
| `Storage` | path expressions and storage kinds | `Ir` |
| `LowerMaps` | maps to loops | `Storage` |
| `LowerIndex` | index expressions to loops | `LowerMaps` |
| `LowerAccess` | accesses to loads and stores | `LowerIndex`, `Flatten` |
| `Codegen` | what the generated code does | `LowerAccess` |
| `Meaning` | what a procedure means, without storage or loops | `Codegen` |
| `Lowering` | the passes in order, and two runs | `Meaning` |
| `GpuKernels` | kernels made, fused and run by interleaved threads | |
| `GpuKernelsProofs` | theorems about `GpuKernels` | `GpuKernels`, `DataLemmas` |
| `DataLemmas` | induction on the naturals and facts about sequences, for the proofs | |
| `MC*` | instances for TLC | |

Definitions whose comment begins with "Slip:" or "Mutant:" are deliberately
wrong variants of the definition that follows them; nothing uses them except
mutation runs.

### SimitSet and SetSpec

| Model | Code |
|---|---|
| `numElements`, `capacity` | the members of that name |
| `epCap`, `endpoints` | the `endpoints` array: how much of it is allocated, and what it holds |
| `fields`, `dataCap`, `data` | `Set::fields`, and each `FieldData::data` with its allocated length |
| `highWater` | history: slots above it were never used |
| `AddField`, `Add`, `AddThrows`, `Remove`, `SetField` | `addField`, `add(Endpoints...)`, the same leaving through `simit_uassert`, `remove`, `FieldRef::set` |

`add` is one action although it grows two things: `increaseEdgeCapacity` before
the endpoints are checked, `increaseCapacity` after.  `AddThrows` stops between
them, with the endpoints array grown and some endpoints written, which is the
state a caller that catches the exception goes on from.  `data` is a total
function on a bounded range, and what is really allocated is a number next to
it, so that a write outside the allocation is a fact about a step
(`WritesInBounds`) and not an evaluation error.  Memory that was never written
holds `Junk`.

`SetSpec` is a list of elements without buffers or capacities.
`ImplementsSetSpec` is the refinement: `ElemsView` reads the elements off the
buffers.

### FieldRefs

A reference is a place in memory with the two members `fieldData` and `data`; a
place keeps its content after the destructor, which is what the uninitialised
members of the next object there contain.  A buffer is a field and a generation,
and `Grow` (the `realloc` and the repair loop of `increaseCapacity`) makes a new
generation and rewrites the `data` of every registered place.  The five special
members are five actions.  `touched` records the places that were assigned over
or moved from: `UntouchedRefsCurrent` and `UntouchedRegisteredExactly` say what
holds of all others, including copies of them.

### LLVMFunction

The client changes objects (`Change` makes a new version), binds them and runs.
What the function captures is a snapshot of a version: arguments are captured by
`init`, when the harness is built with constants; externs by `bind`, through
`writeSet`.  `init` builds the tensor index (`InitIndices`) and allocates the
temporaries (`AllocateTemporaries`): a matrix over the index, and for each name of
`Dims` the vectors and stencil matrices whose size `size()` takes from the set
bound to it, an argument or an extern.  It is split along its exceptions:
`InitThrowsEarly` stops when a set is missing, with the index built and some of
the temporaries allocated; `BeginInit` is what is done otherwise,
`HarnessFails`/`HarnessBuilds` whether the harness can be made,
`InitOk`/`InitThrows` combine them, and `RunSafeInit`/`RunSafeThrows` call them
the way `runSafe` does.  `ran` is what the run just made saw.  Three histories
name what the code itself does not follow: `changed`, names whose object changed
after the snapshot; `lost`, names whose `bind` or `init` threw; `unsized`, externs
bound again after their temporaries were sized.

### GpuFunction and FunctionSpec

A name has a host buffer and a device copy with its dirty bit; values are stamps
that tell which write they come from.  `init` frees and allocates, `unmapArgs`
copies everything to the device, the launch marks results and externs,
`mapArgs` copies what is dirty back in the order of `pushedBufs`.  With
`Disciplined` the client keeps to the order of `apps/springs/springs.cpp`;
without it, any call may come at any time, and a grid set of the wrong number of
dimensions (`Misfits`) may be bound: as an extern it is rejected by
`LLVMFunction::bind`, which has replaced the global by then (`BindThrows`), as an
argument by `pushSetData` in `init`, when the old device buffers have been freed
(`InitThrows`).  `FunctionSpec` has one memory only;
under the disciplined client `GpuFunction` implements it, with a buffer's value
taken from the device while its handle is dirty.

### PathIndex

Path expressions are records, numbered so that operands come first; the graph is
chosen in `BuilderInit` (every graph within the bounds) and stays.  `Bind` is
`map::insert`, which keeps the first binding.  A call of `buildSegmented` calls
itself for the operands; `calls` is the stack of these calls, so an operand sees
what the operand before it memoised.  `BuildSegmented` is the call of a client,
`ReturnMemoised`, `VisitOperand` and `ReturnBuilt` what the innermost call does,
and `Throw` the exception for a name that is not bound, which leaves finished
operands in the memo.  The memo is a `std::map` ordered by `operator<` on
expressions, so an entry (`Slot`) is what that order tells apart: the sets of the
links, the connectives, whether the outermost one is quantified, and the source
endpoint; not how operands share variables.  Indices are the CSR arrays
themselves (`coords`, `sinks`), and `Related` is the relation an expression
means, defined without them.  `ExprsAssumption` is what the constructors of path
expressions give: operands exist before their users and a path variable has one
set throughout.

### GridSet and BoxGraph

`GridSet` first builds the grid, a point or an edge per step, then runs the loop
nest that `inlineMap` emits for a map through the grid.  The emitted expressions
are operators (`OffsetIndices`, `PointCoord`, `EdgeCoord`) with the remainder of
the machine; `Accumulate` is the loop over the dimensions they and the accessors
share.  The reference is a torus whose points are ranked by counting
(`Rank`).  `BoxGraph` is `createBox`, one element per step, in the code's four
loop nests.

### Parser

Every parse function is a sequence of instructions: consume a token, call
another function, branch or loop on the next token, open and close a scope,
insert a name, catch a syntax error.  The state is the position, the call stack
with the instructions each function has left, and the symbol table; an exception
unwinds the stack to the innermost `catch`, as C++ does, which closes no scope.
The input is chosen token by token as the parser peeks, after a fixed start that
leads to one part of the grammar.  The decisions that depend on names (is this
identifier an index set, a function, a tuple element) look them up in the
symbol table of the model.  The tree is left out: no decision depends on it.

### Frontend and the modules below it

A node of the tree is a class, its named children and its data (`Fir`).  The
driver takes one element, or while cloning one call site, per step:
`Fold` and `CheckConstants`, `InferElementSources`, then `VisitElement`,
`CloneGeneric`, `CloneOther`, `VisitReturns` and `PlaceClones`, then
`CheckElement` and, if no pass reported an error, emission.  The checker is a
record that every rule returns changed: scopes, set definitions, replacements,
instances, errors.  It keeps the type it gave to each expression, and the
emitter keeps the type of what it emits for the same expression, so the two can
be compared; neither reads the other's.

The driver is given the checker, the emitter and the intrinsics as constants;
the run substitutes `TypeCheckElement`, `EmitElement` and `intrinsics`.

### From Ir to Lowering

A procedure is a tree of records with an operator, operands and data (`Ir`),
built with the operators of `IRBuilder`.  `Lowering` has one action per pass of
`lower()`, in its order: calls inlined, index expressions flattened,
temporaries inserted (`Flatten`), storage inferred (`Storage`), field accesses,
maps (`LowerMaps`), index expressions (`LowerIndex`), tensor accesses
(`LowerAccess`), and the unrolling of small loops.  Then a graph is chosen and
the function is run, a statement of the procedure per step, by `Codegen`, which
says what the generated code does to stack variables and buffers.

`Codegen` keeps what the hardware would not tell: a store outside a buffer, an
undefined value stored or branched on, and a `loc` that finds nothing are
faults (`AccessesInBounds`).  Where lowering reaches an assertion (an index
expression of no known kind, an edge of the iteration graph with two visited
ends) the statement becomes `Abort` and lowering stops in the pass `aborted`, which the
deadlock check would report.  A read of a field has a number, so that two reads of
one field are two nodes, as the pointers that `temps.cpp` compares are.  The order in which index variables that the code
compares by address come is a nondeterministic choice.

`Meaning` is the abstract specification: a tensor is a function from index
tuples to values, an index expression sums its own reduction variables, a map
applies its function to the elements in turn.  `StagesKeepMeaning` compares the
procedure before and after the passes that stay in the source language;
`RunComputesMeaning` compares what a run leaves in memory with the meaning of
the original procedure; `StorageCoversValues` says that the entries without a
place are zero in it.

### GpuKernels

A function is a sequence of loops over sets, host statements and memsets, as
lowering leaves it.  Compilation is one operator: self additions become compound
assignments, loops become kernels, the reads and writes of each are recorded,
and kernels are moved next to each other and fused.  The run has a host and
threads: a launch makes a thread for every index of every block, a thread loads
and stores in two steps and adds atomically in one, and the host waits for all
of them.  The index arithmetic of the launch has the width of the machine
integer (`SignBit` is the weight of its sign bit).  `Expected` is the sequential run of the source.

## Runs

All pass.

| Run | Distinct states | Shows |
|---|---|---|
| `set_all` | 56 345 | growth with half-done adds keeps every slot allocated and zero until used, edges inside and writes in bounds; with removals of scalars clients see `SetSpec` |
| `refs_all` | 44 630 | references nobody assigned over or moved from stay registered and current |
| `llvm_run` | 1 125 571 | runs use what is bound, as it was when captured, with index and temporaries made for it, and never a set that does not fit, however `bind` and `init` fail |
| `gpu_free` | 216 259 | clean copies agree under any calls, also ones that throw; `runSafe` is a round trip |
| `gpu_apps` | 115 864 | in the applications' order the GPU implements `FunctionSpec` |
| `path_forward` | 80 703 | what the memo answers means the expression asked for, and links are transposes |
| `grid_loop` | 1 281 | loop, emitted arithmetic, accessors and stencil index agree on points and edges |
| `box_any` | 2 268 | `createBox` makes the lattice, and `operator()` agrees with it where depth equals width |
| `gpu_kernels` | 213 909 | race-free functions leave the sequential memory under every interleaving; launches cover exactly the sets; kernels get all they name; every function returns |
| `parser_streams` | 1 052 308 | however errors are recovered from, the scopes of running functions stay; without errors they are exact; the end of the stream is reached |
| `frontend_types` | 39 424 | accepted programs are emitted, with the checker's types; calls get the instance they asked for; clones are their originals; folding keeps values; temporaries are assigned first |
| `lowering_run` | 41 779 | two runs of the generated code compute what the source means, inside their buffers, and leave workspaces clean |

### Bounds, and why they are enough

- `CapacityIncrement` is 2 instead of 1024; the code is uniform in it.  The third
  element grows a set and leaves a slot unused, which is when its content
  matters; an add that throws on a full set grows the endpoints array again and
  again.  `MaxElements` gives the points two elements, the edges and the set with
  removals three.  Two endpoint positions on one set let an edge be half
  written.  A width of two tells components from elements.
- `FieldRefs`: three places are needed for a copy of a copy, one growth per
  field is enough to make a pointer stale; places are interchangeable (symmetry).
- `LLVMFunction`, two objects that fit (one before and one after a rebind,
  interchangeable) and one that does not; one change per object.  One argument and
  one extern are names of `Dims`.  `GpuFunction`: one name of each kind, two
  writes; buffers that fit are interchangeable, and `gpu_free` has a third that
  fits neither the grid argument nor the grid extern.  More objects than names are
  only needed by the client that may not share them.
- `PathIndex`: two vertices and two edges give loops, parallel edges and isolated
  vertices; the second edge set has endpoints in two sets.  The expressions
  contain every operator, over links and over compound operands; two of them share
  an entry of the memo, and two operands are entered at their second variable.
- `GridSet`: dimensions 1 to 3 with sizes 1 to 3 include all cases in which an
  offset of two wraps once, twice, or onto itself.
- `Parser`: twelve starts, each with the token types of one part of the grammar,
  and every continuation of up to seven tokens; two names, one of them an
  intrinsic.  Seven tokens close a scope, fail inside another and recover.
- `Frontend`: about 1400 programs.  Assignments of every unary and binary
  expression over variables of thirteen types (scalars, vectors of two lengths,
  a row, matrices, system vectors and matrices, blocked ones), assignments to
  every kind of target, and programs for each statement, generic calls of
  generic functions, maps and reductions.  At most `MaxClones` clones.
- `Lowering`: eleven procedures, named for what they exercise: `merge` and `alike`
  (matrices with different and with equal structure), `turned` and `backward`
  (transposes), `product`, `diagonal`, `reduced`, `calls` (results that alias
  actuals), `inplace` (fields written from themselves), `combined` (a field written
  from several reads of itself, and parameters that are written, inlined and
  called), `loops`.  Each is run
  twice on about ninety graphs: up to two edges in E and one in F on two or three
  points, without self-loops.  Two runs are enough to see memory that the first
  left dirty.
- `GpuKernels`: every sequence of three statements from a menu of eleven, which
  contains every pair the fusion and the reordering distinguish; sets of two and
  three elements against blocks of two threads, so a block is exactly full once
  and partly empty once.

`CHECK_DEADLOCK FALSE` is used where the system may stop: a client may stop
calling, a constructor, a parser or a program finishes, and bounds end growth.
`lowering_run` checks deadlock: every pass and every statement has a successor
until the second run has ended.

### Fairness

Two modules state fairness.

- `Parser`: weak fairness of `Next`.  The parser is one thread of a process that
  waits for nothing, so a step it can take is taken.  `ParserTerminates` then says
  that no loop of the grammar and no recovery spins without consuming.
- `GpuKernels`: weak fairness of the host and of each thread.  The host is a
  process; the device runs every thread of a launch to its end, since a kernel
  has no barrier and no thread waits for another.  `Terminates` says that every
  function returns.

The other modules assume none: what they model does something only when the
client calls it, and every property there is a safety property.

## Conditions, and what lies outside them

Several passing properties carry a condition that the code needs, or are run on
inputs chosen within one.  Each marks a place where the code does something else
than its comments or its own other half say.

Sets and references:

- Removal is checked on a set of points with scalar fields.  `remove`
  (`graph.h:347`) moves the last element's fields into the gap but not its
  endpoints, so on an edge set the surviving edge has the fields of the last edge
  and the endpoints of the removed one; and it moves one component whatever the
  tensor's size (`graph.h:313-346`).
- `BadRefs = {}`: the endpoint check (`graph.h:664`) has no lower bound and a
  default `ElementRef` has ident -1.  `SetEdgesStayInside` has this as hypothesis.
- The properties of `refs_all` leave out touched places.  Copy assignment
  (`graph.h:779`) never leaves the old field's references, so growth of the old
  field redirects the pointer; move assignment leaves the source registered
  nowhere; move construction swaps uninitialised members into the source, and
  its destructor follows them (`wildAccess`).
- `getGridPoint` checks the linear index, not the coordinates (`graph.h:207`).
- Grid edges' own endpoints are not used: the constructor takes `cumDims[d]`, the
  product up to and including direction d, as the offset of that direction, and
  counts points and edges with one counter (`graph.h:163-167`).
- Stencil offsets are not below minus a dimension: the path index wraps once
  (`path_indices.cpp:296-297`), generated code twice (`grid_ops.h:109`).
- `NeighborsLinked` is about boxes as deep as they are wide (`graph.h:1090`).

Functions:

- `llvm_run` leaves out names whose last `bind` or `init` threw: `init` sets
  `initialized` before it can throw (`llvm_function.cpp:324`), so a later
  `runSafe` runs the previous harness, or none.  It leaves out objects that
  changed: `runSafe` does not notice that a bound set has grown.
- `RunMemoryFits` says which sets the index and the temporaries of a run were made
  for, after any number of inits, and not that the index is still there.  A second
  `init`, also after one that was left early by an exception, builds the tensor
  index again, but `pathIndices.insert` keeps the first, so the code is pointed at
  one that is freed when `init` returns (`llvm_function.cpp:445`; `alive` is
  FALSE), and the matrix temporary has the size of the kept one (295-297).
  Temporaries allocated again drop the old ones (`llvm_function.cpp:281`).
- `unsized` leaves out externs bound since their temporaries were sized: `bind`
  writes the new set's size and addresses and asks for no `init`
  (`llvm_function.cpp:153-213`), so generated code loops over the new set in
  vectors of the old size.
- On the GPU a rejected extern leaves `initialized` standing, so `runSafe` runs on
  the handles of the set bound before: `RunSafeRoundTrip` asks that the sets bound
  fit.  An `init` that throws in `pushSetData` (`gpu_function.cpp:228`) has freed
  the device buffers and leaves `initialized` and the function pointer: a run
  before the next `init` is left out.
- `gpu_apps` is about the order the applications use.  `function.h:23-25`
  describes the opposite direction of `mapArgs` and `unmapArgs`.
- `MemoIsRelation` has the condition `Unambiguous`: lookups that one entry of the
  memo answers ask for the same relation.  The expressions of `path_forward` meet
  it on every graph, since what they enter from behind is symmetric.  The comments say "memoized the path index for this path
  expression" (`path_indices.cpp:522`) and "Two path expressions are equal if they
  have the same form and the same path variables" (`path_expressions.h:165-166`),
  but `eq` and `lt` (`path_expressions.cpp:197-271`) never look at variables:
  `A(i,k) B(k,j)` and `A(k,j) B(i,k)` share an entry, and so do, as operands, a
  quantified connective and the same without its quantifier, since `zip` ends with
  the shorter list (`util/collections.h:204`).  And `buildSegmented` does not tell
  the visitor the endpoint (`path_indices.cpp:528`), so an index asked for at the
  second variable lists the relation from the first.
- Bindings that are insufficient make `buildSegmented` throw; a name that is bound
  twice keeps its first set (`path_indices.cpp:534`).

Parser:

- After an error no more than `ScopesCoverPending` holds: the handler of
  `parseIfStmt` consumes the block's end, which can fail, and that exception
  passes the enclosing scope without `unscope`; a `do` that ends at the end of
  the input leaves its scope.  Names of element fields go to the global scope.

Front end (programs of `frontend_types` avoid these):

- An instance shared by signature (`type_checker.cpp:1085`) may be placed after
  its second caller, where the emitter's lookup (`program_context.h:135`) fails,
  as in `s = sum(v); s = outer(v)` with `outer` calling `sum`.  The signature has
  argument and result types only, so `f<3>()` and `f<4>()` share one instance.
- `MapExpr::copy` (`fir.cpp:567`) loses `genericArgs` and `through`;
  `Endpoint::copy` follows a null element when a generic function with an
  edge-set argument is cloned.  A recursive generic function is cloned forever.
- A negated complex literal is negated and keeps its negation
  (`const_fold.cpp:28-34`, the branch has no `return`): `-c` comes to mean c, and
  the emitter then asserts.  `FoldKeepsValue` leaves
  out this case and no other; vectors of complex numbers are in it.
- The bounds of a `for` over a range are emitted inside the loop when they are
  calls; a left division emits its operands twice (`ir_emitter.cpp:595-603`).
- A function's set arguments are accepted for grids only.  An instance made for a
  caller's set argument is emitted before the caller has an expression for it.
- Index variables of different domains pass the checker and fail
  `IndexedTensor::make`.  A variable declared by an assignment cannot be assigned
  again.  A call's result assigned to a slice is dropped.

Lowering (procedures of `lowering_run` avoid these):

- `path_expressions.h:157-158` calls `reverse()` equivalent to transposing, but
  reversing a quantified conjunction swaps its operands with their variables
  (`path_expressions.cpp:133-152`): `(A*B)'` over different edge sets gets the
  pattern of `A'*B'`.
- `-(A+B)` with different structures overwrites, because the subset loops drop the
  compound operator under a negation (`loops.cpp`).  `B+D` and `B-D` with a
  diagonal second operand read the diagonal by the location of the matrix entry;
  `D*B` reaches an assertion.  `x'*A` is lowered as `A*x`.
- `D + A` is run on graphs where every point has an edge: `loc` has no end
  (`runtime.cpp:18-22`).
- A field written from several reads of itself gets a temporary when its last read
  is a reduced one: `GetFieldRead` keeps the last read (`temps.cpp:33-36`) and
  `IsFieldReduced` compares pointers (`temps.cpp:60`).  `V.b = (V.b' * V.b) * V.b`
  gets none, against the comment at `temps.cpp:80-82`, and reads values it has
  overwritten; `combined` has the product in the other order.
- The product through an external routine (`lower_matrix_multiply.cpp:22-38`),
  for an operand without a path expression, the assertion on unknown kinds and the
  one at `sig.cpp:401` are reached by none of the procedures.
- `x = A*x` on a local variable gets no temporary; a matrix variable assigned
  twice keeps the first path expression.
- The result is initialised also for a compound assignment of a sparse variable or
  a reduction to a scalar, against the comment at `lower_indexexprs.cpp:731-734`.
- Unrolling `for i in 2:4` runs i = 0 and 1.  `inlineMap` computes temporaries for
  the kernel and then inlines the original (`inline.cpp:823-824`).  A map without
  reduction drops the kernel's compound operator.
- Element-wise operations on rectangular matrices depend on the address order of
  their index variables.

Kernels:

- Sets are not empty: `(0 - 1) udiv` gives a huge number of blocks, and negative
  indices pass the signed guard.  The functions are race free (`DoneMatchesSequential`
  says which): the safety check (`kernel_rw_analysis.cpp:79`) misses a plain store
  beside a compound addition of one variable, and its warning is inverted (113).
- Two-dimensional kernels that would be fused reach an assertion
  (`fuse_kernels.cpp:191`), which the model keeps as phase `aborted`.

## Proofs

TLAPS proves the following for all values of the constants, assuming only the
named `ASSUME`s of the module, which TLC evaluates on every run.  A theorem
about a property is the run's property word for word; the bounds that keep TLC
finite (`MaxElements`, `MaxVersion`, `MaxClock`, `MaxTokens`, the menus of
programs and shapes) are arbitrary in it.  None of the inductive invariants uses
a bound for more than the range of a counter.

`SimitSetProofs`: the inductive invariant is `TypeOK /\ AllocationCovers`.
Typing alone is not inductive: that `add` stays inside the range needs that a set
that is not full has its next slot allocated, and that an exception leaves
`epCap` ahead of `capacity` and never behind.  There is one lemma per action.
`SetFreshSlotsAreZero` needs in addition that cells of different elements are
disjoint (`CellsOfElement`), which is non-linear and isolated in lemmas about
products.  `SetEdgesStayInside` is conditional on no removal and no undefined
references, and both conditions are necessary.
`SetWritesInBounds` is an action property and follows from the same invariant.
`SetImplementsSpec` is the step simulation of `SetSpec`, one lemma per action; it
adds `Stored`, that everything allocated holds values and not junk, so that an
element `add` makes has a tensor in every field.  Its hypothesis
`\A s \in Removable : Movable(s)` names the sets for which `remove` is right:
no endpoints, one component per field.  `set_all` has such a set and others
without removal.

`FieldRefsProofs`: the two properties of untouched references are inductive
together with `TypeOK`: that a growth repairs a reference needs that the
reference is registered, and that it repairs it with the right buffer needs that
it is registered nowhere else.

`LLVMFunctionProofs`: the four properties are about what a run sees, which was
decided by earlier calls, so the invariant is about the pointers between runs:
`HarnessCurrent` and `ExternsCurrent` (what is captured is what is bound, except
for names that were lost to an exception), `PointersFit` (a misfit gets past
neither `makeSet` nor `bind`), `SizesBound` (what sized memory once stays bound, so
no later `init` is left with a part of the temporaries), `MemoryCurrent` and `RanReads`, which ties `ran` to them.
`MemoryCurrent` is what makes `RunMemoryFits` more than a fact about one `init`:
whatever was bound and however `init` failed since, either the harness and the
memory it works with are of one time, or the name is recorded as lost or unsized.

`GpuFunctionProofs`: `CopiesAgree` is inductive with `HandlesGood` (only what a
kernel may write is dirty; a temporary has no host buffer) and `HandlesBound`
(while `initialized` stands everything is bound and, if the sets fit, the handles
are there and are those of what is bound; a misfit can only have been bound by a
`bind` that threw).
`mapArgs` copies in the order of `pushedBufs` and the last copy stays, so the
proofs need which one is last (`LastPushed`, from `GreatestElement`).
`RunSafeAlwaysRoundTrips` holds from every reachable state in which the sets bound
fit, however many calls threw before.  `WorksInPlace` is the
refinement of `FunctionSpec`; `Disciplined` is its hypothesis because the client
must keep to the applications' order and binds sets that fit (`StaysFit`).  It adds
`NoClash`, that no buffer is bound
twice where a run may write, and `InStep`, that a run only starts with everything
pushed and that `mapArgs` leaves nothing dirty.

`GraphProofs` holds three developments on disjoint constants and variables.

*Boxes.*  `Inv` is the loop invariant of `createBox`: where the nests are
(`InNest`), that the vertices so far are stored in order (`RefsInOrder`), and that
the edges so far are one for each link passed (`EdgesForLinks`).  The last needs
the size of a set that grows by one link a step, that the loops visit each link
once, and that positions are unique (`RowMajor`).  `BoxNeighborsLinked` turns a
link by the symmetry that exchanges the first and third axis, which is why the
box must be as deep as it is wide.

*Grids.*  The number of dimensions is arbitrary, so every loop over the
dimensions is a recursive function whose values are characterised by induction
over the naturals (`AccumulateIs`, and `Peels` for `getGridPointCoords`).  From
that: positions lie inside the grid (`LinearBelow`), peeling undoes accumulating,
the order of positions is the order `Before` of the reference, and so a position
is a rank, since `Rank` counts the positions below it.  The invariant `GridInv`
is `NestAtLoopVar` (the loop variable is the position of the indices, which
needs that one turn of the nest adds one to the position across every carry) and
`RowsAreNeighbors` (what each finished row read is the neighbour on the torus,
which needs that two truncating remainders with the dimension added in between
are one modulus).  `SlotsAlwaysMatchIndex` has the hypothesis `OnceAround`:
`Link::vv` adds the dimension once before its only remainder
(`path_indices.cpp:296-297`), so an offset below minus a dimension would index
outside.  The stencils of `grid_loop` satisfy it.  The other two theorems have no
hypothesis.

*Path indices.*  `LinksAlwaysTransposed` rests on `LinksInv`: names keep their
first binding (`BindingsType` and the step lemma `NextKeeps`), and a memoised link
is what the visitor would build today (`LinksBuilt`).  What it would build is
settled by lemmas on the parts of `pack`: joining lists puts each one between its
two coordinates, sorting permutes, and the numbers of occurrences in a joined list
add up, so both directions count the places of an edge that hold the vertex.
`MemoIsAlwaysRelation` adds `MemoRight`: each memoised index `Indexes` its
relation, that is, it has as many rows as the first set has elements, all its
sinks are elements of the second, and its neighbour sets are the relation's.
Without the sizes this is not inductive, since `and` takes its rows from the right
operand, `or` from the left and a quantified `or` fills rows with the whole sink
set.  An entry of the memo does not know which expression it was built for, so
`MemoRight` says that some lookup of that entry, with all its names bound, is the
one it describes from the first variable; `Unambiguous` takes this to every other
lookup of the entry (`Answered`).  That needs that lookups of one entry are about
the same names (`SameSlot`, `ShapeNames`: equal keys have equal names, by induction
on the number of the expression).  The recursive functions `Shape`, `NamesIn` and
`Related` are unfolded once (`ShapeIs`, `NamesAre`, `RelatedIs`: such a function
exists, by induction on the same number, so the one chosen has the equation).  The
step that matters is `ReturnBuilt`: the operands it finds in the memo may have been
built for other expressions, and are right for this one (`VisitedRight`).  An index
built before another name was bound stays right because the names below it were
all bound then (`RelatedKept`, `DescribesKept`), and a step cannot make lookups
unambiguous that were not (`UnambiguousBefore`).

`GpuKernelsProofs`: `LaunchesCover` is arithmetic with a fixed width: the number
of blocks computed with wrapping unsigned operations covers the set, and no
thread index passes the sign bit.  It assumes that the block size divides
`SignBit` (16 or any power of two and 32-bit integers, `gpu_backend.h:49-51`) and
that sets are not empty; the code does not give the property without the latter.
`ArgumentsAlwaysCover` needs what every pass keeps of a kernel: `Lowered` says
that its recorded reads and writes cover its body, and is shown of sharding, of
the analysis, and of moving and fusing in both directions, by induction over
the walk.  `ProgramsAssumption` says what lowering produces.

`RaceFreeFunctionsMatch` proves `DoneMatchesSequential`: threads, fusion and
motion against the sequential meaning of the source.  The property itself says
nothing about a state in the middle of a launch, so the invariant `ExecInv` gives
the memory a closed form.

- `FuncComputes`: the compiled function, read as a composition of maps on memories
  (`Means`), takes the zero memory where the source does.
- `MemReached`: between launches the memory is what the statements before `pc`
  make of zero (`Reach`).  While threads run it is `Mix`: each cell holds its value
  at the launch plus, modulo `Limit`, what every thread would have added to it by
  its present position had it run alone (`Going`), and a loaded register holds what
  the thread alone would have loaded.

That every step keeps the form is where race freedom is used: a thread reads only
cells no other thread changes, so it loads what it would load alone (`ReadSame`),
and a store or an atomic addition moves one term of the sum (`CommitMix`).  When
all threads have finished, the sum no longer mentions an order, and iterations run
one after the other give the same one (`ForMix`).  The passes keep this form:
sharding, the rewriting of compound operations and the analysis (`PassMatches`,
`KernelMade`, `KernelFine`).  Moving a kernel over a statement it has no conflict
with swaps two maps, and fusing two of the same sharding concatenates their bodies
(`Apart`, `WholeSwaps`, `WholeConcat`, `FuseAllMeans`), by induction over the walk,
in both directions (`CompiledComputes`).

Beside the property's own hypothesis this rests on `IndexAssumption` (`Fits`: the
index expressions that lowering leaves stay inside what they index) and on loops
with at most one inner loop, none of whose statements is guarded to run once, a
guard only sharding adds and only outside it (`ProgramsAssumption`).  The attempt found a flaw
in `RaceFree`: by precedence, its condition on inner loops was under the quantifier
over the outer statements, so a loop with nothing but an inner loop passed as race
free.  It is stated now as it was meant.

`ParserProofs`: that a stack closes what was opened is not inductive, since an
exception unwinds to a handler that closes nothing.  The invariant `InOrder`
has four parts.  `Fit`: the height of each position of the stack (the scopes that
the rest closes) is never negative and never below that of a catch clause under
it, and the slack of the symbol table over the height is never less than it was
when a catch clause was entered.  `Known`: every item is an instruction of the
grammar or of a handler.  `Caught`: whatever may throw has a catch clause below
it.  And until an error is reported, the slack is zero.  The grammar half shows
once that each parse function and handler is balanced at every depth: a set of
instructions is closed when the code its members hold is balanced and made of
members, and the code of each function is exhibited as such a set.  The token
stream, the names and the number of errors are arbitrary.

`DataLemmas` has what these share: least and greatest elements of sets of
naturals, induction over the naturals stated with a set of numbers in place of a
predicate, and facts about sequences.

### Only model-checked

- `Terminates` and `ParserTerminates`: liveness under fairness is outside the
  prover's reach.
- `Frontend` and `Lowering`: functions on trees written with `RECURSIVE`
  operators, from which no theorem can be proved.

The library's induction theorems take a predicate as parameter, which the
installed provers cannot instantiate; the form over sets of naturals in
`DataLemmas` goes around that, for lengths, positions, dimensions and numbered
expressions, but not for recursive operators.

## Not modelled

`PROJECT.json` has the reason for each part.

- The scanner: characters to tokens, without any state of the parser.
- Set layouts: offsets inside a struct that LLVM pads.
- Reordering: one permutation loop around vendored Hilbert tables over floating
  point coordinates.
- In lowering: blocked tensors, fixed index variables, stencil storage,
  heterogeneous edge sets, division, prints, strings, frees and timers.
- In the GPU passes: sharded dot products, local temporaries, lifted variables,
  the rewriting of memsets and system assignments.
- Instructions themselves, solvers and the math library, meshes, printers, the
  visualizer, timers and generated modules: output, numerics or third-party code.

## Plan

1. The end of a set's life under references, and empty sets on the GPU.
2. Blocked tensors and stencil storage in the lowering modules.
