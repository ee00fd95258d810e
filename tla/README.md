# Verification of cuTile Python

cuTile Python compiles Python functions into CUDA tile kernels and launches
them. This directory holds TLA+ models of the parts of it whose correctness
depends on order, sharing or failure, the TLC configurations that check them on
small instances, and proofs for all instances, checked by TLAPS.

Paths are relative to the repository; `tile/` stands for `src/cuda/tile/`.

- [1. The system](#1-the-system)
- [2. The modules and how they follow the code](#2-the-modules-and-how-they-follow-the-code)
- [3. What is model-checked](#3-what-is-model-checked)
- [4. What is proved](#4-what-is-proved)
- [5. Where code and documents disagree](#5-where-code-and-documents-disagree)
- [6. What is not modelled](#6-what-is-not-modelled)
- [7. Plan](#7-plan)
- [8. Running it](#8-running-it)

## 1. The system

### 1.1 How the parts interact

    ct.launch(stream, grid, kernel, args)
          |
          v
    Launch path (cext/tile_kernel.cpp) -- GIL or g_launch_mutex
      |  profiles by argument types -> families -> kernels by constants
      |  miss: calls Python, the lock may change hands
      |          |
      |          v
      |    compile_tile (tile/_compile.py) -- _compiler_lock
      |      |-- frontend -> IR -> passes (dead code, dataflow, rewriting,
      |      |     token order, code motion, loop splitting) -> bytecode
      |      |-- cache_lookup / tileiras / cache_store / evict_lru
      |      `-- disk cache (tile/_cache.py, SQLite), shared by processes
      |
      |-- Argument extraction: arrays become words and constants
      |-- list arguments: Stream buffer pool (cext/stream_buffer.cpp)
      |     one transaction per launch: allocate, copy, launch, close
      `-- CUDA driver: contexts, streams, events

    tune.exhaustive_search (tile/tune/_tune.py)
      `-- benchmark_with_timeout (tile/tune/_tune_utils.py)
            exports a payload by the launch path, runs it in a worker process,
            which maps the caller's memory and stages its lists again

    jax.jit(...) -> XLA custom call -> Kernel registry (cext/xla_ffi.cpp)
            states of calls share loaded libraries

The launch path calls the stream buffer pool with the lock held and without
running Python in between, from opening a transaction to closing it. It calls
the compiler with the lock given up. The compiler is one lock
wide per process, and shares the disk cache with other processes. The tuner
reaches the launch path twice: to export a payload, and inside the worker, where
the kernel is loaded from it. The kernel registry is apart from the launch
path: XLA's threads call it, some of its handlers without any lock.

### 1.2 Components

Modelled components come first; section 6 says why the others are not.

| Component | Source | State | Operations | What is hard | What makes it correct |
|---|---|---|---|---|---|
| Stream buffer pool | `cext/stream_buffer.cpp` | chunks with an event each; a chunk list per stream; free lists of chunks and buffers; the chunk capacity | open, allocate (poll, reclaim, grow), close | the device reads the memory long after the call returned; a launch on one stream reclaims from all others; the driver refuses memory half way | no byte is handed out while someone may read it; nothing leaks; the pool stops growing |
| Launch path | `cext/tile_kernel.cpp`, `cext/hash_map.h` | profile and kernel tables, free list of helpers, contexts pushed | `launch`, `_benchmark`, `_export_ipc_benchmark_payload` | calls into Python give the lock away while pointers into tables are kept; failures after a context or transaction was taken | a call launches its own kernel with its own arguments and leaves no trace when it fails |
| XLA kernel registry | `cext/xla_ffi.cpp` | slot per cubin, entry with count and library, state per call | instantiate, initialize, execute, delete | programs that share a kernel come, go and are refused in any order | a library is loaded once, and exactly as long as it is used |
| Disk cache | `tile/_cache.py`, `tile/_compile.py` | an SQLite database of rows with a time of last use | lookup, store, evict | several processes, timeouts, crashes, a database that is unlinked while it is used | locks and rows survive nothing they should not; the oldest go first; every call returns |
| Benchmark worker | `tile/tune/_tune_utils.py`, `tile/tune/_benchmark_worker.py` | one runner, one worker process, two pipes, the task id | benchmark, timeout, terminate, atexit; the worker's loop | kernels that never end, crashes, interrupts, exit beside daemon threads | a time is of the kernel that was asked for; no worker is left behind |
| Token order | `tile/_passes/token_order.py` | token map by alias set, tokens carried by blocks | one rule per memory operation, loop, branch, jump | tokens pass by position through nested loops with continue and break; parallel stores | the order that the memory model promises |
| Argument extraction | `cext/tile_kernel.cpp` 430-458, 645-908, 1316-1728, `cext/launch_helper.h`, `cext/vec.h` | the helper: an arena of words, offsets into it, list headers, constants | one extractor per kind of argument; staging of lists | lists whose elements run Python code while they are read; an arena that moves; launches that share staging chunks | a kernel finds the arrays that were read, and its constants are true of them |
| IPC benchmark payload | `cext/ipc_util.h`, `cext/tile_kernel.cpp` 3354-3562 | handles of allocations, places in the arena to patch | export, import, run, close | addresses of one process in the words of another | the worker's kernel finds the same arrays, mapped as long as it runs |
| Python frontend | `tile/_passes/ast2hir.py`, `hir2ir.py` | the current block, parent loops, stored names; scopes | one rule per statement and expression; one per stub function | early returns out of nested loops; code after a jump; helpers inlined in loops | the program does what the Python function does |
| Intermediate representation | `tile/_ir/` | operations, blocks, types, constants | build, type | which locals a loop carries is known after its body; jumps are amended | well-formed at every point |
| Dataflow analysis | `tile/_passes/dataflow_analysis.py`, `propagate_divby.py` | predicates of variables and of the arrays in lists; a flag | one rule per operation; walks until nothing changes | loops; numbers that wrap | it ends, and what it promises is true of every value on every path |
| Loop transformations | `tile/_passes/loop_split.py`, `code_motion.py` | none | split, hoist | boundaries; what a hoisted operation depends on | the same iterations; definitions before uses; nothing invariant stays |
| Dead code and rewriting | `tile/_passes/dce.py`, `rewrite_patterns.py`, `eliminate_assign_ops.py`, `unhoist_partition_views.py` | none | rewrite | carried values of nested loops; overlapping matches | the same meaning; nothing dead is left |
| Bytecode writer | `tile/_bytecode/`, `tile/_ir2bytecode.py` | what has been written, the next value id, value ids of variables, tables, a list of locations | one encoding per operation; nested blocks | an operand is a number that comes from positions; numbers are used again after a block; locations are in a list of their own | read back, it is the same program |
| Compilation driver | `tile/_compile.py`, `tile/_compiler_options.py` | the compiler lock, temporary files | `compile_tile`, `_transform_ir` | the order of the passes, and what one expects of the one before | the program means the same after each |
| CUDA loader and helpers | `cext/cuda_loader.cpp`, `cext/cuda_helper.cpp` | table of driver functions | load once | first use by two threads | |
| XLA FFI messages | `cext/xla_ffi_py.cpp` | none | read | | a message is read as it was written |
| Coroutine runner | `tile/_coroutine_util.py`, `cext/coroutine_util.cpp` | a stack of coroutines | push, resume, raise | exceptions through several frames | the same result as recursion |
| JAX integration | `tile/jax/_jax.py` | none | build the custom call | | |
| Tuner search | `tile/tune/_tune.py` | timings per candidate | screening, refinement, choice | when to stop measuring | the best candidate is not dropped; it ends |
| Experimental autotuner | `experimental/tile_experimental` | cache of best configurations | random search | | |
| Tile mutex | `tile/_mutex.py` | a word in global memory | lock, unlock as emitted code | blocks on the device interleave | mutual exclusion |
| Data types and stubs | `tile/_datatype.py`, `_stub.py`, ... | none | | | |
| Signatures and export | `tile/compilation/` | none | mangle, demangle, export | | mangling can be undone |
| Context and dispatch | `tile/_context.py`, `_execution.py`, ... | settings | read the environment | | |
| CUDA language | `experimental/cuda-lang/` | | | | outside this project |
| Samples, docs, scripts, tests | | | | | read for what they promise |

## 2. The modules and how they follow the code

Every definition is mapped to lines of the source in `PROJECT.json`. Operators
named `X_Something` with a comment *Mutant* are what a plausible bug would make
of `X`; each property has one that breaks it.

### StreamBuffer, StagingMemory

`StreamBuffer` is `cext/stream_buffer.cpp`. `Chunks`, `Buffers` and `Streams` are
model values; a chunk has `cap`, `avail` and an event `ev`; a buffer has its
`list`, `txHead` and `open`; the pool has `curCap`, `chunkFree`, `bufFree` and
`bufOf`. Positions in a stream are relative: `ev[c][s]` counts the work items of
`s` that must still finish before the event fires. `Init` is
`stream_buffer_pool_new`; `OpenExisting` and `OpenNew` are
`stream_buffer_transaction_open`; `Allocate` has one disjunct for each path
through `allocate` and `allocate_chunk`, with `reclaim` and `poll_events` (which
take chunks of *all* buffers) inside the step; `Close` is `close`; `Finish` is
the device, which runs between any two calls. Calls are atomic because nothing
in that file releases the lock under which it is called. Sizes are numbers: the
rounding to the alignment, the test against `SIZE_MAX` and the doubling loop are
computed. `staged` and `inflight` are history: the regions that were handed out
and who may still read them.

`StagingMemory` is what the launch path may rely on: regions of mapped memory
that nobody else gets until the stream has passed the work that was there when
the transaction was closed. `ImplementsPromise` says the pool implements it. The
variables of the promise are variables of the pool, so the refinement mapping is
the identity on them.

### LaunchPath

`LaunchPath` is `prepare_launch` and its callers for one kernel. `lock` is the
GIL or `g_launch_mutex`. A step is what happens between two points where the
lock may change hands, or between two calls that may fail: `Enter` (helper,
flattening, lookup of the profile), `Classify` (the slower path), `Extract` (the
arguments, then the lookup of the kernel), `Compiled` (return from Python, load,
insert), `Switch` (context), `StageLists` (transaction), `Evaluate` (host
program, tensor maps), `SwitchAgain` and `Enqueue`. `Fail` is `ErrorRaised` at
any of them; `Unwind` is the destructors. What a call needs of the stream buffer
pool is that a transaction is open or not (`tx`).

`find` and `insert` of `HashMap` return pointers into a table that a later
insertion may move. A pointer is the number of rehashes that its table had seen
(`profileItem`, `kernelItem.gen`), and a step that follows one of an earlier
generation goes to `"undefined"`. `NeverUndefined` says that no step does.

### KernelRegistry

`slot` is `g_kernel_registry->map` with the three values a slot has (absent, null,
an entry), `library` and `refcount` are in the entry, `entry` and `cubinId` in the
state of a call. The actions are the handlers of the FFI; `InstantiateRefused` is
the path on which XLA does not take the state and it is deleted at once.
Instantiating and deleting hold the lock from beginning to end and are atomic;
`Initialize` and `Execute` hold none and read whatever the entry has.

### DiskCache

A process goes through `lookup`, compilation, `store` and `evict` as
`compile_tile` does (`op`, `pc`); within a process `_compiler_lock` leaves no
concurrency. `table[f]` holds the rows of database file `f`, as the time of last
use of each key; `current` is the file at the path, because `_connect` may unlink
one that others have open. SQLite is external: one writer per file, a commit that
is atomic, an error when it waits too long. `OpenFails`, `Unlink` and `Reopen` are
the recovery in `_connect`; `Fails` is `sqlite3.Error` in any operation;
`DirectoryFails` is the `OSError` that two of three functions catch; `Crash` is
the end of a process; `Damage` is the file system. The windowed `DELETE` is
`Doomed`, evaluated once per batch.

### BenchmarkWorker

`Call` ... `Raise` are `benchmark_with_timeout` and `_TimedBenchmarkRunner`, one
action per step between which a worker, another thread or `atexit` can act;
`AtExit`, `Stopped` and `Ended` are `_terminate_timed_benchmark_runner` and the
end of the interpreter; `Take` and `Finish` are the loop of
`_benchmark_worker_main`. `proc`, the pipes and signals are the operating system
(external). What a benchmark measures is represented by the number of the call it
was measured for, so a time that is given to the wrong call is seen.

### TokenOrder

The pass is modelled by what its result does: a behaviour is one execution of a
kernel by a block in which every operation waits for the token the pass gave it.
`token` is `token_map`; a token is the set of operations that are over when it is
there. The kernel is not fixed: each step chooses the next operation, and a loop
or branch chooses, when it is entered, the summary of what it contains
(`block_memory_effects`), within which the steps then stay. `Merged` is the hand-over of tokens at
the end of a branch, at `continue` and at `break`, where only the tokens that
the block's summary names are carried (`CarriesStore`, `CarriesAcquire`); the
others fall back to those from before the block. `ParallelStore` is
`_try_loop_parallel_store`. The order of the program is the order in which the
pass finds the operations; what other passes do to them is not in the module.

### Dataflow

`Dataflow` is the analysis and then the kernel that was analysed. A program is the
list of its `Updates`, in the order in which a walk meets them: each names the variable that gets
a value, what it gets it from, and the details that a rule looks at. `Visit` is one
step of `_analyze_aliases_in_block` (`Promised` has the rules, `Updated` is
`_Tracker.update`), `WalkAgain` and `Stop` are the loop in `dataflow_analysis`.
`facts` is both trackers: every update of one is followed by an update of the other for the
same variable, so they have the same variables, and one flag `dirty` is the
disjunction that the code asks for. `Registered` is what is known of a parameter; `Slots` are the
words of an array, of which the first is its address.

When the analysis has stopped, the kernel runs. `Receive` gives a parameter any value
its constraint allows, `Compute` is an operation, with the results that the device may give
(`Results`, external): numbers wrap, signed or not, and a pointer stays in the memory it
was taken from. `Move` copies along one `edge` all variables at once, as a jump does. Control flow is
left open: whatever has its operands may be next. These are more paths than a
program has, so what holds here holds there. The operations of the last rule, reductions and scans
among them, may give anything. `Assumed` is what `propagate_divby.py` writes down.

### KernelArgs

`KernelArgs` is what happens to the arguments inside one of LaunchPath's calls, and
after it on the device. `helper` is the `LaunchHelper`: its words (`arena`), the
offsets of the kernel's parameters (`cuargs`), of the base pointers (`ptrs`), the
`ListArg`s and the constants; `room` is the capacity of the arena's vector, because
`ArrayTypeConstantBuilder` keeps a pointer into it. A step reads one array
(`extract_array`, `FirstItem`, `NextItem`): within it no Python code runs except
where the array is read (`Converted`), which may leave the list with other
contents. `stage_list_args_on_stream` puts the items into staging memory, `Launch`
is the copy, the kernel and the end of the transaction; `Copy` and `Finish` are the
device. `Export` and `Import` are the two ends of a payload.

The staging memory is `StagingMemory`, the promise that the pool is proved to keep:
a region may be anywhere in a chunk of the process, as long as it overlaps none
that is in use. When a region is over, what it held is forgotten, so that a kernel
that still read it would be seen. One call is read at a time. Two threads that read at
the same time have a helper each (`LaunchPath!LaunchesOwnKernel`), and from opening
a transaction to closing it the lock is held
(`LaunchPath!TransactionUnderLock`), so that they meet only on the device, where
the calls of the model meet too.

A call may end in three other ways than with a launch or an exception, and
`EndsAreExplained` says when; section 5 describes them.

### The compiler: TileIR, PyProgram, AstToHir, HirToIr, Passes, Bytecode, Compile

`TileIR` is the intermediate representation and what a program in it means: an
interpreter, which stops at the first use of a value that is not there
(`Undef`) and at a store, branch or assumption that depends on a dummy value
(`Poison`) or is false. `Closed` and `DefinedOnce` are the rules the bytecode
relies on. `PyProgram` is the fragment of Python with its meaning, the reference.
Both are external to the code where they say what a program means, and mapped to
it where they say what there is.

`AstToHir` and `HirToIr` are the two halves of the front end, `Passes` the passes;
each is a function from a program to a program, as in the code, and keeps the
code's names. A context or builder that the code changes in place is a value that
is handed on (`With`, which evaluates it once, and `FoldOver`). `Compile` is `_transform_ir` and what
follows it: one action per pass, one per walk of the data-flow analysis, the two
ways of treating views, which are an option, and the generation of bytecode. What each pass gets is what the ones before made of a program, so the
pass is checked on the inputs it has in the compiler.

`Bytecode` is the writer: `new_op`, `new_block` and `done` number the values, each
operation has the `encode_` operator of the same name, and the constant table, the
value map and the list of locations are as in the code. A location is the identity of
the operation it belongs to, a word a number; types, flags, hints and where a
store goes are left out, and an integer operation stands for the one on floats. Its last part, `Read`,
is external: what the target compiler reads, which knows a value only by its number.

Left out of the fragment: arrays and their loads (with them the tokens, which are
in `TokenOrder`), tiles with more than one element, tuples and other aggregates,
`with`, `match`, `static_eval`, `static_iter`, reductions and scans; rounding;
the conversion to the type of the array that is stored to. Integers are numbers modulo
`2 * Half`; floating point numbers live in the same ring, which makes a fused product
equal to the two operations it replaces and leaves what a pass does to order and
wiring as the only thing that can change a meaning.

The functions were compared with the compiler itself, run on the same programs:
for the programs of the run and about 700 random ones, acceptance, refusal and
internal errors agree, and so do the numbers of operations of each kind at the end.
For the programs of the run and 45 more (item 11 of section 5), compiled
for the oldest and the newest bytecode version, the calls that
write the bytecode agree too, operation by operation and operand by operand, apart
from tokens and from what the model leaves out of a store.

A location matters to the model in one way: whether its function is the kernel or a
helper's inlined copy (`retarget_loc`), or a helper as written (`abstract`). Only
variables that hold a helper's parameters have one of the latter kind, and what loops,
branches and passes make for them; a local of an invalid type keeps none.

## 3. What is model-checked

| Run | Question | Instance | Distinct states |
|---|---|---|---|
| `stream_buffer` | memory safety, ownership, growth, refinement of the promise | 2 streams, 2 chunks, 2 buffers, sizes 1, 4, 10, 18 of 19 bytes, capacity 4, at most 2 work items per stream | 155,560 |
| `launch_path` | native and Python-read arguments, exports; liveness | 2 threads, 2 profiles of 2 families, 3 constants, 2 streams of 2 contexts; one profile is read by Python code and has an export, the other one's table of kernels is rehashed | 192,721 |
| `launch_path_rehash` | three profiles, all read by Python code | | violated |
| `kernel_registry` | reference counts | 3 calls, 3 cubins, 4 addresses | 800 |
| `disk_cache` | locks, eviction; liveness | 2 processes, 2 keys of sizes 1 and 2, limit 2, clocks with 2 values, 2 files | 518,733 |
| `benchmark_worker` | right times, no stray workers; liveness | 2 threads (one a daemon), 2 workers, 2 calls | 135,437 |
| `token_order` | the orders | 2 alias groups (3 alias sets), 3 operations, 2 nested blocks | 2,880,892 |
| `token_order_parallel` | what parallel stores wait for: overlapping alias sets, the documented release | 2 operations, 1 block | violated |
| `dataflow` | what the analysis promises; it ends | 7 kernels, 2 parameters of each kind at most, 3-bit numbers and 4-bit addresses, divisors up to 4 | 15,714 |
| `compile` | the compiler's pipeline | 491 kernels, 5 pairs of arguments, 7-bit integers, 12 iterations | 7,371 |
| `compile_hoist` | a loop whose bound the loop around it computes | | violated |
| `kernel_args` | arguments from the call to the device | 2 streams and a worker, 4 arrays in 2 allocations, 4 list contents, 4 parameter lists | 535,423 |

### Properties

*StreamBuffer.* `MemorySafe` (`NoOverlap` and `LiveMemoryMapped`) is the memory safety of the
pool; `EveryChunkOwnedOnce`: no chunk leaks or is on two lists, also after a
failure; `HandleValid`: a transaction keeps its buffer while others reclaim;
`IdleStreamReclaimable` and `NewOnlyWhenNeeded`: the pool reuses what it can before
it asks the driver; `ImplementsPromise`: the refinement.

*LaunchPath.* `LaunchesOwnKernel` relates the kernel a thread is about to
enqueue, the data in its helper, and its request; `NeverUndefined` and
`TransactionUnderLock` are about what another thread may do while the lock is
away; `ContextRestored` about failures; `CachedKernelStays` about the kernel that
two threads compile at once; `EveryCallReturns` is liveness.

*KernelRegistry.* `NoUseAfterUnload`: a call that can execute has its own cubin
loaded; `LoadedWhileUsed`: nothing is loaded that no call refers to (`NoLeak`), and
no cubin twice (`LoadedOnce`).

*DiskCache.* `NoStaleLock`: however an operation ends, it leaves no lock;
`OldestFirst`: rows leave only when the file is over its limit, and no row that
stays is older than one that leaves, over the batches of one eviction;
`OverByOneRow`: how far the cache may stay above its limit; `CallReturns`.
Eviction (`_cache.py:131`) takes the oldest rows while their sum does not exceed
the excess, so the size documented as a maximum (`docs/source/debugging.rst:56`) is
kept up to less than one row, which is what `OverByOneRow` says.

*BenchmarkWorker.* `OwnTime`: the time is of the kernel that was asked for;
`StaleOnlyByInterrupt`: nothing but an interrupt leaves an answer in the pipe of
a worker that is used again; `NoStrayWorker`: every process that runs and was
sent no signal belongs to someone who will stop it; `CallReturns`, `WorkersGone`.

*TokenOrder.* `ProgramOrder`, `AcquireOrder`, `ReleaseOrder`: the token with which
an operation starts waits for the operations that have to come first.

*Dataflow.* `AssumptionsHold`: what is written down of a variable is true of each of its
values; `PointersKnown`: two variables that may point to the same memory have alias sets in
common (`AliasesFound`), which is what `TokenOrder` relies on, and no pointer to memory whose
elements may overlap is said to have none (`InternalAliasKept`), which parallel stores rely on;
`FixpointReached`: the analysis stops where another walk would change nothing; `AnalysisEnds`.
(`OnlyWeaker`, that it never strengthens a promise or forgets a variable, is proved.)

*KernelArgs.* `KernelsFindTheirArguments`: what a kernel reads through its
parameters, from the copy of its lists to its end, are the arrays that were read
from the caller's objects; `ConstantsAreTrue`: what it was compiled for is true of
each of them; `EndsAreExplained`.

*Compile.* After every pass: `KeepsMeaning` (the program stores what the function
stores, for every pair of arguments for which the function ends), `WellFormed`,
`NoInternalError` (a program is compiled, or refused with an error of its own);
after dead code elimination `NothingDeadIsLeft`; after code motion
`InvariantsAreHoisted`; at the end `CodeKeepsMeaning` (the bytecode, read back,
stores the same) and `CodeNamesItsSource` (each operation read back has the location
of the one it was written for).

For `StreamBuffer`, `LaunchPath`, `KernelRegistry`, `TokenOrder`, `Dataflow`, `DiskCache` and
`BenchmarkWorker` the type invariant is proved (section 4) and left out of the runs.

### Why the bounds are enough

- *StreamBuffer*: the actors are the streams, and every rule of the pool is about
  one buffer and one other. Two chunks are enough for a list of two, for a full
  pool, and for one chunk in each of two lists, on the free list or with the
  driver; size 1 fits the first capacity and 4 forces it to grow; for 10 the doubling loop
  gives up, and 18 is refused before the rounding could wrap. `MaxPending` bounds what the
  device has still to do; with 2, the event of an earlier transaction can be
  pending behind or before a later one. The proofs have none of these bounds.
- *LaunchPath*: tables start with four buckets and move at the third insertion
  (`hash_map.h:75`): three kernels of one profile move theirs, while two profiles
  leave the table of profiles where it is; with three it moves, which is the
  finding of section 5. Two threads are enough for one that waits with a
  pointer and one that inserts.
- *KernelRegistry*: three calls let two share a cubin while a third comes or goes;
  there is one address more than calls, so that a freed one can be used again.
- *DiskCache*: two processes are one that holds a file and one that unlinks it.
  Two keys of different sizes are one that goes and one that may stay, in either
  order of time. `RowLimit` and `RowGrowth` are 1 and 2 instead of 100 and 10, so
  that two rows need a second batch. Two files: the one a process still holds and the one
  that replaced it; a file nobody holds is free to be used again.
- *BenchmarkWorker*: `MaxCalls` is 2, one that leaves a trace and one that may find
  it; two workers are one that is dropped and its successor.
- *TokenOrder*: two groups give overlapping and disjoint alias sets; three
  operations are what is needed for one before, one in and one after a block.
  `MCSummaries` chooses blocks with all effects, loads only, and single alias sets
  with one stored, which are the ones that can hold parallel stores.

- *Dataflow*: the kernels are one for each way in which a predicate comes late or meets
  another: a product, a difference and a conversion carried by a loop, arrays that change
  places in a loop, a chain of three variables that needs a walk for each, arrays from a list, a
  pointer that was loaded. The numbers 2, 3 and 4 have
  common divisors and none, 0 has all, and products and differences wrap at 8 and 2. 4 for
  `MAX_DIVBY` is reached and exceeded. The proofs have none of these bounds.
- *KernelArgs*: a chunk of 36 words holds the lists of two launches, each up to
  18 words, so two streams share it and a region follows one that is over.
  Lists of one, two and three items make the arena grow between items; the arrays
  differ in rank, extent, alignment and allocation; one is read by Python code,
  which may put any of the contents in place of the list. One parameter
  list has a list with a negative static axis, an array, and a list again, so that
  the second list has an offset; one has an axis that does not exist.
- *Compile*: the programs are families, skeletons with holes that are filled in all
  ways from short lists: `Splits` (18 comparisons with the induction variable, 5
  bodies), `Nests` (values of neither, the outer or the inner loop), `Whiles` (ways
  out of a loop in pairs), `Inlined` (6 helpers, 6 callers), `Products`, `Divisors`,
  `Lost` (dead values, locals set on some ways), `Mixed` (loops of both kinds in
  loops of both kinds), `Conversions` (numbers as conditions, comparisons as numbers)
  and `Refused`. The arguments
  make loops run zero times, once and several times, and products wrap at `Half`
  = 64. `Fuel` bounds the iterations that a run is followed for; a function that does
  not end within it is not compared.

Symmetry is used for model values that the code does not tell apart and only in
runs without liveness. `CHECK_DEADLOCK FALSE` is set for `BenchmarkWorker`, whose
process ends, and `TokenOrder` and `Dataflow`, whose executions do.

### Fairness

- *LaunchPath*: strong fairness of each thread's `Work`. The interpreter hands the
  lock over on request, and calls into Python and the driver return. A thread
  whose step is enabled again and again because others release the lock gets
  its turn. Failing (`Fail`) and new calls (`Enter`) are not assumed.
- *DiskCache*: weak fairness of each process. A process that waits for a lock is
  never stuck: SQLite's timeout of five seconds (`_cache.py:35`) enables `Fails`. The
  mutant without the timeout loses the property. Crashes and damage are not assumed to happen or not to happen.
- *BenchmarkWorker*: strong fairness of taking the Python lock; weak fairness of the
  parent's steps, each of whose waits has a timeout; weak fairness of a worker that
  reads its pipe or dies of a signal. **No** fairness for `Finish`: a kernel may never
  end, which is why the module exists.

- *Dataflow*: weak fairness of the walk, one function that waits for nothing. **No**
  fairness of the kernel that runs.

No liveness is stated of the other passes: each is one step.

## 4. What is proved

The proofs hold for every value of the constants that satisfies the assumptions
named in each module: finite sets where a free list or a table is finite, null
values that are none of the objects, and at least as many buffers as streams
(helpers as threads), which says that objects are allocated when they are needed.

| Theorem | States |
|---|---|
| `StreamBufferProofs!TypeCorrect`, `NeverReusedOrFreed`, `ListsSound`, `HandlesStayValid` | the safety invariants of the pool, for any streams, chunks, sizes |
| `StreamBufferProofs!EventsInOrder`, `IdleStreamsReclaimed`, `PoolSettles` | events fire in the order of the list; nothing of an idle stream stays pinned; the driver is asked only when all is in use |
| `StreamBufferProofs!Implementation` | the pool implements `StagingMemory` |
| `LaunchPathProofs!TypeCorrect`, `OwnKernel`, `ClosedWithTheLock`, `ContextsPutBack` | the invariants of the launch path, whatever the arguments run |
| `LaunchPathProofs!KernelsStay` | a cached kernel is never replaced |
| `LaunchPathProofs!NativeLaunchesSafe` | with arguments that run no Python code and no exports, no moved item is read |
| `KernelRegistryProofs!TypeCorrect`, `NeverUnloadedInUse`, `LoadedExactly` | the registry |
| `DiskCacheProofs!TypeCorrect`, `LockEnds` | no lock outlives the operation that took it, for any processes, keys and files |
| `DiskCacheProofs!EvictsEnough`, `EvictsOldest` | eviction stops within one row of the limit, and removes the oldest rows only, for any sizes and times |
| `BenchmarkWorkerProofs!TypeCorrect`, `OwnTimes`, `StaleByInterrupt`, `NoStrays` | the safety properties of the worker, for any threads, workers and calls |
| `KernelArgsProofs!EndsExplained`, `ConstantsTrue` | how a call may end, and that a kernel's constants are true of its arrays, for any arrays, parameters and list contents |
| `KernelArgsProofs!ArgumentsArrive` | a kernel that runs finds the arrays that were read for it, for any streams, chunks, launches and benchmarks |
| `DataflowProofs!TypeCorrect`, `Settles`, `PromisesOnlyWeaken` | the analysis only takes promises back and stops only at a fixed point, for any kernel |
| `DataflowProofs!AssumptionsTrue` | what is written down of divisors is true of every value, for any kernel and path, and numbers of any width |
| `DataflowProofs!PointersFound` | pointers that may meet are known to, for any kernel and constraints |
| `TokenOrderProofs!TypeCorrect`, `ProgramOrdered`, `AcquireOrdered`, `ReleaseOrdered` | the orders, for any alias groups, any kernel, any nesting |

### The arguments

*StreamBuffer.* `IndInv` is the conjunction of the checked invariants and
`AvailWithinCapacity`, without which a later carve could leave its chunk. The
critical step is reclaiming: `PollCutsSafe` shows that polling takes no chunk of a
live region. That needs `RegionsPinned`, which is not a consequence of memory
safety: it relates each live region to the transaction head or to the event of
its chunk. All paths of `allocate` that take a chunk are then instances of one
lemma (`TakesChunkInductive`). `Close` has to record the event on all chunks from
the head to the tail, and `Finish` counts regions and events down together.

Polling stops at the first event of a list that is pending. That it thereby leaves nothing
behind that has fired needs `EventsOrdered`: along the chunks of a list that no
transaction uses, events do not fire later than those after them, on any stream, and no event of a
stream is further away than its work. With it, an idle stream's chunks have
all fired and can be reclaimed (`IdleStreamReclaimable`), and a chunk is asked of the
driver only after every other one was found in use (`NewOnlyWhenNeeded`).

*LaunchPath.* `LaunchesOwnKernel` alone is not inductive. It needs that helpers in use
are distinct and not on the free list (`OwnHelper`), that their data is the
request's (`OwnData`), that the tables map constants to kernels of these
constants (`KernelsMatch`, `ItemsMatch`), and that from `Switch` on the thread
holds the lock (`LockHeld`). `Fresh` is proved on top of it under `Native`: the
lock is held wherever a pointer is kept.

*KernelRegistry.* `CountExact`: the count is the cardinality of the set of states that
refer to the entry. `SlotsLoaded` and `LoadedInSlots` make slots and loaded
entries inverse to one another, and `StatesBound` ties a state to its entry. The
cardinality of the set after attaching and detaching one state is two lemmas.

*DiskCache.* `NoStaleLock` says that a lock's holder is inside a transaction; it is
inductive with `LockHeld`, its converse, without which a commit might release the
lock of another process. The lemmas follow the parts that the actions share
(opening, closing, writing), one for each. On top of it, `Evicting` says of an
eviction between two statements that the rows still there are as they were and no
older than those deleted, and that there was an excess if any is (`RowsKept`); at
the commit, that the table is within one row of the limit (`WithinOneRow`). What this needs to know of sums over the rows (`Total`) is
shown by induction over the subsets of a finite set (`SubsetInduction`), stated
with a set in place of an operator.

*BenchmarkWorker.* Four layers, each on top of those before. `Base`: only the
thread that holds the lock is past it, and the runner's worker is the one that
thread talks to. `Numbers`: whatever carries the id of the call that waits, in
either pipe or in the worker, has that call's payload; ids are given once.
`OwnTime` follows from it, since an answer with another id is refused. `Pipes`: a
worker that the next benchmark may use and that no interrupt has touched has
nothing in its pipes unless a caller waits, and then one message at most, that
caller's. `Known`: a worker that has connected and that nobody has tried to kill is
the runner's or the one that `atexit` stops.

*KernelArgs.* The first two results come from one invariant of the loop over the
arguments (`ArgsInv`, whose part `Read` speaks of the loop). The constants that are written down are true of what was read for them
(`Known`). Inside a list (`InList`), every item so far has the builder's type, keeps the
builder's promises and has the extents of the first item (`Built`), and the words of the
first item still tell its shape where the builder points to (`Tells`). Items are
pushed behind these words, but each also writes its offset into the middle of the
arena: that this write meets neither the first item nor the new one needs that the
offsets lie between them. Where a parameter has static axes the arena has the
room it had when the list was begun, so that the next read through the builder's
pointer goes wrong only if this very item makes it grow. Once a call is read, the
pair of arrays and constants goes unchanged through staging, the queue of the
device or the payload (`AllKnown`).

That the arrays arrive needs all that lies between reading and running
(`WordsInv`, which `ArgsInv` supports). `Spread` says where in the arena the
words of each argument lie (`Laid`) and that the parameters of the kernel point to
them in order. `Apart` gives every list a part of the staged data, behind those of
the lists before it, and `Listed` says that the pointers that the export replaces by the
worker's are exactly those in the arena. Staging fills a region list by list; each
list leaves the parts of the others alone (`StagingWords`). From then on
`Delivered` holds of the launch, in the host's memory before its
copy and in the device's after it (`QueueWords`). It stays because the regions of
launches that are not over never overlap (`Regions`). For this the queue of a
stream has to be tied to the transactions of `StagingMemory`: there is a numbering
of the queue's entries, ascending, in which each entry's regions count down to
its own end (`InOrder`), so that the regions that `Finish` gives back are those of the launch at the
head and of no later one. `Opened` is needed for the worker, whose addresses
mean something only while its call waits.

*Dataflow.* A promise about divisors is not an invariant of the values as it stands: 3
divides 6 and 12, but with numbers that wrap at 16 not their sum. What is kept are the
powers of two in a divisor (`PassesOn`), because the width of a number is one of them: a
power up to the width passes on to what is left after wrapping, and a multiple of a
larger one wraps to zero (`WrapPasses`). Sums and products of divisors keep them too; for
the product of any two numbers this is an induction over powers (`PassesProduct`). Since `d & -d`
up to `MAX_DIVBY` is such a power, and smaller powers divide larger ones
(`PowerChain`), what is written down is true.

The second half is the fixed point. `Settled`: while a walk has changed nothing, every update that it
has passed would change nothing now. A walk that ends so makes every promise of an
update already part of the facts of its result, whatever the order in which the updates then
run (`FixpointKeeps`). With it, `ValuesSound` is inductive: each value has what its
variable's facts promise, number, place and, for a list, the arrays in it
(`KeepsFacts`), by one lemma over all operations (`ResultsKeep`). Without the fixed point it
is not, which is what the mutant of `Stop` shows.

*TokenOrder.* What the properties need is what a token map knows (`Knows`): `LAST_OP` of
an alias set waits for all operations on it, `LAST_STORE` for all stores, the
acquire token for all acquires. Since a block falls back to the tokens from
before, the saved map of every enclosing block must know everything except what
that block carries. `Inside` says that an inner block carries no more than the
outer one, and `Apart` that the parallel stores of a loop are the only operations
on their alias sets in it. The four kinds of operations share one lemma
(`ExecuteInd`), the three ways to leave a block another (`LeaveInd`).

### Only model-checked

The pipeline of the compiler (`Compile`) and every liveness property, `AnalysisEnds` among them. Liveness and `ENABLED` are beyond the installed provers, as is
induction over data by the library's theorems, whose parameter is an operator; where
the induction can be over a set it is proved (`SubsetInduction`, `Enumeration`,
`PowerInduction`). `TileIR`,
`PyProgram`, `AstToHir`, `HirToIr` and `Passes` recurse over blocks with `RECURSIVE`
operators, which rules proofs about them out; no module with proofs
uses them.

## 5. Where code and documents disagree

### Runs in which TLC finds the counterexample

1. `launch_path_rehash`: `prepare_launch` (`cext/tile_kernel.cpp:2590`) keeps a pointer
   into `arg_profiles` while it reads arguments. Reading one through
   `__dlpack__` or `__cuda_array_interface__` may run Python code; another thread
   that inserts the profile that makes the table grow moves what the pointer
   points at. The changelog names free-threading as supported, and
   `test/test_concurrent_launch.py` launches concurrently.
2. `token_order_parallel`, in two ways, each of which TLC finds by itself (`AliasOrder`,
   `ReleaseDocumented`). A tile store with release order that is the only operation on its
   array in a loop becomes a parallel store, whose token does not wait for
   operations on other arrays (`tile/_passes/token_order.py:541`), although
   `tile/_memory_model.py:46-49` says prior reads and writes are not reordered after it.
   `ReleaseOrder` is what holds: every other release.
   A parallel store waits for operations before the loop on exactly its alias set
   (`tile/_passes/token_order.py:559`), not on those that overlap it. Two parameters may alias when they have *one* group in common
   (`tile/compilation/_signature.py:55-56`). `ProgramOrder` leaves this case out.
3. `compile_hoist`: code motion (`tile/_passes/code_motion.py:97-104`) does not count
   the bounds of a nested `for` loop, nor the values its `continue` hands over, as
   dependencies, and moves the loop above the definition of its own bound, although
   line 58 says an operation that depends on another one in its block cannot be hoisted.

### Other places found while modelling

The programs of the run `compile` keep clear of these; 1, 2, 4 to 7 and 11 were confirmed by
running the compiler on an example.

1. `tile/_passes/loop_split.py:35` looks up the depth of the value a comparison
   compares with. Kernel parameters, induction variables of loops around and
   carried variables have none: `KeyError`. `docs/source/execution.rst:106` says
   control flow can be nested arbitrarily.
2. `tile/_passes/ast2hir.py:1058` looks at the innermost loop only: a helper's `return` in a
   `while` inside a `for` is accepted, and puts a `break` into the `for` loop.
3. `tile/_passes/loop_split.py:101`: for `>` and `<=` the split point is one more than
   the compared value, and wraps at the largest value of the type.
4. `tile/_passes/ast2hir.py:1181-1193`: two jumps among the statements after a jump
   fail the assertion at line 245.
5. `tile/_ir/control_flow_ops.py:246`, `ir.py:163`: an assertion fails for a carried
   variable whose value at a `break` has inconsistent types, and for a local of a
   `while True` loop without `break`, although `ir.py:327` says the body's type is used.
6. A local that is not defined before a `while` loop and is an integer at the `break`
   and a float at the end of the body makes an ill-typed loop, although
   `ir.py:336-337` says it is safe to overwrite the type of the body's variable.
7. Storing the result of a helper that returns nothing ends in an internal error.
8. `cext/tile_kernel.cpp:868`: `first_array_shape` points into the arena, which grows
   while later items of the list are read; with static extents, the comparison and the
   constants then come from memory that was given back. The list of three
   16 x 16 arrays in `test/test_list.py:69-85` is enough to move a fresh arena. `kernel_args` reaches
   this state; `EndsAreExplained` says exactly when.
9. `cext/tile_kernel.cpp:899-900`: a static axis that does not exist ends the process by a
   `CHECK`, for an array or a list of one item, although `normalize_dim` (841-850)
   has an exception for it. `kernel_args` reaches this, too.
10. `cext/tile_kernel.cpp:1516`: `PyList_GET_ITEM` is called for the length the list
    had before its first item was read.
11. `tile/_passes/hir2ir.py:213`: the location of a helper's parameter is not retargeted to the
    inlined copy. When a loop of the helper carries the parameter, also the loop around a body
    that returns early, and its values have a power of two as a common divisor, the
    assumption that says so (`propagate_divby.py:76`) has that location, and the
    assertion at `tile/_ir2bytecode.py:311` fails, although the comment above it says that
    hir2ir makes every helper concrete. `def h(a): while True: a = a + 2; if a > 4: return a`,
    called as `h(2)`, is such a helper: the compilation ends in an internal error. The model does the
    same (`Concrete`).

## 6. What is not modelled

- *Tables and formats*: the sections of a bytecode file and its tables of types and
  strings, data types, promotion and typing rules of the
  single operations, the JAX integration, the byte format of payloads. They keep no
  shared state, and their correctness is a table.
- *Generated or declarative*: bindings, stubs and the encodings of the operations that `TileIR` lacks (`_mlir/`, `_stub.py`,
  `_bytecode/encodings.py`), which are more than half of the lines of the
  repository and have no behaviour of their own.
- *Thin or external*: the CUDA loader, context and dispatch. The driver, SQLite, XLA,
  processes and pipes appear as the code uses them.
- *The CUDA language* under `experimental/`: a second language with its own
  frontend that shares the design of the parts modelled here.
- *Planned* (section 7): tuner search, mutex, coroutine runner, name mangling.

Within the modelled parts: a launch reads one object per type, so a
classification that depends on the instance (`cext/tile_kernel.cpp:538`) is not seen;
whether the driver waits for running kernels when
a library is unloaded is not in this code. A launch of `LaunchPath` has one
parameter tuple instead of several arguments, because the tables are keyed by the
tuple. `KernelArgs` has no scalars, DLPack capsules, hoisted tensor maps, strides
other than row-major, nor the test for disjoint elements; objects live as long as the call.
`Compile` has the analysis for divisors of integers only; pointers, lists and alias sets
are in `Dataflow`, which in turn takes a program's updates without their blocks, and leaves to `Passes`
which variables get an assumption. `TokenOrder` takes any alias sets, and takes the pass's word (`_filter_by_store_index`,
`tile/_passes/token_order.py:522-541`) that a store indexed by the induction variable meets another tile
in each iteration: that the array is the same one in each of them is not checked there, and a
slice whose start depends on the iteration was read as a case to look at, not run. In `Dataflow` a
constraint without alias groups is the empty set (`_signature.py` refuses `None`), and tuples of
parameters are flattened.

In `BenchmarkWorker` a pipe takes a request at once. The code sends without a
timeout (`tile/tune/_tune_utils.py:54`), so a payload larger than the buffers of the system would
block while the worker is still busy with an interrupted benchmark; how large
payloads and buffers are is not in this code. Interrupts come while the caller
waits, for an answer or for a connection, which is where it spends its time.

Not listed as a hazard because the code alone does not decide them:
`compiler_timeout` (`tile/_context.py:122`) is documented as not thread-safe; the deleter of a
DLPack tensor runs before the launch (`cext/tile_kernel.cpp:1166`), which is safe for producers
that hand out views; a daemon thread may start a worker after `atexit` ran
(`tile/tune/_tune_utils.py:96`), which nobody kills.

Real, and outside what the modules see: `evict_lru` does not catch `OSError`
(`tile/_cache.py:139`) as the other two functions do, so a cache directory that cannot be made fails
a compilation that succeeded; `get_sm_arch` (`tile/_compile.py:803`) is cached for the process, so a later
launch on a device of another architecture compiles for the first.

## 7. Plan

In the order of importance for the system:

| Module | Models | Properties and theorems | State |
|---|---|---|---|
| `StagingMemory`, `StreamBuffer` | the pool and its promise | memory safety, reuse, refinement | checked, proved |
| `LaunchPath` | launches, caches, lock | own kernel, no moved pointer, liveness | checked, proved |
| `KernelArgs` | arguments, lists, payloads, on top of `StagingMemory` | what a kernel finds, what it was compiled for | checked, proved |
| `KernelRegistry` | shared libraries of XLA calls | loaded exactly while used | checked, proved |
| `TokenOrder` | order of memory operations | program, acquire and release order | checked, proved |
| `Dataflow` | the analysis and what it promises of a run | assumptions true, aliases found, fixed point, ends | checked, proved |
| `TileIR` ... `Compile` | the compiler's front end, passes and bytecode | meaning, form, no internal error | checked |
| `DiskCache` | cache shared by processes | eviction, locks, liveness | checked, proved |
| `BenchmarkWorker` | worker process and timeouts | right time, no stray worker | checked, proved |
| `Compile` with loads | loads and tokens in the pipeline; hoisting of loads (`_compile.py:110-112`) | a hoisted load keeps its order | planned |
| `TileMutex` | the emitted spin lock of `_mutex.py` | mutual exclusion | planned |
| `ExhaustiveSearch` | phases of `tune/_tune.py` 238-392 | ends; keeps the best | planned |
| `Coroutines` | the explicit stack | refines recursion | planned |
| `Mangling` | names of kernel signatures | inverses | planned |

## 8. Running it

    tlc -workers 2 -config MCStreamBuffer.cfg MCStreamBuffer
    tlapm StreamBufferProofs.tla

A run is an `MC*.cfg` file with the `MC*.tla` module whose name it begins with. The
longest runs take about two minutes with two workers; the
proofs take some minutes each.
