# A TLA+ model of wasm4s-extism

wasm4s-extism is MAIF's fork of Extism: a Rust runtime that runs WebAssembly
plugins with wasmtime, a small memory manager ("kernel") that is itself a wasm
module, a C API, a Java binding on top of it, and the extensions of the
Otoroshi gateway (native calls, shared memories, a host-side allocator). This
directory holds TLA+ modules of its stateful parts, the TLC configurations that
check them on small instances, and TLAPS proofs. Paths below are relative to
the root of the repository.

## Inventory

| Part | Source | State | Operations | What makes it correct |
|---|---|---|---|---|
| Kernel memory manager | `kernel/src/lib.rs` | the root (position, length, registers) and block headers inside one wasm memory | alloc, free, length, input/output/error registers, reset | live buffers never overlap, headers survive every split and reuse, arithmetic never wraps, registers never point outside the heap |
| Timer | `runtime/src/timer.rs` | a channel, a map of running calls, one thread | Start, Stop, Cancel, Shutdown, the deadline scan | no message disarms another call, returned calls are forgotten, exit joins, deadlines interrupt |
| Plugin calls | `runtime/src/plugin.rs`, `sdk.rs`, `otoroshi/sdk.rs` | instance lock, instance, cached output and error, wasmtime store | instantiate, set_input, call, get_output_after_call, return_error, native call, config, reset, the reads after a call | a call is judged and read back by what its own guest did; every path gives the lock back |
| CurrentPlugin | `runtime/src/current_plugin.rs` | variables, HTTP status, memory limiter, raw pointers to the plugin | memory accessors, set/clear error, growth limit | what a plugin gets beyond its first memories is bounded by the manifest's maximum; host functions reach their plugin wherever it was moved |
| PDK | `runtime/src/pdk.rs` | variables, HTTP status | var_get/set, http_request, config_get, log | the store has a limit, variables outlive calls and failures, only URLs of allowed hosts are asked for |
| Host functions | `runtime/src/function.rs`, `sdk.rs` | cells, reference-counted user data, raw pointers in the linker | registration, creation of plugins, call, free | user data outlives its users and is freed once |
| Log drain | `runtime/src/sdk.rs` | a global buffer and its mutex, the subscriber | log, drain, set a file or a buffer | every line is handed out once, in order; a drain ends, and only callbacks deadlock |
| Otoroshi custom memory | `runtime/src/otoroshi/custom_memory.rs` | live map, free list, position | alloc, free (with compaction), reset | live blocks never overlap |
| Otoroshi memories | `otoroshi/wasm_memory.rs`, `otoroshi/sdk.rs` | wasm memories in the linker, by name | create, read, size, write, reset | a reset parts the host's memory from the guest's |
| Manifest loading | `runtime/src/manifest.rs`, `manifest/src/lib.rs`, `build_new` | none (pure) | module naming, hashes, linking order | one `main` module, no duplicates, imports found where they are linked |
| Conversions | `convert/src` | none | encodings | round trips |
| Java SDK | `java/src/main` | native pointers | call, error, free | throws exactly when the call failed |

How they interact. A client thread (Java or C) enters `extism_plugin_call`, takes
the plugin's instance lock and stays inside `Plugin::raw_call`: that instantiates
the module on first use, resets the kernel and stores the input in it, sends
`Start` to the timer's channel, runs the guest, sends `Stop`, and copies the
kernel's registers into `Plugin::output`. The guest, and host functions it calls
on the same thread, allocate in the kernel and set its registers. A failure is
written back into the kernel and the cache by `return_error`. After the lock is
released the client reads output or error with further calls, each under the
lock again. Cancel handles are used by other threads without the lock, and so is
`extism_plugin_reset`. The custom memory is a second allocator, used by host
functions on the guest's exported memory; it shares nothing with the kernel.
Everything a host function does for the guest goes through raw pointers that
`CurrentPlugin`, inside the store, holds to the fields of the `Plugin` that owns the
store. A plugin is made from a manifest, whose modules are linked one by one, and
from the functions in the cells of its caller, which it then owns; the closures of
these functions share their user data with the caller's callback that frees it.
Most of these operations write log lines, into a buffer that other threads drain
with a handler, which may itself call the API.

What is hard here: two allocators whose bookkeeping only goes wrong after
several frees and splits; ownership that moves between caller, cell, plugin and
linker, with failures in between; pointers that a move makes stale; limits that are
counted before the fact; handlers that run under a lock; messages of calls, cancels and exit interleaving in
the timer's channel; results cached in one step and read in another; failures at
each of raw_call's steps; panics past a lock; 64-bit lengths on a 32-bit machine.
PROJECT.json lists these as hazards, each at its line.

## Modules

| Module | Models | Composes |
|---|---|---|
| `Heap` | what the kernel promises: live buffers at disjoint ranges, at most one of them the input | |
| `Kernel` | the kernel's allocator, registers and reset | implements `Heap` by the refinement mapping at its end |
| `KernelProofs` | the inductive invariant of `Kernel`, its theorems, and the proof that `Kernel` implements `Heap` | extends `Kernel` |
| `Timer` | the timer thread and its clients: calls, cancel handles, process exit | |
| `TimerProofs` | its inductive invariant and theorems | extends `Timer` |
| `CustomMemory` | the otoroshi allocator | |
| `CustomMemoryProofs` | its inductive invariant and theorems | extends `CustomMemory` and `SumProofs` |
| `Plugin` | threads sharing a plugin, both kinds of call, configuration, reset, and the reads after a call | |
| `Calls` | what a plugin promises the threads that share it: atomic calls, each judged by its own guest | |
| `PluginRefinement` | the refinement mapping by which `Plugin` implements `Calls` | extends `Plugin` |
| `PluginProofs` | the inductive invariant of `Plugin`, its theorems, and the proof of the refinement | extends `PluginRefinement` |
| `Memories` | the wasm memories of a store, the limiter over them, the shared linear memories | |
| `CurrentPlugin` | a plugin's calls seen from inside the store: instantiation, pointers, kernel buffers, the guest | extends `Memories` |
| `Pdk` | the functions a guest imports and the host functions on linear memories; the specification | extends `CurrentPlugin` |
| `PdkProofs` | the inductive invariant of a store and the theorems about limiter, pointers and variables | extends `Pdk` and `SumProofs` |
| `Linking` | from a manifest to modules to a linked plugin, with a reference definition (pure operators) | |
| `HostFunctions` | functions, their user data and the plugins that own them | extends `Linking` |
| `LogBuffer` | the log subscriber, its buffers, `extism_log_drain`, and the mutexes of the buffers and of one plugin's instance | |
| `Sdk` | the C API outside calls: functions and plugins made and freed by threads that log, in and out of drain handlers and host functions | extends `HostFunctions` and `LogBuffer` |
| `LinkingProofs` | the loops of `Linking` agree with its reference definition | extends `Linking` and `SumProofs` |
| `SdkProofs` | the inductive invariants of `HostFunctions`, of `LogBuffer` and of the mutexes, and their theorems | extends `Sdk` and `LinkingProofs` |
| `SumProofs` | lemmas about sums over finite sets (`SumFunctionOnSet` of the community modules) | |
| `MCKernel`, `MCKernelWide`, `MCTimer`, `MCCustomMemory`, `MCPlugin`, `MCPdk`, `MCSdk` | the instances that TLC checks | |

Operators whose comment begins with "Mutant" are not part of the model: each is a
plausible bug in the definition that follows it. For every property of every
passing run PROJECT.json names one that violates it, as evidence that the
property can fail.

### Kernel

State: `block` maps the offset of each header (from the root's `blocks` field) to
its `status`, `size` and `used`; `position`, `length`, `input`, `output` and
`error` are the fields of `MemoryRoot`; `pages` is `memory.size`. Since the module
runs in one wasm instance, one export at a time, each export is one action.

- `Alloc(n)` is the exported `alloc`: `AllocReuse` for the first block that
  `find_free_block` accepts (`TakeWhole`, or `TakeTail` when at least 128 bytes
  remain), `AllocBump`, `AllocGrow` with `memory.grow`, `AllocFails` when growing
  is refused, which the engine may do at any time.
- `Free(p)`, `InputSet`, `OutputSet`, `ErrorSet` and `Reset` are the exports of
  these names. Blocks persist as map entries where the code walks with
  `next_ptr`; `HeapTiled` says that both visit the same blocks.
- `LengthOf` is `length`; `WalkTraps` is the case in which its walk leaves memory.
- Every conversion from u64 to usize goes through `Usize` (modulo `WordMod`).

The layout constants (root 64 bytes, header 12, size field ending at byte 8) are
those of a wasm32 build of the two `repr(C)` structs. The 16 initial pages are
those of the shipped `extism-runtime.wasm`. Offsets in registers are handles, or 0:
what "h must always be a handle [...] len must match length(handle)" asks for and
what the host passes. A guest that designates a part of a block with `output_set`
is not modelled.

### Timer

State: `queue` is the mpsc channel, `armed` the thread's map (an entry records for
which call it was made, which the code does not), `loop` where the thread is in
its loop, `pc` and `call` the thread of each plugin, `exit` the exit handler.
`Handle` is the `handle!` macro, used by `Receive` (the blocking recv) and `Drain`
(try_iter); `Filter` is the deadline scan. `Elapse` lets time pass a deadline.
`HostPanics` is a host function's panic: `Stop` is never sent.

### CustomMemory

State: `live` and `free` are the map and the Vec (its order matters:
`swap_remove`, and the compaction looks at neighbours in the list), `position` and
`pages`. `compacted` and `emptied` (a block of length 0 was freed) are history variables.
Requests may be of any length, 0 included: the code then makes an empty block at the
offset the next block gets too, or takes a freed empty block whose offset is that of a
live one and writes over its length. `Compact` is the loop of `free`,
translated as it is, as a function of the number of blocks already looked at. memory.grow may be refused.

### Plugin

State: `lock` and `poisoned` are the instance mutex, `instance` its content,
`kernel` the output and error registers in kernel memory, `cached` the
`Plugin::output` field, `pc` and `job` the thread's position and its call. Data is
represented by the number of the operation it belongs to. `raw_call` is five
actions (`Instantiate`, `SetInput`, `Start`, the guest's, `Finish`), each with all
its failures, followed by the caller's `ReturnError`. A call whose function name is not
UTF-8 (`Unnamed`) goes from the lock to `ReturnError` at once (`sdk.rs:488`,
`otoroshi/sdk.rs:31`): nothing is reset, so the output of an earlier call stays, and its error
too if that of the refusal cannot be stored. `FreshOutput` and `OwnError` make that exception,
`Calls` has an end of its own for it (`EndUnnamed`). `Codes` says what return code
is read from the results array when the guest did not return. `ReadLength` and
`ReadLast` are the further native calls of Java's `Plugin.call`.

Assumed of the environment: `extism_plugin_reset`, which takes no lock, is not
called while another thread is inside a call; doing so would let two threads use
one wasmtime store, which has no meaning.

`PluginRefinement` maps this state to `Calls`. A call is `current` while its thread
has the lock; the caches are on show whenever someone else may read them, which is
not during an extism call and not after a panic. That calls take effect one after
the other, although a failure can end each of them after any of its steps and the
registers and caches outlive them, is then the property `CallsAreAtomic`. What
`Calls` says of native calls is what the code does: a native call is also failed by
an error that is already on show (finding 6).

### Memories, CurrentPlugin, Pdk

The store of one plugin, over all its calls. `memory` holds the memories in the
order in which they were made: the kernel's, the shared linear memory (which
`build_new` makes before the limiter is installed), then the guest's own and those
that resets make. `limit` and `left` are `MemoryLimiter`; `MemoryGrowing` is
`memory_growing`, and every creation (`Create`) and growth (`Grow`, `GrowFails`,
`GrowRefused`) goes through it. `linked` is the memory the linker has under the
shared name, `imported` the one `instance_pre` resolved: `LinearMemoryReset` changes
only the first.

`phase` is where a call is: `Call`, `Instantiate` (memories and start function),
`Started` (the instance is kept and the limiter reset), `Initialized`, `SetInput`,
the guest, and back to idle. `place` is where the owner has put the `Plugin`, `pointers`
where `CurrentPlugin::store` and `::linker` point; `Move` is Rust moving the value
(the C API moves it once, into a Box). Following pointers to another place is
undefined: the plugin is then "stale" and takes no step.

`blocks` abstracts the kernel to its live buffers, whose correctness is the subject of
`Kernel`: an allocation finds some free offset, with or without growth of the
kernel's memory, or fails. `ConfigGet`, `VarGet`, `VarSet`, `HttpRequest` and `Log` are the
PDK's functions, with their early returns (`Err`, which traps the guest);
`http_status_code` only reads. `HttpRequest` compares the host of the URL, as the code does; where
the agent's redirects lead is not in sight. A call whose name is refused is a failure of `Call`.
`HostWrites`, `HostResets`, `HostResetPanics` and `HostReads` are the functions on linear memories and the reads of a plugin that is in no call.
Nothing is assumed of the guest.

### Linking, HostFunctions

`Modules` is the loop of `manifest::load` over the entries, `Links` what `build_new` does
with its result. Names are numbers in the order of the strings: the order of the
BTreeMap, in which libraries are linked, decides which imports are found: when a
library is linked, those whose names are smaller are in the linker (`LinksLib`).
`Accepted` is the reference definition, without loops: which entry is main, which
names may occur, what may import what. `MCSdk` assumes that they agree on every
manifest of up to three entries out of 19 (with and without a host function), so TLC
evaluates it before each run; the run's property `MadeAsReferred` states it of
every plugin that is being made, with the functions its caller really gave.

In `HostFunctions`, an element of `function` is an `ExtismFunction`: its cell, the strong
count of its user data, the calls of the callback that frees it. `PluginNew` takes
the functions out of their cells, `Build` or `BuildFails` ends the creation (other
threads run in between), `HostCall` and `HostCallReturns` are a call of the closure in
the linker, which clones the Arc, `FunctionFree` and `PluginFree` the frees.

### LogBuffer, Sdk

`subscriber` is what the process's tracing subscriber writes to, `log_buffer` the
global `LOG_BUFFER`; they are two things because `extism_log_custom` replaces the
latter before it finds out that it cannot replace the former. `holder` is each buffer's
mutex, `instance` that of one plugin's instance, `waits` which of them a thread waits
for. `Drain` takes the lock and the lines (and gives the lock back if there are none),
`Handle` is one call of the handler, after the last of which the lock is given back.
`TakeInstance` and `LeaveInstance` stand for every function of the C API that looks into
the plugin (`extism_plugin_error`, `extism_plugin_output_length`, ...) and for a call of its guest,
which has the instance locked all the time.

`Sdk` composes both: an operation of the C API either writes its line first (`Traced`,
or `Waits` while another thread drains) or writes none that the filter lets through
(`Silent`). The first line of an operation stands for all of its lines. `Enters` and `Leaves`
are the use of the first plugin, `Tells` a line written meanwhile. The code of the host runs
outside of all that, in a handler of a drain (`drain[t]` is not empty), and in a host
function that the guest of the first plugin calls (`InHost`); from each it may do anything,
and if it then writes a line, drains, or looks into the plugin, it may wait for another thread or
for itself. Two restrictions keep the model small: of the plugins' instances one
has its mutex, and a handler only looks into the plugin, it does not run the guest.

Assumed of the callers, all of which the code leaves to them: a thread does not
replace `LOG_BUFFER`, which is unsynchronized, during a drain; the errmsg pointer is
not null; a function or plugin that was freed is not used; a plugin is not freed
during a call of it.

## Runs

| Run | Instance | Shows |
|---|---|---|
| `kernel` | real layout, 16 initial pages and at most 17, requests of 4, 144 and 60000 bytes, at most 3 blocks | all kernel invariants, `BlocksPersist`, `AllocRoom`, and that `Kernel` implements `Heap` |
| `kernel_truncation` | a request of `WordMod + 4` bytes | violation of `AllocRoom`: a 4-byte block for it |
| `kernel_length_trap` | as `kernel` | violation of `LengthAnswers`: `length` traps for the last pointers of memory |
| `timer` | 2 plugins, one with a timeout, 2 calls each, cancels while fewer than 2 messages wait | the timer's safety and liveness |
| `timer_interrupt` | 1 plugin, 1 call | violation of `TimeoutInterrupts` |
| `custom_memory` | pages of 1024 bytes, requests of 0, 40 and 600, at most 3 blocks | bounds, and exact books until a compaction |
| `custom_memory_compaction` | the same | violation of `CompactionKeepsLiveApart` |
| `plugin` | 2 threads, 3 operations | verdicts, fresh reads, lock release, and that `Plugin` implements `Calls` |
| `plugin_success_code` | the same | violation of `SuccessCode` |
| `plugin_native_verdict` | the same | violation of `NativeVerdict` |
| `pdk` | 3 plugins (a limit of 2 and of 1 page, none), kernel and other memories of at most 2 pages, 4 memories, 2 places, buffers of 1 and 2 bytes at 2 offsets, variables limited to 1 byte | the limiter's bound, pointers, reset of linear memories, variables |
| `sdk` | 2 functions, 2 plugins made from 13 manifests, 2 threads, 3 lines, 2 buffers | ownership of functions and user data, manifests against their reference, order of lines, end of drains, deadlocks only from callbacks |

Why the bounds are enough. `Kernel`: 4 and 144 are on both sides of the split
threshold (a freed block of 144 is split for 4, which leaves 140 bytes, and taken
whole for 144), 60000 makes both
splitting of a large block and, with the root's 65472 initial bytes, the second
allocation grow the memory; three blocks are the fewest in which a split block
has a neighbour on each side. `MaxPages` makes growth succeed once and then fail.
`Timer`: the second call of a plugin is the one an old message could disarm; two
plugins show that entries do not mix. `CustomMemory`: one block of 600 can be split
for 40, two of them reach the 1024 bytes at which compaction starts, and a second
page is needed and then refused; an empty block shares the offset of the next one. The
page is smaller than the code's 65536 so that growth happens with three blocks. `Plugin`: an outcome can only leak from
one operation to a later one; three operations allow one in between. `Pdk`: the three
plugins are one whose limit a reset of the shared memory uses up, one whose own
memory the limiter refuses because its minimum is its maximum, and one without a
limit; the fourth memory is the one after the guest's, so a reset happens before
or after instantiation; two buffers are a key and a value, two bytes exceed the limit
of the variables by one value; a second place is enough to be elsewhere. Offsets are
interchangeable, hence the symmetry. `Sdk`: two plugins given the same function are
the fewest to dispute it, and a second one shows what the first left in the cell;
the second buffer is the one that is installed in vain; a third line is written
while the first two are being drained. The manifests are one for each way in which
`modules` and `build_new` end; the assumption about all short manifests covers their
combinations. Two threads are enough for a writer and a drain, or two drains, and for the
cycle of a handler that wants the plugin and a call that wants to log.

The truncation run uses a 30-bit usize, because TLC's integers have 32 bits; the
arithmetic is the same.

Runs say `CHECK_DEADLOCK FALSE` only where the system may stop: in `Timer`, when
every call has been made and the thread waits in recv; in `Plugin`, when the
operations are used up or every thread has panicked; in `Pdk`, when the process has
aborted or has followed a stale pointer; and in `Sdk`, when functions, plugins and
lines are used up or every thread waits for itself or for another.

Fairness. `Timer`: weak fairness of the timer thread (it is an OS thread that is
never blocked except in recv), of the exit handler's join, and of time. Nothing is
assumed of guests. `Plugin`: weak fairness of the runtime's own steps, which are
sequential code; guests need never end, and no thread need ever get the lock,
because the mutex is not fair. `Sdk`: strong fairness of a handler's return
(`Handled`), weak fairness of leaving the plugin that a handler looks into, and of
getting an instance that is free. A handler is code of the host that calls the API
finitely often; each such call returns unless it waits for a mutex. So it may
wait for as long as another thread keeps the instance, which may be in a guest that never
ends, or waits to write into the drained buffer; strong fairness only says that a handler
that can return again and again does, since it does not enter the API for ever.
`DrainEnds` says that a drain ends or comes to wait, and nothing of how long it waits. That
a mutex is given to somebody who wants it when it stays free is what std's Mutex
does; nobody need ever log or start a drain, and nothing is assumed of guests. `Pdk`
states no liveness: guests need not end.

## Disagreements between the code and its documentation

PROJECT.json quotes each line; a run shows each.

1. Requests of 2^32 bytes and more are truncated (`kernel/src/lib.rs:228`).
2. `length` may trap instead of returning 0 (`kernel/src/lib.rs:315`).
3. Timeouts (and cancellation) do not interrupt: `increment_epoch` is commented out
   (`runtime/src/timer.rs:77`, `105`).
4. Compaction makes live blocks overlap (`custom_memory.rs:147`).
5. `extism_plugin_call` returns 0 for a trapped function without result.
6. Native calls report the error of an earlier call (`plugin.rs:770`).

Noted while reading, without a run. Three more are disagreements with a line of the repository:

- "The max number of WebAssembly pages that should be allocated" (`manifest/src/lib.rs:12`):
  the limiter does not count the memories made before it is installed, and starts
  again once the instance is made, so that a plugin may get these and twice the
  maximum (`WithinLimit` is the bound that does hold);
- "Specifies which hosts may be accessed via HTTP" (`manifest/src/lib.rs:237`): the host
  of the URL is compared (`pdk.rs:182`), but the request goes to ureq's default agent
  (`pdk.rs:204`), which follows redirects to any host;
- "Get the status code of the last HTTP request" (`pdk.rs:254`): after a request that
  had no response `http_status_code` answers with the status of an earlier one.

And: `memory_bytes` of the kernel is documented to
return an amount that differs from the field it returns; `pointer_in_bounds_fast`
accepts the first address after memory; freeing the output or error block leaves
the register in place; Java's `Plugin.call` throws only for return code -1. And, from
the parts modelled in `Pdk` and `Sdk`:

- until the first `set_input` the pointers of `CurrentPlugin` are those to the local
  variable of `build_new`: a start function or native call that uses the PDK, reading
  the output of a new plugin, and `return_error` after a failed first call follow
  them (`Pdk` has these steps, and `OwnPointers` says when the pointers are right);
- a memory whose declared minimum is its maximum is refused under a limiter, because
  `memory_growing` compares with `>=` (`current_plugin.rs:45`);
- resetting a linear memory leaves host and guest with different memories;
- an entry without a name becomes main wherever it stands, and an entry that is
  named main is then refused as a duplicate; libraries whose names sort before `extism:host/env` cannot use it;
- the functions given to `extism_plugin_new` are lost to the caller when it fails;
- after a second `extism_log_custom`, which is refused, lines go on to the first buffer, while
  `extism_log_drain` reads the new one, which never gets a line;
- a handler that calls `extism_plugin_error` or the like waits for a call of that plugin, and the
  two for ever if the call waits to log; a host function that does so for its own plugin waits for itself
  (`DeadlockFromCallback` says that these are the only ways);
- a call whose name is not UTF-8 leaves the output of the call before on show;
- `alloc(0)` of the custom memory gives two owners one offset, and loses the bytes of a live block
  when an empty block is given out again at its offset;
- errmsg is not checked for null when a function is missing (`sdk.rs:303`,
  `otoroshi/sdk.rs:480`);
- a line with a NUL inside is dropped by the drain;
- float results of C host functions are converted by value where wasmtime takes bits
  (`sdk.rs:233`); the functions `custom_memory_*` follow `memory_export` before it is
  set, and the size of a linear memory without a zero byte panics (`otoroshi/sdk.rs:290`).

## Proofs

Every invariant and every action property that a passing run checks is also proved,
for every value of the constants that satisfies the named assumptions of the modules;
so are the two refinements. PROJECT.json lists the theorems. Each proof has the same
plan: an inductive invariant, of which the property is a part or a consequence; one
lemma per action (or per way in which an action changes the state) that keeps it; a
theorem that combines them with the temporal rule. A leaf says little enough to be
proved in about a second, so that the result does not hang on the speed of the machine.

Assumptions. They are the `ASSUME`s of the modules: that a layout is a layout
(`KernelAssumption`), that names, thread and plugin numbers are apart, that bounds of
the model are numbers. Three say more. `RequestsFit` (in `KernelProofs`): a request and
its header fit a usize; finding 1 is what happens without it. `IsFiniteSet(Utf8)`
in `CurrentPlugin`: the keys that guests use are finitely many, because the store of
variables is modelled by a function on all of them, whose values are summed.
`MaxPlaces` is at least 1: a plugin is somewhere.

Sums. The size of the variable store, the pages that a plugin holds and the bytes on a
free list are sums. `SumProofs` derives from the definition of `SumFunctionOnSet` what the
proofs need of them: the sum does not depend on the order (`SumSplit`), nor on
anything outside the set (`SumAgree`), and changes by the difference when one number does
(`SumChange`). Induction over sets is by the least counterexample (`LeastNumber`),
and so are the proofs about the two loops, `Compact` and `Modules`, which are recursive functions.

### Kernel

`KernelSafe == Spec => []KernelInv`, and from it `KernelTyped`, `KernelTiled`, `KernelWithinMemory`,
`KernelDisjoint`, `KernelSlack`, `KernelInput` and `KernelUsed`; `KernelRoom` and `KernelPersist`, the action
properties `AllocRoom` and `BlocksPersist`; `KernelRegisters == Spec => []RegistersInHeap`; and
`KernelImplementsHeap == Spec => ImplementsHeap`.

`LiveDisjoint` is not inductive: that a split or bumped block is
apart from the others follows only if the headers are known to lie end to end
(`HeapTiled`), and that a reused block is large enough only if no block below
`position` is `Unused` (`BlocksUsed`), because `find_free_block` takes those
without comparing sizes. `WithinMemory` needs `length` to be what the pages hold;
`InputLive` needs `free` to end the block that the register names and no other,
that is, handles to be injective (`HandleInjective`). So
`KernelInv` is the conjunction of `TypeOK`, `HeapTiled`, `WithinMemory`, `BlocksUsed`,
`SlackBounded` and `InputLive`; TLC checks each conjunct in the run `kernel`. The
lemmas `TakeWholeInv`, `TakeTailInv`, `PlaceInv`, `FreeInv`, `InputSetInv`,
`RegisterInv` and `ResetInv` show it preserved, one per way a step changes the
heap, and `StepInv` combines them. `UsizeExact` and `PagesCover` are the facts about
`as usize` and `num_pages` they rest on.

The other theorems look at a step rather than a state. `AllocExtends` says of
each of the four ways an allocation ends that it either changes nothing or makes
exactly one block live with room for the request and leaves every live block as
it was (`Extends`, `Becomes`); `FreeKeepsBlocks` that a free changes one status.
`KernelRoom` and `KernelPersist` follow directly. `RegistersInHeap` is inductive
together with `KernelInv`: `AcceptedInHeap` shows that what `input_set` and
`output_set` accept lies in the heap, `RegistersStay` that it stays there while
the heap does not shrink. For the refinement, `HeapView` reads the abstract state
off the blocks in a good state, `AllocRefines` gets the range of a new buffer
apart from the live ones from `KernelInv` of the state after the step, and
`FreeRefines` shows that the input buffer of `Heap` goes with its block.

### Timer

`TimerSafe == Spec => []TimerInv`, and from it `TimerTyped`, `TimerOverCallsStop` and
`TimerOwnEntryOnly`, for any number of plugins and of messages in the channel.

`OverCallsStop` says that a Stop comes after a Start; what a Stop that arrives does, it
leaves open. It is preserved when a message is handled only if the Stop at the head is
not that of a later call than the entry, nor of an earlier one that ends it too soon:
`Ordered` (the messages of a plugin are in the order of its calls, each Start
first) and `Bounded` (the entry is older than every message, and no message is of a
call to come). `Gone` is needed for the end: what an exited thread would have
handled. For `OwnEntryOnly` the three come together (`OwnMessage`): a message of a later
call than the entry's would have passed the Stop of the earlier one, which `Stops`
puts in the channel and `Ordered` before it.

### Plugin

`PluginSafe == Spec => []PluginInv`, and from it `PluginTyped`, `PluginOwnVerdict`,
`PluginFreshOutput` and `PluginOwnError`; and `PluginCallsAtomic == Spec => CallsAreAtomic`.

The three properties speak of a call that is over. To get there, `PluginInv` says for each
point of a call what its registers and caches hold: `Before` (nothing has run; once the
input is set, kernel and cache are empty), `Refused` (a refused name: nothing has run), `During` (the kernel's output is what this call
wrote, its error was raised by this call), `Failed` (before `return_error`). `Numbered` makes the
number of a call tell whose outcome is on show, since nobody else has a number
before the lock is given back; `FirstCached` that a first call that fails
before there is an instance finds empty caches.

For the refinement, `Calls` takes a step or stutters with every step of `Plugin`: `Call`
is its `Begin`, which also says whether the name is refused; `GuestOutput`, `GuestError` and `GuestEnds` are its `Run`, a panic its
`Break`; the successful `Finish` and `ReturnError` are its `End`; `Configure` and `Reset` its `Other`; the
rest changes nothing that `Calls` shows. That `End` answers what `Calls` says (the verdict from the
guest's end and what it raised alone) is where `PluginInv` is needed.

### CustomMemory

`CustomMemorySafe == Spec => []CustomMemoryInv`, and from it `CustomMemoryTyped`, `CustomMemoryWithin`
and `CustomMemoryExact`.

The proof treats the books as functions of a map, a list and a position (`Typed`, `Within`,
`Apart`, `AtMost`, `Counted`), so that an allocation is the composition of removing a block
from the list, putting a rest back and adding to the map, and each of the three has its lemma.
`Compact` keeps `Typed` and `Within` (by the least number of blocks for which
it does not): blocks it merges or moves still end below position. It does not keep
`Apart`, which is finding 4, hence `compacted` in the invariant. Requests are any numbers: `Apart` is
the disjointness of ranges, of which an empty one has none to share. Until an empty block is
freed none is in the list (`Full`) and the bytes add up to what lies below position (`Counted`); after
that they add up to no more (`AtMost`), because a block taken from the list may have the
offset of a live one only if one of the two is empty (`SharedOffset`).

### Pdk

`PdkSafe == Spec => []PdkInv`, and from it `PdkTyped`, `PdkWithinLimit`, `PdkOwnPointers`,
`PdkPartedByReset` and `PdkStoreBounded`; and `PdkVariablesKept == Spec => VariablesKept`.

`WithinLimit` says nothing of what the limiter still has: `Accounted` adds `left` to what is held.
Once the instance is made the limiter starts again, so the bound doubles, once. `Parted`
needs to know where the guest's memories are: the one it imports is the second,
its own the last while its start function runs, so that the one a reset makes
is neither. `Starting` excludes an instance while one is being made, without which `Accounted`
could double twice. That is `MemInv`; `CallInv` has `OwnPointers` with the types of what a
call changes, `DataInv` has `StoreBounded`. `VariablesKept` needs no invariant: `VarSet`
is the only action that changes a variable.

### HostFunctions, LogBuffer, Linking

`SdkHostSafe == Spec => []HostInv` with `SdkTyped` and `SdkUserDataOwned`; `SdkLogSafe == Spec => []LogInv` with
`SdkLinesKept`; `SdkLocks == Spec => [](LogInv /\ LockInv)` with `SdkDeadlockFromCallback`; and
`SdkMadeAsReferred`, from `LinkingAccepts`.

`UserDataOwned` counts references and is inductive together with `OnlyLiveCall`: a plugin that is freed
or still being built is in no call, so what it drops is all it had. `Balanced` is the equation
for one function; `DropBalanced`, `CallBalanced` and `ReturnBalanced` are its changes, and
the cardinalities of owners and callers change by one with one plugin.

`LinesKept` says what the sequence of lines is when somebody has some of them to hand out and when nobody
has. `LogInv` says that for each thread (`InOrder`), and `OneBuffer` why there is no
other: only the subscriber's buffer gets lines, and who has some to hand out has its
lock. The second buffer, which is installed in vain, stays empty.

`DeadlockFromCallback` follows from who can hold what: who has a buffer locked has lines to hand out
(`HeldDrains`), so a cycle without a handler consists of threads that wait for the
instance, which one of them has; and who waits for the instance it has is in a host function
(`SelfWaits`). That this stays so although other threads make and free plugins needs
the first plugin to be live while it is in use (`InstanceLive`), and no host function of it to
return while its thread waits (`FirstKept`).

`LinkingAccepts` says for a manifest of any length that `Links` of `Modules` is `Accepted`. `LoadedTold`
follows the loop: after i turns the map has exactly the first i entries under
their keys if they can be told apart, and is an error if not. `MainKey` and
`ToldNamed` translate keys into names, `LinkedWell` the order of linking into what a library
may import.

### Only model-checked

Liveness under fairness, which is out of the prover's reach: `LockReleased` of `Plugin`,
`DrainEnds` of `Sdk`, `ReturnedForgotten` and `ShutdownCompletes` of `Timer`. `Calls` and
`Heap` state no liveness, so the proofs of the refinements leave nothing of them to TLC.
The inductive invariants were checked by TLC on the instances of the runs before they were proved.

## Not modelled

- byte contents of memory (`load_u8`, `store_u8` and the like), encodings, logging
  text, core dumps, and the JNA marshalling of the Java classes;
- parsing: of manifests from JSON or TOML, of URLs and patterns of hosts, of HTTP
  requests; the builders of `Manifest` and `PluginBuilder`; the cache and WASI set-up in
  `build_new`, which appear only as failures of `BuildFails`;
- values of arguments and results, and their conversions (`runtime/src/sdk.rs`); the sizes of memories computed from the first zero byte;
- `extism_function_set_namespace` (a name) and the mutex of a Rust host's `UserData`;
- `CurrentPlugin::vars_mut` (`current_plugin.rs:278`), by which a Rust host function may change
  variables without `var_set` and its limit: `StoreBounded` and `VariablesKept` are about
  plugins whose host functions leave it alone;
- where the redirects of an HTTP request lead, and its headers;
- `config_get`'s table as state: any value may be its answer;
- `reset_store`: its flag is never set, since the assignment is commented out
  (`plugin.rs:757`); the interrupt branch of `raw_call`, which nothing raises;
- wasmtime itself: instantiation, guest execution and memory.grow are
  nondeterministic choices over their outcomes;
- packaging (`libextism`, `extism-maturin`, `nuget`), the prebuilt wasm files.

## Plan

Done: all modules named above, and the proof of every invariant and action property that
the runs check and of both refinements. What could follow, and why it is not here:

1. `Pdk`'s abstract kernel, `blocks`, is not tied to `Heap` by a theorem. `blocks` maps
   handles to contents and has no addresses, so that `Heap`'s `Apart` would hold by the
   choice of a mapping; and `SetInput` does in one step what are three of `Heap`'s (`Clear`,
   `Alloc`, `SetInput`). That the kernel itself implements `Heap` is proved in `KernelProofs`.
2. The hazards without a property in PROJECT.json are those for which the code
   promises nothing that could be stated (what a host function that panics leaves behind,
   what the call after a failed initialization of the guest's runtime runs), or that
   the model excludes by an assumption: callers serialize a reset.
