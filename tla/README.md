# wilupgu in TLA+

wilupgu runs shaders on a device (CPU, CUDA, wgpu) through a safe Rust layer.
This directory models what that layer and its tools promise and how they keep
the promise: TLA+ modules translated from the source under `src/`, small
instances of them checked by TLC, and theorems proved by TLAPS. Paths below are
relative to the repository.

## The system

| Part | State it keeps | Operations | What is hard |
|---|---|---|---|
| Kinds and sizes (`src/backend/dtype.rs`) | none | bits, packed words, bytes of a length | rounding, packed kinds, sums that wrap |
| Tensors (`src/safe/mod.rs`) | a raw buffer, kind, length; the device they borrow | `alloc`, `replace`, `drop`, `upload*`, `download*`, `copy_into`, `zero`, `carve` from a `DeviceArea` | a buffer given back while queued work uses it; byte ranges of packed kinds |
| Nodes (`src/safe/mod.rs`) | raw node, meta words on the device, `lens` needed for the meta | `node`, `update_meta`, `replace`, `drop`, a Rust move | the host checks lengths for one meta, the device may hold another |
| Scopes (`src/safe/scope.rs`) | bound tensors and nodes (pointers), the capture in progress | `scope`, `bind`, `bind_node`, `execute`, `copy`, `update_meta`, end, panic | work outlives the call that queued it; threads share one device |
| Captures (`src/safe/scope.rs`) | a `Recording`: calls by address, the device's graph | `capture`, `replay`, `drop` | device-wide recording against per-scope bookkeeping; addresses used again; a failing or panicking closure |
| Checks (`src/safe/rules.rs`) | none | slot count, kinds, access, lengths, aliasing | |
| Contract (`src/backend/mod.rs`) | the device's stream, capture mode | `Storage`, `Dispatch`, `Capturable`, `Areable` | order of commands, what `synchronize` waits for |
| Pool (`src/backend/pool.rs`) | free buffers by kind and length, their bytes | `take`, `recycle`, `drain` | accounting, the limit, the drain-and-retry of two threads |
| CPU backend (`src/backends/cpu.rs`) | the capture in progress, behind a mutex; an area's next byte | runs at once; records calls with slices | a poisoned mutex; recorded slices; carve |
| CUDA backend (`src/backends/cuda.rs`) | two streams, the `capturing` flag | asynchronous runs, graphs | flag and stream change in two steps; order of meta writes, runs and graphs |
| wgpu backend (`src/backends/wgpu.rs`) | a batch of recorded commands | batching, staged writes, submission | order of writes and commands |
| Deferred values (`src/tools/plan/deferred.rs`) | slots, resolvers, dynamics | `resolver`, `resolve`, `value`, `set` | values given and computed by racing threads |
| Plans (`src/tools/plan/`) | a `RunSpec`, a live and a hollow `Run`, a captured one | `finish`, `ready`, `build`, `build_hollow`, `fill_from`, `edit`, `bind`, `execute`, `apply_dynamics`, `capture`, `release` | values read twice; tensors that move; partial failures |
| Builtins (`src/tools/builtins/`) | none | 17 shaders: a table, native, WGSL and CUDA code | grids larger than the data; sizes at an edge; `min_lens` |
| Parity (`src/tools/parity/`) | one comparison | `compare`, `compare_builtins` | NaN and infinity; writes outside; partials |

Calls go from tools to the safe layer to a backend. Threads share a
`ComputeDevice` by reference; a scope's closure may start threads and nested
scopes. Everything a scope binds is borrowed mutably until the scope returns.
`SyncOnDrop` waits for the device before it does. A plan is built from deferred
values that other threads give, into tensors and nodes of the safe layer, and is
bound into a scope to execute. Parity allocates, uploads, runs a shader on each
of two devices and downloads.

What makes each part correct is what its module states; the hazards each
property is for are listed in `PROJECT.json`, at their lines.

## Modules

| Module | Models | Composed with |
|---|---|---|
| `Rules` | the checks of `src/safe/rules.rs` that decide whether a call reaches the device | used by `Scope`, `Plan`, `DataKinds` |
| `DataKinds` | kinds, sizes and byte ranges with 64-bit sums | used by `Pool`, `Plan` |
| `Scope` | tensors, nodes, scopes, captures and replays on one device, above its stream | |
| `Pool` | the buffer pool, and the steps of `alloc` and `drop` around it, between threads; the ranges of the tensors it serves | |
| `Area` | carving an area on the CPU and on CUDA, between threads | |
| `Commands` | what a device is asked to do, and what each command does to its memory | used by the next five |
| `InOrder` | the abstract device of `Storage` and `Dispatch`: one stream in the order of the calls, blocking downloads and `synchronize` | |
| `Capturing` | the abstract device of `Capturable`: `InOrder` that can record and replay | an instance of `InOrder` |
| `WgpuQueue` | the wgpu backend's batches and staged writes | implements `InOrder` |
| `CudaDevice` | the CUDA backend's streams, flag and graphs | implements `Capturing` |
| `CpuDevice` | the CPU backend's calls and recording | implements `Capturing` |
| `Deferred` | deferred values between threads | |
| `Plan` | specs, runs, edits, dynamic meta, captured runs | extends `Deferred`, uses `Rules`, `DataKinds` |
| `Kernels` | the builtins' table, native and WGSL code | |
| `Parity` | a comparison of two shaders' code | extends `Kernels` |
| `ScopeProofs`, `AreaProofs`, `PoolProofs`, `PlanProofs`, `ParityProofs`, `CommandProofs`, `WgpuProofs`, `DeviceProofs` | theorems | each extends the module it is about: `PoolProofs` has `DataKinds`' too, `PlanProofs` `Deferred`'s, `ParityProofs` `Kernels`', `DeviceProofs` is about `MCDevices` |
| `MC...` | small instances for TLC | `MCDevices` composes the two devices that capture |

### Scope

A tensor variable holds the identity of a raw buffer, a place (a node variable;
its identity is the node's address) that of a node. Identities are used once,
addresses again and again, so that a stale address can be told from the thing
that was there.

| Code | Model |
|---|---|
| `ComputeDevice::alloc`, the pool, out of memory | `Alloc`: exact-key reuse from the pool; else a new buffer, possibly after the pool was emptied |
| `Tensor::drop` | `DropTensor`: to the pool, or freed when the pool is full |
| `Tensor::replace`, `Node::replace` | `ReplaceTensor`, `ReplaceNode`; the value that comes back goes into the other variable |
| `ComputeDevice::node`, `Node::drop`, a move | `BuildNode` (queues the meta write), `DropNode`, `MoveNode` |
| `Node::update_meta`, `Scope::update_meta` | `update_meta`: host meta and lengths at once, the words on the device through the queue |
| `ComputeDevice::scope`, `SyncOnDrop` | `OpenScope`, `EndScope` (starts to wait), `CloseScope` (the wait is over) |
| `Scope::bind`, `bind_node`, `execute`, `copy` | `bind`, `bind_node`, `execute`, `copy` |
| `Tensor::copy_into`, `zero` | `copy_into`, `zero`: queue one command and wait, with the tensors borrowed |
| `Scope::capture` | `BeginCapture` (sets the scope's own flag first, then panics on a device that records already), `EndCapture`, `FailCapture` (the closure or `end_capture` failed), `PanicInCapture` (the guards) |
| `Recording::drop`, `Scope::replay` | `DropRecording`, `replay` |
| the device's stream | `queue`, `RunCommand` runs its oldest command |

Rust's borrow checker is in the guards: what is bound is not dropped, replaced,
moved or bound again before its scope closes. `Scopes` are callers that may run
in parallel or nested. The checks that compare devices are left out: there is
one device. Contents of buffers are left out too: no decision of the safe layer
depends on them, except the meta words, which are modelled (`meta_words`).
A recorded call holds a copy of the kernel's arguments, the buffers' addresses,
and the meta buffer's address: a replay uses the node's meta at the time it runs.

`recording[s].on` is the scope's `Option` being `Some`, `armed` the existence of
the guard `EndCaptureOnDrop`. They differ in a scope whose capture was refused: the
flag is set before `begin_capture` panics and before the guard is made. Such a
scope ends by the panic, or goes on where its closure catches it.

Two fields decide nothing and are kept for the properties: which of a scope's
recorded calls a call in the graph is (`call`, 0 when it is another scope's), and
how a command came to be queued (`how`): called, replayed, or replayed without a
check, because the Recording has no such call.

Bounds: `Buffers` and `NodeIds` bound how many buffers and nodes are ever made,
`MaxQueue` the commands waiting on the device, `MaxCalls` the calls of one
capture. `PoolKeeps` is no bound but a choice of the pool's limit: that it never
has to free. No run makes that choice.

### The contract and the three backends

Buffers and nodes are given here, and their contents matter: a buffer holds one
value, a run writes `Effect(meta words, value read)`. The callers keep the
safety rules of the contract, which `Scope` shows the safe layer to do.

`InOrder` has a `queue` of commands, in the order of the calls; `download_raw`
and `synchronize` return when what was queued by then has run. `Capturing` adds
what is `recording`: runs go there instead of the queue, whichever thread asks;
`replay` queues a kept recording again, and its runs read the meta words when
they run. `able` says whether the device can record at all; if not, it finds out
at `end_capture`.

| Code (`src/backends/wgpu.rs`) | `WgpuQueue` |
|---|---|
| `Pending`: an encoder behind a mutex | `recorded`; each critical section is one action |
| `Queue::write_buffer` | `staged`: lands before every command of the next submit |
| `record`, `submit`, `submit_every` | `record`, `Submitted`, `StillStaged`; `SetSubmitEvery`, since the field is public |
| `upload_raw`, `update_meta` | submit, then stage, in one critical section (`Stage`) |
| `build_node` | stages the new node's words without lock or submit |
| `download_raw`, `synchronize` | submit and give up the lock; `Poll` waits for what is submitted by then; `Return` |
| the GPU | `RunCommand`, the oldest submitted command |

The refinement's stream is what is submitted, staged and recorded, in that
order. A new node's words may overtake commands recorded before it; the mapping
leaves that write out of the stream (`WithoutNew`) and gives the node its words from
the start (`NodeWords`), which is right because no earlier command reads them. A write may still be
staged when `synchronize` returns: the contract calls copies, clears and runs
queued work, not writes. The copy into a download's staging buffer is a command
to a location of the waiting thread. A copy of no bytes does nothing and a
download of none is `synchronize`, so neither is a case of its own.

| Code (`src/backends/cuda.rs`) | `CudaDevice` |
|---|---|
| `stream`, `capture_stream` | `streams["main"]`, `streams["capture"]`, each in order, independent of the other |
| `capturing: AtomicBool`, and the stream's own capture mode | `capturing`, `graph` |
| `execute_raw` reads the flag, then launches | `execute_raw`, `Launch`: two steps of a thread (`at`) |
| `begin_capture`, `end_capture` swap the flag, then begin or end the stream's capture | `begin_capture`, `BeginStream`; `end_capture`, `EndStream` |
| `capture_works`, found out in `attach` | `capture_works`; without it runs of a capture go nowhere and `end_capture` fails |
| `build_node`, `update_meta` | commands `new` and `meta` on the main stream |
| `download_raw`, `synchronize` | `Block` on the main stream, `Return` |
| `replay`, `release_capture` | the graph's runs on the main stream; `release_capture` |

| Code (`src/backends/cpu.rs`) | `CpuDevice` |
|---|---|
| a call does its work before it returns | `work`: what the call in progress still does (`Work`) |
| `capture: Mutex<Option<..>>` | `recording`, `poisoned` |
| `begin_capture` asserts with the mutex locked | its second disjunct: the panic poisons the mutex, and later calls that lock it panic |
| `replay` | the recorded runs as `work`, each with the node's meta at that time |

`MCDevices` opens a device of either backend and shows it to be `Capturing`
under a mapping for each. Its two parameters are assumptions on the callers:
`Overlap`, that a thread may execute while another begins or ends a capture, and
`Twice`, that a capture may be begun while one is recorded. The contract's run
assumes neither (the safe layer's captures of one device can be arranged so).
Nothing in the code keeps threads from overlapping, and with `Overlap` CUDA does not
keep the contract; what happens is under "Statements of the source that do not hold"
below.

### Pool

`take`, `recycle` and `drain` are the critical sections of the pool's mutex. In
between, `ComputeDevice::alloc` is at `alloc_raw`, `drain` or `retry` (`step`),
and what the pool handed out is freed one buffer at a time (`freeing`). Device
memory is a number of bytes (`Capacity`). A buffer's name is used again once it
is freed. An allocation may fail while the pool holds memory: another thread's
drop between `drain` and `Retry` puts it there. A buffer is kept under the kind
and the length of its tensor, rounded up to host words as `alloc` does, so the
model asks with lengths that are no whole words. `RangesFit` ties the ranges a
tensor's `upload_at`, `download_range` and copies accept (`DataKinds`) to the raw
buffer that the pool found for it. A pool of 0 bytes keeps buffers of 0 bytes,
which is harmless.

### DataKinds

`bytes_for` multiplies and wraps at 2^64 (`Word`) as a release build does;
`buffer_bytes` and `byte_range` are the sums `alloc` and every transfer make, and
must agree. `Sized` is the one assumption: the tensor's bits do not wrap. The
source does not check that; no device has that memory.

### Area

A `carve` reads `next` (`StartCarve`), and then swaps it (`CompareExchange`,
which looks again if another thread was faster) or fails (`Refuse`). `least` and
`align` of an area are the backend's: none and one word on the CPU, `MIN_BYTES` and
`CARVE_ALIGN` on CUDA. Sizes are far below 2^64 here. Dropping a part returns
nothing to the area (`DropTensor`); dropping the area needs all of them gone.

### Deferred and Plan

| Code (`src/tools/plan/`) | Model |
|---|---|
| `Slot`'s `OnceLock`, `resolver_taken` | `value`, `taken`; `resolvers` counts the `Resolver`s alive |
| `Resolvable::value`: look, compute the inputs, `get_or_init` | `Look`, `ReadInput`, `Keep`, with the chain of reads a thread is in (`stack`) |
| `Relation`'s closure | `Computes`, a set of results: it may be impure |
| `PlanBuilder::finish` and the specs' `new` | `finish` |
| `RunSpec::ready`, `build`, `build_hollow` | `Start`, then one read at a time (`Ask`, `Take`) in the code's order (`Reads`), then `Build`, which may fail at every check and on the device; the spec is given back (`GiveBack`) |
| `fill_from`, `edit` with `Edit::tensor`, `Edit::node` | `fill_from`, `EditTensor`, `SwapTensors`, `EditNode`: an edit stays also when its checks fail afterwards |
| `Run::bind`, the scope's end, `Bound::execute` | `bind`, `Unbind`, `execute` |
| `apply_dynamics`, `read_dynamics` | `apply_dynamics`, `read_dynamic` one lock at a time, `set_meta` node by node, `ReturnApply` |
| `Run::capture`, `CapturedRun::replay`, `release` | `capture`, `execute` of a captured run, `release` |

One thread, the `planner`, owns the spec and the runs, as Rust's ownership
forces; the others give values and read them at any time.

### Kernels and Parity

A builtin's native code is a set of writes of one thread, its WGSL code one of
every thread of the grid: `entry(format, ...)` is what the slots hold afterwards.
Elements are integers, so sums in another order are equal and the code is
compared exactly. Native reductions write one partial, the whole sum; the WGSL
code one for each workgroup, a tree of `Group` threads (`Reduced`, barrier by
barrier). A loop's sum is `Added`, in the loop's order. The CUDA code
repeats the WGSL code line by line and is not modelled apart.

`Parity` runs a case: `Start` fills each slot and its pad, `run` runs side a, then b,
`Misbehave` changes elements that a wrong shader may write, `Compare` makes the
report. `worst`, `totals`, `unwritten`, `overrun` and `passed` are the code's, with
floats as integers, NaN and the infinities, and the rules of `f32::max`, `<=` and
`partial_cmp` for them.

## Runs

| Run | Question | Answer |
|---|---|---|
| `scope_two` | two scopes, no captures, while buffers and nodes are dropped, pooled, freed, replaced, moved and put where others were: is queued work borrowed until it is done? does each run get the meta and the lengths it was checked with? has every buffer one owner? | yes |
| `scope_capture` | one capturing scope, two recorded calls; frees, drops, other buffers and nodes at the recorded addresses and new metas before the replay: does what runs fit the memory it finds and see the meta of its replay? are the places and addresses that it uses borrowed? | yes |
| `scope_captures` | two scopes that both try to capture and execute, closures that fail and panic, a capture that is refused: does the device record exactly while one closure runs? are the calls that the Recording knows of still borrowed at its replay, with the other scope's among them? does a scope that ends return? | yes |
| `foreign_call` | with two scopes, is what a Recording checks what the device recorded? | no: another scope's `execute` lands in the graph, unchecked at replay |
| `wgpu_stream` | are wgpu's batches and staged writes one stream in the order of the calls? | yes, for any `submit_every` at any time |
| `devices` | are a CUDA device's two streams and flag, and a CPU device's mutex and slices, one stream that records and replays as the contract says? | yes, under the two assumptions on callers above |
| `cpu_poisoned` | can a CPU device that records always be made to stop? | no: the assertion of a second `begin_capture` poisons the mutex |
| `area_carve` | are parts apart and inside the area, on CUDA each with its own address? is a refused carve of an even area out of room? does every carve end? | yes |
| `pool_threads` | has each buffer one owner, does the count follow the pool, do the ranges a tensor accepts fit the buffer it got, with three threads? | yes |
| `plan` | does what `ready` accepted build, what was built run, what `edit` accepted fit, what was captured stay; is no tensor in two places; does a missing dynamic leave every meta alone; do readers agree and all reads end? | yes |
| `parity` | do native and WGSL code of every builtin agree? does a report that passes miss a difference, a missing write or a write outside? | they agree; it misses none |
| `parity_hidden` | also with two wrong elements in one slot? | no: a NaN after an infinity in a slot that is no Output is not seen |

The three runs that answer no are the findings in `PROJECT.json`, with the
comments they contradict.

Each property of the other runs has a mutant: a change of one definition, as a
bug could make it in the code the definition models, under which TLC finds the
property violated in the same run. The changed definitions are in the modules,
before the ones they change, with `Mutant` in their comment.

### Bounds

- Scopes, tensors: two of each are enough for the hazards of these runs: one
  caller that waits, one that interferes, one command that is late (`MaxQueue` 2).
  `scope_capture` has two tensors, two buffer identities and two addresses, so that a
  recorded buffer can be freed and another, maybe shorter, be put at its address;
  two nodes for one place; two metas, so that the recorded call may need more than
  it did; and two recorded calls. `scope_captures` and `foreign_call` are as small as
  two scopes allow, one tensor and one node; a graph of two calls can hold one of
  each scope. Tensors, buffers, nodes, places, addresses and scopes are symmetric: no
  definition tells two of them apart. Runs with a liveness property use no symmetry.
- wgpu: four calls are enough for a command recorded before a write, the write,
  a command after it and the download that sees the result; `SubmitEvery = {0, 1}`,
  switched at any time, gives every way to cut the calls into batches. Two values
  and two meta words with `Effect` their sum tell orders apart.
- `devices`: the device starts in any state in which it has nothing to do, its node
  built or not, so two calls that queue work are every pair of a meta write, a
  run, a copy and a replay of two recorded runs, in both orders; recording,
  waiting and downloading are not counted. Both backends are instances of the
  same run.
- `pool_threads`: Int4 tensors of 3 and 9 elements, so that both are rounded up,
  to one and two words; a device of 16 bytes with as many buffer names as fit it,
  so that memory ends before names do; a limit of 12 bytes below the capacity.
  Three threads let one drain, one retry and one drop at a time.
- `area_carve`: a CPU area of 14 bytes, whole words and a rest, a CUDA area of
  two steps of 256 bytes and one of two steps and a rest. Three threads let one
  thread's swap fail twice.
- `plan`: three plans of two tensors and up to two calls: one that is right, one
  whose kinds are wrong, one that has no workgroups. A packed tensor with a
  length computed by an impure closure from a number given late, one edit, two
  dynamics, and a second thread that gives, reads and sets.
- `parity`: workgroups of 4 threads and tiles of 2 by 2 instead of 256 and 16 by
  16; the sizes of each case are on both sides of those edges, and zero. One
  wrong element at any place; two for `parity_hidden`.

`Word` stands for 2^64 in `DataKinds`. It is 1024 in the runs, above every sum
they make, and any number above 64 in the theorems.

### Fairness

- `Scope!FairSpec`: weak fairness of `RunCommand`, because a device goes on with
  what was submitted, and of each `CloseScope`, because a thread in `synchronize`
  is woken when its work is done. Callers are under no obligation to do anything.
- `Area!FairSpec`: weak fairness of each thread's `CompareExchange` and `Refuse`: a
  thread goes on with its loop, and `compare_exchange_weak` does not fail for no
  reason for ever.
- `Plan!FairSpec`: weak fairness of each thread's step in a read that it is in
  (`ReadStep`): `value` takes no lock and calls nothing that waits. Nobody is
  obliged to give a value.

`CHECK_DEADLOCK FALSE` is set where the system may stop: an area that was
released, a plan that was refused, a comparison that has its report, and
devices after the last of their bounded number of calls or, for the CPU, with a
poisoned mutex.

## Proofs

The theorems hold for every value of the constants that the named assumptions
of the modules allow. The assumptions say what the runs' configurations give:
bounds are numbers, layouts and shaders match, `None` is no value. Those that say
more:

- `Plan!NamesAssumption`, `EditsAssumption`, `NumbersAssumption`: a plan names cells
  and `Dynamic`s that are there, since its specs hold the handles; a node is only made
  with a meta of its shader's fields; lengths, counts and meta fields are unsigned.
- `Deferred!ValuesAssumption`: what is given, computed or set is a value.
- `Kernels!TreeAssumption`: a workgroup's size is a power of two (256 in the table): no
  factor of it but 1 is odd. The tree of a reduction drops elements otherwise.
- `Parity!FloatsAssumption`, `NoneAssumption`: NaN and the infinities are no numbers and
  differ, and no `Diff` is `None`. `SeedsAssumption`: the seeded data and `fill_random`'s
  values are numbers, as far as the cases ask for them.

`ScopeProofs`

- `TypeCorrect`: `Spec => []TypeOK`. `TypeOK` is inductive by itself: beside
  types it says that a tensor holds a buffer that was made, a place a live node
  that is nowhere else, and that what is bound is there. Without these the
  types of a queued command would not follow.
- `CaptureEnds`: `Spec => []OneCapture`, and `BuffersOwned`: `Spec => []OneOwner`,
  each inductive with `TypeOK`. A refused capture sets its scope's flag and arms
  nothing, so `OneCapture` speaks of the guard: the device records exactly while one
  is armed.
- `MetasSeen`: `Spec => []RunsSeeTheirMeta`, captures and replays included. `Sees` says
  which meta a place in the stream sees: that of the last meta write before it, or
  the words on the device when there is none. `MetaInv` says that the end of the
  stream sees the host's metas and every queued run its own; a command queued later
  changes nothing for those before it, and the oldest one, when it runs, moves its
  meta from the stream to the words. It adds that recorded nodes were built, which
  a replay needs.
- `CallsBorrow`: `Spec => []WorkIsBorrowed`, for any number of scopes, captures and
  replays. The inductive invariant (`FoundInv`) has three parts beside `TypeOK` and
  `OneCapture`. `WorkFound` says of every queued command that was checked what is
  `Found`: its scope is not closed and has bound its place, and for each buffer it
  was given a bound tensor at that buffer's address, the very buffer unless it was
  replayed, and as long as the command's meta needs. `AgreeInv` says that each graph
  holds, among the calls of others, its own scope's calls as the scope recorded
  them; that is what a replay's checks are worth (`ReplayChecked`). `LensAgree` says
  that a node's `lens` are those of its meta. The argument: a step outside a scope
  leaves what open scopes borrow alone (`Keeps`, from the borrow guards); a command
  is queued with what its caller has bound; a caller that starts to wait waits for
  the whole queue, so its commands are within `ahead`, and the queue and `ahead`
  move together; it can close only when `ahead` is 0, when it has no command left.
- `CallsFitBuffers`: `Spec => []RunsFitTheirBuffers`, from the same invariant: with
  `MetasSeen` the words on the device are the command's meta, and with `BuffersOwned`
  a tensor's buffer is live. That the node is still at its place is a condition of
  the property, since the code does not see to it (`NodesStay` below).

`AreaProofs`, for any threads, sizes and alignment

- `CarvedApart`, `CarvedInside`: `[]PartsApart` and `[]PartsInside`. Neither is
  inductive: `AreaInv` says that parts come in the order of their addresses, each
  ends at or before `next`, and `next` is inside the area. A part fits where
  `next` was when the thread read it, and the swap succeeds only where it still
  is.
- `CarvedAligned`, `CarvedDiffer`: `[]TypeOK` and `[]CudaAddressesDiffer`, from
  `MarkedInv`: `next` is a multiple of the area's alignment, no thread has read
  more than it is, and a CUDA part has its least bytes, which are not none.
- `RefusedMeansFull`: `Spec => AlignedRefusedWhenFull`. Where the area is a
  multiple of the alignment, what is left is one too, so rounding up what was
  asked for takes nothing that was there. The lemmas about multiples are proved
  from the definitions of `\div` and `%` as the provers know them.

`PoolProofs`, for any threads, kinds, lengths, offsets and `Word`; of sizes whose bits do
not wrap

- `AcceptedInside`: a range that `byte_range` accepts lies inside the tensor's
  buffer, on whole words.
- `AcceptedWritesOwn`: a write it accepts changes no element but its own, or
  padding behind the tensor's last.
- `CopiesFit`: `copy_to`'s new tensor takes exactly what was downloaded.

- `PoolCounts`: `Spec => []CountIsExact`, and `PoolTyped`: `Spec => []TypeOK`. The
  invariant (`CountInv`) is that `bytes` is the sum over `Pooled`, a finite set, and at
  most `max_free_bytes`; beside it `PoolInv` and that the keys are kinds and lengths. A
  sum over a set is defined by recursion along its least element. What it does when
  an element comes or goes (`SumAdds`) is shown with the first-order theorem on
  least elements, on the size of a set that would be a counterexample, since an
  induction theorem cannot be instantiated here.

`PlanProofs`, for any cells, threads, closures, plans, shaders and edits

- `ResolverAlone`: `DeferredSpec => []ResolversWork`; a cell's `Resolver` is alive only
  after it was taken, and no value is there before.
- `ReadersGetOne`: `DeferredSpec => []ReadersAgree`. The inductive invariant has the
  reads in progress: a frame's `got` are the values of its first inputs, and each
  frame reads the input that the one below asked for (`Chain`). The argument is
  that a value, once there, never changes (`Stays`), so what a closure got long
  ago is still what its inputs are when it keeps its result.
- `PlanReads`: `Spec => DeferredSpec`, a refinement: every step of a plan is a step
  of the deferred values or leaves them alone. `PlanResolvers` and
  `PlanReadersAgree` follow.
- `TensorsMove`: `Spec => []OnePlace`. `PlaceInv` adds that every name in use was
  given out and that a run's tensors are the plan's.
- `CapturedStays`: `Spec => []RecordedStay`, with nodes that have a shader and a
  meta (`RecordInv`), so that setting one leaves the other.
- `CallsKeepFitting`: `Spec => []CallsFit`, and `LengthsOnly`: `Spec => []OnlyTooShort`.
  `PlannedInv` says that a plan of which there is a spec, a build or a run passed its
  checks, so that what is built fits (`BuiltFits`); the checks look at kinds and
  shaders only, and every step but an edit leaves those of each run (`RunsAlike`).
- `DynamicsKept`: `Spec => DynamicsApplied`, an action property. `ApplyInv` follows the
  apply in progress: no node is set before every value is read, a node that is done
  has the new meta, any other the node it had, and the nodes of a bound run keep
  the fields they were bound with (`ScopesKeep`), which are those that the new metas
  copy. A refused meta contradicts `CallsFit`.
- `ReadyMeansBuilt`: `Spec => []ReadyBuilds`. `ReadInv` follows the reads that `ready` or
  `build` is at: those before are done, and `ready` has looked at what data it will
  need. A value that is there stays, so what `ready` read, `build` reads again and gets
  at once (`ReadAgain`), whatever other threads read and give; it can only fail at
  reads that `ready` does not make. The reads of a run are a concatenation of
  sequences (`FlattenSeq`), which the library defines by a recursive function: that it
  has the elements of its parts is an induction over a set of numbers (`CountUp`,
  with the first-order theorem on least elements).
- `PlanTyped`: `Spec => []TypeOK`. `TypedInv` adds the nodes a bound run holds and the
  values that `apply_dynamics` has read.
- `BuildsExecute`: `Spec => []BuiltRunsExecute`. The inductive form (`BuiltInv`) has that
  the run is there; a build's own check of lengths is the scope's (`BuiltExecutes`),
  and tensors that change places have one length.

`ParityProofs`, for any `Group` that is a power of two, `Tile`, data, wrong values and
number of them

- `PassedIsInBounds`: `Spec => []PassedMeansInBounds`. `CompareInv` says that every
  slot keeps its length through a run and any misbehaviour, that a side that does no
  wrong holds what `entry` leaves, and that the report is of what the sides hold. The
  first hit of a search is `None` only where there is none (`NoneFound`).
- `PassedIsClose`: `Spec => []PassedMeansClose` where `WrongValues` has no infinity.
  `ValuesInv`: an element that is compared is a number or a wrong value. Then `over` is
  a number or infinite, `Greater` orders what is over (`GreaterOrders`), so there is
  one that is furthest (`FurthestExists`), and if that is within its tolerance all
  are. With an infinity it is false: an infinite tolerance makes `over` the least,
  which `parity_hidden` shows.
- `BuiltinsDoAgree`: `Spec => []BuiltinsAgree`. Kind by kind, native and WGSL code make
  the same writes (`MatmulAgrees`, `GemvAgrees`, `TransposeAgrees`, `ElementwiseAgrees`)
  and write every element that `min_lens` asks for and no other (`WritesAll`): the
  grid covers the output, and a sum by tiles, with zeros past the end, is the
  sum in order (`TilesAdd`). Of a reduction the totals agree (`ReductionAgrees`): what
  a workgroup's tree has left to add is at each barrier the sum of its scratch
  (`Left`), so its partial is that sum (`ReducedIs`), and the partials add up to the
  whole. Sums are of integers: that floats in another order stay within the
  tolerance is not shown. The inductions are over a set of numbers (`CountUp`).

`CommandProofs`: what a queue of commands does to the two abstract devices, for
`WgpuProofs` and `DeviceProofs`. Leaving the first writes of new nodes out of a queue
(`WithoutNew`) and taking the words from those writes (`NodeWords`) changes with a
queue as it should: when a command is appended, when the oldest one runs.

`WgpuProofs`, for any threads, nodes, buffers, values, calls and `SubmitEvery`

- `BatchesTyped`: `Spec => []TypeOK`. The invariant (`BatchInv`) adds that only writes are
  staged, that a node's first write comes once and before what reads it (`Ordered`),
  and that what a call waits for is submitted.
- `BatchesKeepTheContract`: `Spec => KeepsTheContract`, that is, the refinement of
  `InOrder`: each step is mapped to a step of the abstract device or a stutter. A
  submit moves `staged` and `recorded` within the mapped queue, which does not change;
  a call that returns has waited for what was submitted when it polled.

`DeviceProofs`, for any threads, nodes, buffers, values and calls, where
`~ Overlap`, the assumption under which the run checks the contract

- `DevicesTyped`: `Spec => []TypeOK`.
- `DevicesKeepTheContract`: `Spec => KeepsTheContract`, the refinement of `Capturing`,
  one lemma for each action of either device. The invariant says that CUDA's capture
  stream is empty, that its flag is up exactly while the stream records or the call
  that changes both is between its two steps, and that no thread is about to launch
  then; of a CPU device, that the call in progress and what was recorded are of nodes
  that were built. With `Overlap` CUDA does not keep the contract.

What is only model-checked:

- liveness (`ScopesReturn`, `CarvesEnd`, `ReadsEnd`): TLAPS does neither fairness
  nor `ENABLED`;
- what the hypotheses of theorems leave out: infinities among the wrong values
  (`PassedIsClose`; `parity_hidden` refutes the property with them).

## Statements of the source that do not hold

Three are runs of their own, and findings in `PROJECT.json` with the comments they
contradict: calls of other scopes in a graph (`foreign_call`), a poisoned mutex
(`cpu_poisoned`) and a NaN after an infinity (`parity_hidden`).

Six more are written down as properties that no run checks. No other property
takes them for granted, but `KeepsTheContract` is checked and proved without
`Overlap`. TLC refutes each, in the configuration of the table
with the property added to it (for `SynchronizeWaits` also with `Overlap = TRUE`):

| Property | Configuration | What the source says | What the code does |
|---|---|---|---|
| `Scope!FlagMeansCapture` | `MCScope_twocaptures.cfg` | "A capture inside a capture.", "A replay inside a capture." (`src/src/error.rs:81-84`) | `capture` sets its scope's `recording` (`src/src/safe/scope.rs:318`), `begin_capture` panics on a device that another scope records on (319), and the guard that would undo the flag is made afterwards (320). Where the scope's closure catches the panic, its next `capture` and `replay` are refused as if it were capturing, until it is dropped |
| `Scope!NodesStay` | `MCScope_capture.cfg` | "so they live, haven't moved" (`src/src/safe/scope.rs:400-402`), "Every recorded node still lives" (`src/src/backend/mod.rs:238`) | `replay` knows a recorded node by its address (`scope.rs:363`). Another node built there, and bound, is checked in its stead; CUDA runs the recorded one, whose meta buffer is gone |
| `Scope!SlicesFit` | `MCScope_capture.cfg` | "the caller keeps every recorded node and buffer alive and in place" (`src/src/backends/cpu.rs:320-321`) | a recorded buffer is known by its address too (`scope.rs:383`). A shorter one there passes the check if the node's meta needs no more; the CPU's slice has the recorded length |
| `MCDevices!SynchronizeWaits` | `MCDevices_contract.cfg` | "Blocks until all queued work on this device is done." (`src/src/backend/mod.rs:198`) | `execute_raw` reads the flag, then launches (`src/src/backends/cuda.rs:390`). Where another thread begins or ends a capture in between, the run is on the capture stream, which `synchronize` does not wait for |
| `Area!SharedOnlyIfEmpty` | `MCArea_carve.cfg` | "Two bound buffers share an address only if both are empty" (`src/src/safe/scope.rs:376`) | on the CPU an empty part takes no word (`src/src/backends/cpu.rs:386`), and the part cut next has its address |
| `Area!RefusedWhenFull` | `MCArea_carve.cfg` | "Fails if `area` has no room left" (`src/src/backend/mod.rs:265`) | a CUDA part is rounded up to `CARVE_ALIGN` and the area is not (`src/src/backends/cuda.rs:539-543`): the rest of an uneven area is never given |

`CudaAddressesDiffer` and `AlignedRefusedWhenFull` are what does hold of the last two, and
`RunsFitTheirBuffers` and `WorkIsBorrowed` of replays.

Met while modelling, without a property:

- The parity pad's comment (`src/src/tools/parity/mod.rs:263-264`) says that a
  shader that runs past its end is seen. A two-dimensional shader without bounds
  checks writes further than the pad at sizes such as (5, 40, 3).
- A hollow packed tensor keeps the length of its spec, a live one whole words:
  `fill_from` refuses the pair when the length is no whole number of words.
- A pool of 0 bytes keeps buffers of 0 bytes.

## Not modelled

- `src/tools/spread`: compiled out (`#[cfg(any())]`), so not part of the program.
- Copies between devices (p2p) and the checks that compare devices, above the
  backends: every model is of one device.
- wgpu's adapters, limits and lost device, which fail or panic before anything is
  recorded; compiling (`src/tools/compile`, the loading of shaders in the
  backends): calls of NVRTC and of drivers.
- The CUDA code of the builtins, which has the WGSL code's structure. Floats of
  the builtins: elements are integers, so sums in another order are equal.
- Contents of buffers above the backends, except meta words.
- Sizes whose bits wrap at 2^64 (`Sized`).
- `src/backend/io_log.rs`, error texts, prelude, examples, scripts: a counter for
  tests, texts, re-exports.
