# TLA+ models of wie

wie runs a Windows program on another host: it maps the program's image into a guest
memory, executes its x86-64 code with a JIT or an interpreter, and stops at every call of
a Windows API, which a handler written in Rust answers. This directory models the parts of
wie whose correctness depends on the order of things: guest threads, the objects they wait
for, the state handlers share, the memory they manage, the two ways guest code is executed,
nested window procedures and the message queue, and files that exist in several forms at once.

`PROJECT.json` lists the runs, the mutations that show each property can fail, the source
lines behind every definition, the hazards and the theorems.

## 1. The system

| Part | Source (under `crates/`) | State | Operations | Talks to |
|---|---|---|---|---|
| Session loop | `wie-runtime/src/session.rs` | pending callbacks, publish cache, API indices | activate, run guest code, dispatch one API call, park, join at exit | every handler |
| Worker loop | `wie-runtime/src/mt_runtime.rs` | one engine per host thread | the same loop for the other guest threads, `finish_tid`, `drain_spawns` | sync objects, session |
| Thread identity, TLS | `wie-winapi/src/thread.rs` | `active`, `by_tid`, index count | `activate`, `save_active`, `alloc_worker`, `Tls*` | all handlers that ask who calls |
| Critical sections | `kernel32.rs`, `sync_obj.rs` | guest `RTL_CRITICAL_SECTION`, wait queues | Initialize, Enter, Leave, Delete | both loops (park and retry) |
| Waitable objects | `sync_obj.rs`, `kernel32.rs` | handle table, events, semaphores, threads | create, set, reset, release, wait, close | both loops (park and slices) |
| Thread lifecycle | `kernel32.rs`, `mt_runtime.rs` | pending and suspended spawns | CreateThread, ResumeThread, drain, end, join | session loop starts threads |
| Guest heap | `guest_heap.rs`, `guest_heap_accel.rs` | bump pointer, free lists, headers, live table | alloc, free, realloc, in-guest helpers | guest memory |
| Last error | `session.rs`, `guest_stubs.rs` | host copy, TEB word, cache | publish, read before dispatch, in-guest stubs | all handlers |
| Virtual memory | `wie-cpu/src/mem/` | regions, page permissions, arena | reserve, commit, protect, free, translate | heap, loader, JIT |
| JIT cache | `wie-cpu/src/jit/` | blocks, page index, direct-call ids, chain tables, pending writes | lookup, compile, invalidate | virtual memory |
| Interpreter | `wie-cpu/src/exec.rs`, `regs.rs` | registers, vector registers, flags, guest memory | one instruction | virtual memory, exceptions |
| JIT lowering | `wie-cpu/src/jit/lower.rs`, `block.rs` | register image, loaded and dirty sets, deferred flags | one compiled block, its exit or chain | the same registers and memory |
| Exceptions | `seh.rs`, `exception.rs`, `msvc_eh.rs` | pending unwind sequences | raise, search, unwind, continue | session loop |
| Module loader | `dll_loader.rs`, `wie-pe` | modules, handles, fake addresses | load, resolve, free | virtual memory |
| Windows and messages | `user32.rs`, `guest_callback.rs`, `session.rs`, `trace.rs` | classes, windows, timers, hooks, menus, queue, pending callbacks on the guest's stack | register, create, move, post, peek, get, send, dispatch, complete a callback, park | session loop, embedding program |
| Files | `kernel32.rs`, `vfs/`, `guest_io_host.rs`, `guest_io.rs` | open files, virtual files, mounts, searches, current directory, in-guest table and mirrors, console input | create, close, read, write, seek, truncate, flush, delete, move, list | guest memory, host file system |

What is hard: guest code runs outside the one WinAPI mutex, so between two steps of a
thread any other thread may have loaded its own identity; waits happen outside the mutex
on objects whose handles can be closed meanwhile; only the primary thread can start
threads, and it may be waiting; exit has to reach threads that sit in a wait; heap,
last-error and file state is kept twice, by the host and by code planted in the guest; two
execution tiers must leave the same machine although one of them defers flags and keeps
registers in a copy; and a window procedure runs on the stack of the API call that is waiting
for it.

## 2. Modules

| Module | Models | One step is |
|---|---|---|
| `CriticalSection` | fields of a section, Enter, Leave, Initialize/Delete, host park, both loops, exit | one dispatch under the mutex, or one step of a park |
| `ThreadLocal` | `ThreadState` and the TLS handlers, thread ids | one dispatch, or one activation |
| `WaitObjects` | events, semaphores, thread objects, `WaitForSingleObject`, `CloseHandle`, teardown | one dispatch, or one step of a wait (resolve, check, sleep, wake, slice, return) |
| `GuestThreads` | creation, suspension, `drain_spawns`, nested joins, limit, exit | one dispatch, one drain, one host spawn, one slice |
| `GuestHeap` | `GuestHeap`, its control block in guest memory, heap handlers, in-guest helpers | one heap call |
| `LastError` | host copy, TEB word and publish cache | one dispatch, continuation or stub |
| `PageMap` | the run-length page map of `mem/pagemap.rs` as operators: lookup, split, set, check | |
| `GuestMemory` | `GuestMemory`: page map, VAD table, host arenas, host rights, JIT translations; the `Virtual*` calls, `mem_map`, checked and translated accesses | one call under the map lock, or one compiled store |
| `JitCode` | the shared block cache with its page index and direct-call ids, the threads' chain tables, compile and insertion, pending code writes, invalidation, the host calls that cause it | what happens under one lock |
| `Machine` | registers, flags, operands, guest pages with their rights, at a scaled byte width | |
| `Interp` | `exec.rs`: the meaning of one instruction, with the faults it may stop at half-way | |
| `Lower` | `jit/block.rs` and `jit/lower.rs`: which instructions form a block, and what the compiled block does to registers, flags and memory | |
| `Cpu`, `MCCpu` | both tiers on one program, with faults that the guest repairs and retries | one interpreted instruction, one compiled block, one repair |
| `User32` | the tables of `user32.rs`: classes, windows, MDI children, long pointers, timers, hooks, menus, focus, keys, and the conversions of rectangles | one API call |
| `MessageLoop` | on top of `User32`: the queue with its filters, the idle policy, the bridge into window procedures and back, workers, the embedding program | one API call, one return of a procedure, one park |
| `Vfs` | path resolution, the namespace of mounts, virtual files and host trees, directories, searches, delete and rename | one API call |
| `Files`, `MCFiles` | on top of `Vfs`: open files as buffers, streams and mirrors, all calls on a handle, the in-guest helpers, console input | one API call, or one call of a helper |
| `AddressSpace` | what the `Virtual*` calls promise, page by page; `GuestMemory` implements it | one change of one stretch of pages |
| `CriticalSectionProofs`, `WaitObjectsProofs`, `GuestHeapProofs`, `GuestMemoryProofs`, `JitCodeProofs`, `MessageLoopProofs`, `FilesProofs` | theorems about the module they are named after | |
| `ThreadProofs` | theorems about `ThreadLocal`, `GuestThreads` and `LastError` | |

`User32`/`MessageLoop` and `Vfs`/`Files` are compositions: the second module extends the first
and its actions conjoin the first one's calls with what they do to the second one's state.

Definitions keep the names of the handlers and functions they translate. A definition
called `X_Something` in front of `X` is a faulty variant of it, used only to show that the
property aimed at it can fail.

**Abstractions.** Thread ids, sections, handles and error codes are model values or small
numbers. In `GuestHeap` a word is eight bytes. In `GuestMemory` an address is a page key,
the content of a page is "zeros" or "written", and the generation counter is not kept: a
bump empties the set of translations that carry the current generation, which is all that
the comparison of generations can tell. In `JitCode` an address is a byte of a small code area
and the block at an address always has the same length and successors; what the bytes are is
left out, but every function carries the set of writers (`taint`) that changed its bytes since
they were decoded, a history the code does not keep. `Crews` lets one run cover programs of one
thread, which make more calls, and of two. In `CriticalSection` and `WaitObjects` time
is left out: a deadline may pass at any moment, which includes every real timing. Host
condition variables may wake spuriously in `WaitObjects` (`Spurious`), as
`std::sync::Condvar` allows. A guest is assumed correct only where a property would be
meaningless otherwise: it initialises and deletes a section only while nobody uses it, and
a thread that ends owns no section.

In `Cpu` a byte has two bits, so a quadword has sixteen and every carry, sign and overflow still
happens; floating point is an uninterpreted function, the same for both tiers. In `MessageLoop`
a stack slot is one word and the guest's window procedure is what the ABI allows it to be: it may
overwrite its home space, reserves its own frame, makes any call and returns. In `Files` a file is
a sequence of a few bytes, names are already folded to one case, and wildcards are `*` or a name.

The ghost variables of `Files` (`pos`, `content`, `dirty`, `drifted`, `shared`) record what a
program may expect of its own calls. Two of them mark where the code itself gives up: `drifted`
holds the handles of which one cursor was used while the other differed (section 5 says when that
happens), `shared` the paths that were opened twice, or deleted or renamed while open, for which
the last `CloseHandle` decides the content.

## 3. Runs

| Run | Instance | Shows |
|---|---|---|
| `sections` | primary, two workers, one section, two calls each, fair | mutual exclusion; `OwningThread`, `RecursionCount` and `LockCount` agree with each thread's own count; only the owner's last Leave frees a section; a parked Enter succeeds although Leave may notify nobody; workers of a dying process end |
| `tls_values` | primary, worker, two indices, two values | a thread reads back its own values whoever was activated meanwhile |
| `waits` | primary, worker, auto- and manual-reset event, semaphore, thread handles, spurious wakes, fair | semaphore units are neither lost nor doubled; an INFINITE wait never reports a timeout, and fails only for a closed handle or a dying process; joins of ended threads return; a dying process ends all waits; the teardown returns |
| `threads_life` | four thread ids, limit three, failing host spawns, fair | a thread procedure starts once; threads created by workers start while the primary waits |
| `heap_blocks` | 16 words, two classes, two large sizes one of which is cut from the other, five calls, helpers on, blocks freed twice | until a free is served that should be refused: held blocks are disjoint, free lists end and free blocks overlap nothing, payload words change only by the guest's own stores (and, in front of a part of a split block, by handing that part out or taking it back) |
| `last_error_cache` | three codes, a worker, one nested callback | `GetLastError` is right while nobody stores behind the cache |
| `guest_memory` | three pages, granules of two, host frames of two pages, three protections, two loader ranges | VAD table and arenas agree; the access cache and the JIT's translations are never stale; `VirtualQuery` is exact; the whole implements `AddressSpace` |
| `jit_code` | one or two threads, the second starting at any moment with its full flush, two blocks (one a stub, one across a page boundary), pending list of one page, threads symmetric | whatever inserts, drops and flushes interleave, the page index misses a Ready block only on pages a flush uncounted under another thread; with one thread the index and the direct-call ids are exact, no block is Ready after a host write or free changed its bytes, and the chain tables lead to Ready blocks only |
| `cpu_tiers` | nearly three thousand programs of one to four instructions, five machines, pages read-only or inaccessible | any mix of interpreted instructions, block exits and chained blocks leaves the registers, memory and flags the interpreter alone leaves (`TiersAgree`); an instruction retried after a fault leaves what an undisturbed one leaves, and bulk repeats equal the element loop (`Restartable`) |
| `windows` | one worker, two messages, procedures nested as deep as a stack of 30 words allows, four calls that change a table, one park or any number of them, coordinates of -2 to 1 | a nested procedure finds an aligned frame, its trampoline and all outer return addresses intact; returning resumes the caller that made the call; messages are taken once and in order; the calls that report a rectangle agree and answer no edge that overflows; a message for a waiting guest is delivered, unless a worker takes it or the API budget ends |
| `files` | drives C: (host tree) and E: (virtual files), a mounted file on each, the main module, files around a threshold of two bytes, two slots, an arena of three bytes, all helpers in the guest | a file has one content in all its forms; record, slot and mirror of a handle agree; stored buffers are on the host; `CreateFile`, `GetFileAttributes`, loading and listing agree on what exists and how long it is; console input arrives once and in order |

`files_seek` is expected to find a violation: with the default setting (seeks and sizes in the
guest, reads on the host) a `ReadFile` after `SetFilePointerEx` starts at the old position
(`findings` in `PROJECT.json`, section 5).

**Bounds.** `MaxCalls`, `MaxOps`, `MaxTids`, `MaxIndices`, `MaxDepth` cap how often the
guest calls. Two calls per thread allow recursion to depth two, contention, and a Leave by a
thread that is not inside; three threads allow a third party between a notify and a wake.
Four thread ids with a limit of three reach the limit and two levels of nested creation.
Five heap calls fill the region and reach every reuse path, a large block cut in two and both
parts held, and a free that is served twice. Three pages, the first at a
granule boundary, allow an allocation with an interior, a run split in two, a run merged on
both sides, two adjacent allocations of equal protection, and a host frame that sticks out
of its arena. `GuestMemory` counts nothing, so its run is exhaustive for that address space.
In `JitCode` a program of one thread compiles four blocks and makes three host calls, enough for
a drop and a recompile of both blocks and a call in between; one of two threads compiles two
blocks and makes one call, enough for every overlap of two inserts, of an insert and a drop and of
an insert and the flush of the worker that starts.
A pending list of one page overflows on the write that spans both; the other range host calls are
made for lies inside the second block.
In `Cpu` programs are finite and the pool of instructions is the bound: pairs of every flag writer
with every other form, triples around the instructions that keep part of the flags, and repeats
that overlap, run backwards or cross a page. In `Files` a program uses one name and makes six calls,
or two names (or the console, or a search pattern) and makes four: enough to open, outgrow the
threshold, close and reopen, or to open two handles and interleave them. In `MessageLoop` the
calls that change tables are counted (`MaxCalls`), those that only move messages and frames are
bounded by what was posted and by the stack. Coordinates run from -2 to 1 there
(`CoordHalf`), so that a window is created at a place that wraps to a negative one, or at one where
its right edge overflows, and moved to a size that wraps.

**Fairness.** Host threads keep running and deadlines pass: weak fairness of the loop steps
and of the steps of a wait. In `CriticalSection` a guest that is inside a section leaves it
at last (strong fairness of its Leave, because its dispatch competes with others), and in
`GuestThreads` a guest thread that waits for nobody ends at last; both are the guest's duty
and without them no join or Enter could be expected to complete. `WaitObjects` assumes
nothing of the guest. `MessageLoop` assumes that `run_persistent_until_yield` re-enters the
session after a park (weak fairness of `Rerun`), which is the loop it consists of; the run may
still end at any wait, because the API budget is used up or the idle policy does not park
(`ApiLimit`), and `WaiterServed` counts that as no longer waiting.

Deadlock is checked except in `GuestHeap`, `MessageLoop` and `Files`, whose guest may stop
calling, and `GuestMemory`, where the process ends after a host fault.

## 4. Proofs

TLAPS checks the following for every value of the constants that the assumptions allow.

* `CriticalSectionProofs`: `TypeCorrect`, `FieldsTellOwner`, `Exclusion`, `OwnerAlonePasses`.
  The invariant is type correctness with `OwnerAgrees` and the fact that a thread's count never
  exceeds its calls (so that the saturating additions do not saturate: `WidthAssumption`). Mutual
  exclusion follows because the fields name one owner and everyone else's count is zero; so does
  the action property `OwnershipHandover`, since a step that changes the owner's name is one of
  the owner's own or finds the section free.
* `ThreadProofs` proves about `ThreadLocal`, `GuestThreads` and `LastError`. `RecordsHold`,
  `Isolation`, `OwnValue`: `IInv` says that each thread's record, loaded or stored, holds what the
  thread stored; that exactly the created threads are registered; and that unallocated indices and
  unborn threads hold nothing. The lemmas `ActivateKeeps` and `LoadKeeps` show once that saving
  and loading moves values and changes none; each handler then changes the caller's own record
  only. `SpawnInvariant`, `ProcedureRunsOnce`, `SpawnsNeverLost`: a thread id is in at most one of
  the suspended table, the queue and the list being spawned, in each once, and then was not
  started; ids not yet handed out are nowhere. This excludes the double start through a nested
  `drain_spawns`. The same invariant shows that a thread is lost only when the host fails to start
  one. `CacheInvariant`, `UntouchedIsCoherent` (the empty cache, `None`, is no error code): while
  nothing was stored behind the cache, both copies agree and the cached value is the TEB's.
* `WaitObjectsProofs`: `UnitsNeverLost`, `SlicesInvisible`. To `UnitsConserved` and
  `InfiniteWaitOutcome` the invariant adds that a parked thread has a wait record and that nothing
  refers to an object before it is created (else a new semaphore would start with units already
  given). A unit is in one of three places: the count, the hand of a thread that took it and has
  not returned, or the guest. Each step moves at most one, for which the threads must be finitely
  many (`IsFiniteSet(Workers)`: the units in flight are a cardinality).
* `GuestHeapProofs`: `HeapStaysSound`, `HeldBlocksApart`, `FreeListsStaySound`, `PayloadsIntact`,
  for every region, every set of size classes and every number of calls, with large blocks that are
  split and blocks that are freed twice. Two ghost variables say where the allocator gives up
  (section 5): `parts` are the addresses cut off a large block, whose header is the last word of the
  block before them; `misfreed` holds once a free was served that should have been refused, because
  the host's record was stale or the size was read in front of a part. The theorems hold up to that
  call, and `misfreed` itself only with the in-guest helper or after a split.
  What the guest holds and what the lists link do not determine each other, so the invariant
  `HeapInv` asserts a block map: every address ever handed out or cut off has a block of a class or
  of a large request, inside the carved part, with a word for its header between it and the block
  below unless it is a part (`Layout`; a part never lies right behind a class block). Free lists,
  large free blocks, headers and the host's record all describe that map (`Lists`, `Large`,
  `Headers`, `Recorded`); headers are trusted only of blocks that are no parts, and held parts are
  always in the host's record. `Lists` names the blocks of a list by position, because `Walk`, which
  follows the links, is a recursive function: the proof gives a closed form for it and shows by a
  least counterexample that every walk equals it and ends (a list without repetition is no longer
  than the region).
* `GuestMemoryProofs`: `SetRangeSafe`, `MapSound`, `TranslationsSound`, `StorageInStep`,
  `SpaceKeepsItsPromise`, `QueriesExact`. `SetRangeSafe`: setting a stretch of pages leaves the runs non-empty
  and apart, drops a stale cached run, and changes exactly the pages of the stretch; it rests on
  `SplitAtSafe`, which says that splitting a run at a boundary changes no page.
  `Core` (the page map is well formed and every allocation is a non-empty range of the space) is
  inductive by `CoreStep`, one case per call, each by `SetRangeSafe` or, for the checked accesses,
  by `CheckedSafe`. `PinsSound` follows since every step that changes the page map's answers
  bumps the generation (`GenerationTells`) and only `Pin` adds a translation
  (`OnlyPinPins`). `StorageMatches` is inductive on top of `Core`: a reservation of free
  pages meets no arena, so `MapRange` adds exactly one (`MapRangeFresh`, `StorageTaken`), and
  every other call keeps the extents (`StorageKept`).
  `SpaceKeepsItsPromise` is the refinement of `AddressSpace`, initial states and step by step
  (`SpaceInit`, `SpaceStep`). Through `SeenOf` what the guest sees of a page is a function of its
  run, its allocation and its data; `CommitStep`, `DecommitStep`, `AllocateStep`, `ReleaseStep` and
  `StoreStep` map the calls to the abstract ones, `UnseenStep` everything that only splits or joins
  runs, pins or caches to a stutter. It needs one more invariant, `FreeIsZero`: a page that is not
  committed holds zeros, so that committing it shows none of the former content.
  `QueriesExact`: the two scans of `virtual_query` are recursive functions, so the proof first shows
  that each equation has a solution and then, with the least (or greatest) page at which a solution
  could be wrong, that every solution ends where the stretch of like pages ends (`LeftScanExists`,
  `LeftScanEnds` and their mirror images). The scans compare protections of committed runs only; that
  the stretch is exact for reserved pages as well needs `ReservedBare`: reserved pages carry none.
  The three last theorems assume that the loader maps free pages only (`~OccupiedMaps`); section 5
  shows why that has to be assumed.
* `JitCodeProofs`: for any number of threads `IndexNeverMisses` and `DispatchRight`. `IndexCovers`
  alone is not inductive: between its locks an insertion has counted a page and not yet entered
  the block, a drop has taken the block out and not yet uncounted it. `ClaimsCounted` says that the
  index counts, on every page that is not in `lost`, at least the Ready blocks and the threads in
  between, for which threads and addresses must be finite. `lost` are the pages that the last full
  flush uncounted under a Ready block or a thread in between; every worker's `install_runtime_hooks`
  is such a flush. An entry overwritten while Ready leaves its count behind, hence
  "at least". `Basics` says that every id kept anywhere (cache, direct calls, chain and edge tables,
  the threads themselves) is of a function compiled for the address it is kept under, which is
  `DispatchRight`. For a program of one thread `SoloInvariant` tightens this to exact counts and ids,
  and follows a host write through its stages (`Due`): a block whose bytes were changed is named by
  the pending pages, the overflow flag, the span in hand or the list to drop, at every step until
  it is gone. From it come `IndexStaysExact`, `WritesInvalidate` and `TablesFollowCache`.
* `MessageLoopProofs`: `FramesStayWhole`, `CallsUnwind`, `ReturnsFindTheirCall`, `MailInOrder`,
  `AnswersAgree`, for every stack, every depth of nesting and every queue. `Bridge` ties the guest's
  own frames, the pending calls and the words of the stack together at every depth, with the frame of
  depth `i` at a fixed distance from the first; so a new frame lies below all return addresses. The
  stack has an even number of words (`LoopAssumption`): it is made of whole pages and callers keep it
  aligned to 16 bytes. `Mail` says that queue and log are in the order of posting per kind; the message
  a filter takes is the first that matches (`MatchFacts`, by a least element), so none of its kind
  is left in front of it. `AnswersAgree` holds for any half-width `CoordHalf` of a coordinate; `get_window_rect` refuses
  a sum that does not fit, so no answer wraps.
* `FilesProofs`: `FilesStaySound`, `OneFileAlways`, `FlushesAreDurable`, `MirrorsExact`,
  `NamesAlwaysAgree`, `InputStaysInOrder`, for any paths, drives, mounts, file contents, handles
  and sizes of table and arena. `FileInv` has four parts. `NamesInv`: the host's tree has a
  directory above every entry, mounts are files, virtual files lie on unmapped drives (and may have
  the name of a mount there).
  `HandlesInv`: the host path of a record is the one of its guest path, a streamed file has one and
  no slot. `MirrorInv`: slots and records point at each other, mirrors start at different places,
  and for a handle that has not drifted slot, record and arena agree; a mirror that does not
  overlap its neighbour is needed for the bytes to survive the neighbour's writes. `ContentInv`: a
  path that is not open twice has one content, in its handle's buffer or, without a handle, where
  the namespace finds it; a clean handle's is on the disk. Of the lemmas, `RenamedFacts` and
  `RenamedTree` say what a rename does to a tree, `WrittenFacts` what a write does to bytes, and
  `ContentStep` reduces a call to the paths and handles it touches.
  `PathAssumption`: with a path its directories are paths, and an input names a path
  again (both hold of Windows path strings, which the model cuts to a finite set).
  `FilesAssumption`: the host's file system is a tree, and files are mounted, not directories.
  `NamesAlwaysAgree` needs no more: a mounted name that is listed twice (section 5) is the exception
  in the property. `InputInOrder` is inductive with the types of its variables.

Only model-checked: `TiersAgree` and `Restartable` of `Cpu`, since `Interp`, `Lower` and `Cpu` use
RECURSIVE operators, with which the prover's SMT backend does not work; and all liveness
properties (TLAPS does not do liveness under fairness). Every other invariant and action property
of a run is stated by a theorem.

## 5. Where code and text disagree

Listed under `findings`, with the run `files_seek`: `SetFilePointerEx` (`kernel32.rs:8449`) stores
the new position in the host record and leaves the slot in the guest's table alone; the next
`ReadFile` takes the slot's position first and reads at the old place. `guest_io.rs:25` says that
host seeks refresh the slots.

Shown by configurations that are kept beside the runs; TLC finds the violation in each:

* `MCCriticalSection_exit.cfg` (`mt_runtime.rs:320`): a worker that owns a section calls
  `ExitProcess`; the primary thread, parked in Enter, retries for ever, because only workers look
  at `process_dying` there. `docs/mt-threads.md` lines 61 and 119 promise that all are woken.
* `MCWaitObjects_event.cfg` (`sync_obj.rs:350`): two threads wait for an auto-reset event, one
  `SetEvent` wakes one, the other is notified too late or spuriously: both waits report success.
* `MCJitCode_links.cfg` (`jit/lower.rs:1306`): a compiled block contains direct calls to the
  successors that were compiled before it. When such a successor is written to, its cache entry
  goes, but the caller stays Ready and runs the old function.
  `docs/phase4-code-invalidation.md:22` says that a block may run only while its bytes have not
  been written since.
* `MCCpu_rep.cfg` (`jit/lower.rs:3543`): with the inline path on, a small REP MOVS checks no
  overlap, copies whole vectors only and then advances rsi, rdi and rcx by the full length.
  `README.md:312` of the repository says "Overlap / DF=1 stay element-loop".
* `MCWaitObjects_closed.cfg`: a thread's handle is closed while a joiner waits; when the thread
  ends, `finish_tid` finds no object to mark (`mt_runtime.rs:411`).
* `MCGuestMemory_host.cfg`: commit, protect read-only (the host page becomes `PROT_READ`),
  decommit: the zeroing store faults (`mem/mod.rs:1068`). The same happens to the first store
  after a recommit with write access, which does not revisit the host rights.
* `MCJitCode_stores.cfg`: `note_code_write` is called by the host's `mem_write` only
  (`jit/mod.rs:1667`); stores of the guest leave the blocks they change Ready, against
  invariant 3 of `docs/phase4-code-invalidation.md`.
* `MCJitCode_exec.cfg`: `VirtualProtect` changes whole pages and drops the blocks of the
  unrounded bytes (`jit/mod.rs:1747`), and a commit can take execute away without dropping
  any; Ready blocks stay on pages that are not executable (invariants 2 and 4).
* `MCJitCode_tables.cfg`: an invalidation clears the chain table of its own thread; the other
  threads' tables still lead to the dropped block (`jit/mod.rs:1320`, invariant 6).
* `MCJitCode_flush.cfg`: `clear_compiled` takes three locks (`jit/mod.rs:616`); a block inserted
  between them stays Ready on pages the index no longer counts, so later writes miss it. Every
  worker makes this flush as it starts, outside the mutex (`mt_runtime.rs:188`). The pages are the
  exception `lost` in `IndexCovers`.
* `MCGuestMemory_occupied.cfg`: `mem_map` never refuses a range that is in use
  (`mem/mod.rs:474`), so the loader's fallback "Preferred base unavailable" in
  `dll_loader.rs` is not reached and an image overwrites what was there.
* `MCGuestHeap_split.cfg`: the remainder of a split block starts where the payload before it
  ends, without room for a header, so the eight bytes before it belong to the neighbour's
  payload (`guest_heap.rs:140`, against `guest_heap_accel.rs:11`).
* `MCGuestHeap_twice.cfg`: a second free of a block is accepted (`guest_heap_accel.rs:362`). After
  such a free the block is on a list twice, or on a list and held (`misfreed` in `GuestHeap`).
* `MCLastError_stale.cfg`: after the guest cleared the TEB word itself, an error equal to the
  last published one is not written again (`session.rs:1683`, against line 554).
* `MCThreadLocal_id.cfg`: the `GetCurrentThreadId` stub returns the primary's id to every
  thread (`docs/mt-threads.md:32`).

Read off the code while modelling; the models follow the code in each of these, or keep the
input out where the text says so.

Files:

* After a guest seek, `WriteFile` and `SetEndOfFile` still go by the host's cursor, and neither
  refreshes the slot. A seek to a negative position falls back to the host with its own cursor.
* A buffered host read that starts behind the end of the file makes the handler fail; the
  comment at `kernel32.rs:4503` says that 0 bytes mean end of file.
* Closing any buffered handle rewrites the whole host file: with two handles the last close
  wins, and a delete or rename of an open buffered file is undone by its close. `ExitProcess`
  without `CloseHandle` loses the buffered writes.
* `DeleteFile` of a virtual file removes it and reports failure. A mount on a mapped drive loses
  its writes. A directory listing has a mounted name twice if a file of the mapped drive or a
  temporary file has the same name: `GetTempFileName` looks at virtual files only
  (`kernel32.rs:3799`). A rename that fails has already created the directories of the new name
  (`backend.rs:314`). The base name of the main module shadows a file of that name
  in every directory.
* A mirror that grows may overrun its neighbour (only with `WIE_GUEST_IO=all`).
  `SetCurrentDirectory` does not refresh the directory the in-guest code reads
  (`kernel32.rs:5040` says it does).

Heap, threads and waits:

* `CreateThread` is refused below the limit (`kernel32.rs:5939`); `RefusedOnlyAtCap` of `GuestThreads`
  fails with three thread ids and a limit of two.
* The tail of a reused large block that is smaller than the threshold is not returned to any free
  list (`guest_heap.rs:4` says that nothing is leaked for good).
* `wait_until_finished` (`sync_obj.rs:225`) does not look again after a wake, so a spurious wake ends
  a join before the thread has ended.

Windows and messages:

* `PostMessage` and `SetTimer` accept the null handle and the fake window only. A procedure set
  with `SetWindowLongPtr(GWLP_WNDPROC)` is not the one messages go to. `GetAsyncKeyState` answers
  in bit 7, its comment says 15. `GetWindowRect` fails for the fake window, `GetClientRect`
  succeeds.
* The synthetic `WM_QUIT` is given although messages the filter does not match are still queued
  (`user32.rs:3525`). A generated timer id may be one that was requested (`user32.rs:3019`).
* A worker that calls `SendMessage`, or yields in `GetMessage`, is ended (`mt_runtime.rs:338`); its
  other `GetMessage` and `PeekMessage` calls take the primary's messages.
* A `longjmp` out of a window procedure leaves its pending entry on the stack of callbacks.

Instructions on which interpreter and compiled code differ; `MCCpu` leaves them out of its pool,
so `cpu_tiers` says nothing about them:

* the high byte registers as a source; `cwde`; `xadd` (the sum is cut to 32 bits); `cmpxchg` (RAX
  is neither read nor written whole, of the flags only ZF is set); `movq` to a general register;
  a 32-bit shift by CL = 0; bit tests with an index outside the operand;
* `rcl`, `rcr` and `bsr`: only compiled code knows them, the interpreter stops at them
  (`exec.rs:474`). A block whose only flag writers they are does not store the flags
  (`block_needs_flags`, `lower.rs:2905`), and `bsr` of less than 64 bits is off by 32;
* `inc` and `dec` directly after an instruction whose carry is still deferred (`lower.rs:3153`);
* accesses to a page that faults: `cmov` not taken, `xchg` and `pop` with memory, `adc` and `sbb`
  to memory, a 16-byte store across the page's edge, and REP (`exec.rs:1655`, `exec.rs:1779`).
  Flags deferred past a fault in the middle of a block are lost; `Lower` keeps that in `lost`;
* AF is not compared. The lowering of `movhps`, `movhlps`, the unpacks and `pshufd`
  (`lower.rs:2628`) is there and `is_lowerable` never admits it.

## 6. Not modelled

* Decoding of x86 bytes: `Machine` starts from decoded instructions. `Interp` has every mnemonic
  `exec.rs` accepts except RDTSC; the pool of `MCCpu` takes the forms on which the two tiers are
  meant to agree. The JIT's inline TLB and pin probes, its shadow return stack and the calls it
  makes straight into C-runtime helpers are left out of `Lower`.
* Exceptions (vectored handlers, unwinding) and the module loader: planned, section 7.
* PE parsing, one-time session setup, memory layout constants and the command line: straight-line
  code without protocol or interleaving.
* Graphics, dialogs, shell, registry and network stand-ins: they answer constants or draw, and
  keep no state another part depends on.
* The dispatch tables: lists from API names to handlers.
* Weak memory: every action is sequentially consistent. Time is abstract: a timeout may fire
  whenever a thread waits.

## 7. Plan

1. Module loader and exceptions: load order, reference counts; two-phase dispatch.
2. `WaitForMultipleObjects` and `DuplicateHandle` in `WaitObjects`; the path on which JIT
   helpers reach memory without the map lock, beside `GuestMemory`.
3. Several window threads, once the code has them; dialogs on top of `MessageLoop`.
4. Proofs: the agreement of the two tiers, if `Interp` and `Lower` are rewritten without RECURSIVE.
