# VVNZRunner: a TLA+ model of the Venezia bridge

VVNZRunner is a kernel plugin for the PlayStation Vita. It lets a user program
put code of its own ("MeP code") into the Venezia, a multi-core coprocessor
that the system uses for video and audio codecs, run it, and take it out
again. This directory holds a formal model of the plugin: TLA+ modules
translated from the C source, configurations that check them with TLC, and
proofs checked by TLAPS that the properties hold for any number of processes,
threads, memory blocks and mappings.

Contents: [the system](#1-the-system) · [modules](#2-the-modules) ·
[how the model follows the code](#3-how-the-model-follows-the-code) ·
[the discipline of callers](#4-the-discipline-of-callers) ·
[runs](#5-the-runs) · [proofs](#6-the-proofs) ·
[what the source does not keep](#7-where-the-code-and-its-documents-disagree) ·
[what is not modelled](#8-what-is-not-modelled) · [plan](#9-plan)

Running it, from this directory:

    tlc -workers 2 -config bridge_session.cfg MCVnzBridge.tla
    tlapm VnzBridge_session_proofs.tla

## 1. The system

All paths are under `src/`.

| Component | State it keeps | Operations |
|---|---|---|
| **Session core**, `VVNZRunner/main.c` | `s_registeredPid`, `s_requestedCode*`, `s_blockMapId`, `s_commHeapVaddr/Paddr` (main.c:43-54); in the kernel: a user map, a Venezia reference on the code memblock, the nesting of the process-suspend lock, the power state of the Venezia | `vnzBridgeInject`, `vnzBridgeRestore`, `vnzBridgeExec`, `vnzBridgeExecNoSuspend`, `vnzLockProcessSuspend`, `vnzUnlockProcessSuspend`, and the exit handler `procEvExitHandler` |
| **Execution clock**, `VVNZRunner/main.c:235-281` | `targetExecClockFrequency` and the kernel's own word `*_vnzExecClockFrequency` | `vnzBridgeSetVeneziaExecClockFrequency`, `…Get…`, `procEvHandler` (stop and start), `procEvExitHandler` |
| **Memory mapping and SPRAM**, `VVNZRunner/memory.c` | none of its own; Venezia references in the kernel, the contents of the SPRAM | `vnzBridgeMapMemory`, `vnzBridgeUnmapMemory`, copies to and from the SPRAM |
| **Unmapped memory**, `VVNZRunner/codec_engine_bridge.c` | none of its own; allocations and public openings in the kernel | `vnzBridgeAllocUnmapMemory`, `vnzBridgeFreeUnmapMemory`, wrappers of single kernel calls |
| **Start and stop**, `VVNZRunner/main.c:308-368` | resolved kernel pointers, registered handlers, patched Venezia image | `module_start`, `module_stop` |
| **MeP side**, `VVNZRunner/mep_boot/boot.c`, `samples_new/vnz_sample_hello_draw/src`, `sample_old/sample_mep/src` | the argument block in the communication heap, its address in one word of the SPRAM (`GET_COMM_PARAM`), V-thread contexts | boot thunk, `_start` of crt0, the samples' `main` and the V-thread they run |
| **ARM samples**, `samples_new/arm_sample_hello_draw`, `sample_old/sample` | framebuffers and an ELF memblock; in the old one, threads | new: inject, map, execute in an endless loop; old: inject, map, start threads that execute, poll until they have ended, unmap, restore |
| **GPO proxy**, `VVNZRunner/main.c:283-306` | `s_oldGPO` | a polling thread, compiled only with `ENABLE_GPO_PROXY` |

**How they interact.** User threads reach the plugin by system calls; a call
runs in the thread that makes it, on any of the ARM cores. Process events (stop,
start, exit, kill) are callbacks in a kernel thread. Calls and callbacks share
the statics of `main.c`, *with no lock around them*. `Exec` blocks its thread
for as long as the MeP program runs; argument and result travel through one
communication heap, 512 bytes at offset 256 of the injected memblock. `Restore`
is called both by users and by the exit handler. The clock word of the kernel is
written by `Set` and by all the handlers.

**What is hard here.**

* `Inject` tests `s_registeredPid` at main.c:102 and stores it at main.c:163,
  with three kernel calls between; `Restore` tests it at main.c:67 and clears it
  at main.c:82, with four between. Everything else trusts the statics while it
  is set.
* `Exec` reads `s_commHeapVaddr` before the MeP program runs, and again after.
* Each function can fail between its kernel calls; what has been taken must be
  given back on each of those paths, and only that.
* A process can exit or be killed in the middle of a session. The handler is the
  only way back to a usable bridge.
* `Exec` nests the kernel's suspend lock with that of other threads' `Exec` and
  with the callers' own; a missing unlock can never be made up for.
* `Unmap` rounds a range with two formulas, drops what is in the CPU's cache, and
  keeps no account of what is mapped; the CPU fills its cache when it likes.
* `Alloc` and `Free` are three kernel calls each, with no lock and no state of
  their own: two threads may free the same address.
* `module_start` reports success when it has given up half way.
* The samples ignore errors, and go on.
* Two words hold the clock, stored one after the other; the handlers, in another thread,
  decide by the one and write the other.
* Results are ignored in many places: of `sceKernelUserUnmap` in `Restore`, of the copy-in
  of `Exec`, of what puts a chunk back in `Alloc`, of the registration of the handlers.

**What makes each component correct.**

* Session core: at most one injection, and the statics, the kernel map, the
  reference, the communication heap and the processor all belong to it; a call
  runs inside the session it was admitted to; each lock and reference is given
  back once; a dead owner is cleaned up, and nobody else is; where a kernel call fails
  whose result is ignored, nothing is lost but what that call was about.
* Clock: the clock follows the state of the registered process, and no session
  starts with what another one asked for, but for a stop or start that overtakes a
  call of that process.
* Memory: `Unmap` releases what `Map` took, line by line; both processors read
  what was last written; the bounds of the SPRAM are exact but for sums that wrap.
* Unmapped memory: no allocation is freed twice or lost, but where the kernel refuses
  to put it back, and nobody gets a chunk while another answers for it.
* Start: however far it came, no session exists on a processor that does not run the
  patched image, and none outlives its program unless the kernel refused the handlers.
* Samples: they keep to the session; their MeP programs leave nothing behind, draw
  only on what is mapped, and resolve addresses through an open block; the old
  one comes to its end, and the new one goes on until it is killed.

The hazards, each with its line and the properties that would catch it, are in
`PROJECT.json`.

## 2. The modules

| Module | What it is |
|---|---|
| `VnzSession` | The abstract specification: what `include/vvnzrunner.h` promises of inject, exec and restore. One owner, a set of running calls, a closing phase; five actions. |
| `VnzBridge` | The session core as the code has it: 25 actions at the granularity of kernel calls, by any number of threads of any number of processes and the event thread. |
| `MCVnzBridge` | Values of the constants of `VnzBridge` for TLC. |
| `VnzBridge_proofs` | Types, the suspend lock with and without callers that pair their calls. |
| `VnzBridge_session_proofs` | The inductive invariant of the session, and what follows from it; that an exit is cleaned up. |
| `VnzBridge_refinement_proofs` | `VnzBridge` implements `VnzSession`, with its executions and, as `VnzClock` sees it, without. |
| `VnzClock` | The execution clock and the process events, a step for each store, over the abstract session. |
| `MCVnzClock` | Values of its constants for TLC. |
| `VnzClock_proofs` | The clock's types, the clock of the owner, the clock of a newcomer. |
| `VnzBridge_serial_proofs` | The data of a session outside Inject and Restore, and that nothing changes it there; which kernel maps are left behind; the argument block of each call. |
| `VnzAllocator` | The abstract specification of unmapped memory: a chunk is free, public, or in somebody's charge. |
| `VnzUnmapMemory`, `MCVnzUnmapMemory`, `VnzUnmapMemory_proofs` | Alloc, Free and the two wrappers, a step for each kernel call; its instance; its proofs, with the refinement of `VnzAllocator`. |
| `VnzRanges` | The arithmetic of `memory.c` in unsigned words: rounding, SPRAM bounds. |
| `VnzMemory`, `MCVnzMemory`, `VnzMemory_proofs` | Map, Unmap, SPRAM access, over the lines of memory, the CPU's cache of them, and the Venezia; its instance; its proofs, with those about `VnzRanges`. |
| `VnzBoot` | `module_start`, step by step. |
| `VnzSample`, `MCVnzSample`, `VnzSample_proofs` | `VnzBoot`, then the two sample programs and the MeP programs they execute; its instance; its proofs, with the refinement of `VnzSession`, the end of the old sample and the endless loop of the new one. |

`VnzClock` uses `VnzSession` and not `VnzBridge`: the clock sees nothing of a
session but who owns it and whether it is being closed, and the theorem
`ImplementsClockSession` says that what `VnzBridge` does to those two is a behaviour
of the session that `VnzClock` is written against. `VnzSample` too is
written against the session as calls that do not overlap see it; it composes
`VnzBoot` with the programs, and what it shows is that they are clients the
theorems about `VnzBridge` apply to. `VnzMemory` and `VnzUnmapMemory` share
nothing with the session but the kernel.

## 3. How the model follows the code

### VnzBridge

Each actor has a program counter `pc[a]`; a thread also has a `frame` with the
arguments and locals of its call. A step runs from one call into the kernel to
the next; two stores with no call between them are one step, except that the
store of `s_registeredPid` is always a step of its own: it is the store that
lets other calls in, and the order of the stores around it is one of the
hazards. `PROJECT.json` maps every definition to its lines.

| Code | Model |
|---|---|
| `s_registeredPid` | `registeredPid`, `NoPid` for an invalid UID |
| `s_requestedCodeBaseVaddr`, `s_requestedCodeSize` | `requestedCode`: the memblock that range is |
| `s_requestedCodeBase` | `requestedCodeBase`: the memblock at that physical address |
| `s_blockMapId`, `s_commHeapVaddr` | `blockMapId`, `commHeapVaddr`: a kernel map, by its id |
| `s_commHeapPaddr` | `commHeapPaddr`: a memblock |
| kernel maps, Venezia references, suspend lock, power | `mapOf`, `refs`, `suspendLock`, `powered` |
| contents of the communication heap | `commHeap[b]`: the code base in the header, and whose argument block is there, as its caller passed it (`"in"`) or as a MeP program answered in it (`"out"`) |
| the memblock at 0x20000000 | `atBase` |

* `vnzBridgeInject`: `InjectCall` (checks), `InjectUserMap`, `InjectLoad` (ELF
  checks and the stores after them), `InjectPin`, `InjectBase` (the comparison
  with the CDRAM base, its EFAULT path, the header), `InjectRegister`. Each
  failing branch is a disjunct that returns.
* `vnzBridgeRestore`: `RestoreEntry` (the check), `RestoreRelease`,
  `ResetSuspend`, `ResetResume`, `RestoreUnmap`, `RestoreClear`. The same steps
  serve users and the exit handler.
* `vnzBridgeExecCore`: `ExecCall`, `ExecCopyIn`, `ExecLock`, `ExecRpc`,
  `MepRun`, `ExecUnlock`, `ExecCopyOut`; with and without the suspend lock.
* `procEvExitHandler`: `ExitEvent` makes the comparison with the pid,
  `RestoreCheck` the one inside `vnzBridgeRestore`; they are separate steps.
* Every kernel call that can fail may fail. Where the code ignores it, so does the model,
  and goes on: `sceKernelUserUnmap` in `Restore` (main.c:77) may leave the map, which
  `unmapRefused` remembers; the copy-in of `Exec` (main.c:184) may leave the heap as it
  was, which the history `frame.copied` remembers.
* `vnzLockProcessSuspend` and `vnzUnlockProcessSuspend` are bare wrappers, and so are
  `LockProcessSuspend` and `UnlockProcessSuspend`: a thread nests its locks (up to
  `MaxNest`), and an undisciplined one unlocks what it has not locked, also under
  another thread's `Exec`. `userLock` counts, for the properties and the discipline.
* Data that no property tells apart is left out: which ELF it is, entry offsets,
  caching, sizes other than that of the argument block. The section test of
  main.c:120 accepts any PROGBITS section, because `==` binds tighter than `|`;
  `ValidElf` stands for whatever it accepts.

**Assumed of the kernel** (not in this repository, marked `external` in the map
or stated here):

* process events come one at a time, and an exit event when the threads of the
  process have left their system calls;
* a memblock that is mapped or referenced is not freed, so the memblock at the
  CDRAM base stays there while it is injected (`PlaceAtBase`);
* the suspend lock nests, whoever locks and unlocks; an unlock when nobody has locked, or
  a release of a reference that is not held, is an error that changes nothing;
* a copy from or to the user is done or not done as a whole, and a refused unmap changes
  nothing;
* the handlers of process events are registered (`VnzSample` has the other case);
* a store of one word is seen at once by the other cores, and the communication heap is
  coherent: `Exec` writes it back before the MeP program runs (main.c:200) and does not
  invalidate it before the copy-out (main.c:209); how the kernel maps it is not
  visible in this source.

A process that comes back (`Spawn`) has the memblocks it had, which keeps the set of
memblocks constant; what the old one left in a heap counts as its own.

### VnzClock

`SetCall`, `SetTarget` and `SetActual` are the call of `Set` and its two stores (main.c:243,
:244). `StopEvent` and `StartEvent` are `procEvHandler` up to its test, and `EventStore` is
its store: a stop or a start comes at any moment, between the two stores of a `Set` too, and
a `Set` on another core goes on between the handler's test and its store. `ExitEvent`,
`ExitTarget`, `ExitRestore` and the end of `Restore` are `procEvExitHandler`; an exit comes
when the threads of the process have left their calls. `hasSet` and `overtaken` are history
variables, which no guard reads. A `Set` with any other frequency (EINVAL) changes nothing.

Nothing in the code orders the stores of a `Set` and of a handler. With a stop between
main.c:243 and :244 the second store gives a stopped process its clock back; with a `Set`
and a `Restore` between the test and the store of a start, the store gives the next
owner the clock of the last. `overtaken` is set by an event of the owner that finds a call
of its process under way, and by a `Set` that finds a handler at work; it is cleared by a `Set`
that does not, and by an event that finds the process quiet and the clock not at the
default (such an event writes the kernel's word). Without it in their antecedents TLC
violates both properties of the clock, by those two traces.

### VnzUnmapMemory

A chunk is an allocation and its three addresses (user, physical, Venezia): the
conversions are one to one when they succeed, and every one may fail. `AllocCall`,
`AllocConvert`, `AllocOpen`, `AllocCopy`, `AllocUndo` and `FreeCall`, `FreeClose`,
`FreeConvert`, `FreeRelease` are the two functions; a failing call goes where the code
goes. The result of `sceKernelCopyToUser` (line 48) is ignored, so the address may
not arrive. The call that puts a chunk back (`PutBack`) may fail in Free and on the error
path of Alloc (line 55) alike; that, or a failed conversion in Free after the close,
strands the chunk (`stranded`, a history variable). `CloseUser` and `OpenUser` are the wrappers with which a program
withdraws a chunk from the Venezia and offers it again.

### VnzRanges and VnzMemory

Memory is a set of lines (256 bytes in the code), each with a value. `Released` and
`Invalidated` are the lines that the two formulas of `Unmap` come to, with the
sums cut off at the word; `Touched` is the definition they are compared with, the lines
that hold a byte of the range. `UnmapInvalidate` and `UnmapRelease` are separate
steps; in between, and at any other time, the CPU fills and evicts lines, and
writes those that are not mapped. The SPRAM calls take any offset and any size of a word:
`SpramAdmits` adds them in a word, as memory.c:48 and :56 do, so that a sum that wraps gets
past it; `strayed` says that an access has left the SPRAM, `wrapped` that a copy got past by
such a sum. The bound is `SPRAM_MEMSIZE` (common.h:24, 0x2500000), as in the code;
`SPRAM_MAP_SIZE` (common.h:20, 0x20000) is used by none of it, and not modelled.

Assumed of the kernel (`sceAvcodec`'s map, not in this repository): it takes one
reference on each line that holds a byte of the range, writes the CPU's data back,
and drops the CPU's copies of what the Venezia is to write. A release is an error
that changes nothing when a line has no such reference.

### VnzBoot and VnzSample

`module_start` is `FindEngine`, `FindAvcodec`, `RegisterHandlers`, `PatchImage`,
`ResetVenezia`; either lookup may fail, and the function then returns success. The kernel may
refuse to register the handlers (main.c:337); the result is ignored, and the rest goes on.
Then nobody closes the session of a program that exits, and the next program finds it: its
`Inject` is refused, and what it executes is the code of the dead one (`Orphaned`,
`Foreign`), which looks for its framebuffer in an argument that another program laid out.
Each kernel pointer has a name; a call through one that has not been resolved is `Fault`, and the
console must be restarted (`Reboot`).

The main thread of a sample is a program counter, from `Load` to `Restore`; every call
may fail, and the error is ignored or acted on as in the source. In the old sample an ELF
that cannot be loaded leaves `codeMem` unset (its main.c:171 and 192), so its `Inject` may
be refused or not, whatever the address is. `Poll` goes on while a thread has not
ended; a thread that was never started, or has deleted itself, has no exit
status, and counts as ended. The MeP program that a thread executes is `mep[t]`: `MepOpen`
(crt0), `MepCreate`, `RenderThread`, `Draw`, `MepDelete` (main and the V-thread),
`MepClose`.

Assumed: one program at a time, the next started when the exit of the last has been
handled, if anybody handles it; a new process does not get the identifier of the registered
one; a process exits when its threads have left their system calls, and its
mapped framebuffers go with it; an offset in a module that was found resolves;
deleting a context waits for its V-thread; opening a framebuffer that is mapped
succeeds in the new sample, which does not test it (`renderThread`, line 69).

## 4. The discipline of callers

Without a lock in the plugin, some of what the header promises is up to the
callers. What they must keep is a constant of the model, so that each run and
each theorem says what it depends on:

* `Exclusive` is a set of operations, alone or in pairs, that are never under way at
  the same time in two user threads. `{"inject"}`: two injects;
  `{"restore"}`: two restores; `{"restore","exec"}`: a restore beside an exec.
  Only those three are needed for the session (`SessionRules`);
  two *execs* may overlap. With `{"exec"}` as well they do not.
* `Disciplined`: a process restores and executes only its own injection (or finds
  none), a thread calls `vnzBridgeExecNoSuspend` only inside its own
  `vnzLockProcessSuspend`, unlocks only what it has locked (nesting as it likes), and
  gives all of it back before its process exits. Without it, a thread unlocks whenever it
  likes, and a process exits with locks on.

The exit handler keeps no discipline: it runs whenever the kernel calls it,
beside whatever the other processes do, in all runs and theorems.

The repository's own clients keep all of these: in `VnzSample` calls of one program
never overlap but for the old sample's threads, and `KeepsSession` says that none of these
executes when the main thread restores. What goes wrong without
the discipline is what three of the violation runs show.

In `VnzClock`, `Disciplined` means that the registered process changes the clock or
restores from one thread at a time (process events keep no such rule), and `ResetsFirst` that it puts the clock back
to the default before it restores.

In `VnzUnmapMemory` a program frees an address once and while it has it, except for
those in `Raced`, which its threads free whenever they like: `ChunksAccounted` and the
refinement hold with them too, `HandlesLive` is about the others.

In `VnzMemory` a thread unmaps what it mapped, with the same `isVnzWritable`
(vvnzrunner.h:118); no CPU writes a line while it is mapped, which is what the header's
demand for alignment is for (vvnzrunner.h:102); and the MeP programs of a thread do not
use a mapping that it is unmapping. Different threads may map overlapping ranges.

## 5. The runs

Distinct states are those of TLC with the bounds given.

| Run | Instance | Shows |
|---|---|---|
| `bridge_session` | 2 processes, 3 threads (two share a process), 2 memblocks, one of each process, 2 map ids, locks nested up to twice by a thread; session discipline; about 893 000 states | `SessionIntact`, `PinsBalanced`, `ExecInsideSession`, `SuspendGuarded`, `ExitSparesTheLiving`, `OneInjection`; `SuspendLockBalance`, that the lock is as deep as those who have it on; `SessionInv`, the inductive invariant of the proofs; `SessionFrozen`, that nothing a session is made of changes between Inject and Restore; `SessionSpec`, the refinement |
| `bridge_serial` | 2 threads of one process, 3 memblocks (one not an ELF, one of another process), 2 map ids; executions one at a time too; about 45 000 states; fair | `OwnArgument`, with copy-ins that fail; `MapsAccounted`, that a kernel map is left behind by a failing `Inject` or a refused unmap and by no other step, with the ENOEXEC path that the other run lacks; the liveness property `ExitCleansUp` |
| `bridge_free` | 2 processes with a thread each, 1 memblock, 1 map id, locks nested up to twice; no discipline at all, unpaired unlocks and exits with locks on included; about 1 970 000 states | `TypeOK`, `SuspendLockReleased`, `DeadOwnerCleaned`: what the code keeps by itself |
| `clock` | 2 processes, 3 threads, frequencies 166, 333, 41 and an illegal one; a stop or a start between any two stores; 3 848 states | `TypeOK`, `ClockFollowsOwner`, `DefaultUntilSet` |
| `unmap` | 3 threads, 2 chunks, one of them freed by any thread at any time; about 13 700 states | `TypeOK`, `ChunksAccounted`, `HandlesLive`; `AllocatorSpec`, the refinement |
| `memory` | 2 threads, 4 lines of 2 bytes, one range that begins and ends inside lines and overlaps one that does not, 2 values; words of 8 values, 5 bytes of SPRAM, all offsets and sizes; about 197 000 states | `TypeOK`, `RefsFollowMappings`, `CpuCoherent`, `VeneziaCoherent`; `SpramBounded`, that an access leaves the SPRAM by a sum that wraps and by no other; `ViewsAdvance`, that what a CPU reads never goes back to an older value, in mapped lines too |
| `sample` | 2 processes that start as either sample, one after the other, with and without the handlers; 1 705 states; fair | `TypeOK`, `SessionsWatched`, `FaultsOnlyUnstarted`, `CommParamOpen`, `DrawsMapped`, `RunsLeaveNothing`, `KeepsSession`; the liveness properties `OldEnds` and `NewGoesOn` |
| `double_inject`, `map_leak`, `arg_size`, `arg_mixup`, `clock_default` | small | one documented claim each that the code does not keep (section 7) |

**Why these bounds.** The conflicts of this code are between two calls, or
between a call and the event thread: two threads of one process and one of another make
all of them, and the third leaves room for a bystander. Two memblocks with
ELFs in different processes make each change of owner and, as one or the other is
at the CDRAM base, the EFAULT path; the one without an ELF, in `bridge_serial`, makes
the ENOEXEC path. Two map ids let a leaked map and a live one
exist together; with none free `sceKernelUserMap` fails, which it may at any
time anyhow. Ids are only compared, so they are a symmetric set, and so are in
`bridge_session` the two threads of one process (no temporal
property other than the safety properties `SessionSpec` and `SessionFrozen`, which
single out none of them, is checked under symmetry; nor, in `memory`, any but
`ViewsAdvance`, which names no thread). `MaxNest` bounds the locks of one thread: two
levels, beside those of other threads and of `Exec`, are what one unlock too few or too
many needs to show. Nothing else is bounded: the counts of references are bounded by the
program itself. The sizes
500 and 501 are the two sides of the one comparison the code makes.

In `unmap`, two threads free one chunk while a third allocates or frees the other; with
both taken the allocator has nothing to give. In `memory`, two threads hold the same
line for reading and for writing at once; one range starts at the last byte of a line
and ends in the next, where each of the formulas is off by one line when a term of it
is missing; line 3 is next to a range and in none, so a line too many shows. A word has 8
values and the SPRAM 5 bytes, so that sums stay below, at and above the bound, and wrap, to
both sides of it. In `sample`, two processes make each order of the two programs, and a process identity that comes
back; one thread is what the old sample is built with (`VTHREAD_NUM`), two are a mutant.

**Fairness.** `ExitCleansUp` needs weak fairness of `ExitHandler`:
that the kernel thread that runs the handler goes on running. The handler waits
for nobody: each of its steps is a kernel call that returns, or a store.
User threads get none there: they may be killed or never scheduled again.
`OldEnds` and `NewGoesOn` need weak fairness of the sample's main thread, of each of its threads
together with the MeP program that it executes, and of the exit handler: a runnable
thread is scheduled, and the MeP programs of the samples have no loop that waits.
Nobody has to start a program, kill it, or restart the console.

Deadlock is checked in every run. Every property has a mutant, a plausible
mistake in one definition, that TLC shows to violate it (`PROJECT.json`).

## 6. The proofs

Proved with TLAPS, for every value of the constants that satisfies the named
assumptions of the modules (processes, threads, memblocks and map ids are any
sets, with finitely many threads). *SerialRules*: `SessionRules`, and `{"exec"}` exclusive.

| Theorem | Module | Under |
|---|---|---|
| `TypeCorrect`: `[]TypeOK` | `VnzBridge_proofs` | nothing |
| `SuspendLockGivenBack`: `[]SuspendLockReleased` | `VnzBridge_proofs` | nothing |
| `SuspendLockBalanced`: `[]SuspendLockBalance` | `VnzBridge_proofs` | `Disciplined` |
| `DeadAreCleaned`: `[]DeadOwnerCleaned` | `VnzBridge_session_proofs` | nothing |
| `SessionConsistent`: `[]SessionInv` | `VnzBridge_session_proofs` | `SessionRules` |
| `ExecStaysInside`, `InjectsOnce`, `SuspendIsGuarded`, `LivingAreSpared` | `VnzBridge_session_proofs` | `SessionRules` |
| `ImplementsSession`: `Spec => SessionSpec` | `VnzBridge_refinement_proofs` | `SessionRules` |
| `ImplementsClockSession`: `Spec => ClockSession!Spec` | `VnzBridge_refinement_proofs` | `SessionRules` |
| `ExitIsCleanedUp`: `ExitCleansUp` (liveness) | `VnzBridge_session_proofs` | `FairSpec`, `[]HandlerReady` |
| `SessionStaysIntact`, `PinsStayBalanced`: `[]SessionIntact`, `[]PinsBalanced` | `VnzBridge_serial_proofs` | `SessionRules` |
| `SessionStaysFrozen`: `SessionFrozen` | `VnzBridge_serial_proofs` | `SessionRules` |
| `MapsAreAccounted`: `MapsAccounted` | `VnzBridge_serial_proofs` | `SessionRules` |
| `ArgumentIsOwn`: `[]OwnArgument` | `VnzBridge_serial_proofs` | `SerialRules` |
| `ClockTypeCorrect`: `[]TypeOK` | `VnzClock_proofs` | nothing |
| `OwnersClock`: `[]ClockFollowsOwner` | `VnzClock_proofs` | `Disciplined` |
| `DefaultForNewcomers`: `[]DefaultUntilSet` | `VnzClock_proofs` | `Disciplined`, `ResetsFirst` |
| `UnmapTypeCorrect`, `AllChunksAccounted`, `HandlesStayLive`, `ImplementsAllocator` | `VnzUnmapMemory_proofs` | nothing |
| `RoundingIsExact`, `SpramChecksAdmit` | `VnzMemory_proofs` | nothing |
| `MemoryTypeCorrect`, `ReferencesFollowMappings`, `CacheConsistent`, `CpuReadsLatest`, `VeneziaReadsLatest`, `SpramLeftByWraps` | `VnzMemory_proofs` | nothing |
| `ViewsNeverGoBack`: `ViewsAdvance` | `VnzMemory_proofs` | nothing |
| `SampleTypeCorrect`, `SessionsAreWatched`, `StartedNeverFaults`, `CommParamStaysOpen`, `DrawsOnMapped`, `RunsCleanUp`, `SamplesKeepSession` | `VnzSample_proofs` | nothing |
| `OldSampleEnds`, `NewSampleGoesOn`: `OldEnds`, `NewGoesOn` (liveness) | `VnzSample_proofs` | `[]GuardsSuffice` |

**Types and the lock.** `SuspendLockReleased` is inductive, for any callers: each step
changes the lock and the membership of at most one actor in `ExecHolders` or `UserHolds` (the
levels that threads have on); an unlock takes one level off as well as one holder, or finds
the lock at zero already, or is made by somebody who holds nothing and only lowers it. That
the lock is exactly as deep as its holders (`SuspendLockBalance`) needs callers that unlock
only what they have locked; then it is inductive too. `Thread` must be finite for the count.

**The session.** None of the session properties is inductive: each looks at the
moment at which nobody is in the middle of something. `SessionInv` says
what holds in the middle:

* `ControlInv`, who may be where. One `Inject` at a time, and only while nobody is
  registered; one `Restore` at a time, of the registered process, with no `Exec`
  beside it; the exit handler is at work exactly while the registered process is
  dead. This is where the discipline is used, and where the exit handler is
  shown to need none: a process that exits has no call under way, a dead process makes
  none, and no other process touches its session.
* `InjectInv`, how far an `Inject` has come; `RegisteredInv`, what lasts until the
  last store of `Restore`, what the reset does to the power, and what an `Exec`
  has captured.
* `SessionIntact` and `PinsBalanced`, the two properties about data.

`ControlInv` is proved first, by itself, with one step for each action. It gives
the fact the rest rests on: an actor past the check of `Inject` or `Restore` is
the only one that changes the statics, maps or references. With it each step
of data is a calculation about one actor. `ExecInsideSession`, `OneInjection`,
`SuspendGuarded` (with `SuspendLockBalance`: somebody who holds the lock makes
the count positive) and `ExitSparesTheLiving` follow from the invariant.

**The refinement.** `registeredPid` is the owner, `closing` is that somebody is past the
check of `Restore`, and `running` is the set of threads past the check of `Exec`.
`InjectRegister` opens, `ExecCall` starts a call, the last step of `Exec` (or a
failing lock) finishes one, `RestoreEntry` begins to close, `RestoreClear`
closes; every other step stutters. The invariant gives the abstract guards:
that the owner is the caller's, that nothing runs when closing begins, that nobody
else is closing.

**The clock.** `ChangerInv` says that one actor at a time changes the clock or closes
the session: a thread of the running owner, or the exit handler of the dead one; a stop or
start handler at its store may be beside either. `CarriedInv` says what a `Set` carries to its
second store and what the exit handler has done to our word. `WordsInv`, which holds while
nothing is `overtaken`, says that a handler is beside no `Set`, and that but for a store
under way the kernel's word is the expected one. It is inductive because whatever could break
it sets `overtaken`, and what clears `overtaken` stores both words, or carries the expected
one. `DefaultUntilSet` needs more, what the next session inherits (`InheritInv`): with nobody
registered, or a session closing, our word is the default.

**The argument block.** `OwnArgument` follows from two invariants beside `SessionInv`. With one
thread at a time inside `Exec`, its steps are the only ones that change the block of the
session it is in, and `Inject` and `Restore`, which the session rules keep apart from it,
leave that block and the statics alone: so what a successful copy-in wrote stays
(`FreshArgument`). And a heap holds only what calls of its owner's process left there
(`ArgsAtHome`), because a call writes only in the session it is inside of: so what a failed
copy-in leaves is never another process's.

**Unmapped memory.** `ChunksAccounted` is inductive as it stands: `InCharge` is defined by
the step a call has reached, the close of a public chunk succeeds for one caller only, and a
call that cannot put its chunk back leaves it `stranded`, from Alloc as from Free.
`HandlesLive` needs `HandleInv`, what a Free or the end of an Alloc knows of the address
while it is on its way. The refinement maps who answers for a chunk to the abstract
`charge`; `ChunksAccounted` makes it a function.

**Memory.** `RoundingIsExact` is arithmetic: both formulas are a multiple of the line that
reaches the end of the range and stops less than a line beyond it, so the lines they
cover are those with a byte in it. With it `Unmap` gives back exactly what `Map` took,
which makes `RefsFollowMappings` inductive (the count of a line is the cardinality of
its holders). Coherence follows from `CacheInv`: memory lags only behind a dirty copy,
a dirty copy is never of a mapped line, and a copy is stale only while the Venezia may
write the line, or the invalidation is still to come. `SpramChecksAdmit` is the arithmetic
of the SPRAM: a check in a word lets through the accesses that stay inside, and the copies
whose sum wraps to no more than the size; `SpramBounded` follows step by step.

**Samples.** `SampleInv` has four parts: what each step of `module_start` has
established, and that a registered process implies the pointer to the map (`StartInv`,
`ClientInv`); where the program, its threads and the exit handler can be at the same time
(`ClientInv`: no thread executes past the polling loop); which framebuffers are mapped at
each step (`BufferInv`); and, for each step of a MeP program, its opening and its context
(`MepInv`, which uses that one thread executes at a time). `SessionsWatched` is where they
meet: `Inject` needs the last pointer that `module_start` resolves, so a plugin that gave
up refuses by a fault what would run on an unpatched image; and with handlers, the exit
that would leave a session behind begins to close it (`Watched`). Without them an orphaned
session is executed by the next program: the refinement lets these steps be, and `DrawsMapped`
is about the others.

**What stays as it is.** `SessionFrozen` is an action property, and the one to cite for
a call that reads a static, waits, and uses what it read: by `ControlInv` only an actor
inside `Inject` or `Restore` writes the statics, maps or references, and neither is there
while a session is open. `ViewsAdvance` is its counterpart for memory: a clean copy may be
dropped at any time, because memory is then up to date (`CacheInv`); a dirty one is
dropped by nobody, because the lines that an invalidation covers are those of a mapping
(`RoundingIsExact`), and of these there is no dirty copy.

**Kernel maps.** `MapsAccounted` is an equivalence, for each map and each step: nobody has the
id of a live map after the step exactly if nobody had it before, or an `Inject` of that map
gives up in the step, or the kernel has refused to remove it. From left to right it bounds
`map_leak` (section 7): only the failing paths of `Inject` after `sceKernelUserMap`, all of which
end at main.c:167, and the ignored result at main.c:77, leave a map. From right to left it says
that they always do, and that what is left is neither unmapped nor mapped over, by no later
session. Three small invariants beside `SessionInv` are needed: only an `Inject` past
`sceKernelUserMap` has an id in its local (`PageInv`), at the last store of `Restore` the
session has none (`ClearInv`), and a map that the kernel kept is abandoned for good
(`RefusedInv`). `KernelMoves` says which steps touch maps at all; the others
only hand an id from the local of `Inject` to `s_blockMapId`.

**Between the modules.** `ImplementsClockSession` hides the executions of `VnzSession`:
`Start` and `Finish` change neither the owner nor the closing phase, so they stutter, and
the steps that do are `VnzClock`'s. With `ImplementsSession`, the sessions of `VnzBridge`
are among those the theorems of `VnzClock` are about.

**Liveness.** The liveness properties are proved from weak fairness, for any number
of processes, except for one thing: no prover expands ENABLED, so that the fair actions
can be taken where their guards hold is a hypothesis of the theorems (`HandlerReady`,
`GuardsSuffice`). It holds by the shape of the actions, each of which is a guard on a
program counter with assignments to all variables, and is no property of the code, so no run
has it; the runs check the liveness properties themselves without it. That the guards do hold,
or the program waits for a thread that still runs, is proved: `GuardsHold`, from
`SampleInv` (a worker is unspawned until it is its turn; a session that the main thread
waits to see closed is closing).
For `ExitCleansUp`: whoever is dead and registered is in the hands of the handler
(`DeadOwnerCleaned`); each step of the handler leads to the next or to its end
(`HandlerAdvances`), nobody else's step moves it, unless it clears the registration
itself (`OthersLetHandlerBe`), and the handler's last step clears it. For `OldEnds`: each
step of the main thread leads on, up to the loop (`OldMain`, `LoopEnds`); there the fairness of the
executing thread brings its MeP program, on whichever of its paths, to its end; after
that the fairness of the main thread takes it out of the loop, through the unmap and
through `Restore`. `NewGoesOn` is the same argument round the endless loop: each step of the
main thread leads to the next frame (`NewMain`), and the fairness of the same thread brings
the call and its MeP program to the display (`ExecReturns`). A kill or a fault ends a program
from any of these steps, but not a new sample inside a call: it is in its MeP
program's hands, which is why the steps of that program need a proof of their own.

**Only model-checked**: that the fair actions are enabled where their guards hold, for the
reason just given, as part of what TLC does for the three liveness properties. Every property
of a passing run is a theorem, under the hypotheses of the table.

## 7. Where the code and its documents disagree

Each is a run whose counterexample is a behaviour of the code as modelled.

* `double_inject`: "Only one injection per process is possible" (vvnzrunner.h:12).
  Two threads both pass main.c:102 before either reaches main.c:163.
* `map_leak`: the label `return_with_unmap` (main.c:167) unmaps nothing; a failed
  `Inject` leaves its kernel map, and the next one overwrites the only id of it. The run
  shows it on the EFAULT path (main.c:141-145). `main_old.c:161` did unmap.
  `MapsAccounted` is the exact extent of it: beside these paths only a kernel that refuses
  to unmap leaves a map behind, whatever step a session ends at.
* `arg_size`: "If value of userArgSize exceeds 500, SCE_ERROR_ERRNO_E2BIG will be
  returned" (vvnzrunner.h:32): not when `pUserArg` is NULL, and the size is passed on.
* `arg_mixup`: every call has a `pUserArg` of its own (vvnzrunner.h:35) and tasks run
  on up to six cores at the same time (README.md:14), but there is one heap for all
  the argument blocks.
* `clock_default`: "Default value is 166 MHz" (vvnzrunner.h:137). `Restore` leaves the clock
  as it is; the next process inherits it.

## 8. What is not modelled

* **A session without handlers, beside other calls**: `VnzSample` has it, for programs one
  after the other; `VnzBridge` and `VnzClock` assume that the kernel registered the handlers.
* **Two programs at once**: `VnzSample` has one at a time. `Exec` tests that somebody is
  registered, not who (main.c:177), so a second sample beside the first would
  execute the first one's code; `VnzBridge` has any number of processes, and its
  `Disciplined` says what they must not do.
* **Exits with unmapped memory or mappings**: what the kernel does with the openings, chunks
  and references of a dead process is not visible in this source.
* **The cache of the communication heap** (main.c:200, :209): `VnzBridge` takes the heap as
  coherent (section 3).
* **The size of the SPRAM**: that `SPRAM_MEMSIZE` (common.h:24) is what is there; the smaller
  `SPRAM_MAP_SIZE` (common.h:20) is used nowhere.
* **Unmaps that match no Map**: a second one, or one with the other value of
  `isVnzWritable`, against the header; outside the discipline of `VnzMemory`.
* **The reference that `Inject` holds, beside a program's own mappings of the same
  lines**: `VnzBridge` and `VnzMemory` each have their references, and are not composed.
* **Pixels**: `drawFont` tests the right edge only (MeP main.c:27), and the position
  follows the buttons; drawing is one step here.
* **After the endless loop** of the new sample (ARM main.c:143-155): never reached.
* **GPO proxy**: one thread that copies a word, in builds that no project file makes.
* **Wrappers of a single kernel call** (codec_engine_bridge.c:10-18, 88-137): those that
  convert an address or read the processor load change nothing; those that register and
  unregister a range (129-137) tell the kernel something that no other operation here
  depends on, since `Alloc` and `Free` have the same calls commented out.
* **`main_old.c`** (327 lines): superseded; read only for what the current code is meant
  to keep.
* **Tables and headers**: `elf.h` (3928 lines) and the two copies of `errno.h` (768 each)
  are constants, almost two thirds of all lines of source; fonts are data, `float.c`
  arithmetic without state, the other headers declarations. So the share of lines that
  definitions can stand for is small, though the plugin's operations that change
  state have theirs, but for the two above.
* **A suspend lock whose holder exits** (main.c:225): what the kernel does with it
  is not visible here. `bridge_free` has such exits, and the levels stay on.

## 9. Plan

Done: the session core and its refinement, the clock, unmapped memory and its
refinement, memory and SPRAM, start, both samples; every safety property of a passing
run is proved, and the three liveness properties from fairness and the hypotheses above. What is left, in
this order:

1. Two programs at once in `VnzSample`, with the overlap that `VnzBridge` allows.
2. `VnzMemory` composed with the reference that `Inject` holds: a program's `Unmap` of
   lines that overlap the injected code.
3. Callers outside the header's rules in `VnzMemory` (an `Unmap` without a `Map`): that
   they disturb only their own memory.
4. The bounds of `drawFont`.
