------------------------------ MODULE VnzBridge ------------------------------
(***************************************************************************)
(* The session core of the VVNZRunner kernel plugin (VVNZRunner/main.c):   *)
(* vnzBridgeInject, vnzBridgeRestore, vnzBridgeExec, vnzBridgeExecNoSuspend,*)
(* the process-suspend lock, and the exit handler that restores the        *)
(* Venezia processor when the registered process goes away.                *)
(*                                                                         *)
(* The plugin holds no lock: every system call runs in the thread that     *)
(* makes it, exit events run in a kernel thread, and all of them share the *)
(* statics of main.c.  An actor's program counter pc[a] therefore stops at *)
(* every call into the kernel, and between the accesses of one function to *)
(* the statics that another actor can separate.  Stores that follow each   *)
(* other with no call between them are one step.                           *)
(*                                                                         *)
(* Abstractions.  An address inside a user memblock is named by the        *)
(* memblock, whether virtual or physical; the kernel page of a user map is *)
(* named by the map's id; NULL and the non-positive UIDs are NoBlock,      *)
(* NoMap and NoPid.  An ELF is valid or not.  A user argument block is     *)
(* named by the thread whose call filled it.                               *)
(***************************************************************************)
EXTENDS Naturals, FiniteSets

CONSTANTS
    Process, NoPid,        \* the processes that use the plugin, and no process
    Thread, ThreadProc,    \* their threads, and the process of each
    EventThread,           \* the kernel thread that delivers process events
    Block, NoBlock,        \* user memblocks, and NULL
    BlockOwner, ValidElf,  \* the process of a memblock; those that hold a MeP ELF
    MapId, NoMap,          \* ids of kernel maps of user memory (bounded), and none
    NoArg,                 \* content of a communication heap nobody has filled
    ArgForms,              \* the (pUserArg # NULL, userArgSize) pairs callers pass
    CommHeapSize, CommParamSize, \* COMM_HEAP_SIZE, sizeof(SceVeneziaCommParam)
    MaxNest,               \* locks one thread nests by vnzLockProcessSuspend (bound)
    Exclusive,             \* sets of operations that the callers never overlap
    Disciplined            \* callers keep to the documented protocol (OwnSession, ...)

Actor == Thread \cup {EventThread}
Operation == {"inject", "restore", "exec"}

ASSUME ProcessAssumption == /\ NoPid \notin Process
                            /\ ThreadProc \in [Thread -> Process]
                            /\ IsFiniteSet(Thread)
                            /\ EventThread \notin Thread
ASSUME MemoryAssumption == /\ NoBlock \notin Block
                           /\ BlockOwner \in [Block -> Process]
                           /\ ValidElf \subseteq Block
                           /\ NoMap \notin MapId
                           /\ NoArg \notin Thread \X {"in", "out"}
ASSUME ArgAssumption == /\ CommHeapSize \in Nat
                        /\ CommParamSize \in 0 .. CommHeapSize
                        /\ ArgForms \subseteq [ptr : BOOLEAN, size : Nat]
ASSUME DisciplineAssumption == /\ MaxNest \in Nat
                               /\ Exclusive \subseteq SUBSET Operation
                               /\ Disciplined \in BOOLEAN

VARIABLES
    pc,                \* next step of each actor
    frame,             \* locals and arguments of each thread's call
    registeredPid,     \* s_registeredPid
    requestedCode,     \* s_requestedCodeBaseVaddr, s_requestedCodeSize
    requestedCodeBase, \* s_requestedCodeBase
    blockMapId,        \* s_blockMapId
    commHeapVaddr,     \* s_commHeapVaddr: the kernel page it points into
    commHeapPaddr,     \* s_commHeapPaddr: the memblock it points into
    mapOf,             \* kernel: the memblock each live map exposes
    unmapRefused,      \* history: the live maps whose sceKernelUserUnmap failed
    refs,              \* kernel: Venezia references held on each memblock
    commHeap,          \* the communication heap at offset 256 of each memblock
    atBase,            \* the memblock at the base of CDRAM, 0x20000000
    suspendLock,       \* nesting of the kernel's process-suspend lock
    userLock,          \* history: locks of vnzLockProcessSuspend each thread has on
    powered,           \* the Venezia is up (false between suspend and resume)
    alive              \* the process is running

code    == <<requestedCode, requestedCodeBase>>
heapPtr == <<commHeapVaddr, commHeapPaddr>>
statics == <<registeredPid, code, blockMapId, heapPtr>>
memory  == <<mapOf, unmapRefused, refs, commHeap, atBase>>
system  == <<suspendLock, userLock, powered, alive>>
vars    == <<pc, frame, statics, memory, system>>

InjectSteps  == {"inj_map", "inj_load", "inj_pin", "inj_base", "inj_register"}
RestoreSteps == {"res_check", "res_release", "res_suspend", "res_resume",
                 "res_unmap", "res_clear"}
ExecSteps    == {"exec_in", "exec_lock", "exec_rpc", "exec_mep",
                 "exec_unlock", "exec_out"}
Steps == [inject |-> InjectSteps, restore |-> RestoreSteps, exec |-> ExecSteps]
Pc == {"idle"} \cup InjectSteps \cup RestoreSteps \cup ExecSteps

NoFrame == [block |-> NoBlock, page |-> NoMap, ptr |-> FALSE, size |-> 0,
            susp |-> FALSE, paddr |-> NoBlock, copied |-> FALSE]

Init ==
    /\ pc = [a \in Actor |-> "idle"]
    /\ frame = [t \in Thread |-> NoFrame]
    /\ registeredPid = NoPid
    /\ requestedCode = NoBlock
    /\ requestedCodeBase = NoBlock
    /\ blockMapId = NoMap
    /\ commHeapVaddr = NoMap
    /\ commHeapPaddr = NoBlock
    /\ mapOf = [m \in MapId |-> NoBlock]
    /\ unmapRefused = {}
    /\ refs = [b \in Block |-> 0]
    /\ commHeap = [b \in Block |-> [code |-> NoBlock, arg |-> NoArg]]
    /\ atBase = NoBlock
    /\ suspendLock = 0
    /\ userLock = [t \in Thread |-> 0]
    /\ powered = TRUE
    /\ alive = [p \in Process |-> TRUE]

-----------------------------------------------------------------------------
(* Control.                                                                *)

Goto(a, step) == pc' = [pc EXCEPT ![a] = step]

\* The call of thread t returns, whatever the result code.
Return(t) == /\ Goto(t, "idle")
             /\ frame' = [frame EXCEPT ![t] = NoFrame]

\* A refused call returns an error code and changes nothing.
Refused == UNCHANGED vars

\* A thread of a running process that is in user mode may call operation op,
\* unless its program serialises op with what another thread is doing.
MayCall(t, op) ==
    /\ pc[t] = "idle"
    /\ alive[ThreadProc[t]]
    /\ \A u \in Thread \ {t}, o \in Operation :
          pc[u] \in Steps[o] => {op, o} \notin Exclusive

\* A disciplined caller restores and executes only its own injection.
OwnSession(t) == Disciplined => registeredPid \in {NoPid, ThreadProc[t]}

\* The kernel memory behind a pointer into kernel page m: the memblock mapped
\* there, or none when the pointer is NULL or the map is gone.
Behind(m) == IF m \in MapId THEN mapOf[m] ELSE NoBlock

\* sceKernelMemRangeReleaseWithPerm: one reference fewer, an error at zero.
\* Mutants: nothing is released; a missing reference is not noticed.
ReleaseNothing(b) == refs' = refs
ReleaseBlindly(b) ==
    refs' = IF b \in Block THEN [refs EXCEPT ![b] = @ - 1] ELSE refs
Release(b) ==
    refs' = IF b \in Block /\ refs[b] > 0
            THEN [refs EXCEPT ![b] = @ - 1] ELSE refs

-----------------------------------------------------------------------------
(* vnzBridgeInject.                                                        *)

\* Mutant: EALREADY is never returned.
InjectAdmitsAlways == TRUE
InjectAdmits == registeredPid = NoPid

\* EINVAL for a NULL or ill-sized memblock, EALREADY while a process is
\* registered; otherwise the call is past the only check of s_registeredPid.
InjectCall(t) ==
    /\ MayCall(t, "inject")
    /\ \E b \in {x \in Block : BlockOwner[x] = ThreadProc[t]} \cup {NoBlock} :
          IF b = NoBlock \/ ~InjectAdmits
          THEN Refused
          ELSE /\ Goto(t, "inj_map")
               /\ frame' = [frame EXCEPT ![t].block = b]
               /\ UNCHANGED <<statics, memory, system>>

\* sceKernelUserMap; its result, error codes included, goes into s_blockMapId.
InjectUserMap(t) ==
    /\ pc[t] = "inj_map"
    /\ \/ /\ \E m \in MapId :
                /\ mapOf[m] = NoBlock
                /\ mapOf' = [mapOf EXCEPT ![m] = frame[t].block]
                /\ blockMapId' = m
                /\ frame' = [frame EXCEPT ![t].page = m]
          /\ Goto(t, "inj_load")
       \/ /\ blockMapId' = NoMap
          /\ Return(t)
          /\ UNCHANGED mapOf
    /\ UNCHANGED <<registeredPid, code, heapPtr, unmapRefused, refs, commHeap,
                   atBase, system>>

\* The ELF checks read the mapped page.  ENOEXEC leaves through
\* return_with_unmap, which unmaps nothing.
InjectLoad(t) ==
    /\ pc[t] = "inj_load"
    /\ \/ /\ Behind(frame[t].page) \in ValidElf
          /\ requestedCode' = frame[t].block
          /\ Goto(t, "inj_pin")
          /\ UNCHANGED frame
       \/ /\ Behind(frame[t].page) \notin ValidElf
          /\ Return(t)
          /\ UNCHANGED requestedCode
    /\ UNCHANGED <<registeredPid, requestedCodeBase, blockMapId, heapPtr,
                   memory, system>>

\* _sceAvcodecMapMemoryToVenezia on the statics just stored; it may fail.
InjectPin(t) ==
    /\ pc[t] = "inj_pin"
    /\ \/ /\ refs' = [refs EXCEPT ![requestedCode] = @ + 1]
          /\ requestedCodeBase' = requestedCode
          /\ Goto(t, "inj_base")
          /\ UNCHANGED frame
       \/ /\ Return(t)
          /\ UNCHANGED <<refs, requestedCodeBase>>
    /\ UNCHANGED <<registeredPid, requestedCode, blockMapId, heapPtr, mapOf,
                   unmapRefused, commHeap, atBase, system>>

\* Mutant: the physical base is not compared.
BaseAccepted == TRUE
AtCdramBase == requestedCodeBase = atBase

\* EFAULT and vnzBridgeUnmapMemory when the code is not at the CDRAM base;
\* otherwise the communication heap is published and its header written.
InjectBase(t) ==
    /\ pc[t] = "inj_base"
    /\ \/ /\ AtCdramBase
          /\ commHeapVaddr' = frame[t].page
          /\ commHeapPaddr' = requestedCodeBase
          /\ commHeap' = [b \in Block |->
                 IF b = Behind(frame[t].page)
                 THEN [commHeap[b] EXCEPT !.code = requestedCodeBase]
                 ELSE commHeap[b]]
          /\ Goto(t, "inj_register")
          /\ UNCHANGED <<frame, refs>>
       \/ /\ ~AtCdramBase
          /\ Release(requestedCode)
          /\ Return(t)
          /\ UNCHANGED <<heapPtr, commHeap>>
    /\ UNCHANGED <<registeredPid, code, blockMapId, mapOf, unmapRefused, atBase,
                   system>>

\* s_registeredPid is stored last: only now does Exec accept calls.
InjectRegister(t) ==
    /\ pc[t] = "inj_register"
    /\ registeredPid' = ThreadProc[t]
    /\ Return(t)
    /\ UNCHANGED <<code, blockMapId, heapPtr, memory, system>>

-----------------------------------------------------------------------------
(* vnzBridgeRestore, by a caller or by the exit handler.                   *)

\* EALREADY when nobody is registered.
RestoreEntry(a) ==
    /\ Goto(a, IF registeredPid = NoPid THEN "idle" ELSE "res_release")
    /\ UNCHANGED <<frame, statics, memory, system>>

RestoreCall(t) == /\ MayCall(t, "restore")
                  /\ OwnSession(t)
                  /\ RestoreEntry(t)

RestoreCheck(a) == pc[a] = "res_check" /\ RestoreEntry(a)

\* vnzBridgeUnmapMemory on the code memblock; the result is ignored.
RestoreRelease(a) ==
    /\ pc[a] = "res_release"
    /\ Release(requestedCode)
    /\ Goto(a, "res_suspend")
    /\ UNCHANGED <<frame, statics, mapOf, unmapRefused, commHeap, atBase, system>>

\* _vnzDoReset: the suspend event, then the resume event.
ResetSuspend(a) ==
    /\ pc[a] = "res_suspend"
    /\ powered' = FALSE
    /\ Goto(a, "res_resume")
    /\ UNCHANGED <<frame, statics, memory, suspendLock, userLock, alive>>

ResetResume(a) ==
    /\ pc[a] = "res_resume"
    /\ powered' = TRUE
    /\ Goto(a, "res_unmap")
    /\ UNCHANGED <<frame, statics, memory, suspendLock, userLock, alive>>

\* sceKernelUserUnmap of the current map; the kernel may refuse, and leaves it
\* mapped.  Mutant: it is not called.
UnmapNothing == UNCHANGED <<mapOf, unmapRefused>>
UnmapCurrent ==
    \/ /\ mapOf' = [m \in MapId |-> IF m = blockMapId THEN NoBlock ELSE mapOf[m]]
       /\ UNCHANGED unmapRefused
    \/ /\ unmapRefused' = unmapRefused \cup
                 {m \in MapId : m = blockMapId /\ mapOf[m] # NoBlock}
       /\ UNCHANGED mapOf

\* sceKernelUserUnmap and the stores that follow it whatever its result, up to
\* the last one.
RestoreUnmap(a) ==
    /\ pc[a] = "res_unmap"
    /\ UnmapCurrent
    /\ blockMapId' = NoMap
    /\ commHeapVaddr' = NoMap
    /\ commHeapPaddr' = NoBlock
    /\ Goto(a, "res_clear")
    /\ UNCHANGED <<frame, registeredPid, code, refs, commHeap, atBase, system>>

\* s_registeredPid is cleared last: only now does Inject accept calls.
RestoreClear(a) ==
    /\ pc[a] = "res_clear"
    /\ registeredPid' = NoPid
    /\ Goto(a, "idle")
    /\ UNCHANGED <<frame, code, blockMapId, heapPtr, memory, system>>

-----------------------------------------------------------------------------
(* vnzBridgeExecCore, with core suspend (vnzBridgeExec) or without         *)
(* (vnzBridgeExecNoSuspend).                                               *)

MaxArgSize == CommHeapSize - CommParamSize

\* The steps before and after the MeP program: the kernel lock is taken and
\* given back by vnzBridgeExec only.  Mutants: it is not taken, not given
\* back.
LockStepNever(susp) == "exec_rpc"
LockStep(susp) == IF susp THEN "exec_lock" ELSE "exec_rpc"
UnlockStepNever(susp) == "exec_out"
UnlockStep(susp) == IF susp THEN "exec_unlock" ELSE "exec_out"

\* EPERM when nobody is registered; E2BIG, which is decided only when there
\* is a block to copy.  Mutant: no EPERM.
ExecAdmitsAnyone(arg) == arg.ptr => arg.size <= MaxArgSize
ExecAdmits(arg) == registeredPid # NoPid /\ (arg.ptr => arg.size <= MaxArgSize)

\* Only a block is copied in.
FirstStep(arg, susp) == IF arg.ptr THEN "exec_in" ELSE LockStep(susp)

ExecCall(t) ==
    /\ MayCall(t, "exec")
    /\ OwnSession(t)
    /\ \E arg \in ArgForms, susp \in BOOLEAN :
          /\ Disciplined /\ ~susp => userLock[t] > 0
          /\ IF ~ExecAdmits(arg)
             THEN Refused
             ELSE /\ Goto(t, FirstStep(arg, susp))
                  /\ frame' = [frame EXCEPT ![t].ptr = arg.ptr,
                               ![t].size = arg.size, ![t].susp = susp]
                  /\ UNCHANGED <<statics, memory, system>>

\* The kernel's unlock: one level less; the kernel refuses it when nobody has
\* locked.  Who locked it does not matter.
KernelUnlock == suspendLock' = IF suspendLock > 0 THEN suspendLock - 1 ELSE 0

\* The argument block in memblock b becomes v; it lies after the header.
\* Mutant: the block is copied to the beginning of the heap.
SetArgOverHeader(b, v) ==
    commHeap' = IF b \in Block THEN [commHeap EXCEPT ![b].code = NoBlock] ELSE commHeap
SetArg(b, v) ==
    commHeap' = IF b \in Block THEN [commHeap EXCEPT ![b].arg = v] ELSE commHeap

\* sceKernelCopyFromUser into the communication heap.  Its result is ignored: when
\* it fails, the call goes on with the block that is there.  frame.copied is a
\* history variable, for OwnArgument only.
ExecCopyIn(t) ==
    /\ pc[t] = "exec_in"
    /\ \E ok \in BOOLEAN :
          /\ frame' = [frame EXCEPT ![t].copied = ok]
          /\ IF ok THEN SetArg(Behind(commHeapVaddr), <<t, "in">>)
                   ELSE UNCHANGED commHeap
    /\ Goto(t, LockStep(frame[t].susp))
    /\ UNCHANGED <<statics, mapOf, unmapRefused, refs, atBase, system>>

\* sceVeneziaLockProcessSuspend; when it fails the call returns its error.
ExecLock(t) ==
    /\ pc[t] = "exec_lock"
    /\ \/ /\ suspendLock' = suspendLock + 1
          /\ Goto(t, "exec_rpc")
          /\ UNCHANGED frame
       \/ /\ Return(t)
          /\ UNCHANGED suspendLock
    /\ UNCHANGED <<statics, memory, userLock, powered, alive>>

\* The thunk argument is filled, s_commHeapPaddr included, the heap cleaned
\* out of the data cache, and the generic thunk called.
ExecRpc(t) ==
    /\ pc[t] = "exec_rpc"
    /\ frame' = [frame EXCEPT ![t].paddr = commHeapPaddr]
    /\ Goto(t, "exec_mep")
    /\ UNCHANGED <<statics, memory, system>>

\* The MeP program runs to its end while the caller blocks, and answers in the
\* argument block when the size says there is one; or the thunk fails, or the
\* program returns before it touches the block.  The caller goes on the same
\* way whatever the result.
MepRun(t) ==
    /\ pc[t] = "exec_mep"
    /\ \/ /\ powered /\ frame[t].paddr # NoBlock /\ frame[t].size > 0
          /\ SetArg(frame[t].paddr, <<t, "out">>)
       \/ UNCHANGED commHeap
    /\ Goto(t, UnlockStep(frame[t].susp))
    /\ UNCHANGED <<frame, statics, mapOf, unmapRefused, refs, atBase, system>>

\* sceVeneziaUnlockProcessSuspend; its result is ignored.
ExecUnlock(t) ==
    /\ pc[t] = "exec_unlock"
    /\ KernelUnlock
    /\ Goto(t, "exec_out")
    /\ UNCHANGED <<frame, statics, memory, userLock, powered, alive>>

\* sceKernelCopyToUser from s_commHeapVaddr as it is now, if there is a block.
ExecCopyOut(t) ==
    /\ pc[t] = "exec_out"
    /\ Return(t)
    /\ UNCHANGED <<statics, memory, system>>

-----------------------------------------------------------------------------
(* vnzLockProcessSuspend and vnzUnlockProcessSuspend: bare wrappers around  *)
(* the kernel lock that Exec nests in, with no check of their own.  A lock  *)
(* call that fails changes nothing.  A thread may nest its locks, and may   *)
(* give back one it has not taken; a disciplined one does not do the latter.*)

LockProcessSuspend(t) ==
    /\ pc[t] = "idle" /\ alive[ThreadProc[t]]
    /\ userLock[t] < MaxNest
    /\ suspendLock' = suspendLock + 1
    /\ userLock' = [userLock EXCEPT ![t] = @ + 1]
    /\ UNCHANGED <<pc, frame, statics, memory, powered, alive>>

UnlockProcessSuspend(t) ==
    /\ pc[t] = "idle" /\ alive[ThreadProc[t]]
    /\ Disciplined => userLock[t] > 0
    /\ KernelUnlock
    /\ userLock' = [userLock EXCEPT ![t] = IF @ > 0 THEN @ - 1 ELSE 0]
    /\ UNCHANGED <<pc, frame, statics, memory, powered, alive>>

-----------------------------------------------------------------------------
(* The kernel: process exit, new processes, memory placement.              *)

ThreadsOf(p) == {t \in Thread : ThreadProc[t] = p}

\* Mutants: the handler does nothing, or does not compare the pid.
ExitStepNever(p) == "idle"
ExitStepAlways(p) == "res_check"
ExitStep(p) == IF registeredPid = p THEN "res_check" ELSE "idle"

\* The exit or kill event of process p, delivered when its threads have left
\* their system calls: procEvExitHandler.  The clock it also resets is in
\* VnzClock.
ExitEvent(p) ==
    /\ alive[p]
    /\ pc[EventThread] = "idle"
    /\ \A t \in ThreadsOf(p) : pc[t] = "idle" /\ (Disciplined => userLock[t] = 0)
    /\ alive' = [alive EXCEPT ![p] = FALSE]
    /\ Goto(EventThread, ExitStep(p))
    /\ UNCHANGED <<frame, statics, memory, suspendLock, userLock, powered>>

\* A new process takes the place of a dead one that has been cleaned up.
Spawn(p) ==
    /\ ~alive[p] /\ registeredPid # p
    /\ pc[EventThread] = "idle"
    /\ alive' = [alive EXCEPT ![p] = TRUE]
    /\ UNCHANGED <<pc, frame, statics, memory, suspendLock, userLock, powered>>

\* User code frees the memblock at the base of CDRAM and another lands there;
\* a mapped or referenced memblock cannot be freed.
PlaceAtBase(b) ==
    /\ b # atBase
    /\ alive[BlockOwner[b]]
    /\ atBase # NoBlock =>
          refs[atBase] = 0 /\ \A m \in MapId : mapOf[m] # atBase
    /\ atBase' = b
    /\ UNCHANGED <<pc, frame, statics, mapOf, unmapRefused, refs, commHeap, system>>

-----------------------------------------------------------------------------
Inject(t) == \/ InjectCall(t) \/ InjectUserMap(t) \/ InjectLoad(t)
             \/ InjectPin(t) \/ InjectBase(t) \/ InjectRegister(t)

Restore(a) == \/ RestoreRelease(a) \/ ResetSuspend(a) \/ ResetResume(a)
              \/ RestoreUnmap(a) \/ RestoreClear(a)

Exec(t) == \/ ExecCall(t) \/ ExecCopyIn(t) \/ ExecLock(t) \/ ExecRpc(t)
           \/ MepRun(t) \/ ExecUnlock(t) \/ ExecCopyOut(t)

SuspendCalls(t) == LockProcessSuspend(t) \/ UnlockProcessSuspend(t)

ExitHandler == RestoreCheck(EventThread) \/ Restore(EventThread)

Next == \/ \E t \in Thread : \/ Inject(t) \/ Exec(t) \/ SuspendCalls(t)
                             \/ RestoreCall(t) \/ Restore(t)
        \/ ExitHandler
        \/ \E p \in Process : ExitEvent(p) \/ Spawn(p)
        \/ \E b \in Block : PlaceAtBase(b)

Spec == Init /\ [][Next]_vars

\* The kernel thread that runs the exit handler keeps running.
FairSpec == Spec /\ WF_vars(ExitHandler)

-----------------------------------------------------------------------------
(* Properties.                                                             *)

\* Types of the statics and of the kernel state the plugin acts on; with them,
\* that no reference count ever goes below zero.
Frame == [block : Block \cup {NoBlock}, page : MapId \cup {NoMap}, ptr : BOOLEAN,
          size : Nat, susp : BOOLEAN, paddr : Block \cup {NoBlock}, copied : BOOLEAN]
Heap == [code : Block \cup {NoBlock}, arg : (Thread \X {"in", "out"}) \cup {NoArg}]
CallsTyped   == pc \in [Actor -> Pc] /\ frame \in [Thread -> Frame]
StaticsTyped == /\ registeredPid \in Process \cup {NoPid}
                /\ {requestedCode, requestedCodeBase, commHeapPaddr}
                     \subseteq Block \cup {NoBlock}
                /\ {blockMapId, commHeapVaddr} \subseteq MapId \cup {NoMap}
MemoryTyped  == /\ mapOf \in [MapId -> Block \cup {NoBlock}]
                /\ unmapRefused \subseteq MapId
                /\ refs \in [Block -> Nat]
                /\ commHeap \in [Block -> Heap]
                /\ atBase \in Block \cup {NoBlock}
SystemTyped  == /\ suspendLock \in Nat
                /\ userLock \in [Thread -> 0 .. MaxNest]
                /\ powered \in BOOLEAN
                /\ alive \in [Process -> BOOLEAN]
TypeOK == CallsTyped /\ StaticsTyped /\ MemoryTyped /\ SystemTyped

\* Threads between sceVeneziaLockProcessSuspend and the matching unlock in Exec.
ExecHolders == {t \in Thread : frame[t].susp /\
                               pc[t] \in {"exec_rpc", "exec_mep", "exec_unlock"}}
\* The locks that threads have on by vnzLockProcessSuspend, one for each level.
UserHolds == {h \in Thread \X (1 .. MaxNest) : h[2] <= userLock[h[1]]}
Holds == Cardinality(ExecHolders) + Cardinality(UserHolds)

\* Every lock taken by Exec is given back on every path, error paths included: when
\* the callers pair their own calls, the nesting of the kernel's lock is exactly the
\* number of locks that somebody still has on.
SuspendLockBalance == suspendLock = Holds

\* Whatever the callers do, unpaired unlocks and unlocks under another thread's Exec
\* included, the kernel's lock is never nested deeper than those who have it on: when
\* they are done the processes can be suspended again.
SuspendLockReleased == suspendLock <= Holds

\* A session is being taken down: somebody is past the check of Restore.
TearingDown(a) == pc[a] \in RestoreSteps \ {"res_check"}
Restoring == \E a \in Actor : TearingDown(a)

\* Whenever a process is registered and nobody is restoring, the statics, the
\* kernel map, the reference, the communication heap and the processor all
\* belong to one injection, that of the registered process.
SessionIntact ==
    registeredPid # NoPid /\ ~Restoring =>
        /\ requestedCode \in Block
        /\ BlockOwner[requestedCode] = registeredPid
        /\ Behind(blockMapId) = requestedCode
        /\ commHeapVaddr = blockMapId
        /\ requestedCodeBase = requestedCode
        /\ commHeapPaddr = requestedCode
        /\ commHeap[requestedCode].code = requestedCode
        /\ atBase = requestedCode
        /\ powered

\* ... and no step of anyone changes any of it: a call of the session finds the statics,
\* the kernel map, the references, the heap's header and the processor as its first
\* check found them, whatever runs between its own steps.
SessionFrozen ==
    [][registeredPid # NoPid /\ ~Restoring =>
          /\ UNCHANGED <<statics, mapOf, refs, atBase, powered>>
          /\ commHeap'[requestedCode].code = commHeap[requestedCode].code]_vars

\* The Venezia reference on the code memblock is held exactly once from the
\* mapping in Inject to the release in Restore or on the EFAULT path, and no
\* memblock is left referenced when that injection is gone.
Pinned == \/ \E t \in Thread : pc[t] \in {"inj_base", "inj_register"}
          \/ /\ registeredPid # NoPid
             /\ \A a \in Actor : ~TearingDown(a) \/ pc[a] = "res_release"
PinsBalanced ==
    \A b \in Block : refs[b] = IF b = requestedCode /\ Pinned THEN 1 ELSE 0

\* An Exec past its check of s_registeredPid never sees the session it was
\* admitted to end or change: it stays registered for its own process, nobody
\* restores, and the MeP program gets the live communication heap.
ExecInsideSession ==
    \A t \in Thread : pc[t] \in ExecSteps =>
        /\ registeredPid = ThreadProc[t]
        /\ ~Restoring
        /\ pc[t] = "exec_mep" => frame[t].paddr = requestedCode

\* No MeP program runs while the kernel is free to suspend the process.
SuspendGuarded ==
    \A t \in Thread : pc[t] = "exec_mep" => suspendLock > 0

\* A registered process that has exited is being cleaned up by the exit handler.
DeadOwnerCleaned ==
    registeredPid \in Process /\ ~alive[registeredPid]
        => pc[EventThread] \in RestoreSteps

\* The exit handler takes down only the session of a process that has exited,
\* never one a live process has opened since.
ExitSparesTheLiving ==
    TearingDown(EventThread) =>
        registeredPid \in Process /\ ~alive[registeredPid]

\* Inject never completes while an injection is registered ("only one injection
\* per process is possible").
OneInjection ==
    \A t \in Thread : pc[t] = "inj_register" => registeredPid = NoPid

\* A kernel map made by Inject is the current one, and its injection is either
\* under way or registered: no path leaves a map behind.
NoMapLeft ==
    \A m \in MapId : mapOf[m] # NoBlock =>
        /\ m = blockMapId
        /\ registeredPid # NoPid \/ \E t \in Thread : pc[t] \in InjectSteps

\* A live kernel map that no session and no Inject under way has the id of.
Injects(t, m) == pc[t] \in InjectSteps /\ frame[t].page = m
Abandoned(m) == /\ mapOf[m] # NoBlock
                /\ ~(registeredPid # NoPid /\ m = blockMapId)
                /\ \A t \in Thread : ~Injects(t, m)

\* A map is left behind by an Inject that fails after sceKernelUserMap, or by the
\* kernel's refusal to remove it, and by nothing else: Restore and the exit handler, from
\* whichever step a session is taken down, ask for the removal of the right map before
\* they forget its id.  What is left behind stays so for ever: nobody maps over it, takes
\* it for a session's, or unmaps it.
GivesUp(t) == pc'[t] = "idle" /\ registeredPid' = NoPid
MapsAccounted ==
    [][\A m \in MapId :
          Abandoned(m)' <=> \/ Abandoned(m)
                            \/ \E t \in Thread : Injects(t, m) /\ GivesUp(t)
                            \/ m \in unmapRefused']_vars

\* What a block left by an earlier call can be: nobody's, or a call's of process p.
LeftBy(p, arg) == arg = NoArg \/ ThreadProc[arg[1]] = p

\* From a copy-in that succeeds to the copy-out, the communication heap holds the
\* argument block of the call: the MeP program reads what its caller passed, and the
\* caller gets that block back.  A call whose copy-in failed runs on the block of an
\* earlier call, of its own process and never of another.
OwnArgument ==
    \A t \in Thread : frame[t].ptr =>
        LET arg == commHeap[requestedCode].arg
        IN  /\ pc[t] \in {"exec_lock", "exec_rpc", "exec_mep"} =>
                  IF frame[t].copied THEN arg = <<t, "in">>
                                     ELSE LeftBy(ThreadProc[t], arg)
            /\ pc[t] \in {"exec_unlock", "exec_out"} =>
                  IF frame[t].copied THEN arg[1] = t
                                     ELSE LeftBy(ThreadProc[t], arg)

\* A call with an argument size above the limit never gets past the checks of
\* Exec ("if userArgSize exceeds 500, E2BIG will be returned").
ArgSizeBounded ==
    \A t \in Thread : pc[t] \in ExecSteps => frame[t].size <= MaxArgSize

\* The rules the callers keep in bridge_session, as a hypothesis.
SessionRules ==
    Disciplined /\ {{"inject"}, {"restore"}, {"restore", "exec"}} \subseteq Exclusive

\* Who may be where: one Inject at a time and only while nobody is registered;
\* one Restore at a time, of a registered process, and none beside its Execs;
\* the exit handler works exactly while the registered process is dead.
ControlInv ==
    /\ pc[EventThread] \in {"idle"} \cup RestoreSteps
    /\ \A t \in Thread :
          /\ pc[t] # "res_check"
          /\ pc[t] # "idle" => alive[ThreadProc[t]]
          /\ pc[t] \in InjectSteps => registeredPid = NoPid
          /\ pc[t] \in RestoreSteps \cup ExecSteps => registeredPid = ThreadProc[t]
    /\ \A t, u \in Thread :
          /\ pc[t] \in InjectSteps /\ pc[u] \in InjectSteps => t = u
          /\ pc[t] \in RestoreSteps /\ pc[u] \in RestoreSteps => t = u
          /\ ~(pc[t] \in RestoreSteps /\ pc[u] \in ExecSteps)
    /\ pc[EventThread] \in RestoreSteps
         <=> registeredPid \in Process /\ ~alive[registeredPid]

\* How far an Inject has got with the statics and the kernel.
InjectProgress(t) ==
    /\ pc[t] \in InjectSteps =>
          frame[t].block \in Block /\ BlockOwner[frame[t].block] = ThreadProc[t]
    /\ pc[t] \in InjectSteps \ {"inj_map"} =>
          /\ frame[t].page \in MapId
          /\ blockMapId = frame[t].page
          /\ mapOf[frame[t].page] = frame[t].block
    /\ pc[t] \in {"inj_pin", "inj_base", "inj_register"} => requestedCode = frame[t].block
    /\ pc[t] \in {"inj_base", "inj_register"} => requestedCodeBase = frame[t].block
    /\ pc[t] = "inj_register" =>
          /\ commHeapVaddr = frame[t].page
          /\ commHeapPaddr = frame[t].block
          /\ commHeap[frame[t].block].code = frame[t].block
          /\ atBase = frame[t].block
InjectInv == \A t \in Thread : InjectProgress(t)

\* What an Exec has captured, and that somebody holds the suspend lock for it.
ExecProgress(t) == /\ pc[t] = "exec_mep" => frame[t].paddr = requestedCode
                   /\ pc[t] \in ExecSteps => frame[t].susp \/ userLock[t] > 0

\* What a registered process keeps until the end of Restore, and what Restore
\* does to the processor.
RegisteredInv ==
    /\ registeredPid # NoPid =>
          requestedCode \in Block /\ BlockOwner[requestedCode] = registeredPid
    /\ powered = (\A a \in Actor : pc[a] # "res_resume")
    /\ \A t \in Thread : ExecProgress(t)

\* Inductive under SessionRules; the session properties follow from it.
SessionInv == /\ ControlInv /\ InjectInv /\ RegisteredInv
              /\ SessionIntact /\ PinsBalanced

\* When the registered process exits, its session is eventually taken down.
ExitCleansUp ==
    \A p \in Process : ~alive[p] ~> registeredPid # p

\* The statics implement the session that the header documents: s_registeredPid
\* names its owner, Exec calls past their check run inside it, and the teardown
\* steps of Restore are its closing phase.
Session == INSTANCE VnzSession WITH
    owner <- registeredPid,
    closing <- Restoring,
    running <- {t \in Thread : pc[t] \in ExecSteps}
SessionSpec == Session!Spec

=============================================================================
