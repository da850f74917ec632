--------------------------- MODULE VnzBridge_proofs ---------------------------
(***************************************************************************)
(* Proofs about VnzBridge, for any processes, threads, memblocks and map   *)
(* ids, and for any discipline of the callers.                             *)
(***************************************************************************)
EXTENDS VnzBridge, FiniteSetTheorems, TLAPS

-----------------------------------------------------------------------------
(* Types: inductive on their own.                                          *)

Typed == CallsTyped /\ StaticsTyped /\ MemoryTyped /\ SystemTyped

\* The initial state is typed.
LEMMA TypedInit == Init => Typed
  BY ProcessAssumption, MemoryAssumption, DisciplineAssumption
     DEF Init, Typed, CallsTyped, StaticsTyped, MemoryTyped, SystemTyped, Frame,
         Heap, NoFrame, Actor, Pc

\* Moving an actor to a program step keeps pc typed; returning keeps frames typed.
LEMMA GotoTyped ==
  ASSUME pc \in [Actor -> Pc], NEW a \in Actor, NEW step \in Pc, Goto(a, step)
  PROVE  pc' \in [Actor -> Pc]
  BY DEF Goto

LEMMA ReturnTyped ==
  ASSUME CallsTyped, NEW t \in Thread, Return(t)
  PROVE  CallsTyped'
  BY MemoryAssumption DEF Return, Goto, CallsTyped, Frame, NoFrame, Actor, Pc

\* The locals of an Exec call keep frames typed.
LEMMA ExecFrameTyped ==
  ASSUME NEW F \in [Thread -> Frame], NEW t \in Thread, NEW ptr \in BOOLEAN,
         NEW size \in Nat, NEW susp \in BOOLEAN
  PROVE  [F EXCEPT ![t].ptr = ptr, ![t].size = size, ![t].susp = susp]
            \in [Thread -> Frame]
  BY DEF Frame

\* The frame after a step that fills one local of a call, or none.
LEMMA FrameTyped ==
  ASSUME frame \in [Thread -> Frame], NEW t \in Thread,
         \/ UNCHANGED frame
         \/ \E b \in Block : frame' = [frame EXCEPT ![t].block = b]
         \/ \E m \in MapId : frame' = [frame EXCEPT ![t].page = m]
         \/ \E b \in Block \cup {NoBlock} : frame' = [frame EXCEPT ![t].paddr = b]
         \/ \E arg \in ArgForms, susp \in BOOLEAN :
               frame' = [frame EXCEPT ![t].ptr = arg.ptr, ![t].size = arg.size,
                                      ![t].susp = susp]
         \/ \E ok \in BOOLEAN : frame' = [frame EXCEPT ![t].copied = ok]
  PROVE  frame' \in [Thread -> Frame]
  <1>1. CASE UNCHANGED frame
    BY <1>1
  <1>2. CASE \E b \in Block : frame' = [frame EXCEPT ![t].block = b]
    <2>1. PICK b \in Block : frame' = [frame EXCEPT ![t].block = b]
      BY <1>2
    <2>2. [frame[t] EXCEPT !.block = b] \in Frame
      BY DEF Frame
    <2>3. QED
      BY <2>1, <2>2
  <1>3. CASE \E m \in MapId : frame' = [frame EXCEPT ![t].page = m]
    <2>1. PICK m \in MapId : frame' = [frame EXCEPT ![t].page = m]
      BY <1>3
    <2>2. [frame[t] EXCEPT !.page = m] \in Frame
      BY DEF Frame
    <2>3. QED
      BY <2>1, <2>2
  <1>4. CASE \E b \in Block \cup {NoBlock} : frame' = [frame EXCEPT ![t].paddr = b]
    <2>1. PICK b \in Block \cup {NoBlock} : frame' = [frame EXCEPT ![t].paddr = b]
      BY <1>4
    <2>2. [frame[t] EXCEPT !.paddr = b] \in Frame
      BY DEF Frame
    <2>3. QED
      BY <2>1, <2>2
  <1>5. CASE \E arg \in ArgForms, susp \in BOOLEAN :
               frame' = [frame EXCEPT ![t].ptr = arg.ptr, ![t].size = arg.size,
                                      ![t].susp = susp]
    <2>1. PICK ptr \in BOOLEAN, size \in Nat, susp \in BOOLEAN :
               frame' = [frame EXCEPT ![t].ptr = ptr, ![t].size = size,
                                      ![t].susp = susp]
      BY <1>5, ArgAssumption
    <2>2. QED
      BY <2>1, ExecFrameTyped
  <1>6. CASE \E ok \in BOOLEAN : frame' = [frame EXCEPT ![t].copied = ok]
    <2>1. PICK ok \in BOOLEAN : frame' = [frame EXCEPT ![t].copied = ok]
      BY <1>6
    <2>2. [frame[t] EXCEPT !.copied = ok] \in Frame
      BY DEF Frame
    <2>3. QED
      BY <2>1, <2>2
  <1>7. QED
    BY <1>1, <1>2, <1>3, <1>4, <1>5, <1>6

\* The release of a reference keeps the counts natural numbers.
LEMMA ReleaseTyped ==
  ASSUME refs \in [Block -> Nat], NEW b, Release(b)
  PROVE  refs' \in [Block -> Nat]
  BY DEF Release

\* Every step of Inject keeps the types.
LEMMA TypedInject ==
  ASSUME Typed, NEW t \in Thread, Inject(t)
  PROVE  Typed'
  <1>1. pc \in [Actor -> Pc] /\ frame \in [Thread -> Frame] /\ t \in Actor
    BY DEF Typed, CallsTyped, Actor
  <1>2. StaticsTyped /\ MemoryTyped /\ SystemTyped /\ CallsTyped
    BY DEF Typed
  <1>3. CASE InjectCall(t)
    <2>1. frame' \in [Thread -> Frame]
      <3>1. \/ UNCHANGED frame
            \/ \E b \in Block : frame' = [frame EXCEPT ![t].block = b]
        BY <1>3 DEF InjectCall, Refused, vars
      <3>2. QED
        BY <1>1, <3>1, FrameTyped
    <2>2. pc' \in [Actor -> Pc]
      BY <1>1, <1>3 DEF InjectCall, Refused, vars, Goto, Pc, InjectSteps
    <2>3. UNCHANGED <<statics, memory, system>>
      BY <1>3 DEF InjectCall, Refused, vars
    <2>4. QED
      BY <1>2, <2>1, <2>2, <2>3 DEF Typed, CallsTyped, StaticsTyped, MemoryTyped,
         SystemTyped, statics, code, heapPtr, memory, system
  <1>4. CASE InjectUserMap(t)
    <2>1. CallsTyped'
      <3>1. CASE Return(t)
        BY <1>2, <3>1, ReturnTyped
      <3>2. CASE ~Return(t)
        <4>1. \E m \in MapId : frame' = [frame EXCEPT ![t].page = m]
          BY <1>4, <3>2 DEF InjectUserMap
        <4>2. frame' \in [Thread -> Frame]
          BY <1>1, <4>1, FrameTyped
        <4>3. pc' \in [Actor -> Pc]
          BY <1>1, <1>4, <3>2 DEF InjectUserMap, Goto, Pc, InjectSteps
        <4>4. QED
          BY <4>2, <4>3 DEF CallsTyped
      <3>3. QED
        BY <3>1, <3>2
    <2>2. StaticsTyped' /\ SystemTyped'
      BY <1>2, <1>4 DEF InjectUserMap, StaticsTyped, SystemTyped, code, heapPtr, system
    <2>3. MemoryTyped'
      <3>1. frame[t].block \in Block \cup {NoBlock}
        BY <1>1 DEF Frame
      <3>2. QED
        BY <1>2, <1>4, <3>1 DEF InjectUserMap, MemoryTyped
    <2>4. QED
      BY <2>1, <2>2, <2>3 DEF Typed
  <1>5. CASE InjectLoad(t)
    <2>1. CallsTyped'
      BY <1>1, <1>2, <1>5, ReturnTyped
         DEF InjectLoad, CallsTyped, Goto, Pc, InjectSteps
    <2>2. frame[t].block \in Block \cup {NoBlock}
      BY <1>1 DEF Frame
    <2>3. QED
      BY <1>2, <1>5, <2>1, <2>2 DEF InjectLoad, Typed, StaticsTyped, MemoryTyped,
         SystemTyped, heapPtr, memory, system
  <1>6. CASE InjectPin(t)
    <2>1. CallsTyped'
      BY <1>1, <1>2, <1>6, ReturnTyped DEF InjectPin, CallsTyped, Goto, Pc, InjectSteps
    <2>2. refs' \in [Block -> Nat]
      BY <1>2, <1>6 DEF InjectPin, MemoryTyped
    <2>3. QED
      BY <1>2, <1>6, <2>1, <2>2 DEF InjectPin, Typed, StaticsTyped, MemoryTyped,
         SystemTyped, heapPtr, system
  <1>7. CASE InjectBase(t)
    <2>1. CallsTyped'
      BY <1>1, <1>2, <1>7, ReturnTyped DEF InjectBase, CallsTyped, Goto, Pc, InjectSteps
    <2>2. frame[t].page \in MapId \cup {NoMap}
      BY <1>1 DEF Frame
    <2>3. refs' \in [Block -> Nat]
      BY <1>2, <1>7, ReleaseTyped DEF InjectBase, MemoryTyped
    <2>4. commHeap' \in [Block -> Heap]
      BY <1>2, <1>7 DEF InjectBase, Heap, MemoryTyped, StaticsTyped
    <2>5. QED
      BY <1>2, <1>7, <2>1, <2>2, <2>3, <2>4 DEF InjectBase, Typed, StaticsTyped,
         MemoryTyped, SystemTyped, code, heapPtr, system
  <1>8. CASE InjectRegister(t)
    BY <1>2, <1>8, ReturnTyped, ProcessAssumption DEF InjectRegister, Typed,
       StaticsTyped, MemoryTyped, SystemTyped, code, heapPtr, memory, system
  <1>9. QED
    BY <1>3, <1>4, <1>5, <1>6, <1>7, <1>8 DEF Inject

\* Every step of Restore keeps the types, whoever takes it.
LEMMA TypedRestore ==
  ASSUME Typed, NEW a \in Actor, RestoreEntry(a) \/ Restore(a)
  PROVE  Typed'
  <1>1. pc' \in [Actor -> Pc] /\ UNCHANGED frame
    BY DEF RestoreEntry, Restore, RestoreRelease, ResetSuspend, ResetResume,
       RestoreUnmap, RestoreClear, Goto, Typed, CallsTyped, Pc, RestoreSteps
  <1>2. StaticsTyped'
    BY DEF RestoreEntry, Restore, RestoreRelease, ResetSuspend, ResetResume,
       RestoreUnmap, RestoreClear, Typed, StaticsTyped, statics, code, heapPtr
  <1>3. refs' \in [Block -> Nat]
    BY ReleaseTyped DEF RestoreEntry, Restore, RestoreRelease, ResetSuspend,
       ResetResume, RestoreUnmap, RestoreClear, Typed, MemoryTyped, memory
  <1>4. MemoryTyped'
    BY <1>3 DEF RestoreEntry, Restore, RestoreRelease, ResetSuspend, ResetResume,
       RestoreUnmap, UnmapCurrent, RestoreClear, Typed, MemoryTyped, memory
  <1>5. SystemTyped'
    BY DEF RestoreEntry, Restore, RestoreRelease, ResetSuspend, ResetResume,
       RestoreUnmap, RestoreClear, Typed, SystemTyped, system
  <1>6. QED
    BY <1>1, <1>2, <1>4, <1>5 DEF Typed, CallsTyped

\* A write to one argument block keeps the heaps typed.
LEMMA SetArgTyped ==
  ASSUME commHeap \in [Block -> Heap], NEW b, NEW t \in Thread, NEW way \in {"in", "out"},
         SetArg(b, <<t, way>>)
  PROVE  commHeap' \in [Block -> Heap]
  <1>1. \A h \in Heap : [h EXCEPT !.arg = <<t, way>>] \in Heap
    BY DEF Heap
  <1>2. QED
    BY <1>1 DEF SetArg

\* Every step of Exec keeps the types.
LEMMA TypedExec ==
  ASSUME Typed, NEW t \in Thread, Exec(t)
  PROVE  Typed'
  <1>1. pc \in [Actor -> Pc] /\ frame \in [Thread -> Frame] /\ t \in Actor
    BY DEF Typed, CallsTyped, Actor
  <1>2. StaticsTyped /\ MemoryTyped /\ SystemTyped /\ CallsTyped
    BY DEF Typed
  <1>3. CASE ExecCall(t)
    <2>1. frame' \in [Thread -> Frame]
      <3>1. \/ UNCHANGED frame
            \/ \E arg \in ArgForms, susp \in BOOLEAN :
                  frame' = [frame EXCEPT ![t].ptr = arg.ptr, ![t].size = arg.size,
                                         ![t].susp = susp]
        BY <1>3 DEF ExecCall, Refused, vars
      <3>2. QED
        BY <1>1, <3>1, FrameTyped
    <2>2. pc' \in [Actor -> Pc]
      BY <1>1, <1>3
         DEF ExecCall, Refused, vars, Goto, FirstStep, LockStep, Pc, ExecSteps
    <2>3. UNCHANGED <<statics, memory, system>>
      BY <1>3 DEF ExecCall, Refused, vars
    <2>4. QED
      BY <1>2, <2>1, <2>2, <2>3 DEF Typed, CallsTyped, StaticsTyped, MemoryTyped,
         SystemTyped, statics, code, heapPtr, memory, system
  <1>4. CASE ExecRpc(t)
    <2>1. frame' \in [Thread -> Frame]
      <3>1. \E b \in Block \cup {NoBlock} : frame' = [frame EXCEPT ![t].paddr = b]
        BY <1>2, <1>4 DEF ExecRpc, StaticsTyped
      <3>2. QED
        BY <1>1, <3>1, FrameTyped
    <2>2. pc' \in [Actor -> Pc]
      BY <1>1, <1>4 DEF ExecRpc, Goto, Pc, ExecSteps
    <2>3. QED
      BY <1>2, <1>4, <2>1, <2>2 DEF ExecRpc, Typed, CallsTyped, StaticsTyped,
         MemoryTyped, SystemTyped, statics, code, heapPtr, memory, system
  <1>5. CASE ExecCopyIn(t) \/ MepRun(t)
    <2>1. commHeap' \in [Block -> Heap]
      BY <1>2, <1>5, SetArgTyped DEF ExecCopyIn, MepRun, MemoryTyped
    <2>2. pc' \in [Actor -> Pc]
      BY <1>1, <1>5 DEF ExecCopyIn, MepRun, Goto, LockStep, UnlockStep, Pc, ExecSteps
    <2>3. UNCHANGED <<statics, mapOf, unmapRefused, refs, atBase, system>>
      BY <1>5 DEF ExecCopyIn, MepRun
    <2>4. frame' \in [Thread -> Frame]
      BY <1>1, <1>5, FrameTyped DEF ExecCopyIn, MepRun
    <2>5. QED
      BY <1>2, <2>1, <2>2, <2>3, <2>4 DEF Typed, CallsTyped, StaticsTyped,
         MemoryTyped, SystemTyped, statics, code, heapPtr, system
  <1>6. CASE ExecLock(t) \/ ExecUnlock(t) \/ ExecCopyOut(t)
    <2>1. CallsTyped'
      BY <1>1, <1>2, <1>6, ReturnTyped
         DEF ExecLock, ExecUnlock, ExecCopyOut, CallsTyped, Goto, Pc, ExecSteps
    <2>2. UNCHANGED <<statics, memory, userLock, powered, alive>>
      BY <1>6 DEF ExecLock, ExecUnlock, ExecCopyOut, system
    <2>3. suspendLock' \in Nat
      BY <1>2, <1>6 DEF ExecLock, ExecUnlock, ExecCopyOut, KernelUnlock, SystemTyped, system
    <2>4. QED
      BY <1>2, <2>1, <2>2, <2>3 DEF Typed, StaticsTyped, MemoryTyped, SystemTyped,
         statics, code, heapPtr, memory
  <1>7. QED
    BY <1>3, <1>4, <1>5, <1>6 DEF Exec

\* The suspend lock calls and the kernel's own steps keep the types.
LEMMA TypedKernel ==
  ASSUME Typed,
         \/ \E t \in Thread : SuspendCalls(t)
         \/ \E p \in Process : ExitEvent(p) \/ Spawn(p)
         \/ \E b \in Block : PlaceAtBase(b)
  PROVE  Typed'
  <1>1. CASE \E t \in Thread : SuspendCalls(t)
    <2>1. userLock' \in [Thread -> 0 .. MaxNest] /\ suspendLock' \in Nat
      BY <1>1, DisciplineAssumption DEF SuspendCalls, LockProcessSuspend,
         UnlockProcessSuspend, KernelUnlock, Typed, SystemTyped
    <2>2. UNCHANGED <<pc, frame, statics, memory, powered, alive>>
      BY <1>1 DEF SuspendCalls, LockProcessSuspend, UnlockProcessSuspend
    <2>3. QED
      BY <2>1, <2>2 DEF Typed, CallsTyped, StaticsTyped, MemoryTyped, SystemTyped,
         statics, code, heapPtr, memory
  <1>2. CASE \E p \in Process : ExitEvent(p) \/ Spawn(p)
    <2>1. pc' \in [Actor -> Pc]
      BY <1>2 DEF ExitEvent, ExitStep, Spawn, Goto, Typed, CallsTyped, Pc, RestoreSteps
    <2>2. QED
      BY <1>2, <2>1 DEF ExitEvent, Spawn, Typed, CallsTyped, StaticsTyped,
         MemoryTyped, SystemTyped, statics, code, heapPtr, memory
  <1>3. CASE \E b \in Block : PlaceAtBase(b)
    BY <1>3 DEF PlaceAtBase, Typed, CallsTyped, StaticsTyped, MemoryTyped,
       SystemTyped, statics, code, heapPtr, system
  <1>4. QED
    BY <1>1, <1>2, <1>3

\* Types are inductive on their own.
LEMMA TypedNext ==
  ASSUME Typed, [Next]_vars
  PROVE  Typed'
  <1>1. CASE UNCHANGED vars
    BY <1>1 DEF vars, Typed, CallsTyped, StaticsTyped, MemoryTyped, SystemTyped,
       statics, code, heapPtr, memory, system
  <1>2. CASE \E t \in Thread : Inject(t)
    BY <1>2, TypedInject
  <1>3. CASE \E t \in Thread : Exec(t)
    BY <1>3, TypedExec
  <1>4. CASE \/ \E t \in Thread : RestoreCall(t) \/ Restore(t)
             \/ ExitHandler
    BY <1>4, TypedRestore DEF RestoreCall, RestoreCheck, ExitHandler, Actor
  <1>5. CASE \/ \E t \in Thread : SuspendCalls(t)
             \/ \E p \in Process : ExitEvent(p) \/ Spawn(p)
             \/ \E b \in Block : PlaceAtBase(b)
    BY <1>5, TypedKernel
  <1>6. QED
    BY <1>1, <1>2, <1>3, <1>4, <1>5 DEF Next

-----------------------------------------------------------------------------
(* The suspend lock: never deeper than those who have it on; exactly as    *)
(* deep when the callers give back only what they have taken.              *)

\* Only a call with core suspend reaches the kernel lock.
LockersSuspend ==
    \A t \in Thread : pc[t] \in {"exec_lock", "exec_unlock"} => frame[t].susp
LockLaw == SuspendLockReleased /\ (Disciplined => SuspendLockBalance)
LockInv == LockersSuspend /\ LockLaw

\* The holders are finitely many, so that their number is a natural number.
LEMMA HoldersFinite ==
  /\ IsFiniteSet(ExecHolders) /\ Cardinality(ExecHolders) \in Nat
  /\ IsFiniteSet(UserHolds) /\ Cardinality(UserHolds) \in Nat
  <1>1. IsFiniteSet(Thread \X (1 .. MaxNest))
    <2>1. 1 \in Int /\ MaxNest \in Int
      BY DisciplineAssumption
    <2>2. IsFiniteSet(1 .. MaxNest)
      BY <2>1, FS_Interval
    <2>3. QED
      BY <2>2, ProcessAssumption, FS_Product
  <1>2. ExecHolders \subseteq Thread /\ UserHolds \subseteq Thread \X (1 .. MaxNest)
    BY DEF ExecHolders, UserHolds
  <1>3. QED
    BY <1>1, <1>2, ProcessAssumption, FS_Subset, FS_CardinalityType

LEMMA LockInit == Init => LockInv
  <1> SUFFICES ASSUME Init PROVE LockInv
    OBVIOUS
  <1>1. ExecHolders = {} /\ UserHolds = {}
    <2>1. ExecHolders = {}
      BY DEF Init, ExecHolders, Actor
    <2>2. \A n \in 1 .. MaxNest : ~(n <= 0)
      BY DisciplineAssumption
    <2>3. QED
      BY <2>1, <2>2 DEF Init, UserHolds
  <1>2. Cardinality(ExecHolders) = 0 /\ Cardinality(UserHolds) = 0
    BY <1>1, FS_EmptySet
  <1>3. LockersSuspend
    BY DEF Init, LockersSuspend, Actor
  <1>4. QED
    BY <1>2, <1>3 DEF Init, LockInv, LockLaw, SuspendLockBalance, SuspendLockReleased, Holds

\* A step that keeps the lock and both kinds of holders keeps the law; and so does one
\* more lock with one more holder, one lock given back with one holder fewer, and an
\* unlock of somebody who is no holder.
LEMMA LawKept ==
  ASSUME LockLaw, suspendLock' = suspendLock,
         ExecHolders' = ExecHolders, UserHolds' = UserHolds
  PROVE  LockLaw'
  BY DEF LockLaw, SuspendLockBalance, SuspendLockReleased, Holds

LEMMA LawLocks ==
  ASSUME LockLaw, suspendLock \in Nat, suspendLock' = suspendLock + 1, Holds \in Nat,
         Holds' = Holds + 1
  PROVE  LockLaw'
  BY DEF LockLaw, SuspendLockBalance, SuspendLockReleased

LEMMA LawUnlocks ==
  ASSUME LockLaw, suspendLock \in Nat, KernelUnlock, Holds \in Nat, Holds' \in Nat,
         Holds' = Holds - 1 \/ (~Disciplined /\ Holds' = Holds)
  PROVE  LockLaw'
  BY DEF LockLaw, SuspendLockBalance, SuspendLockReleased, KernelUnlock

\* A step of one actor that neither starts nor ends in the part of Exec between
\* the checks and the unlock changes no holder.
Outside == Pc \ {"exec_lock", "exec_rpc", "exec_mep", "exec_unlock"}

LEMMA OutsideKeeps ==
  ASSUME Typed, LockInv, NEW a \in Actor, pc[a] \in Outside, pc'[a] \in Outside,
         \A u \in Actor \ {a} : pc'[u] = pc[u],
         \A u \in Thread \ {a} : frame'[u] = frame[u],
         UNCHANGED <<suspendLock, userLock>>
  PROVE  LockInv'
  <1>1. ExecHolders' = ExecHolders
    BY DEF ExecHolders, Actor, Outside
  <1>2. LockersSuspend'
    BY DEF LockInv, LockersSuspend, Outside, Actor
  <1>3. QED
    BY <1>1, <1>2, LawKept DEF LockInv, UserHolds

\* What Goto and Return do to pc and frame.
LEMMA GotoEffect ==
  ASSUME Typed, NEW a \in Actor, NEW step, Goto(a, step)
  PROVE  pc'[a] = step /\ \A u \in Actor \ {a} : pc'[u] = pc[u]
  BY DEF Goto, Typed, CallsTyped

LEMMA ReturnEffect ==
  ASSUME Typed, NEW t \in Thread, Return(t)
  PROVE  /\ pc'[t] = "idle" /\ \A u \in Actor \ {t} : pc'[u] = pc[u]
         /\ \A u \in Thread \ {t} : frame'[u] = frame[u]
  BY DEF Return, Goto, Typed, CallsTyped, Actor

\* Inject takes no lock.
LEMMA LockInject ==
  ASSUME Typed, LockInv, NEW t \in Thread, Inject(t)
  PROVE  LockInv'
  <1>1. t \in Actor /\ frame \in [Thread -> Frame]
    BY DEF Actor, Typed, CallsTyped
  <1>2. UNCHANGED <<suspendLock, userLock>>
    BY DEF Inject, InjectCall, InjectUserMap, InjectLoad, InjectPin, InjectBase,
       InjectRegister, Refused, vars, system
  <1>3. CASE Refused
    BY <1>3, LawKept DEF Refused, vars, system, LockInv, LockersSuspend, ExecHolders,
       UserHolds
  <1>4. CASE ~Refused
    <2>1. /\ pc[t] \in {"idle"} \cup InjectSteps
          /\ \/ Return(t)
             \/ \E step \in InjectSteps : Goto(t, step)
      BY <1>4 DEF Inject, InjectCall, MayCall, InjectUserMap, InjectLoad, InjectPin,
         InjectBase, InjectRegister, InjectSteps
    <2>2. \A u \in Thread \ {t} : frame'[u] = frame[u]
      BY <1>1, <1>4, ReturnEffect DEF Inject, InjectCall, InjectUserMap, InjectLoad,
         InjectPin, InjectBase, InjectRegister
    <2>3. pc'[t] \in {"idle"} \cup InjectSteps /\ \A u \in Actor \ {t} : pc'[u] = pc[u]
      BY <1>1, <2>1, GotoEffect, ReturnEffect
    <2>4. {"idle"} \cup InjectSteps \subseteq Outside
      BY DEF InjectSteps, Outside, Pc
    <2>5. QED
      BY <1>1, <1>2, <2>1, <2>2, <2>3, <2>4, OutsideKeeps
  <1>5. QED
    BY <1>3, <1>4

\* Restore takes no lock.
LEMMA LockRestore ==
  ASSUME Typed, LockInv, NEW a \in Actor,
         \/ RestoreEntry(a) /\ pc[a] \in {"idle", "res_check"}
         \/ Restore(a)
  PROVE  LockInv'
  <1>1. UNCHANGED <<frame, suspendLock, userLock>>
    BY DEF RestoreEntry, Restore, RestoreRelease, ResetSuspend, ResetResume,
       RestoreUnmap, RestoreClear, system
  <1>2. /\ pc[a] \in {"idle"} \cup RestoreSteps
        /\ \E step \in {"idle"} \cup RestoreSteps : Goto(a, step)
    BY DEF RestoreEntry, Restore, RestoreRelease, ResetSuspend, ResetResume,
       RestoreUnmap, RestoreClear, RestoreSteps
  <1>3. pc'[a] \in {"idle"} \cup RestoreSteps /\ \A u \in Actor \ {a} : pc'[u] = pc[u]
    BY <1>2, GotoEffect
  <1>4. {"idle"} \cup RestoreSteps \subseteq Outside
    BY DEF RestoreSteps, Outside, Pc
  <1>5. QED
    BY <1>1, <1>2, <1>3, <1>4, OutsideKeeps

\* Exec takes the lock in exec_lock and gives it back in exec_unlock, and goes
\* through both or neither.
LEMMA LockExec ==
  ASSUME Typed, LockInv, NEW t \in Thread, Exec(t)
  PROVE  LockInv'
  <1>1. /\ t \in Actor /\ frame \in [Thread -> Frame] /\ pc \in [Actor -> Pc]
        /\ LockersSuspend /\ LockLaw /\ suspendLock \in Nat
    BY DEF Actor, Typed, CallsTyped, SystemTyped, LockInv
  <1>2. CASE ExecCall(t)
    <2>1. CASE Refused
      BY <1>1, <2>1, LawKept DEF Refused, vars, system, LockInv, LockersSuspend,
         ExecHolders, UserHolds
    <2>2. CASE ~Refused
      <3>1. PICK arg \in ArgForms, susp \in BOOLEAN :
               /\ Goto(t, FirstStep(arg, susp))
               /\ frame' = [frame EXCEPT ![t].ptr = arg.ptr, ![t].size = arg.size,
                                         ![t].susp = susp]
        BY <1>2, <2>2 DEF ExecCall
      <3>2. frame'[t].susp = susp /\ \A u \in Thread \ {t} : frame'[u] = frame[u]
        BY <1>1, <3>1 DEF Frame
      <3>3. /\ pc'[t] \in {"exec_in", IF susp THEN "exec_lock" ELSE "exec_rpc"}
            /\ \A u \in Actor \ {t} : pc'[u] = pc[u]
        BY <1>1, <3>1, GotoEffect DEF FirstStep, LockStep
      <3>4. pc[t] = "idle" /\ UNCHANGED <<suspendLock, userLock>>
        BY <1>2, <2>2 DEF ExecCall, MayCall, system
      <3>5. ExecHolders' = ExecHolders
        BY <3>2, <3>3, <3>4 DEF ExecHolders, Actor
      <3>6. LockersSuspend'
        BY <1>1, <3>2, <3>3 DEF LockersSuspend, Actor
      <3>7. QED
        BY <1>1, <3>4, <3>5, <3>6, LawKept DEF LockInv, UserHolds
    <2>3. QED
      BY <2>1, <2>2
  <1>3. CASE ExecCopyIn(t) \/ ExecRpc(t) \/ MepRun(t)
    <2>1. UNCHANGED <<suspendLock, userLock>>
      BY <1>3 DEF ExecCopyIn, ExecRpc, MepRun, system
    <2>2. \A u \in Thread : frame'[u].susp = frame[u].susp
      BY <1>1, <1>3 DEF ExecCopyIn, ExecRpc, MepRun, Frame
    <2>3. /\ \/ pc[t] = "exec_in" /\ pc'[t] = LockStep(frame[t].susp)
             \/ pc[t] = "exec_rpc" /\ pc'[t] = "exec_mep"
             \/ pc[t] = "exec_mep" /\ pc'[t] = UnlockStep(frame[t].susp)
          /\ \A u \in Actor \ {t} : pc'[u] = pc[u]
      BY <1>1, <1>3, GotoEffect DEF ExecCopyIn, ExecRpc, MepRun
    <2>4. ExecHolders' = ExecHolders
      BY <2>2, <2>3 DEF ExecHolders, LockStep, UnlockStep, Actor
    <2>5. LockersSuspend'
      BY <1>1, <2>2, <2>3 DEF LockersSuspend, LockStep, UnlockStep, Actor
    <2>6. QED
      BY <1>1, <2>1, <2>4, <2>5, LawKept DEF LockInv, UserHolds
  <1>4. CASE ExecLock(t)
    <2>1. pc[t] = "exec_lock" /\ frame[t].susp /\ userLock' = userLock
      BY <1>1, <1>4 DEF ExecLock, LockersSuspend
    <2>2. CASE suspendLock' = suspendLock + 1 /\ Goto(t, "exec_rpc") /\ UNCHANGED frame
      <3>1. pc'[t] = "exec_rpc" /\ \A u \in Actor \ {t} : pc'[u] = pc[u]
        BY <1>1, <2>2, GotoEffect
      <3>2. ExecHolders' = ExecHolders \cup {t} /\ t \notin ExecHolders
        BY <2>1, <2>2, <3>1 DEF ExecHolders, Actor
      <3>3. Cardinality(ExecHolders') = Cardinality(ExecHolders) + 1
        BY <3>2, HoldersFinite, FS_AddElement
      <3>4. LockLaw'
        <4>1. UserHolds' = UserHolds
          BY <2>1 DEF UserHolds
        <4>2. QED
          BY <1>1, <2>2, <3>3, <4>1, HoldersFinite, LawLocks DEF Holds
      <3>5. LockersSuspend'
        BY <1>1, <2>2, <3>1 DEF LockersSuspend, Actor
      <3>6. QED
        BY <3>4, <3>5 DEF LockInv
    <2>3. CASE Return(t) /\ UNCHANGED suspendLock
      <3>1. /\ pc'[t] = "idle" /\ \A u \in Actor \ {t} : pc'[u] = pc[u]
            /\ \A u \in Thread \ {t} : frame'[u] = frame[u]
        BY <2>3, ReturnEffect
      <3>2. ExecHolders' = ExecHolders
        BY <2>1, <3>1 DEF ExecHolders, Actor
      <3>3. LockersSuspend'
        BY <1>1, <3>1 DEF LockersSuspend, Actor
      <3>4. QED
        BY <1>1, <2>1, <2>3, <3>2, <3>3, LawKept DEF LockInv, UserHolds
    <2>4. QED
      BY <1>4, <2>2, <2>3 DEF ExecLock
  <1>5. CASE ExecUnlock(t)
    <2>1. /\ pc[t] = "exec_unlock" /\ frame[t].susp /\ userLock' = userLock
          /\ KernelUnlock /\ UNCHANGED frame
      BY <1>1, <1>5 DEF ExecUnlock, LockersSuspend
    <2>2. pc'[t] = "exec_out" /\ \A u \in Actor \ {t} : pc'[u] = pc[u]
      BY <1>1, <1>5, GotoEffect DEF ExecUnlock
    <2>3. ExecHolders' = ExecHolders \ {t} /\ t \in ExecHolders
      BY <2>1, <2>2 DEF ExecHolders, Actor
    <2>4. Cardinality(ExecHolders') = Cardinality(ExecHolders) - 1
      BY <2>3, HoldersFinite, FS_RemoveElement
    <2>5. LockLaw'
      <3>1. UserHolds' = UserHolds
        BY <2>1 DEF UserHolds
      <3>2. Holds \in Nat /\ Holds' \in Nat /\ Holds' = Holds - 1
        <4>1. Cardinality(ExecHolders') \in Nat
          BY <2>3, HoldersFinite, FS_RemoveElement, FS_CardinalityType
        <4>2. QED
          BY <2>4, <3>1, <4>1, HoldersFinite DEF Holds
      <3>3. QED
        BY <1>1, <2>1, <3>2, LawUnlocks
    <2>6. LockersSuspend'
      BY <1>1, <2>1, <2>2 DEF LockersSuspend, Actor
    <2>7. QED
      BY <2>5, <2>6 DEF LockInv
  <1>6. CASE ExecCopyOut(t)
    <2>1. /\ pc'[t] = "idle" /\ \A u \in Actor \ {t} : pc'[u] = pc[u]
          /\ \A u \in Thread \ {t} : frame'[u] = frame[u]
      BY <1>6, ReturnEffect DEF ExecCopyOut
    <2>2. pc[t] = "exec_out" /\ UNCHANGED <<suspendLock, userLock>>
      BY <1>6 DEF ExecCopyOut, system
    <2>3. QED
      BY <1>1, <2>1, <2>2, OutsideKeeps DEF Outside, Pc, ExecSteps
  <1>7. QED
    BY <1>2, <1>3, <1>4, <1>5, <1>6 DEF Exec

\* vnzLockProcessSuspend and vnzUnlockProcessSuspend count themselves; an unlock that
\* is not paired takes a level away from somebody else.
LEMMA LockUser ==
  ASSUME Typed, LockInv, NEW t \in Thread, SuspendCalls(t)
  PROVE  LockInv'
  <1>1. /\ UNCHANGED <<pc, frame>> /\ userLock \in [Thread -> 0 .. MaxNest]
        /\ LockersSuspend /\ LockLaw /\ suspendLock \in Nat
    BY DEF SuspendCalls, LockProcessSuspend, UnlockProcessSuspend, Typed,
       SystemTyped, LockInv
  <1>2. ExecHolders' = ExecHolders /\ LockersSuspend'
    BY <1>1 DEF ExecHolders, LockersSuspend
  <1>3. Holds \in Nat
    BY HoldersFinite DEF Holds
  <1>4. CASE LockProcessSuspend(t)
    <2>1. /\ UserHolds' = UserHolds \cup {<<t, userLock[t] + 1>>}
          /\ <<t, userLock[t] + 1>> \notin UserHolds
      <3>1. /\ userLock[t] \in 0 .. MaxNest /\ userLock[t] < MaxNest
            /\ userLock' = [userLock EXCEPT ![t] = @ + 1]
        BY <1>1, <1>4 DEF LockProcessSuspend
      <3>2. \A u \in Thread : userLock'[u] = IF u = t THEN userLock[t] + 1 ELSE userLock[u]
        BY <1>1, <3>1
      <3>3. \A u \in Thread, n \in 1 .. MaxNest :
               n <= userLock'[u] <=> n <= userLock[u] \/ <<u, n>> = <<t, userLock[t] + 1>>
        BY <1>1, <3>1, <3>2
      <3>4. userLock[t] + 1 \in 1 .. MaxNest
        BY <3>1, DisciplineAssumption
      <3>5. ~(userLock[t] + 1 <= userLock[t])
        BY <3>1
      <3>6. QED
        BY <3>3, <3>4, <3>5 DEF UserHolds
    <2>2. Cardinality(UserHolds') = Cardinality(UserHolds) + 1
      BY <2>1, HoldersFinite, FS_AddElement
    <2>3. Holds' = Holds + 1
      BY <1>2, <2>2, HoldersFinite DEF Holds
    <2>4. QED
      BY <1>1, <1>2, <1>3, <1>4, <2>3, LawLocks DEF LockProcessSuspend, LockInv
  <1>5. CASE UnlockProcessSuspend(t) /\ userLock[t] > 0
    <2>1. UserHolds' = UserHolds \ {<<t, userLock[t]>>} /\ <<t, userLock[t]>> \in UserHolds
      <3>1. /\ userLock[t] \in 0 .. MaxNest
            /\ \A u \in Thread : userLock'[u] = IF u = t THEN userLock[t] - 1 ELSE userLock[u]
        BY <1>1, <1>5 DEF UnlockProcessSuspend
      <3>2. \A u \in Thread, n \in 1 .. MaxNest :
               n <= userLock'[u] <=> n <= userLock[u] /\ <<u, n>> # <<t, userLock[t]>>
        BY <1>1, <3>1
      <3>3. userLock[t] \in 1 .. MaxNest
        BY <1>5, <3>1, DisciplineAssumption
      <3>4. QED
        BY <3>1, <3>2, <3>3 DEF UserHolds
    <2>2. Cardinality(UserHolds') = Cardinality(UserHolds) - 1
      BY <2>1, HoldersFinite, FS_RemoveElement
    <2>3. Holds' \in Nat /\ Holds' = Holds - 1
      <3>1. Cardinality(UserHolds') \in Nat
        BY <2>1, HoldersFinite, FS_RemoveElement, FS_CardinalityType
      <3>2. QED
        BY <1>2, <2>2, <3>1, HoldersFinite DEF Holds
    <2>4. QED
      BY <1>1, <1>2, <1>3, <1>5, <2>3, LawUnlocks DEF UnlockProcessSuspend, LockInv
  <1>6. CASE UnlockProcessSuspend(t) /\ ~(userLock[t] > 0)
    <2>1. userLock' = userLock
      BY <1>1, <1>6 DEF UnlockProcessSuspend
    <2>2. Holds' = Holds
      BY <1>2, <2>1 DEF Holds, UserHolds
    <2>3. ~Disciplined
      BY <1>6 DEF UnlockProcessSuspend
    <2>4. QED
      BY <1>1, <1>2, <1>3, <1>6, <2>2, <2>3, LawUnlocks DEF UnlockProcessSuspend, LockInv
  <1>7. QED
    BY <1>4, <1>5, <1>6 DEF SuspendCalls

\* The event thread never holds the lock, and the kernel's other steps leave the
\* calls alone.
LEMMA LockKernel ==
  ASSUME Typed, LockInv,
         \/ \E p \in Process : ExitEvent(p) \/ Spawn(p)
         \/ \E b \in Block : PlaceAtBase(b)
  PROVE  LockInv'
  <1>1. UNCHANGED <<frame, suspendLock, userLock>>
    BY DEF ExitEvent, Spawn, PlaceAtBase, system
  <1>2. \A t \in Thread : pc'[t] = pc[t]
    BY ProcessAssumption DEF ExitEvent, Spawn, PlaceAtBase, Goto, Typed, CallsTyped,
       Actor
  <1>3. ExecHolders' = ExecHolders /\ LockersSuspend'
    BY <1>1, <1>2 DEF ExecHolders, LockersSuspend, LockInv
  <1>4. QED
    BY <1>1, <1>3, LawKept DEF LockInv, UserHolds

LEMMA LockNext ==
  ASSUME Typed, LockInv, [Next]_vars
  PROVE  LockInv'
  <1>1. CASE UNCHANGED vars
    BY <1>1, LawKept
       DEF vars, system, LockInv, LockersSuspend, ExecHolders, UserHolds
  <1>2. CASE \E t \in Thread : Inject(t)
    BY <1>2, LockInject
  <1>3. CASE \E t \in Thread : Exec(t)
    BY <1>3, LockExec
  <1>4. CASE \/ \E t \in Thread : RestoreCall(t) \/ Restore(t)
             \/ ExitHandler
    BY <1>4, LockRestore DEF RestoreCall, MayCall, RestoreCheck, ExitHandler, Actor
  <1>5. CASE \E t \in Thread : SuspendCalls(t)
    BY <1>5, LockUser
  <1>6. CASE \/ \E p \in Process : ExitEvent(p) \/ Spawn(p)
             \/ \E b \in Block : PlaceAtBase(b)
    BY <1>6, LockKernel
  <1>7. QED
    BY <1>1, <1>2, <1>3, <1>4, <1>5, <1>6 DEF Next

-----------------------------------------------------------------------------
(* The theorems.                                                           *)

LEMMA LockInvariant == Spec => [](Typed /\ LockInv)
  <1>1. Init => Typed /\ LockInv
    BY TypedInit, LockInit
  <1>2. Typed /\ LockInv /\ [Next]_vars => (Typed /\ LockInv)'
    BY TypedNext, LockNext
  <1>3. QED
    BY <1>1, <1>2, PTL DEF Spec

\* The statics, the locals and the kernel state stay in their types for any callers,
\* those included that nest their locks or give back locks they have not taken.
THEOREM TypeCorrect == Spec => []TypeOK
  <1>1. Typed /\ LockInv => TypeOK
    BY DEF Typed, TypeOK
  <1>2. QED
    BY <1>1, LockInvariant, PTL

\* Whatever the callers do, no path of vnzBridgeExec leaves the process-suspend lock
\* behind: it is never nested deeper than there are threads inside and locks of
\* vnzLockProcessSuspend on.
THEOREM SuspendLockGivenBack == Spec => []SuspendLockReleased
  <1>1. Typed /\ LockInv => SuspendLockReleased
    BY DEF LockInv, LockLaw
  <1>2. QED
    BY <1>1, LockInvariant, PTL

\* When no thread gives back a lock it has not taken, nesting included, the lock is
\* exactly as deep as those who have it on: nobody's level is taken away.
THEOREM SuspendLockBalanced == Disciplined => (Spec => []SuspendLockBalance)
  <1> SUFFICES ASSUME Disciplined PROVE Spec => []SuspendLockBalance
    OBVIOUS
  <1>1. Typed /\ LockInv => SuspendLockBalance
    BY DEF LockInv, LockLaw
  <1>2. QED
    BY <1>1, LockInvariant, PTL

=============================================================================
