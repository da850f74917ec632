---------------------- MODULE VnzBridge_serial_proofs -----------------------
(***************************************************************************)
(* The argument block of vnzBridgeExecCore.  All executions share one      *)
(* communication heap; when the callers also run them one at a time, every *)
(* execution finds there what its own caller passed, when it could be      *)
(* copied, and its caller gets that block back.                            *)
(***************************************************************************)
EXTENDS VnzBridge_session_proofs

\* The session rules, and executions one at a time (run bridge_serial).
SerialRules == SessionRules /\ {"exec"} \in Exclusive

-----------------------------------------------------------------------------
(* Conjuncts of the session invariant that are properties of their own.    *)

\* At every moment when a process is registered and nobody restores, the statics, the
\* kernel map, the reference, the heap pointers, the heap's header and the processor
\* are those of one injection of that process.
THEOREM SessionStaysIntact == SessionRules => (Spec => []SessionIntact)
  <1> SUFFICES ASSUME SessionRules PROVE Spec => []SessionIntact
    OBVIOUS
  <1>1. SessionInv => SessionIntact
    BY DEF SessionInv
  <1>2. QED
    BY <1>1, SessionConsistent, PTL

\* The code memblock is referenced exactly once from the mapping in Inject to the
\* release in Restore or on the EFAULT path, and no memblock at any other time.
THEOREM PinsStayBalanced == SessionRules => (Spec => []PinsBalanced)
  <1> SUFFICES ASSUME SessionRules PROVE Spec => []PinsBalanced
    OBVIOUS
  <1>1. SessionInv => PinsBalanced
    BY DEF SessionInv
  <1>2. QED
    BY <1>1, SessionConsistent, PTL

\* While a process is registered and nobody restores, no step of any thread, of the exit
\* handler or of the kernel changes what the calls of the session read.
LEMMA FrozenStep ==
  ASSUME SessionRules, Typed, SessionInv, [Next]_vars, registeredPid # NoPid, ~Restoring
  PROVE  /\ UNCHANGED <<statics, mapOf, refs, atBase, powered>>
         /\ commHeap'[requestedCode].code = commHeap[requestedCode].code
  <1> EventThread \in Actor /\ Thread \subseteq Actor
    BY DEF Actor
  <1>1. CASE Refused \/ UNCHANGED vars
    BY <1>1 DEF Refused, vars, statics, memory, system
  <1>2. CASE ~Refused /\ \E t \in Thread : Inject(t)
    <2>1. \A t \in Thread : pc[t] \notin InjectSteps
      BY DEF SessionInv, ControlInv
    <2>2. QED
      BY <1>2, <2>1 DEF Inject, InjectCall, InjectUserMap, InjectLoad, InjectPin,
         InjectBase, InjectRegister, InjectSteps, InjectAdmits
  <1>3. CASE \E a \in Actor : RestoreEntry(a)
    BY <1>3 DEF RestoreEntry, memory, system
  <1>4. CASE \E a \in Actor : Restore(a)
    <2>1. \A a \in Actor : pc[a] \notin RestoreSteps \ {"res_check"}
      BY DEF Restoring, TearingDown
    <2>2. QED
      BY <1>4, <2>1 DEF Restore, RestoreRelease, ResetSuspend, ResetResume, RestoreUnmap,
         RestoreClear, RestoreSteps
  <1>5. CASE ~Refused /\ \E t \in Thread : Exec(t)
    <2>1. PICK t \in Thread : Exec(t)
      BY <1>5
    <2>2. UNCHANGED <<statics, mapOf, refs, atBase, powered>>
      BY <1>5, <2>1 DEF Exec, ExecCall, ExecCopyIn, ExecLock, ExecRpc, MepRun, ExecUnlock,
         ExecCopyOut, memory, system
    <2>3. requestedCode \in Block /\ commHeap \in [Block -> Heap]
      BY DEF SessionInv, SessionIntact, Typed, MemoryTyped
    <2>4. UNCHANGED commHeap \/ \E b, v : SetArg(b, v)
      BY <1>5, <2>1 DEF Exec, ExecCall, ExecCopyIn, ExecLock, ExecRpc, MepRun, ExecUnlock,
         ExecCopyOut, memory
    <2>5. QED
      BY <2>2, <2>3, <2>4, SetArgKeepsCode
  <1>6. CASE \E b \in Block : PlaceAtBase(b)
    <2>1. Pinned
      BY DEF Pinned, Restoring
    <2>2. requestedCode \in Block /\ atBase = requestedCode /\ refs[atBase] = 1
      BY <2>1 DEF SessionInv, SessionIntact, PinsBalanced
    <2>3. QED
      BY <1>6, <2>2, MemoryAssumption DEF PlaceAtBase
  <1>7. CASE \/ \E t \in Thread : SuspendCalls(t)
             \/ \E p \in Process : ExitEvent(p) \/ Spawn(p)
    BY <1>7 DEF SuspendCalls, LockProcessSuspend, UnlockProcessSuspend, ExitEvent, Spawn,
       memory
  <1>8. QED
    BY <1>1, <1>2, <1>3, <1>4, <1>5, <1>6, <1>7 DEF Next, RestoreCall, RestoreCheck, ExitHandler

\* A call of an open session finds everything as its first check found it.
THEOREM SessionStaysFrozen == SessionRules => (Spec => SessionFrozen)
  <1> SUFFICES ASSUME SessionRules PROVE Spec => SessionFrozen
    OBVIOUS
  <1>1. /\ Typed /\ SessionInv /\ [Next]_vars
        => [registeredPid # NoPid /\ ~Restoring =>
              /\ UNCHANGED <<statics, mapOf, refs, atBase, powered>>
              /\ commHeap'[requestedCode].code = commHeap[requestedCode].code]_vars
    BY FrozenStep
  <1>2. Typed /\ LockInv => Typed
    OBVIOUS
  <1>3. QED
    BY <1>1, <1>2, LockInvariant, SessionConsistent, PTL DEF Spec, SessionFrozen

-----------------------------------------------------------------------------
(* Who executes.                                                           *)

\* At most one thread is inside Exec.
OneExec == \A t, u \in Thread : pc[t] \in ExecSteps /\ pc[u] \in ExecSteps => t = u

\* A step of Exec: the first one, or one of a call that has passed its checks.
LEMMA ExecFrom ==
  ASSUME Typed, NEW t \in Thread, Exec(t), ~Refused
  PROVE  /\ ExecCall(t) \/ pc[t] \in ExecSteps
         /\ \A u \in Actor \ {t} : pc'[u] = pc[u]
         /\ \A u \in Thread \ {t} : frame'[u] = frame[u]
         /\ UNCHANGED <<statics, mapOf, unmapRefused, refs>>
  <1> t \in Actor /\ Thread \subseteq Actor
    BY DEF Actor
  <1>1. ExecCall(t) \/ pc[t] \in ExecSteps
    BY DEF Exec, ExecCopyIn, ExecLock, ExecRpc, MepRun, ExecUnlock, ExecCopyOut, ExecSteps
  <1>2. \E step : Goto(t, step)
    BY DEF Exec, ExecCall, ExecCopyIn, ExecLock, ExecRpc, MepRun, ExecUnlock, ExecCopyOut,
       Return
  <1>3. UNCHANGED <<statics, mapOf, unmapRefused, refs>>
    BY DEF Exec, ExecCall, ExecCopyIn, ExecLock, ExecRpc, MepRun, ExecUnlock, ExecCopyOut,
       memory
  <1>4. UNCHANGED frame \/ \A u \in Thread \ {t} : frame'[u] = frame[u]
    BY DEF Exec, ExecCall, ExecCopyIn, ExecLock, ExecRpc, MepRun, ExecUnlock, ExecCopyOut,
       Return, Typed, CallsTyped
  <1>5. QED
    BY <1>1, <1>2, <1>3, <1>4, GotoEffect

\* A thread that makes an execution under the serial rules is the only one.
LEMMA CallsSerially ==
  ASSUME SerialRules, NEW t \in Thread, MayCall(t, "exec")
  PROVE  \A u \in Thread \ {t} : pc[u] \notin ExecSteps
  <1>1. "exec" \in Operation /\ Steps["exec"] = ExecSteps
    BY DEF Operation, Steps
  <1>2. SUFFICES ASSUME NEW u \in Thread \ {t}, pc[u] \in ExecSteps PROVE FALSE
    OBVIOUS
  <1>3. {"exec", "exec"} \notin Exclusive
    BY <1>1, <1>2 DEF MayCall
  <1>4. QED
    BY <1>3 DEF SerialRules

LEMMA AloneInExec ==
  ASSUME SerialRules, Typed, OneExec, NEW t \in Thread, Exec(t), ~Refused
  PROVE  \A u \in Thread \ {t} : pc[u] \notin ExecSteps /\ pc'[u] \notin ExecSteps
  <1>1. \A u \in Thread \ {t} : pc'[u] = pc[u]
    BY ExecFrom DEF Actor
  <1>2. \A u \in Thread \ {t} : pc[u] \notin ExecSteps
    BY ExecFrom, CallsSerially DEF ExecCall, OneExec
  <1>3. QED
    BY <1>1, <1>2

\* Every other step leaves the calls inside Exec alone; and their argument block, when
\* Inject does not overlap them.
CallsUndisturbed ==
    \A t \in Thread : pc'[t] \in ExecSteps => pc'[t] = pc[t] /\ frame'[t] = frame[t]
ArgUndisturbed ==
    \A t \in Thread : pc'[t] \in ExecSteps =>
        /\ requestedCode' = requestedCode
        /\ requestedCode \in Block =>
              commHeap'[requestedCode].arg = commHeap[requestedCode].arg

LEMMA BesideInject ==
  ASSUME Typed, NEW t \in Thread, Inject(t), ~Refused
  PROVE  CallsUndisturbed /\ (ControlInv => ArgUndisturbed)
  <1> t \in Actor /\ Thread \subseteq Actor
    BY DEF Actor
  <1>1. \E step \in {"idle"} \cup InjectSteps : Goto(t, step)
    BY DEF Inject, InjectCall, InjectUserMap, InjectLoad, InjectPin, InjectBase,
       InjectRegister, InjectSteps, Return
  <1>2. /\ pc'[t] \notin ExecSteps
        /\ \A u \in Thread \ {t} : pc'[u] = pc[u]
    BY <1>1, GotoEffect, StepsApart
  <1>3. \A u \in Thread \ {t} : frame'[u] = frame[u]
    BY DEF Inject, InjectCall, InjectUserMap, InjectLoad, InjectPin, InjectBase,
       InjectRegister, Return, Typed, CallsTyped
  <1>4. CASE InjectCall(t)
    <2>1. UNCHANGED <<requestedCode, commHeap>>
      BY <1>4 DEF InjectCall, statics, code, memory
    <2>2. QED
      BY <1>2, <1>3, <2>1 DEF CallsUndisturbed, ArgUndisturbed
  <1>5. CASE ~InjectCall(t)
    <2>1. pc[t] \in InjectSteps
      BY <1>5 DEF Inject, InjectUserMap, InjectLoad, InjectPin, InjectBase,
         InjectRegister, InjectSteps
    <2>2. ControlInv => \A u \in Thread \ {t} : pc'[u] \notin ExecSteps
      BY <1>2, <2>1, InsideAlone
    <2>3. QED
      BY <1>2, <1>3, <2>2 DEF CallsUndisturbed, ArgUndisturbed
  <1>6. QED
    BY <1>4, <1>5

LEMMA BesideRestore ==
  ASSUME Typed, NEW a \in Actor, RestoreEntry(a) \/ Restore(a)
  PROVE  CallsUndisturbed /\ ArgUndisturbed
  <1>1. \E step \in {"idle"} \cup RestoreSteps : Goto(a, step)
    BY DEF RestoreEntry, Restore, RestoreRelease, ResetSuspend, ResetResume,
       RestoreUnmap, RestoreClear, RestoreSteps
  <1>2. pc'[a] \notin ExecSteps /\ \A u \in Actor \ {a} : pc'[u] = pc[u]
    BY <1>1, GotoEffect, StepsApart
  <1>3. UNCHANGED <<frame, requestedCode, commHeap>>
    BY DEF RestoreEntry, Restore, RestoreRelease, ResetSuspend, ResetResume,
       RestoreUnmap, RestoreClear, statics, code, memory
  <1>4. QED
    BY <1>2, <1>3 DEF CallsUndisturbed, ArgUndisturbed, Actor

LEMMA BesideKernel ==
  ASSUME Typed,
         \/ \E t \in Thread : SuspendCalls(t)
         \/ \E p \in Process : ExitEvent(p) \/ Spawn(p)
         \/ \E b \in Block : PlaceAtBase(b)
         \/ UNCHANGED vars
  PROVE  CallsUndisturbed /\ ArgUndisturbed
  <1> EventThread \in Actor /\ EventThread \notin Thread /\ Thread \subseteq Actor
    BY ProcessAssumption DEF Actor
  <1>1. UNCHANGED <<frame, requestedCode, commHeap>>
    BY DEF SuspendCalls, LockProcessSuspend, UnlockProcessSuspend, ExitEvent, Spawn,
       PlaceAtBase, vars, statics, code, memory
  <1>2. UNCHANGED pc \/ \E step : Goto(EventThread, step)
    BY DEF SuspendCalls, LockProcessSuspend, UnlockProcessSuspend, ExitEvent, Spawn,
       PlaceAtBase, vars
  <1>3. \A t \in Thread : pc'[t] = pc[t]
    BY <1>2, GotoEffect
  <1>4. QED
    BY <1>1, <1>3 DEF CallsUndisturbed, ArgUndisturbed

\* A step of the system is one of Exec, or leaves Exec alone.
LEMMA ExecOrNot ==
  ASSUME Typed, [Next]_vars
  PROVE  \/ CallsUndisturbed /\ (ControlInv => ArgUndisturbed)
         \/ \E t \in Thread : Exec(t) /\ ~Refused
  <1> EventThread \in Actor /\ Thread \subseteq Actor
    BY DEF Actor
  <1>1. CASE Refused \/ UNCHANGED vars
    BY <1>1, BesideKernel DEF Refused
  <1>2. CASE ~Refused /\ \E t \in Thread : Inject(t)
    BY <1>2, BesideInject
  <1>3. CASE (\E t \in Thread : RestoreCall(t) \/ Restore(t)) \/ ExitHandler
    BY <1>3, BesideRestore DEF RestoreCall, RestoreCheck, ExitHandler
  <1>4. CASE \/ \E t \in Thread : SuspendCalls(t)
             \/ \E p \in Process : ExitEvent(p) \/ Spawn(p)
             \/ \E b \in Block : PlaceAtBase(b)
    BY <1>4, BesideKernel
  <1>5. CASE ~Refused /\ \E t \in Thread : Exec(t)
    BY <1>5
  <1>6. QED
    BY <1>1, <1>2, <1>3, <1>4, <1>5 DEF Next

-----------------------------------------------------------------------------
(* Kernel maps.  A map belongs to the Inject that made it, then to the     *)
(* session; Restore unmaps it before it clears the registration.           *)

\* A call has a page from its sceKernelUserMap on; Restore forgets the id of the map
\* before its last store.
PageInv == \A t \in Thread : pc[t] \notin InjectSteps \ {"inj_map"} => frame[t].page = NoMap
ClearInv == \A a \in Actor : pc[a] = "res_clear" => blockMapId = NoMap

LEMMA InjectsItsPage ==
  ASSUME PageInv, NEW t \in Thread, NEW m \in MapId
  PROVE  Injects(t, m) <=> frame[t].page = m
  BY MemoryAssumption DEF PageInv, Injects

\* No page and no id changes in a step that starts or ends a call of Exec or Restore, or
\* goes on inside it.
LEMMA PagesKept ==
  ASSUME Typed, PageInv, ClearInv, NEW a \in Actor, UNCHANGED blockMapId,
         \A u \in Actor \ {a} : pc'[u] = pc[u],
         pc'[a] \notin InjectSteps, pc'[a] # "res_clear",
         a \in Thread => pc[a] \notin InjectSteps,
         \A t \in Thread : frame'[t].page = frame[t].page \/ frame'[t] = NoFrame
  PROVE  PageInv' /\ ClearInv'
  BY DEF PageInv, ClearInv, NoFrame, Actor, InjectSteps

LEMMA PagesInject ==
  ASSUME Typed, ControlInv, PageInv, ClearInv, NEW t \in Thread, Inject(t), ~Refused
  PROVE  PageInv' /\ ClearInv'
  <1> t \in Actor /\ Thread \subseteq Actor
    BY DEF Actor
  <1>1. \E step \in {"idle"} \cup InjectSteps : Goto(t, step)
    BY DEF Inject, InjectCall, InjectUserMap, InjectLoad, InjectPin, InjectBase,
       InjectRegister, InjectSteps, Return
  <1>2. pc'[t] \in {"idle"} \cup InjectSteps /\ \A u \in Actor \ {t} : pc'[u] = pc[u]
    BY <1>1, GotoEffect
  <1>3. \A u \in Thread \ {t} : frame'[u] = frame[u]
    BY DEF Inject, InjectCall, InjectUserMap, InjectLoad, InjectPin, InjectBase,
       InjectRegister, Return, Typed, CallsTyped
  <1>4. pc'[t] \notin InjectSteps \ {"inj_map"} => frame'[t].page = NoMap
    <2>1. CASE InjectCall(t)
      <3>1. frame'[t].page = frame[t].page /\ pc[t] = "idle"
        BY <2>1 DEF InjectCall, MayCall, Typed, CallsTyped, Frame
      <3>2. QED
        BY <3>1, StepsApart DEF PageInv
    <2>2. CASE Return(t)
      BY <2>2, <1>2 DEF Return, NoFrame, Typed, CallsTyped
    <2>3. CASE ~InjectCall(t) /\ ~Return(t)
      <3>1. \E step \in InjectSteps \ {"inj_map"} : Goto(t, step)
        BY <2>3 DEF Inject, InjectUserMap, InjectLoad, InjectPin, InjectBase,
           InjectRegister, InjectSteps
      <3>2. QED
        BY <3>1, GotoEffect
    <2>4. QED
      BY <2>1, <2>2, <2>3
  <1>5. PageInv'
    BY <1>2, <1>3, <1>4 DEF PageInv
  <1>6. CASE UNCHANGED blockMapId
    BY <1>2, <1>5, <1>6 DEF ClearInv, InjectSteps
  <1>7. CASE blockMapId' # blockMapId
    <2>1. pc[t] \in InjectSteps
      BY <1>7 DEF Inject, InjectCall, InjectUserMap, InjectLoad, InjectPin, InjectBase,
         InjectRegister, statics, InjectSteps
    <2>2. \A u \in Actor \ {t} : pc[u] \notin RestoreSteps
      BY <2>1, InsideAlone
    <2>3. QED
      BY <1>2, <1>5, <2>2 DEF ClearInv, InjectSteps, RestoreSteps
  <1>8. QED
    BY <1>6, <1>7

LEMMA PagesRestore ==
  ASSUME Typed, PageInv, ClearInv, NEW a \in Actor, RestoreEntry(a) \/ Restore(a),
         a \in Thread => pc[a] \notin InjectSteps
  PROVE  PageInv' /\ ClearInv'
  <1>1. UNCHANGED frame
    BY DEF RestoreEntry, Restore, RestoreRelease, ResetSuspend, ResetResume, RestoreUnmap,
       RestoreClear
  <1>2. CASE RestoreUnmap(a)
    <2>1. pc'[a] = "res_clear" /\ \A u \in Actor \ {a} : pc'[u] = pc[u]
      BY <1>2, GotoEffect DEF RestoreUnmap
    <2>2. blockMapId' = NoMap
      BY <1>2 DEF RestoreUnmap
    <2>3. QED
      BY <1>1, <2>1, <2>2 DEF PageInv, ClearInv, InjectSteps, Actor
  <1>3. CASE ~RestoreUnmap(a)
    <2>1. UNCHANGED blockMapId
      BY <1>3 DEF RestoreEntry, Restore, RestoreRelease, ResetSuspend, ResetResume,
         RestoreClear, statics
    <2>2. \E step \in {"idle"} \cup (RestoreSteps \ {"res_clear"}) : Goto(a, step)
      BY <1>3 DEF RestoreEntry, Restore, RestoreRelease, ResetSuspend, ResetResume,
         RestoreClear, RestoreSteps
    <2>3. /\ pc'[a] \notin InjectSteps /\ pc'[a] # "res_clear"
          /\ \A u \in Actor \ {a} : pc'[u] = pc[u]
      BY <2>2, GotoEffect, StepsApart DEF RestoreSteps
    <2>4. QED
      BY <1>1, <2>1, <2>3, PagesKept
  <1>4. QED
    BY <1>2, <1>3

LEMMA PagesExec ==
  ASSUME Typed, PageInv, ClearInv, NEW t \in Thread, Exec(t), ~Refused
  PROVE  PageInv' /\ ClearInv' /\ pc[t] \notin InjectSteps /\ pc'[t] \notin InjectSteps
  <1> t \in Actor
    BY DEF Actor
  <1>1. /\ pc[t] \notin InjectSteps
        /\ \A u \in Actor \ {t} : pc'[u] = pc[u]
        /\ UNCHANGED blockMapId
    BY ExecFrom, StepsApart DEF ExecCall, MayCall, statics
  <1>2. \E step \in {"idle"} \cup ExecSteps : Goto(t, step)
    BY DEF Exec, ExecCall, ExecCopyIn, ExecLock, ExecRpc, MepRun, ExecUnlock, ExecCopyOut,
       FirstStep, LockStep, UnlockStep, Return, ExecSteps
  <1>3. pc'[t] \notin InjectSteps /\ pc'[t] # "res_clear"
    BY <1>2, GotoEffect, StepsApart DEF ExecSteps
  <1>4. \A u \in Thread : frame'[u].page = frame[u].page \/ frame'[u] = NoFrame
    <2>1. CASE ExecCall(t)
      <3>1. PICK arg \in ArgForms, susp \in BOOLEAN :
              frame' = [frame EXCEPT ![t].ptr = arg.ptr, ![t].size = arg.size,
                                     ![t].susp = susp]
        BY <2>1 DEF ExecCall
      <3>2. QED
        BY <3>1 DEF Typed, CallsTyped, Frame
    <2>2. CASE ExecCopyIn(t) \/ MepRun(t) \/ ExecUnlock(t)
      BY <2>2 DEF ExecCopyIn, MepRun, ExecUnlock, Typed, CallsTyped, Frame
    <2>3. CASE ExecLock(t) \/ ExecRpc(t) \/ ExecCopyOut(t)
      BY <2>3 DEF ExecLock, ExecRpc, ExecCopyOut, Return, Typed, CallsTyped, Frame
    <2>4. QED
      BY <2>1, <2>2, <2>3 DEF Exec
  <1>5. QED
    BY <1>1, <1>3, <1>4, PagesKept

\* The steps of the kernel and of the suspend lock.
LEMMA KernelMoves ==
  ASSUME Typed,
         \/ \E t \in Thread : SuspendCalls(t)
         \/ \E p \in Process : ExitEvent(p) \/ Spawn(p)
         \/ \E b \in Block : PlaceAtBase(b)
         \/ UNCHANGED vars
  PROVE  /\ UNCHANGED <<frame, registeredPid, blockMapId, mapOf>>
         /\ \A u \in Thread : pc'[u] = pc[u]
         /\ pc'[EventThread] \in {pc[EventThread], "idle", "res_check"}
  <1> EventThread \in Actor /\ EventThread \notin Thread /\ Thread \subseteq Actor
    BY ProcessAssumption DEF Actor
  <1>1. UNCHANGED <<frame, registeredPid, blockMapId, mapOf>>
    BY DEF SuspendCalls, LockProcessSuspend, UnlockProcessSuspend, ExitEvent, Spawn,
       PlaceAtBase, vars, statics, memory
  <1>2. UNCHANGED pc \/ \E step \in {"idle", "res_check"} : Goto(EventThread, step)
    BY DEF SuspendCalls, LockProcessSuspend, UnlockProcessSuspend, ExitEvent, ExitStep,
       Spawn, PlaceAtBase, vars
  <1>3. QED
    BY <1>1, <1>2, GotoEffect

LEMMA PagesNext ==
  ASSUME Typed, ControlInv, PageInv, ClearInv, [Next]_vars
  PROVE  PageInv' /\ ClearInv'
  <1> EventThread \in Actor /\ EventThread \notin Thread /\ Thread \subseteq Actor
    BY ProcessAssumption DEF Actor
  <1>1. CASE \/ \E t \in Thread : SuspendCalls(t)
             \/ \E p \in Process : ExitEvent(p) \/ Spawn(p)
             \/ \E b \in Block : PlaceAtBase(b)
             \/ UNCHANGED vars \/ Refused
    BY <1>1, KernelMoves DEF Refused, PageInv, ClearInv, Actor
  <1>2. CASE (\E t \in Thread : RestoreCall(t) \/ Restore(t)) \/ ExitHandler
    <2>1. PICK a \in Actor : /\ RestoreEntry(a) \/ Restore(a)
                             /\ a \in Thread => pc[a] = "idle" \/ pc[a] \in RestoreSteps
      BY <1>2 DEF RestoreCall, RestoreCheck, ExitHandler, MayCall, Restore, RestoreRelease,
         ResetSuspend, ResetResume, RestoreUnmap, RestoreClear, RestoreSteps
    <2>2. QED
      BY <2>1, PagesRestore, StepsApart
  <1>3. CASE ~Refused /\ \E t \in Thread : Inject(t) \/ Exec(t)
    BY <1>3, PagesInject, PagesExec
  <1>4. QED
    BY <1>1, <1>2, <1>3 DEF Next

LEMMA PagesInvariant ==
  ASSUME SessionRules
  PROVE  Spec => [](Typed /\ ControlInv /\ DataInv /\ PageInv /\ ClearInv)
  <1>1. Init => PageInv /\ ClearInv
    BY DEF Init, PageInv, ClearInv, NoFrame
  <1>2. Typed /\ ControlInv /\ PageInv /\ ClearInv /\ [Next]_vars => (PageInv /\ ClearInv)'
    BY PagesNext
  <1>3. QED
    BY <1>1, <1>2, SessionInvariant, PTL DEF Spec

\* A step that changes no map, nor who injects, nor the registration, accounts for the
\* maps as before.
LEMMA MapsKept ==
  ASSUME Typed, PageInv, PageInv', UNCHANGED <<mapOf, registeredPid, blockMapId>>,
         \A t \in Thread : /\ frame'[t].page = frame[t].page
                           /\ pc[t] \in InjectSteps => pc'[t] # "idle"
  PROVE  \A m \in MapId : Abandoned(m)' <=>
             Abandoned(m) \/ \E t \in Thread : Injects(t, m) /\ GivesUp(t)
  <1> SUFFICES ASSUME NEW m \in MapId
               PROVE  Abandoned(m)' <=>
                  Abandoned(m) \/ \E t \in Thread : Injects(t, m) /\ GivesUp(t)
    OBVIOUS
  <1>1. \A t \in Thread : Injects(t, m) <=> Injects(t, m)'
    <2>1. \A t \in Thread : Injects(t, m)' <=> frame'[t].page = m
      BY MemoryAssumption DEF PageInv, Injects
    <2>2. QED
      BY <2>1, InjectsItsPage
  <1>2. \A t \in Thread : ~(Injects(t, m) /\ GivesUp(t))
    BY DEF Injects, GivesUp
  <1>3. QED
    BY <1>1, <1>2 DEF Abandoned

\* A step inside Inject, or its end, is that of the only thread that injects.
LEMMA MapsInject ==
  ASSUME Typed, ControlInv, DataInv, PageInv, PageInv', NEW t \in Thread, Inject(t),
         ~Refused, NEW m \in MapId
  PROVE  Abandoned(m)' <=>
             Abandoned(m) \/ \E u \in Thread : Injects(u, m) /\ GivesUp(u)
  <1> t \in Actor /\ Thread \subseteq Actor
    BY DEF Actor
  <1>0. \A u \in Thread : /\ Injects(u, m) <=> frame[u].page = m
                          /\ Injects(u, m)' <=> frame'[u].page = m
    BY MemoryAssumption DEF PageInv, Injects
  <1>1. CASE InjectCall(t)
    <2>1. /\ UNCHANGED <<mapOf, registeredPid, blockMapId>>
          /\ \A u \in Thread : frame'[u].page = frame[u].page
          /\ pc[t] = "idle" /\ Goto(t, "inj_map")
      BY <1>1 DEF InjectCall, MayCall, statics, memory, Typed, CallsTyped, Frame
    <2>2. \A u \in Thread : pc[u] \in InjectSteps => pc'[u] # "idle"
      BY <2>1, GotoEffect, StepsApart
    <2>3. QED
      BY <2>1, <2>2, MapsKept
  <1>2. CASE ~InjectCall(t)
    <2>1. pc[t] \in InjectSteps /\ registeredPid = NoPid /\ InjectProgress(t)
      BY <1>2 DEF Inject, InjectUserMap, InjectLoad, InjectPin, InjectBase, InjectRegister,
         InjectSteps, ControlInv, DataInv, InjectInv
    <2>2. \A u \in Thread \ {t} : pc[u] \notin InjectSteps
      BY <2>1, InsideAlone
    <2>3. \A u \in Thread \ {t} : frame[u].page = NoMap
      BY <2>2 DEF PageInv
    <2>4. \A u \in Thread \ {t} : frame'[u] = frame[u]
      BY <1>2 DEF Inject, InjectUserMap, InjectLoad, InjectPin, InjectBase,
         InjectRegister, Return, Typed, CallsTyped
    <2>5. \A u \in Thread \ {t} : ~Injects(u, m) /\ ~Injects(u, m)'
      BY <1>0, <2>3, <2>4, MemoryAssumption
    <2>6. Abandoned(m) <=> mapOf[m] # NoBlock /\ frame[t].page # m
      BY <1>0, <2>1, <2>5 DEF Abandoned
    <2>7. CASE InjectRegister(t)
      <3>1. /\ registeredPid' = ThreadProc[t] /\ ThreadProc[t] # NoPid
            /\ UNCHANGED <<mapOf, blockMapId>> /\ blockMapId = frame[t].page
        BY <2>1, <2>7, ProcessAssumption
           DEF InjectRegister, memory, InjectProgress, InjectSteps
      <3>2. frame'[t].page = NoMap
        BY <2>7 DEF InjectRegister, Return, NoFrame, Typed, CallsTyped
      <3>3. ~Injects(t, m)' /\ \A u \in Thread : ~GivesUp(u)
        BY <1>0, <3>1, <3>2, MemoryAssumption DEF GivesUp
      <3>4. Abandoned(m)' <=> mapOf[m] # NoBlock /\ m # frame[t].page
        BY <2>5, <3>1, <3>3 DEF Abandoned
      <3>5. QED
        BY <2>6, <3>3, <3>4
    <2>8. CASE ~InjectRegister(t)
      <3>1. UNCHANGED registeredPid
        BY <1>2, <2>8 DEF Inject, InjectUserMap, InjectLoad, InjectPin, InjectBase
      <3>2. Abandoned(m)' <=> mapOf'[m] # NoBlock /\ frame'[t].page # m
        BY <1>0, <2>1, <2>5, <3>1 DEF Abandoned
      <3>3. CASE Return(t)
        <4>1. /\ frame'[t].page = NoMap /\ pc'[t] = "idle" /\ UNCHANGED mapOf
          BY <1>2, <2>1, <2>8, <3>3, ReturnEffect DEF Inject, InjectUserMap, InjectLoad,
             InjectPin, InjectBase, memory, Goto, Return, NoFrame, Typed, CallsTyped
        <4>2. GivesUp(t)
          BY <2>1, <3>1, <4>1 DEF GivesUp
        <4>3. frame[t].page = m => mapOf[m] # NoBlock
          BY <2>1, MemoryAssumption DEF InjectProgress, PageInv
        <4>4. frame'[t].page # m
          BY <4>1, MemoryAssumption
        <4>5. QED
          BY <1>0, <2>5, <2>6, <3>2, <4>1, <4>2, <4>3, <4>4
      <3>4. CASE ~Return(t)
        <4>1. \E step \in InjectSteps : Goto(t, step)
          BY <1>2, <2>8, <3>4 DEF Inject, InjectUserMap, InjectLoad, InjectPin, InjectBase,
             InjectSteps
        <4>2. ~GivesUp(t)
          BY <4>1, GotoEffect, StepsApart DEF GivesUp
        <4>3. CASE InjectUserMap(t)
          <5>1. frame[t].page = NoMap
            BY <4>3 DEF InjectUserMap, PageInv
          <5>2. PICK n \in MapId : /\ mapOf[n] = NoBlock
                                   /\ mapOf' = [mapOf EXCEPT ![n] = frame[t].block]
                                   /\ frame' = [frame EXCEPT ![t].page = n]
            BY <3>4, <4>3 DEF InjectUserMap
          <5>3. frame'[t].page = n
            BY <5>2 DEF Typed, CallsTyped, Frame
          <5>4. m # n => mapOf'[m] = mapOf[m]
            BY <5>2 DEF Typed, MemoryTyped
          <5>5. QED
            BY <2>5, <2>6, <3>2, <4>2, <5>1, <5>2, <5>3, <5>4, MemoryAssumption
        <4>4. CASE ~InjectUserMap(t)
          <5>1. UNCHANGED <<frame, mapOf>>
            BY <1>2, <2>8, <3>4, <4>4 DEF Inject, InjectLoad, InjectPin, InjectBase, memory
          <5>2. QED
            BY <2>5, <2>6, <3>2, <4>2, <5>1
        <4>5. QED
          BY <4>3, <4>4
      <3>5. QED
        BY <3>3, <3>4
    <2>9. QED
      BY <2>7, <2>8
  <1>3. QED
    BY <1>1, <1>2

\* Restore unmaps the map of the session it ends, which was its own to the end, or the
\* kernel keeps that map.
RefusedInv == \A m \in unmapRefused : Abandoned(m)

LEMMA MapsRestore ==
  ASSUME Typed, ControlInv, PageInv, PageInv', ClearInv, RefusedInv, NEW a \in Actor,
         Restore(a), NEW m \in MapId
  PROVE  Abandoned(m)' <=> \/ Abandoned(m)
                           \/ \E u \in Thread : Injects(u, m) /\ GivesUp(u)
                           \/ m \in unmapRefused'
  <1> EventThread \in Actor /\ EventThread \notin Thread /\ Thread \subseteq Actor
    BY ProcessAssumption DEF Actor
  <1>1. pc[a] \in RestoreSteps
    BY DEF Restore, RestoreRelease, ResetSuspend, ResetResume, RestoreUnmap, RestoreClear,
       RestoreSteps
  <1>2. registeredPid # NoPid
    BY <1>1, ProcessAssumption DEF ControlInv, Actor
  <1>3. \A u \in Thread : pc[u] \notin InjectSteps
    BY <1>1, InsideAlone, StepsApart
  <1>4. UNCHANGED frame
    BY DEF Restore, RestoreRelease, ResetSuspend, ResetResume, RestoreUnmap, RestoreClear
  <1>5. \A u \in Thread : ~Injects(u, m) /\ ~Injects(u, m)'
    BY <1>3, <1>4, MemoryAssumption DEF PageInv, Injects
  <1>6. CASE RestoreUnmap(a)
    <2>1. UNCHANGED registeredPid /\ blockMapId' = NoMap
      BY <1>6 DEF RestoreUnmap
    <2>2. Abandoned(m)' <=> mapOf'[m] # NoBlock
      BY <1>5, <2>1, MemoryAssumption DEF Abandoned
    <2>3. Abandoned(m) <=> mapOf[m] # NoBlock /\ m # blockMapId
      BY <1>2, <1>5 DEF Abandoned
    <2>4. CASE /\ mapOf' = [n \in MapId |-> IF n = blockMapId THEN NoBlock ELSE mapOf[n]]
               /\ UNCHANGED unmapRefused
      BY <1>5, <2>2, <2>3, <2>4 DEF RefusedInv
    <2>5. CASE /\ unmapRefused' = unmapRefused \cup
                       {n \in MapId : n = blockMapId /\ mapOf[n] # NoBlock}
               /\ UNCHANGED mapOf
      BY <1>5, <2>2, <2>3, <2>5 DEF RefusedInv
    <2>6. QED
      BY <1>6, <2>4, <2>5 DEF RestoreUnmap, UnmapCurrent
  <1>7. CASE RestoreClear(a)
    <2>1. UNCHANGED <<mapOf, unmapRefused, blockMapId>> /\ blockMapId = NoMap
      BY <1>7 DEF RestoreClear, memory, ClearInv
    <2>2. QED
      BY <1>5, <2>1, MemoryAssumption DEF Abandoned, RefusedInv
  <1>8. CASE RestoreRelease(a) \/ ResetSuspend(a) \/ ResetResume(a)
    <2>1. UNCHANGED <<mapOf, unmapRefused, blockMapId, registeredPid>>
      BY <1>8 DEF RestoreRelease, ResetSuspend, ResetResume, statics, memory
    <2>2. QED
      BY <1>5, <2>1 DEF Abandoned, RefusedInv
  <1>9. QED
    BY <1>6, <1>7, <1>8 DEF Restore

LEMMA MapsOthers ==
  ASSUME Typed, ControlInv, DataInv, PageInv, ClearInv, [Next]_vars,
         \A a \in Actor : ~Restore(a), NEW m \in MapId
  PROVE  /\ Abandoned(m)' <=>
                Abandoned(m) \/ \E t \in Thread : Injects(t, m) /\ GivesUp(t)
         /\ UNCHANGED unmapRefused
  <1> EventThread \in Actor /\ EventThread \notin Thread /\ Thread \subseteq Actor
    BY ProcessAssumption DEF Actor
  <1>0. UNCHANGED unmapRefused
    <2>1. CASE Refused \/ UNCHANGED vars
      BY <2>1 DEF Refused, vars, memory
    <2>2. CASE ~Refused /\ \E t \in Thread : Inject(t)
      BY <2>2 DEF Inject, InjectCall, InjectUserMap, InjectLoad, InjectPin, InjectBase,
         InjectRegister, memory
    <2>3. CASE ~Refused /\ \E t \in Thread : Exec(t)
      BY <2>3, ExecFrom
    <2>4. CASE \/ \E t \in Thread : SuspendCalls(t)
               \/ \E a \in Actor : RestoreEntry(a)
               \/ \E p \in Process : ExitEvent(p) \/ Spawn(p)
               \/ \E b \in Block : PlaceAtBase(b)
      BY <2>4 DEF SuspendCalls, LockProcessSuspend, UnlockProcessSuspend, RestoreEntry,
         ExitEvent, Spawn, PlaceAtBase, memory
    <2>5. QED
      BY <2>1, <2>2, <2>3, <2>4 DEF Next, RestoreCall, RestoreCheck, ExitHandler
  <1>1. PageInv'
    BY PagesNext
  <1>2. CASE \/ \E t \in Thread : SuspendCalls(t)
             \/ \E p \in Process : ExitEvent(p) \/ Spawn(p)
             \/ \E b \in Block : PlaceAtBase(b)
             \/ UNCHANGED vars \/ Refused
    BY <1>0, <1>1, <1>2, KernelMoves, MapsKept, StepsApart DEF Refused
  <1>3. CASE \E a \in Actor : RestoreEntry(a) /\ (a \in Thread => pc[a] = "idle")
    <2>1. PICK a \in Actor : RestoreEntry(a) /\ (a \in Thread => pc[a] = "idle")
      BY <1>3
    <2>2. /\ UNCHANGED <<frame, mapOf, registeredPid, blockMapId>>
          /\ \A u \in Actor \ {a} : pc'[u] = pc[u]
      BY <2>1, GotoEffect DEF RestoreEntry, statics, memory
    <2>3. \A u \in Thread : pc[u] \in InjectSteps => pc'[u] # "idle"
      BY <2>1, <2>2, StepsApart
    <2>4. QED
      BY <1>0, <1>1, <2>2, <2>3, MapsKept
  <1>5. CASE ~Refused /\ \E t \in Thread : Inject(t)
    BY <1>0, <1>1, <1>5, MapsInject
  <1>6. CASE ~Refused /\ \E t \in Thread : Exec(t)
    <2>1. PICK t \in Thread : Exec(t)
      BY <1>6
    <2>2. /\ UNCHANGED <<mapOf, registeredPid, blockMapId>>
          /\ \A u \in Actor \ {t} : pc'[u] = pc[u]
          /\ \A u \in Thread \ {t} : frame'[u] = frame[u]
          /\ pc[t] \notin InjectSteps /\ pc'[t] \notin InjectSteps
      BY <1>6, <2>1, ExecFrom, PagesExec DEF statics
    <2>3. frame'[t].page = frame[t].page
      BY <1>1, <2>2 DEF PageInv
    <2>4. \A u \in Thread : pc[u] \in InjectSteps => pc'[u] # "idle"
      BY <2>2, StepsApart
    <2>5. QED
      BY <1>0, <1>1, <2>2, <2>3, <2>4, MapsKept
  <1>7. QED
    BY <1>2, <1>3, <1>5, <1>6
       DEF Next, RestoreCall, RestoreCheck, MayCall, ExitHandler, Actor

LEMMA MapsNext ==
  ASSUME Typed, ControlInv, DataInv, PageInv, ClearInv, RefusedInv, [Next]_vars
  PROVE  /\ \A m \in MapId :
               Abandoned(m)' <=> \/ Abandoned(m)
                                 \/ \E t \in Thread : Injects(t, m) /\ GivesUp(t)
                                 \/ m \in unmapRefused'
         /\ RefusedInv'
  <1>1. PageInv' /\ unmapRefused' \subseteq MapId
    BY PagesNext, TypedNext DEF Typed, MemoryTyped
  <1>2. ASSUME NEW m \in MapId
        PROVE  Abandoned(m)' <=> \/ Abandoned(m)
                                 \/ \E t \in Thread : Injects(t, m) /\ GivesUp(t)
                                 \/ m \in unmapRefused'
    <2>1. CASE \E a \in Actor : Restore(a)
      BY <1>1, <2>1, MapsRestore
    <2>2. CASE \A a \in Actor : ~Restore(a)
      BY <2>2, MapsOthers DEF RefusedInv
    <2>3. QED
      BY <2>1, <2>2
  <1>3. QED
    BY <1>1, <1>2 DEF RefusedInv

\* The kernel maps that nobody has the id of are exactly those of Injects that failed
\* after sceKernelUserMap (main.c:167) and those the kernel refused to remove
\* (main.c:77): Restore and the exit handler ask for the removal of every other one, and
\* what is lost stays so.
THEOREM MapsAreAccounted == SessionRules => (Spec => MapsAccounted)
  <1> SUFFICES ASSUME SessionRules PROVE Spec => MapsAccounted
    OBVIOUS
  <1>1. Init => RefusedInv
    BY DEF Init, RefusedInv
  <1>2. /\ Typed /\ ControlInv /\ DataInv /\ PageInv /\ ClearInv /\ RefusedInv
        /\ [Next]_vars
        => /\ [\A m \in MapId :
                  Abandoned(m)' <=> \/ Abandoned(m)
                                    \/ \E t \in Thread : Injects(t, m) /\ GivesUp(t)
                                    \/ m \in unmapRefused']_vars
           /\ RefusedInv'
    BY MapsNext
  <1>3. QED
    BY <1>1, <1>2, PagesInvariant, PTL DEF Spec, MapsAccounted

-----------------------------------------------------------------------------
(* The content of the argument block.                                      *)

\* What OwnArgument says of a call whose copy-in has succeeded; and that a memblock's
\* argument block is never one of another process than the memblock's.
FreshOf(t) ==
    frame[t].ptr /\ frame[t].copied =>
        LET arg == commHeap[requestedCode].arg
        IN  /\ pc[t] \in {"exec_lock", "exec_rpc", "exec_mep"} => arg = <<t, "in">>
            /\ pc[t] \in {"exec_unlock", "exec_out"} => arg[1] = t
FreshArgument == \A t \in Thread : FreshOf(t)
ArgsAtHome == \A b \in Block : LeftBy(BlockOwner[b], commHeap[b].arg)

\* A thread inside Exec is inside an intact session of its own process.
LEMMA ExecFinds ==
  ASSUME ControlInv, DataInv, NEW t \in Thread, pc[t] \in ExecSteps
  PROVE  /\ requestedCode \in Block
         /\ BlockOwner[requestedCode] = ThreadProc[t]
         /\ Behind(commHeapVaddr) = requestedCode
         /\ pc[t] = "exec_mep" => frame[t].paddr = requestedCode
  <1>1. /\ registeredPid = ThreadProc[t] /\ alive[ThreadProc[t]]
        /\ \A u \in Thread : pc[u] \notin RestoreSteps
    BY StepsApart DEF ControlInv
  <1>2. \A u \in Actor : pc[u] \notin RestoreSteps
    BY <1>1, BesideExec
  <1>3. registeredPid # NoPid /\ ~Restoring
    BY <1>1, <1>2, ProcessAssumption DEF Restoring, TearingDown
  <1>4. QED
    BY <1>1, <1>3 DEF DataInv, SessionIntact, RegisteredInv, ExecProgress

\* What SetArg leaves in the block it is given.
LEMMA SetArgEffect ==
  ASSUME commHeap \in [Block -> Heap], NEW b \in Block, NEW v, SetArg(b, v)
  PROVE  commHeap'[b].arg = v
  BY DEF SetArg, Heap

LEMMA FreshStep ==
  ASSUME Typed, ControlInv, DataInv, FreshArgument, NEW t \in Thread,
         Exec(t), ~Refused
  PROVE  FreshOf(t)'
  <1> t \in Actor /\ commHeap \in [Block -> Heap]
    BY DEF Actor, Typed, MemoryTyped
  <1>1. UNCHANGED <<requestedCode, commHeapVaddr, mapOf>>
    BY ExecFrom DEF statics, code, heapPtr
  <1>2. FreshOf(t)
    BY DEF FreshArgument, FreshOf
  <1>3. CASE ExecCall(t)
    <2>1. PICK arg \in ArgForms, susp \in BOOLEAN :
            /\ Goto(t, FirstStep(arg, susp))
            /\ frame' = [frame EXCEPT ![t].ptr = arg.ptr, ![t].size = arg.size,
                                      ![t].susp = susp]
      BY <1>3 DEF ExecCall
    <2>2. frame'[t].ptr = arg.ptr /\ pc'[t] = FirstStep(arg, susp)
      BY <2>1, GotoEffect DEF Typed, CallsTyped, Frame
    <2>3. QED
      BY <2>2 DEF FirstStep, FreshOf
  <1>4. CASE Return(t)
    BY <1>4, ReturnEffect DEF FreshOf
  <1>5. CASE ExecCopyIn(t)
    <2>1. PICK ok \in BOOLEAN :
            /\ frame' = [frame EXCEPT ![t].copied = ok]
            /\ ok => SetArg(Behind(commHeapVaddr), <<t, "in">>)
      BY <1>5 DEF ExecCopyIn
    <2>2. requestedCode \in Block /\ Behind(commHeapVaddr) = requestedCode
      BY <1>5, ExecFinds DEF ExecCopyIn, ExecSteps
    <2>3. frame'[t].copied = ok
      BY <2>1 DEF Typed, CallsTyped, Frame
    <2>4. ok => commHeap'[requestedCode].arg = <<t, "in">>
      BY <2>1, <2>2, SetArgEffect
    <2>5. pc'[t] \in {"exec_lock", "exec_rpc"}
      BY <1>5, GotoEffect DEF ExecCopyIn, LockStep
    <2>6. QED
      BY <1>1, <2>3, <2>4, <2>5 DEF FreshOf
  <1>6. CASE (ExecLock(t) /\ ~Return(t)) \/ ExecRpc(t) \/ ExecUnlock(t)
    <2>1. /\ frame'[t].ptr = frame[t].ptr /\ frame'[t].copied = frame[t].copied
          /\ UNCHANGED commHeap
      BY <1>6 DEF ExecLock, ExecRpc, ExecUnlock, memory, Typed, CallsTyped, Frame
    <2>2. \/ pc[t] \in {"exec_lock", "exec_rpc"} /\ pc'[t] \in {"exec_rpc", "exec_mep"}
          \/ pc[t] = "exec_unlock" /\ pc'[t] = "exec_out"
      BY <1>6, GotoEffect DEF ExecLock, ExecRpc, ExecUnlock
    <2>3. QED
      BY <1>1, <1>2, <2>1, <2>2 DEF FreshOf
  <1>7. CASE MepRun(t)
    <2>1. pc[t] = "exec_mep" /\ pc'[t] \in {"exec_unlock", "exec_out"} /\ UNCHANGED frame
      BY <1>7, GotoEffect DEF MepRun, UnlockStep
    <2>2. requestedCode \in Block /\ frame[t].paddr = requestedCode
      BY <2>1, ExecFinds DEF ExecSteps
    <2>3. CASE SetArg(frame[t].paddr, <<t, "out">>)
      <3>1. commHeap'[requestedCode].arg = <<t, "out">>
        BY <2>2, <2>3, SetArgEffect
      <3>2. QED
        BY <1>1, <2>1, <3>1 DEF FreshOf
    <2>4. CASE UNCHANGED commHeap
      BY <1>1, <1>2, <2>1, <2>4 DEF FreshOf
    <2>5. QED
      BY <1>7, <2>3, <2>4 DEF MepRun
  <1>8. QED
    BY <1>3, <1>4, <1>5, <1>6, <1>7 DEF Exec, ExecCopyOut

\* Inject writes the header of a communication heap, and no step but those of Exec an
\* argument block.
LEMMA ArgsKept ==
  ASSUME Typed, [Next]_vars, \A t \in Thread : ~Exec(t)
  PROVE  \A b \in Block : commHeap'[b].arg = commHeap[b].arg
  <1>1. CASE \E t \in Thread : InjectBase(t)
    BY <1>1 DEF InjectBase, Typed, MemoryTyped, Heap
  <1>2. CASE Refused \/ UNCHANGED vars
    BY <1>2 DEF Refused, vars, memory
  <1>3. CASE ~Refused /\ \E t \in Thread : Inject(t) /\ ~InjectBase(t)
    BY <1>3 DEF Inject, InjectCall, InjectUserMap, InjectLoad, InjectPin, InjectRegister,
       memory
  <1>4. CASE \E a \in Actor : RestoreEntry(a) \/ Restore(a)
    BY <1>4 DEF RestoreEntry, Restore, RestoreRelease, ResetSuspend, ResetResume,
       RestoreUnmap, RestoreClear, memory
  <1>5. CASE \/ \E t \in Thread : SuspendCalls(t)
             \/ \E p \in Process : ExitEvent(p) \/ Spawn(p)
             \/ \E b \in Block : PlaceAtBase(b)
    BY <1>5 DEF SuspendCalls, LockProcessSuspend, UnlockProcessSuspend, ExitEvent, Spawn,
       PlaceAtBase, memory
  <1>6. QED
    BY <1>1, <1>2, <1>3, <1>4, <1>5 DEF Next, RestoreCall, RestoreCheck, ExitHandler, Actor

\* Exec writes into the memblock of the session, which is its caller's process's.
LEMMA HomeStep ==
  ASSUME Typed, ControlInv, DataInv, ArgsAtHome, NEW t \in Thread, Exec(t), ~Refused
  PROVE  ArgsAtHome'
  <1> USE DEF ArgsAtHome, LeftBy
  <1>1. CASE UNCHANGED commHeap
    BY <1>1
  <1>2. CASE \E way \in {"in", "out"} : /\ pc[t] \in ExecSteps
                                        /\ SetArg(requestedCode, <<t, way>>)
    <2>1. requestedCode \in Block /\ BlockOwner[requestedCode] = ThreadProc[t]
      BY <1>2, ExecFinds
    <2>2. \A b \in Block \ {requestedCode} : commHeap'[b] = commHeap[b]
      BY <1>2, <2>1 DEF SetArg, Typed, MemoryTyped
    <2>3. \E way \in {"in", "out"} : commHeap'[requestedCode].arg = <<t, way>>
      BY <1>2, <2>1, SetArgEffect DEF Typed, MemoryTyped
    <2>4. QED
      BY <2>1, <2>2, <2>3
  <1>3. CASE ExecCopyIn(t)
    <2>1. pc[t] \in ExecSteps /\ Behind(commHeapVaddr) = requestedCode
      BY <1>3, ExecFinds DEF ExecCopyIn, ExecSteps
    <2>2. QED
      BY <1>1, <1>2, <1>3, <2>1 DEF ExecCopyIn
  <1>4. CASE MepRun(t)
    <2>1. pc[t] \in ExecSteps /\ frame[t].paddr = requestedCode
      BY <1>4, ExecFinds DEF MepRun, ExecSteps
    <2>2. QED
      BY <1>1, <1>2, <1>4, <2>1 DEF MepRun
  <1>5. CASE ~ExecCopyIn(t) /\ ~MepRun(t)
    BY <1>1, <1>5 DEF Exec, ExecCall, ExecLock, ExecRpc, ExecUnlock, ExecCopyOut, memory
  <1>6. QED
    BY <1>3, <1>4, <1>5

LEMMA FreshNext ==
  ASSUME SerialRules, Typed, ControlInv, DataInv, OneExec, FreshArgument, [Next]_vars
  PROVE  OneExec' /\ FreshArgument'
  <1>1. CASE CallsUndisturbed /\ ArgUndisturbed
    <2>1. OneExec'
      BY <1>1 DEF CallsUndisturbed, OneExec
    <2>2. ASSUME NEW t \in Thread PROVE FreshOf(t)'
      <3>1. CASE pc'[t] \in ExecSteps
        <4>1. requestedCode \in Block /\ FreshOf(t)
          BY <1>1, <3>1, ExecFinds DEF CallsUndisturbed, FreshArgument, FreshOf
        <4>2. QED
          BY <1>1, <3>1, <4>1 DEF CallsUndisturbed, ArgUndisturbed, FreshOf
      <3>2. CASE pc'[t] \notin ExecSteps
        BY <3>2 DEF FreshOf, ExecSteps
      <3>3. QED
        BY <3>1, <3>2
    <2>3. QED
      BY <2>1, <2>2 DEF FreshArgument, FreshOf
  <1>2. CASE \E t \in Thread : Exec(t) /\ ~Refused
    <2>1. PICK t \in Thread : Exec(t) /\ ~Refused
      BY <1>2
    <2>2. \A u \in Thread \ {t} : pc'[u] \notin ExecSteps
      BY <2>1, AloneInExec
    <2>3. OneExec'
      BY <2>2 DEF OneExec
    <2>4. \A u \in Thread \ {t} : FreshOf(u)'
      BY <2>2 DEF FreshOf, ExecSteps
    <2>5. FreshOf(t)'
      BY <2>1, FreshStep
    <2>6. QED
      BY <2>3, <2>4, <2>5 DEF FreshArgument, FreshOf
  <1>3. QED
    BY <1>1, <1>2, ExecOrNot

LEMMA HomeNext ==
  ASSUME Typed, ControlInv, DataInv, ArgsAtHome, [Next]_vars
  PROVE  ArgsAtHome'
  <1>1. CASE \A t \in Thread : ~Exec(t)
    BY <1>1, ArgsKept DEF ArgsAtHome, LeftBy
  <1>2. CASE Refused
    BY <1>2 DEF Refused, vars, memory, ArgsAtHome, LeftBy
  <1>3. CASE ~Refused /\ \E t \in Thread : Exec(t)
    BY <1>3, HomeStep
  <1>4. QED
    BY <1>1, <1>2, <1>3

\* When the callers keep the session rules and execute one at a time, a call whose
\* argument block could be copied in finds that block in the communication heap until
\* its copy-out: the MeP program reads what its caller passed, and the caller copies it
\* back.  A call whose copy-in failed runs on a block of its own process.
THEOREM ArgumentIsOwn == SerialRules => (Spec => []OwnArgument)
  <1> SUFFICES ASSUME SerialRules PROVE Spec => []OwnArgument
    OBVIOUS
  <1>1. SessionRules
    BY DEF SerialRules
  <1>2. Init => OneExec /\ FreshArgument /\ ArgsAtHome
    BY StepsApart DEF Init, OneExec, FreshArgument, FreshOf, ArgsAtHome, LeftBy, Actor
  <1>3. /\ Typed /\ LockInv /\ ControlInv /\ DataInv /\ OneExec /\ FreshArgument
        /\ ArgsAtHome /\ [Next]_vars
        => (OneExec /\ FreshArgument /\ ArgsAtHome)'
    BY FreshNext, HomeNext
  <1>4. ControlInv /\ DataInv /\ FreshArgument /\ ArgsAtHome => OwnArgument
    <2> SUFFICES ASSUME ControlInv, DataInv, FreshArgument, ArgsAtHome, NEW t \in Thread,
                        frame[t].ptr, pc[t] \in ExecSteps \ {"exec_in"}
                 PROVE  LET arg == commHeap[requestedCode].arg
                        IN  /\ pc[t] \in {"exec_lock", "exec_rpc", "exec_mep"} =>
                                  IF frame[t].copied THEN arg = <<t, "in">>
                                                     ELSE LeftBy(ThreadProc[t], arg)
                            /\ pc[t] \in {"exec_unlock", "exec_out"} =>
                                  IF frame[t].copied THEN arg[1] = t
                                                     ELSE LeftBy(ThreadProc[t], arg)
      BY DEF OwnArgument, ExecSteps
    <2>1. LeftBy(ThreadProc[t], commHeap[requestedCode].arg)
      <3>1. requestedCode \in Block /\ BlockOwner[requestedCode] = ThreadProc[t]
        BY ExecFinds
      <3>2. QED
        BY <3>1 DEF ArgsAtHome
    <2>2. FreshOf(t)
      BY DEF FreshArgument
    <2>3. QED
      BY <2>1, <2>2 DEF FreshOf
  <1>5. QED
    BY <1>1, <1>2, <1>3, <1>4, SessionInvariant, PTL DEF Spec
=============================================================================
