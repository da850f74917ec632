----------------------- MODULE VnzBridge_session_proofs -----------------------
(***************************************************************************)
(* Under SessionRules, for any processes, threads, memblocks and map ids:  *)
(* SessionInv is inductive, and the session properties follow from it.     *)
(***************************************************************************)
EXTENDS VnzBridge_proofs

\* The groups of program steps do not meet.
LEMMA StepsApart ==
  /\ "idle" \notin InjectSteps \cup RestoreSteps \cup ExecSteps
  /\ InjectSteps \cap RestoreSteps = {} /\ InjectSteps \cap ExecSteps = {}
  /\ RestoreSteps \cap ExecSteps = {}
  BY DEF InjectSteps, RestoreSteps, ExecSteps

\* What the rules say of a thread that makes a call.
LEMMA CallsAlone ==
  ASSUME SessionRules, NEW t \in Thread, NEW op \in Operation, MayCall(t, op)
  PROVE  /\ pc[t] = "idle" /\ alive[ThreadProc[t]]
         /\ op = "inject" => \A u \in Thread \ {t} : pc[u] \notin InjectSteps
         /\ op = "restore" =>
               \A u \in Thread \ {t} : pc[u] \notin RestoreSteps \cup ExecSteps
         /\ op = "exec" => \A u \in Thread \ {t} : pc[u] \notin RestoreSteps
  <1>1. /\ {"inject", "inject"} \in Exclusive /\ {"restore", "restore"} \in Exclusive
        /\ {"restore", "exec"} \in Exclusive /\ {"exec", "restore"} \in Exclusive
    <2>1. {"exec", "restore"} = {"restore", "exec"} /\ {"inject", "inject"} = {"inject"}
          /\ {"restore", "restore"} = {"restore"}
      OBVIOUS
    <2>2. QED
      BY <2>1 DEF SessionRules
  <1>2. /\ Steps["inject"] = InjectSteps /\ Steps["restore"] = RestoreSteps
        /\ Steps["exec"] = ExecSteps
    BY DEF Steps
  <1>3. \A u \in Thread \ {t} :
           /\ pc[u] \in Steps["inject"] => {op, "inject"} \notin Exclusive
           /\ pc[u] \in Steps["restore"] => {op, "restore"} \notin Exclusive
           /\ pc[u] \in Steps["exec"] => {op, "exec"} \notin Exclusive
    BY DEF MayCall, Operation
  <1>4. QED
    BY <1>1, <1>2, <1>3 DEF MayCall

-----------------------------------------------------------------------------
(* ControlInv.                                                             *)

LEMMA ControlInit == Init => ControlInv
  BY ProcessAssumption, StepsApart DEF Init, ControlInv, Actor, RestoreSteps

\* A step inside an operation, or the return of a thread's call, while neither
\* the registration nor any process changes.
LEMMA ControlMove ==
  ASSUME ControlInv, NEW a \in Actor, UNCHANGED <<registeredPid, alive>>,
         \A u \in Actor \ {a} : pc'[u] = pc[u],
         \/ a \in Thread /\ pc'[a] = "idle"
         \/ a \in Thread /\ pc[a] \in InjectSteps /\ pc'[a] \in InjectSteps
         \/ a \in Thread /\ pc[a] \in ExecSteps /\ pc'[a] \in ExecSteps
         \/ /\ pc[a] \in RestoreSteps /\ pc'[a] \in RestoreSteps
            /\ a \in Thread => pc'[a] # "res_check"
  PROVE  ControlInv'
  <1>1. EventThread \in Actor /\ Thread \subseteq Actor /\ EventThread \notin Thread
    BY ProcessAssumption DEF Actor
  <1>2. CASE a = EventThread
    <2>1. \A t \in Thread : pc'[t] = pc[t]
      BY <1>1, <1>2
    <2>2. pc[EventThread] \in RestoreSteps /\ pc'[EventThread] \in RestoreSteps
      BY <1>1, <1>2
    <2>3. QED
      BY <2>1, <2>2 DEF ControlInv
  <1>3. CASE a \in Thread
    <2>1. pc'[EventThread] = pc[EventThread]
      BY <1>1, <1>3
    <2>2. /\ pc'[a] \in InjectSteps => pc[a] \in InjectSteps
          /\ pc'[a] \in RestoreSteps => pc[a] \in RestoreSteps
          /\ pc'[a] \in ExecSteps => pc[a] \in ExecSteps
          /\ pc'[a] # "idle" => pc[a] # "idle"
          /\ pc'[a] # "res_check"
      BY <1>3, <1>1, StepsApart DEF InjectSteps, RestoreSteps, ExecSteps
    <2>3. \A t \in Thread : /\ pc'[t] \in InjectSteps => pc[t] \in InjectSteps
                            /\ pc'[t] \in RestoreSteps => pc[t] \in RestoreSteps
                            /\ pc'[t] \in ExecSteps => pc[t] \in ExecSteps
                            /\ pc'[t] # "idle" => pc[t] # "idle"
                            /\ pc'[t] # "res_check"
      BY <1>1, <2>2 DEF ControlInv
    <2>4. QED
      BY <2>1, <2>3 DEF ControlInv
  <1>4. QED
    BY <1>2, <1>3 DEF Actor

\* The start of a thread's call that the rules admit.
LEMMA ControlStart ==
  ASSUME ControlInv, NEW t \in Thread, UNCHANGED <<registeredPid, alive>>,
         pc[t] = "idle", alive[ThreadProc[t]], pc'[t] # "res_check",
         \A u \in Actor \ {t} : pc'[u] = pc[u],
         \/ /\ pc'[t] \in InjectSteps /\ registeredPid = NoPid
            /\ \A u \in Thread \ {t} : pc[u] \notin InjectSteps
         \/ /\ pc'[t] \in RestoreSteps /\ registeredPid = ThreadProc[t]
            /\ \A u \in Thread \ {t} : pc[u] \notin RestoreSteps \cup ExecSteps
         \/ /\ pc'[t] \in ExecSteps /\ registeredPid = ThreadProc[t]
            /\ \A u \in Thread \ {t} : pc[u] \notin RestoreSteps
  PROVE  ControlInv'
  <1>1. EventThread \in Actor /\ Thread \subseteq Actor /\ EventThread \notin Thread
    BY ProcessAssumption DEF Actor
  <1>2. pc'[EventThread] = pc[EventThread] /\ \A u \in Thread \ {t} : pc'[u] = pc[u]
    BY <1>1
  <1>3. QED
    BY <1>2, StepsApart DEF ControlInv

\* A step that concerns neither the calls nor the registration.
LEMMA ControlStutter ==
  ASSUME ControlInv, UNCHANGED <<pc, registeredPid, alive>>
  PROVE  ControlInv'
  BY DEF ControlInv

\* Inject enters only while nobody is registered, and leaves in a state where it
\* was the only one inside.
LEMMA ControlInject ==
  ASSUME SessionRules, Typed, ControlInv, NEW t \in Thread, Inject(t)
  PROVE  ControlInv'
  <1> t \in Actor /\ EventThread \in Actor /\ EventThread \notin Thread
    BY ProcessAssumption DEF Actor
  <1>1. CASE Refused
    BY <1>1, ControlStutter DEF Refused, vars, statics, system
  <1>2. CASE InjectCall(t) /\ ~Refused
    <2>1. MayCall(t, "inject") /\ Goto(t, "inj_map") /\ registeredPid = NoPid
          /\ UNCHANGED <<registeredPid, alive>>
      BY <1>2 DEF InjectCall, InjectAdmits, statics, system
    <2>2. pc'[t] = "inj_map" /\ \A u \in Actor \ {t} : pc'[u] = pc[u]
      BY <2>1, GotoEffect
    <2>3. /\ pc[t] = "idle" /\ alive[ThreadProc[t]]
          /\ \A u \in Thread \ {t} : pc[u] \notin InjectSteps
      BY <2>1, CallsAlone DEF Operation
    <2>4. QED
      BY <2>1, <2>2, <2>3, ControlStart DEF InjectSteps
  <1>3. CASE InjectUserMap(t) \/ InjectLoad(t) \/ InjectPin(t) \/ InjectBase(t)
    <2>1. /\ pc[t] \in InjectSteps
          /\ Return(t) \/ \E step \in InjectSteps : Goto(t, step)
          /\ UNCHANGED <<registeredPid, alive>>
      BY <1>3 DEF InjectUserMap, InjectLoad, InjectPin, InjectBase, InjectSteps, system
    <2>2. /\ pc'[t] = "idle" \/ pc'[t] \in InjectSteps
          /\ \A u \in Actor \ {t} : pc'[u] = pc[u]
      BY <2>1, GotoEffect, ReturnEffect
    <2>3. QED
      BY <2>1, <2>2, ControlMove
  <1>4. CASE InjectRegister(t)
    <2>1. /\ pc[t] \in InjectSteps /\ pc'[t] = "idle"
          /\ \A u \in Actor \ {t} : pc'[u] = pc[u]
          /\ registeredPid' = ThreadProc[t] /\ UNCHANGED alive
      BY <1>4, ReturnEffect DEF InjectRegister, InjectSteps, system
    <2>2. /\ registeredPid = NoPid /\ alive[ThreadProc[t]]
          /\ ThreadProc[t] \in Process /\ NoPid \notin Process
      BY <2>1, StepsApart, ProcessAssumption DEF ControlInv
    <2>3. \A u \in Thread : /\ pc'[u] \notin InjectSteps \cup RestoreSteps \cup ExecSteps
                            /\ pc'[u] # "res_check"
                            /\ pc'[u] # "idle" => pc[u] # "idle"
      <3>1. \A u \in Thread : pc[u] \notin RestoreSteps \cup ExecSteps
        BY <2>2, ProcessAssumption DEF ControlInv
      <3>2. \A u \in Thread \ {t} : pc[u] \notin InjectSteps /\ pc'[u] = pc[u]
        BY <2>1 DEF ControlInv, Actor
      <3>3. QED
        BY <2>1, <3>1, <3>2, StepsApart DEF ControlInv
    <2>4. pc'[EventThread] = pc[EventThread] /\ pc[EventThread] \notin RestoreSteps
      BY <2>1, <2>2 DEF ControlInv
    <2>5. QED
      BY <2>1, <2>2, <2>3, <2>4 DEF ControlInv
  <1>5. QED
    BY <1>1, <1>2, <1>3, <1>4 DEF Inject

\* Exec enters only the session of its own process.
LEMMA ControlExec ==
  ASSUME SessionRules, Typed, ControlInv, NEW t \in Thread, Exec(t)
  PROVE  ControlInv'
  <1> t \in Actor
    BY DEF Actor
  <1>1. CASE Refused
    BY <1>1, ControlStutter DEF Refused, vars, statics, system
  <1>2. CASE ExecCall(t) /\ ~Refused
    <2>1. /\ MayCall(t, "exec") /\ registeredPid = ThreadProc[t]
          /\ UNCHANGED <<registeredPid, alive>>
      BY <1>2 DEF ExecCall, ExecAdmits, OwnSession, SessionRules, statics, system
    <2>2. \E step \in ExecSteps : Goto(t, step)
      BY <1>2 DEF ExecCall, FirstStep, LockStep, ExecSteps
    <2>3. pc'[t] \in ExecSteps /\ \A u \in Actor \ {t} : pc'[u] = pc[u]
      BY <2>2, GotoEffect
    <2>4. /\ pc[t] = "idle" /\ alive[ThreadProc[t]]
          /\ \A u \in Thread \ {t} : pc[u] \notin RestoreSteps
      BY <2>1, CallsAlone DEF Operation
    <2>5. "res_check" \notin ExecSteps
      BY DEF ExecSteps
    <2>6. QED
      BY <2>1, <2>3, <2>4, <2>5, ControlStart
  <1>3. CASE \/ ExecCopyIn(t) \/ ExecLock(t) \/ ExecRpc(t) \/ MepRun(t)
             \/ ExecUnlock(t) \/ ExecCopyOut(t)
    <2>1. /\ pc[t] \in ExecSteps
          /\ Return(t) \/ \E step \in ExecSteps : Goto(t, step)
          /\ UNCHANGED <<registeredPid, alive>>
      BY <1>3 DEF ExecCopyIn, ExecLock, ExecRpc, MepRun, ExecUnlock, ExecCopyOut,
         LockStep, UnlockStep, ExecSteps, statics, system
    <2>2. /\ pc'[t] = "idle" \/ pc'[t] \in ExecSteps
          /\ \A u \in Actor \ {t} : pc'[u] = pc[u]
      BY <2>1, GotoEffect, ReturnEffect
    <2>3. QED
      BY <2>1, <2>2, ControlMove
  <1>4. QED
    BY <1>1, <1>2, <1>3 DEF Exec

\* Restore enters only the session of its own process, or of a dead one, and
\* leaves in a state where it was the only one inside.
LEMMA ControlRestore ==
  ASSUME SessionRules, Typed, ControlInv, NEW a \in Actor,
         \/ a \in Thread /\ RestoreCall(a)
         \/ a = EventThread /\ RestoreCheck(a)
         \/ Restore(a)
  PROVE  ControlInv'
  <1> EventThread \in Actor /\ EventThread \notin Thread /\ NoPid \notin Process
    BY ProcessAssumption DEF Actor
  <1>1. CASE a \in Thread /\ RestoreCall(a)
    <2>1. /\ MayCall(a, "restore") /\ RestoreEntry(a)
          /\ registeredPid = NoPid \/ registeredPid = ThreadProc[a]
          /\ UNCHANGED <<registeredPid, alive>>
      BY <1>1 DEF RestoreCall, OwnSession, RestoreEntry, SessionRules, statics, system
    <2>2. /\ pc[a] = "idle" /\ alive[ThreadProc[a]]
          /\ \A u \in Thread \ {a} : pc[u] \notin RestoreSteps \cup ExecSteps
      BY <1>1, <2>1, CallsAlone DEF Operation
    <2>3. CASE registeredPid = NoPid
      <3>1. pc'[a] = "idle" /\ \A u \in Actor \ {a} : pc'[u] = pc[u]
        BY <2>1, <2>3, GotoEffect DEF RestoreEntry
      <3>2. QED
        BY <1>1, <2>1, <3>1, ControlMove
    <2>4. CASE registeredPid # NoPid
      <3>1. pc'[a] = "res_release" /\ \A u \in Actor \ {a} : pc'[u] = pc[u]
        BY <2>1, <2>4, GotoEffect DEF RestoreEntry
      <3>2. QED
        BY <1>1, <2>1, <2>2, <2>4, <3>1, ControlStart DEF RestoreSteps
    <2>5. QED
      BY <2>3, <2>4
  <1>2. CASE a = EventThread /\ RestoreCheck(a)
    <2>1. registeredPid # NoPid /\ pc[a] \in RestoreSteps
      BY <1>2 DEF RestoreCheck, ControlInv, RestoreSteps
    <2>2. /\ pc'[a] = "res_release" /\ \A u \in Actor \ {a} : pc'[u] = pc[u]
          /\ UNCHANGED <<registeredPid, alive>>
      BY <1>2, <2>1, GotoEffect DEF RestoreCheck, RestoreEntry, statics, system
    <2>3. QED
      BY <1>2, <2>1, <2>2, ControlMove DEF RestoreSteps
  <1>3. CASE \/ RestoreRelease(a) \/ ResetSuspend(a) \/ ResetResume(a)
             \/ RestoreUnmap(a)
    <2>1. /\ pc[a] \in RestoreSteps
          /\ \E step \in RestoreSteps \ {"res_check"} : Goto(a, step)
          /\ UNCHANGED <<registeredPid, alive>>
      BY <1>3 DEF RestoreRelease, ResetSuspend, ResetResume, RestoreUnmap,
         RestoreSteps, statics, system
    <2>2. /\ pc'[a] \in RestoreSteps \ {"res_check"}
          /\ \A u \in Actor \ {a} : pc'[u] = pc[u]
      BY <2>1, GotoEffect
    <2>3. QED
      BY <2>1, <2>2, ControlMove
  <1>4. CASE RestoreClear(a)
    <2>1. /\ pc[a] \in RestoreSteps /\ pc'[a] = "idle"
          /\ \A u \in Actor \ {a} : pc'[u] = pc[u]
          /\ registeredPid' = NoPid /\ UNCHANGED alive
      BY <1>4, GotoEffect DEF RestoreClear, RestoreSteps, system
    <2>2. \A u \in Actor \ {a} : pc[u] \notin RestoreSteps
      BY <2>1, StepsApart DEF ControlInv, Actor
    <2>3. \A u \in Thread : pc[u] \notin ExecSteps
      BY <2>1, StepsApart DEF ControlInv, Actor
    <2>4. \A u \in Thread : /\ pc'[u] \notin RestoreSteps \cup ExecSteps
                            /\ pc'[u] # "res_check"
                            /\ pc'[u] # "idle" => pc[u] # "idle"
                            /\ pc'[u] \in InjectSteps => pc[u] \in InjectSteps
      BY <2>1, <2>2, <2>3, StepsApart DEF Actor, ControlInv
    <2>5. pc'[EventThread] \in {"idle"} \cup RestoreSteps
          /\ pc'[EventThread] \notin RestoreSteps
      BY <2>1, <2>2, StepsApart DEF ControlInv
    <2>6. QED
      BY <2>1, <2>4, <2>5 DEF ControlInv
  <1>5. QED
    BY <1>1, <1>2, <1>3, <1>4 DEF Restore

\* The exit event starts the handler exactly when it makes a registered process a
\* dead one; a new process does not inherit a registration.
LEMMA ControlKernel ==
  ASSUME Typed, ControlInv,
         \/ \E t \in Thread : SuspendCalls(t)
         \/ \E p \in Process : ExitEvent(p) \/ Spawn(p)
         \/ \E b \in Block : PlaceAtBase(b)
  PROVE  ControlInv'
  <1> EventThread \in Actor /\ EventThread \notin Thread /\ NoPid \notin Process
      /\ Thread \subseteq Actor /\ ThreadProc \in [Thread -> Process]
    BY ProcessAssumption DEF Actor
  <1>1. CASE \/ \E t \in Thread : SuspendCalls(t)
             \/ \E b \in Block : PlaceAtBase(b)
    BY <1>1, ControlStutter DEF SuspendCalls, LockProcessSuspend, UnlockProcessSuspend,
       PlaceAtBase, statics, system
  <1>2. CASE \E p \in Process : ExitEvent(p)
    <2>1. PICK p \in Process : ExitEvent(p)
      BY <1>2
    <2>2. /\ pc[EventThread] = "idle" /\ UNCHANGED registeredPid /\ alive[p]
          /\ alive' = [alive EXCEPT ![p] = FALSE]
          /\ Goto(EventThread, ExitStep(p))
          /\ \A t \in Thread : ThreadProc[t] = p => pc[t] = "idle"
      BY <2>1 DEF ExitEvent, ThreadsOf, statics
    <2>3. /\ pc'[EventThread] = IF registeredPid = p THEN "res_check" ELSE "idle"
          /\ \A t \in Thread : pc'[t] = pc[t]
      BY <2>2, GotoEffect DEF ExitStep
    <2>4. ~alive'[p] /\ \A q \in Process \ {p} : alive'[q] = alive[q]
      BY <2>2 DEF Typed, SystemTyped
    <2>5. /\ pc'[EventThread] \in {"idle"} \cup RestoreSteps
          /\ pc'[EventThread] \in RestoreSteps <=> registeredPid = p
      BY <2>3, StepsApart DEF RestoreSteps
    <2>6. registeredPid \in Process /\ ~alive'[registeredPid] <=> registeredPid = p
      BY <2>2, <2>4, StepsApart DEF ControlInv
    <2>7. \A t \in Thread : pc'[t] # "idle" => alive'[ThreadProc[t]]
      BY <2>2, <2>3, <2>4 DEF ControlInv
    <2>8. QED
      BY <2>2, <2>3, <2>5, <2>6, <2>7 DEF ControlInv
  <1>3. CASE \E p \in Process : Spawn(p)
    <2>1. PICK p \in Process : Spawn(p)
      BY <1>3
    <2>2. /\ registeredPid # p /\ UNCHANGED <<pc, registeredPid>>
          /\ alive'[p] /\ \A q \in Process \ {p} : alive'[q] = alive[q]
      BY <2>1 DEF Spawn, statics, Typed, SystemTyped
    <2>3. \A t \in Thread : alive[ThreadProc[t]] => alive'[ThreadProc[t]]
      BY <2>2
    <2>4. QED
      BY <2>2, <2>3 DEF ControlInv
  <1>4. QED
    BY <1>1, <1>2, <1>3

\* The control invariant is inductive.
LEMMA ControlNext ==
  ASSUME SessionRules, Typed, ControlInv, [Next]_vars
  PROVE  ControlInv'
  <1>1. CASE UNCHANGED vars
    BY <1>1, ControlStutter DEF vars, statics, system
  <1>2. CASE \E t \in Thread : Inject(t)
    BY <1>2, ControlInject
  <1>3. CASE \E t \in Thread : Exec(t)
    BY <1>3, ControlExec
  <1>4. CASE (\E t \in Thread : RestoreCall(t) \/ Restore(t)) \/ ExitHandler
    BY <1>4, ControlRestore DEF ExitHandler, Actor
  <1>5. CASE \/ \E t \in Thread : SuspendCalls(t)
             \/ \E p \in Process : ExitEvent(p) \/ Spawn(p)
             \/ \E b \in Block : PlaceAtBase(b)
    BY <1>5, ControlKernel
  <1>6. QED
    BY <1>1, <1>2, <1>3, <1>4, <1>5 DEF Next

-----------------------------------------------------------------------------
(* The data: what the one actor inside Inject or Restore does to it.       *)

DataInv == InjectInv /\ RegisteredInv /\ SessionIntact /\ PinsBalanced

\* Beside an actor inside Inject or Restore, every other one is idle; beside a
\* thread inside Exec, nobody is in Inject or Restore.
LEMMA InsideAlone ==
  ASSUME ControlInv, NEW a \in Actor,
         \/ a \in Thread /\ pc[a] \in InjectSteps
         \/ pc[a] \in RestoreSteps
  PROVE  \A u \in Actor \ {a} : pc[u] \notin InjectSteps \cup RestoreSteps \cup ExecSteps
  <1> EventThread \in Actor /\ EventThread \notin Thread /\ NoPid \notin Process
      /\ Thread \subseteq Actor /\ ThreadProc \in [Thread -> Process]
    BY ProcessAssumption DEF Actor
  <1>1. CASE a \in Thread /\ pc[a] \in InjectSteps
    <2>1. registeredPid = NoPid /\ \A u \in Thread \ {a} : pc[u] \notin InjectSteps
      BY <1>1 DEF ControlInv
    <2>2. \A u \in Thread : pc[u] \notin RestoreSteps \cup ExecSteps
      BY <2>1 DEF ControlInv
    <2>3. pc[EventThread] \notin InjectSteps \cup RestoreSteps \cup ExecSteps
      BY <2>1, StepsApart DEF ControlInv
    <2>4. QED
      BY <2>1, <2>2, <2>3 DEF Actor
  <1>2. CASE a \in Thread /\ pc[a] \in RestoreSteps
    <2>1. registeredPid = ThreadProc[a] /\ alive[ThreadProc[a]]
      BY <1>2, StepsApart DEF ControlInv
    <2>2. \A u \in Thread \ {a} : pc[u] \notin InjectSteps \cup RestoreSteps \cup ExecSteps
      BY <1>2, <2>1 DEF ControlInv
    <2>3. pc[EventThread] \notin InjectSteps \cup RestoreSteps \cup ExecSteps
      BY <2>1, StepsApart DEF ControlInv
    <2>4. QED
      BY <2>2, <2>3 DEF Actor
  <1>3. CASE a = EventThread /\ pc[a] \in RestoreSteps
    <2>1. registeredPid \in Process /\ ~alive[registeredPid]
      BY <1>3 DEF ControlInv
    <2>2. \A u \in Thread : pc[u] \notin InjectSteps \cup RestoreSteps \cup ExecSteps
      BY <2>1, StepsApart DEF ControlInv
    <2>3. QED
      BY <1>3, <2>2 DEF Actor
  <1>4. QED
    BY <1>1, <1>2, <1>3, StepsApart DEF ControlInv, Actor

LEMMA BesideExec ==
  ASSUME ControlInv, NEW t \in Thread, registeredPid = ThreadProc[t],
         alive[ThreadProc[t]], \A u \in Thread : pc[u] \notin RestoreSteps
  PROVE  \A u \in Actor : pc[u] \notin InjectSteps \cup RestoreSteps
  <1>1. registeredPid # NoPid
    BY ProcessAssumption
  <1>2. \A u \in Thread : pc[u] \notin InjectSteps
    BY <1>1 DEF ControlInv
  <1>3. pc[EventThread] \notin InjectSteps \cup RestoreSteps
    BY StepsApart DEF ControlInv
  <1>4. QED
    BY <1>2, <1>3 DEF Actor

\* InjectInv holds when nobody injects, SessionIntact when nobody is registered
\* or somebody restores; and what the rest comes to when nobody executes.
LEMMA NoInject ==
  ASSUME \A t \in Thread : pc'[t] \notin InjectSteps
  PROVE  InjectInv'
  BY DEF InjectInv, InjectProgress, InjectSteps

LEMMA NoSession ==
  ASSUME registeredPid' = NoPid \/ \E a \in Actor : TearingDown(a)'
  PROVE  SessionIntact'
  BY DEF SessionIntact, Restoring

LEMMA NoExec ==
  ASSUME \A t \in Thread : pc'[t] \notin ExecSteps,
         registeredPid' # NoPid =>
            requestedCode' \in Block /\ BlockOwner[requestedCode'] = registeredPid',
         powered' = (\A a \in Actor : pc'[a] # "res_resume")
  PROVE  RegisteredInv'
  BY DEF RegisteredInv, ExecProgress, ExecSteps

\* While t is inside Inject, only it may hold the reference.
LEMMA PinnedInject ==
  ASSUME NEW t \in Thread, registeredPid = NoPid,
         \A u \in Actor \ {t} : pc[u] \notin InjectSteps
  PROVE  Pinned <=> pc[t] \in {"inj_base", "inj_register"}
  BY DEF Pinned, InjectSteps, Actor

LEMMA PinnedInjectNext ==
  ASSUME NEW t \in Thread, registeredPid' = NoPid,
         \A u \in Actor \ {t} : pc'[u] \notin InjectSteps
  PROVE  Pinned' <=> pc'[t] \in {"inj_base", "inj_register"}
  BY DEF Pinned, InjectSteps, Actor

\* InjectInv is about the one thread that injects.
LEMMA OneInject ==
  ASSUME NEW t \in Thread, \A u \in Thread \ {t} : pc'[u] \notin InjectSteps,
         InjectProgress(t)'
  PROVE  InjectInv'
  <1>1. \A u \in Thread \ {t} : InjectProgress(u)'
    BY DEF InjectProgress, InjectSteps
  <1>2. QED
    BY <1>1 DEF InjectInv

\* The facts that every step inside Inject shares.
LEMMA InjectSide ==
  ASSUME Typed, ControlInv, DataInv, NEW t \in Thread, pc[t] \in InjectSteps,
         UNCHANGED <<registeredPid, powered>>,
         Return(t) \/ \E step \in InjectSteps : Goto(t, step)
  PROVE  /\ registeredPid = NoPid
         /\ \A u \in Actor \ {t} :
               /\ pc[u] \notin InjectSteps \cup RestoreSteps \cup ExecSteps
               /\ pc'[u] = pc[u]
         /\ RegisteredInv' /\ SessionIntact'
         /\ Pinned <=> pc[t] \in {"inj_base", "inj_register"}
         /\ Pinned' <=> pc'[t] \in {"inj_base", "inj_register"}
         /\ InjectProgress(t)
  <1> t \in Actor
    BY DEF Actor
  <1>1. registeredPid = NoPid
    BY DEF ControlInv
  <1>2. \A u \in Actor \ {t} : pc[u] \notin InjectSteps \cup RestoreSteps \cup ExecSteps
    BY InsideAlone
  <1>3. /\ pc'[t] = "idle" \/ pc'[t] \in InjectSteps
        /\ \A u \in Actor \ {t} : pc'[u] = pc[u]
    BY GotoEffect, ReturnEffect
  <1>4. powered' = (\A a \in Actor : pc'[a] # "res_resume")
    <2>1. powered = (\A a \in Actor : pc[a] # "res_resume")
      BY DEF DataInv, RegisteredInv
    <2>2. pc[t] # "res_resume" /\ pc'[t] # "res_resume"
      BY <1>3, StepsApart DEF RestoreSteps
    <2>3. (\A a \in Actor : pc'[a] # "res_resume") <=> (\A a \in Actor : pc[a] # "res_resume")
      BY <1>3, <2>2
    <2>4. QED
      BY <2>1, <2>3
  <1>5. \A u \in Thread : pc'[u] \notin ExecSteps
    BY <1>2, <1>3, StepsApart DEF Actor
  <1>6. RegisteredInv'
    BY <1>1, <1>4, <1>5, NoExec
  <1>7. SessionIntact'
    BY <1>1, NoSession
  <1>8. Pinned <=> pc[t] \in {"inj_base", "inj_register"}
    BY <1>1, <1>2, PinnedInject
  <1>9. Pinned' <=> pc'[t] \in {"inj_base", "inj_register"}
    BY <1>1, <1>2, <1>3, PinnedInjectNext
  <1>10. InjectProgress(t)
    BY DEF DataInv, InjectInv
  <1>11. QED
    BY <1>1, <1>2, <1>3, <1>6, <1>7, <1>8, <1>9, <1>10

\* Return empties the frame.
LEMMA ReturnFrame ==
  ASSUME Typed, NEW t \in Thread, Return(t)
  PROVE  pc'[t] = "idle" /\ pc'[t] \notin InjectSteps
  BY ReturnEffect, StepsApart

\* A thread that has returned has no progress to keep.
LEMMA ProgressOver ==
  ASSUME NEW t \in Thread, pc'[t] = "idle"
  PROVE  InjectProgress(t)'
  BY StepsApart DEF InjectProgress, InjectSteps

\* The reference counts while t injects.
LEMMA PinsInject ==
  ASSUME NEW t \in Thread, Pinned' <=> pc'[t] \in {"inj_base", "inj_register"},
         \A b \in Block : refs'[b] =
            IF b = requestedCode' /\ pc'[t] \in {"inj_base", "inj_register"} THEN 1 ELSE 0
  PROVE  PinsBalanced'
  BY DEF PinsBalanced

LEMMA DataInjectCall ==
  ASSUME SessionRules, Typed, ControlInv, DataInv, NEW t \in Thread,
         InjectCall(t), ~Refused
  PROVE  DataInv'
  <1> t \in Actor
    BY DEF Actor
  <1>1. PICK b \in Block : /\ BlockOwner[b] = ThreadProc[t]
                           /\ frame' = [frame EXCEPT ![t].block = b]
    BY DEF InjectCall
  <1>2. /\ registeredPid = NoPid /\ MayCall(t, "inject") /\ Goto(t, "inj_map")
        /\ UNCHANGED <<statics, memory, system>>
    BY DEF InjectCall, InjectAdmits
  <1>3. /\ pc[t] = "idle" /\ \A u \in Thread \ {t} : pc[u] \notin InjectSteps
    BY <1>2, CallsAlone DEF Operation
  <1>4. pc'[t] = "inj_map" /\ \A u \in Actor \ {t} : pc'[u] = pc[u]
    BY <1>2, GotoEffect
  <1>5. /\ \A u \in Thread : pc[u] \notin ExecSteps
        /\ \A u \in Actor : pc[u] \notin RestoreSteps
        /\ pc[EventThread] \notin InjectSteps
    BY <1>2, ProcessAssumption, StepsApart DEF ControlInv, Actor
  <1>6. \A u \in Actor \ {t} : pc[u] \notin InjectSteps
    BY <1>3, <1>5 DEF Actor
  <1>7. frame'[t].block = b
    BY <1>1 DEF Typed, CallsTyped, Frame
  <1>8. InjectInv'
    <2>1. InjectProgress(t)'
      BY <1>1, <1>4, <1>7 DEF InjectProgress, InjectSteps
    <2>2. QED
      BY <2>1, <1>4, <1>3, OneInject DEF Actor
  <1>9. RegisteredInv'
    <2>1. powered = (\A a \in Actor : pc[a] # "res_resume")
      BY DEF DataInv, RegisteredInv
    <2>2. (\A a \in Actor : pc'[a] # "res_resume") <=> (\A a \in Actor : pc[a] # "res_resume")
      BY <1>3, <1>4
    <2>3. powered' = (\A a \in Actor : pc'[a] # "res_resume")
      BY <1>2, <2>1, <2>2 DEF system
    <2>4. \A u \in Thread : pc'[u] \notin ExecSteps
      BY <1>4, <1>5 DEF Actor, ExecSteps
    <2>5. registeredPid' = NoPid
      BY <1>2 DEF statics
    <2>6. QED
      BY <2>3, <2>4, <2>5, NoExec
  <1>10. SessionIntact'
    BY <1>2, NoSession DEF statics
  <1>11. PinsBalanced'
    <2>1. Pinned <=> pc[t] \in {"inj_base", "inj_register"}
      BY <1>2, <1>6, PinnedInject
    <2>2. registeredPid' = NoPid /\ UNCHANGED <<refs, requestedCode>>
      BY <1>2 DEF statics, code, memory
    <2>3. Pinned' <=> pc'[t] \in {"inj_base", "inj_register"}
      BY <1>4, <1>6, <2>2, PinnedInjectNext
    <2>4. QED
      BY <1>3, <1>4, <2>1, <2>2, <2>3 DEF DataInv, PinsBalanced
  <1>12. QED
    BY <1>8, <1>9, <1>10, <1>11 DEF DataInv

\* The five steps inside Inject: what is left to show of each is the progress of
\* the thread and the reference counts.
LEMMA InjectStep ==
  ASSUME Typed, ControlInv, DataInv, NEW t \in Thread, pc[t] \in InjectSteps,
         UNCHANGED <<registeredPid, powered>>,
         Return(t) \/ \E step \in InjectSteps : Goto(t, step),
         pc'[t] = "idle" \/ InjectProgress(t)',
         \A b \in Block : refs'[b] =
            IF b = requestedCode' /\ pc'[t] \in {"inj_base", "inj_register"} THEN 1 ELSE 0
  PROVE  DataInv'
  <1>1. /\ \A u \in Actor \ {t} : pc[u] \notin InjectSteps /\ pc'[u] = pc[u]
        /\ RegisteredInv' /\ SessionIntact'
        /\ Pinned' <=> pc'[t] \in {"inj_base", "inj_register"}
    BY InjectSide
  <1>2. InjectProgress(t)'
    BY ProgressOver
  <1>3. InjectInv'
    BY <1>1, <1>2, OneInject DEF Actor
  <1>4. PinsBalanced'
    BY <1>1, PinsInject
  <1>5. QED
    BY <1>1, <1>3, <1>4 DEF DataInv

\* The reference counts before a step inside Inject.
LEMMA InjectRefs ==
  ASSUME ControlInv, DataInv, NEW t \in Thread, pc[t] \in InjectSteps
  PROVE  /\ InjectProgress(t) /\ registeredPid = NoPid
         /\ \A b \in Block : refs[b] =
              IF b = requestedCode /\ pc[t] \in {"inj_base", "inj_register"} THEN 1 ELSE 0
  <1>1. registeredPid = NoPid /\ InjectProgress(t)
    BY DEF ControlInv, DataInv, InjectInv
  <1>2. \A u \in Actor \ {t} : pc[u] \notin InjectSteps
    BY InsideAlone DEF Actor
  <1>3. Pinned <=> pc[t] \in {"inj_base", "inj_register"}
    BY <1>1, <1>2, PinnedInject
  <1>4. QED
    BY <1>1, <1>3 DEF DataInv, PinsBalanced

LEMMA DataInjectUserMap ==
  ASSUME Typed, ControlInv, DataInv, NEW t \in Thread, InjectUserMap(t)
  PROVE  DataInv'
  <1>1. /\ pc[t] = "inj_map" /\ pc[t] \in InjectSteps
        /\ UNCHANGED <<registeredPid, powered, requestedCode, refs>>
    BY DEF InjectUserMap, InjectSteps, code, system
  <1>2. /\ InjectProgress(t)
        /\ \A b \in Block : refs[b] = 0
    BY <1>1, InjectRefs
  <1>3. CASE Return(t)
    <2>1. pc'[t] = "idle"
      BY <1>3, ReturnFrame
    <2>2. QED
      BY <1>1, <1>2, <1>3, <2>1, InjectStep
  <1>4. CASE ~Return(t)
    <2>1. PICK m \in MapId : /\ mapOf' = [mapOf EXCEPT ![m] = frame[t].block]
                             /\ blockMapId' = m
                             /\ frame' = [frame EXCEPT ![t].page = m]
      BY <1>4 DEF InjectUserMap
    <2>2. Goto(t, "inj_load") /\ "inj_load" \in InjectSteps
      BY <1>4 DEF InjectUserMap, InjectSteps
    <2>3. pc'[t] = "inj_load"
      BY <2>2, GotoEffect DEF Actor
    <2>4. frame'[t].page = m /\ frame'[t].block = frame[t].block
          /\ mapOf'[m] = frame[t].block
      BY <2>1 DEF Typed, CallsTyped, MemoryTyped, Frame
    <2>5. InjectProgress(t)'
      BY <1>1, <1>2, <2>1, <2>3, <2>4 DEF InjectProgress, InjectSteps
    <2>6. QED
      BY <1>1, <1>2, <2>2, <2>3, <2>5, InjectStep
  <1>5. QED
    BY <1>3, <1>4

LEMMA DataInjectLoad ==
  ASSUME Typed, ControlInv, DataInv, NEW t \in Thread, InjectLoad(t)
  PROVE  DataInv'
  <1>1. /\ pc[t] = "inj_load" /\ pc[t] \in InjectSteps
        /\ UNCHANGED <<registeredPid, powered, blockMapId, mapOf, refs>>
    BY DEF InjectLoad, InjectSteps, system, memory
  <1>2. /\ InjectProgress(t)
        /\ \A b \in Block : refs[b] = 0
    BY <1>1, InjectRefs
  <1>3. CASE Return(t)
    <2>1. pc'[t] = "idle"
      BY <1>3, ReturnFrame
    <2>2. QED
      BY <1>1, <1>2, <1>3, <2>1, InjectStep
  <1>4. CASE ~Return(t)
    <2>1. /\ Goto(t, "inj_pin") /\ "inj_pin" \in InjectSteps
          /\ requestedCode' = frame[t].block /\ UNCHANGED frame
      BY <1>4 DEF InjectLoad, InjectSteps
    <2>2. pc'[t] = "inj_pin"
      BY <2>1, GotoEffect DEF Actor
    <2>3. InjectProgress(t)'
      BY <1>1, <1>2, <2>1, <2>2 DEF InjectProgress, InjectSteps
    <2>4. QED
      BY <1>1, <1>2, <2>1, <2>2, <2>3, InjectStep
  <1>5. QED
    BY <1>3, <1>4

LEMMA DataInjectPin ==
  ASSUME Typed, ControlInv, DataInv, NEW t \in Thread, InjectPin(t)
  PROVE  DataInv'
  <1>1. /\ pc[t] = "inj_pin" /\ pc[t] \in InjectSteps
        /\ UNCHANGED <<registeredPid, powered, blockMapId, mapOf, requestedCode>>
    BY DEF InjectPin, InjectSteps, system
  <1>2. /\ InjectProgress(t)
        /\ \A b \in Block : refs[b] = 0
    BY <1>1, InjectRefs
  <1>3. CASE Return(t)
    <2>1. pc'[t] = "idle" /\ Goto(t, "idle")
      BY <1>3, ReturnFrame DEF Return
    <2>2. UNCHANGED refs
      BY <1>1, <2>1, GotoEffect DEF InjectPin, Actor
    <2>3. QED
      BY <1>1, <1>2, <1>3, <2>1, <2>2, InjectStep
  <1>4. CASE ~Return(t)
    <2>1. /\ Goto(t, "inj_base") /\ "inj_base" \in InjectSteps
          /\ refs' = [refs EXCEPT ![requestedCode] = @ + 1]
          /\ requestedCodeBase' = requestedCode /\ UNCHANGED frame
      BY <1>4 DEF InjectPin, InjectSteps
    <2>2. pc'[t] = "inj_base"
      BY <2>1, GotoEffect DEF Actor
    <2>3. InjectProgress(t)'
      BY <1>1, <1>2, <2>1, <2>2 DEF InjectProgress, InjectSteps
    <2>4. \A b \in Block : refs'[b] = IF b = requestedCode' THEN 1 ELSE 0
      BY <1>1, <1>2, <2>1 DEF Typed, MemoryTyped
    <2>5. QED
      BY <1>1, <2>1, <2>2, <2>3, <2>4, InjectStep
  <1>5. QED
    BY <1>3, <1>4

LEMMA DataInjectBase ==
  ASSUME Typed, ControlInv, DataInv, NEW t \in Thread, InjectBase(t)
  PROVE  DataInv'
  <1>1. /\ pc[t] = "inj_base" /\ pc[t] \in InjectSteps
        /\ UNCHANGED <<registeredPid, powered, blockMapId, mapOf, requestedCode,
                       requestedCodeBase, atBase>>
    BY DEF InjectBase, InjectSteps, system, code
  <1>2. /\ InjectProgress(t)
        /\ \A b \in Block : refs[b] = IF b = requestedCode THEN 1 ELSE 0
    BY <1>1, InjectRefs
  <1>3. CASE ~AtCdramBase
    <2>1. Return(t) /\ Release(requestedCode)
      BY <1>3 DEF InjectBase
    <2>2. pc'[t] = "idle"
      BY <2>1, ReturnFrame
    <2>3. \A b \in Block : refs'[b] = 0
      BY <1>2, <2>1 DEF Release, Typed, MemoryTyped
    <2>4. QED
      BY <1>1, <2>1, <2>2, <2>3, InjectStep
  <1>4. CASE AtCdramBase
    <2>1. /\ Goto(t, "inj_register") /\ "inj_register" \in InjectSteps
          /\ commHeapVaddr' = frame[t].page /\ commHeapPaddr' = requestedCodeBase
          /\ UNCHANGED <<frame, refs>>
      BY <1>4 DEF InjectBase, InjectSteps
    <2>2. pc'[t] = "inj_register"
      BY <2>1, GotoEffect DEF Actor
    <2>3. /\ frame[t].block \in Block /\ Behind(frame[t].page) = frame[t].block
          /\ requestedCodeBase = frame[t].block
      BY <1>1, <1>2 DEF InjectProgress, InjectSteps, Behind
    <2>4. commHeap'[frame[t].block]
            = [commHeap[frame[t].block] EXCEPT !.code = requestedCodeBase]
      BY <1>4, <2>3 DEF InjectBase
    <2>5. commHeap'[frame[t].block].code = frame[t].block
      BY <2>3, <2>4 DEF Typed, MemoryTyped, Heap
    <2>6. InjectProgress(t)'
      BY <1>1, <1>2, <1>4, <2>1, <2>2, <2>3, <2>5
         DEF InjectProgress, InjectSteps, AtCdramBase
    <2>7. QED
      BY <1>1, <1>2, <2>1, <2>2, <2>6, InjectStep
  <1>5. QED
    BY <1>3, <1>4

\* The store of s_registeredPid: what Inject has done so far is an intact session.
LEMMA DataInjectRegister ==
  ASSUME Typed, ControlInv, DataInv, NEW t \in Thread, InjectRegister(t)
  PROVE  DataInv'
  <1> t \in Actor
    BY DEF Actor
  <1>1. /\ pc[t] = "inj_register" /\ pc[t] \in InjectSteps
        /\ registeredPid' = ThreadProc[t] /\ Return(t)
        /\ UNCHANGED <<requestedCode, requestedCodeBase, blockMapId, commHeapVaddr,
                       commHeapPaddr, mapOf, refs, commHeap, atBase, powered>>
    BY DEF InjectRegister, InjectSteps, code, heapPtr, memory, system
  <1>2. /\ InjectProgress(t)
        /\ \A b \in Block : refs[b] = IF b = requestedCode THEN 1 ELSE 0
    BY <1>1, InjectRefs
  <1>3. /\ pc'[t] = "idle" /\ \A u \in Actor \ {t} : pc'[u] = pc[u]
    BY <1>1, ReturnEffect
  <1>4. \A u \in Actor : pc'[u] \notin InjectSteps \cup RestoreSteps \cup ExecSteps
    <2>1. \A u \in Actor \ {t} : pc[u] \notin InjectSteps \cup RestoreSteps \cup ExecSteps
      BY <1>1, InsideAlone
    <2>2. QED
      BY <1>3, <2>1, StepsApart
  <1>5. /\ requestedCode \in Block /\ BlockOwner[requestedCode] = ThreadProc[t]
        /\ requestedCode = frame[t].block /\ requestedCodeBase = requestedCode
        /\ commHeapVaddr = blockMapId /\ commHeapPaddr = requestedCode
        /\ commHeap[requestedCode].code = requestedCode
        /\ atBase = requestedCode
        /\ blockMapId \in MapId /\ mapOf[blockMapId] = requestedCode
    BY <1>1, <1>2 DEF InjectProgress, InjectSteps
  <1>6. powered
    <2>1. \A u \in Actor : pc[u] # "res_resume"
      BY <1>1, <1>3, <1>4, StepsApart DEF RestoreSteps
    <2>2. QED
      BY <2>1 DEF DataInv, RegisteredInv
  <1>7. InjectInv'
    BY <1>4, NoInject DEF Actor
  <1>8. RegisteredInv'
    <2>1. \A u \in Actor : pc'[u] # "res_resume"
      BY <1>4 DEF RestoreSteps
    <2>2. powered' = (\A u \in Actor : pc'[u] # "res_resume")
      BY <1>1, <1>6, <2>1, ZenonT(20) DEF DataInv, RegisteredInv
    <2>3. QED
      BY <1>1, <1>4, <1>5, <2>2, NoExec DEF Actor
  <1>9. SessionIntact'
    BY <1>1, <1>5, <1>6 DEF SessionIntact, Behind
  <1>10. Pinned'
    <2>1. registeredPid' # NoPid
      BY <1>1, ProcessAssumption
    <2>2. \A u \in Actor : ~TearingDown(u)'
      BY <1>4 DEF TearingDown
    <2>3. QED
      BY <2>1, <2>2 DEF Pinned
  <1>11. PinsBalanced'
    BY <1>1, <1>2, <1>10 DEF PinsBalanced
  <1>12. QED
    BY <1>7, <1>8, <1>9, <1>11 DEF DataInv

\* A step that leaves everything the data invariants mention as it was.
LEMMA DataStutter ==
  ASSUME DataInv, UNCHANGED vars
  PROVE  DataInv'
  BY DEF DataInv, InjectInv, InjectProgress, RegisteredInv, ExecProgress, SessionIntact,
     PinsBalanced, Pinned, Restoring, TearingDown, Behind, vars, statics, memory, system, code, heapPtr

LEMMA DataInject ==
  ASSUME SessionRules, Typed, ControlInv, DataInv, NEW t \in Thread, Inject(t)
  PROVE  DataInv'
  BY DataInjectCall, DataInjectUserMap, DataInjectLoad, DataInjectPin, DataInjectBase,
     DataInjectRegister, DataStutter DEF Inject, Refused

\* What an actor inside Restore finds.
LEMMA RestoreSide ==
  ASSUME Typed, ControlInv, DataInv, NEW a \in Actor, pc[a] \in RestoreSteps
  PROVE  /\ \A u \in Actor \ {a} : pc[u] \notin InjectSteps \cup RestoreSteps \cup ExecSteps
         /\ registeredPid # NoPid
         /\ requestedCode \in Block /\ BlockOwner[requestedCode] = registeredPid
         /\ powered = (pc[a] # "res_resume")
         /\ \A b \in Block : refs[b] =
              IF b = requestedCode /\ pc[a] \in {"res_check", "res_release"} THEN 1 ELSE 0
  <1>1. \A u \in Actor \ {a} : pc[u] \notin InjectSteps \cup RestoreSteps \cup ExecSteps
    BY InsideAlone
  <1>2. registeredPid # NoPid
    BY ProcessAssumption DEF ControlInv, Actor
  <1>3. requestedCode \in Block /\ BlockOwner[requestedCode] = registeredPid
    BY <1>2 DEF DataInv, RegisteredInv
  <1>4. powered = (pc[a] # "res_resume")
    <2>1. (\A u \in Actor : pc[u] # "res_resume") <=> pc[a] # "res_resume"
      BY <1>1 DEF RestoreSteps
    <2>2. QED
      BY <2>1 DEF DataInv, RegisteredInv
  <1>5. Pinned <=> pc[a] \in {"res_check", "res_release"}
    <2>1. \A t \in Thread : pc[t] \notin {"inj_base", "inj_register"}
      BY <1>1, StepsApart DEF Actor, InjectSteps
    <2>2. \A u \in Actor \ {a} : ~TearingDown(u)
      BY <1>1 DEF TearingDown
    <2>3. Pinned <=> ~TearingDown(a) \/ pc[a] = "res_release"
      BY <1>2, <2>1, <2>2 DEF Pinned
    <2>4. QED
      BY <2>3 DEF TearingDown
  <1>6. QED
    BY <1>1, <1>2, <1>3, <1>4, <1>5 DEF DataInv, PinsBalanced

\* A step that leaves one actor as the only one past the check of Restore: what
\* is left to show is the processor and the reference counts.
LEMMA RestoreStep ==
  ASSUME NEW a \in Actor, pc'[a] \in RestoreSteps \ {"res_check"},
         \A u \in Actor \ {a} : pc'[u] \notin InjectSteps \cup RestoreSteps \cup ExecSteps,
         registeredPid' # NoPid, requestedCode' \in Block,
         BlockOwner[requestedCode'] = registeredPid',
         powered' = (pc'[a] # "res_resume"),
         \A b \in Block : refs'[b] =
            IF b = requestedCode' /\ pc'[a] = "res_release" THEN 1 ELSE 0
  PROVE  DataInv'
  <1>1. \A u \in Thread : pc'[u] \notin InjectSteps \cup ExecSteps
    BY StepsApart DEF Actor
  <1>2. InjectInv'
    BY <1>1, NoInject
  <1>3. powered' = (\A u \in Actor : pc'[u] # "res_resume")
    <2>1. (\A u \in Actor : pc'[u] # "res_resume") <=> pc'[a] # "res_resume"
      BY DEF RestoreSteps
    <2>2. QED
      BY <2>1
  <1>4. RegisteredInv'
    BY <1>1, <1>3, NoExec
  <1>5. TearingDown(a)' /\ \A u \in Actor \ {a} : ~TearingDown(u)'
    BY DEF TearingDown
  <1>6. SessionIntact'
    BY <1>5, NoSession
  <1>7. Pinned' <=> pc'[a] = "res_release"
    <2>1. \A t \in Thread : pc'[t] \notin {"inj_base", "inj_register"}
      BY <1>1 DEF InjectSteps
    <2>2. QED
      BY <1>5, <2>1 DEF Pinned
  <1>8. PinsBalanced'
    BY <1>7 DEF PinsBalanced
  <1>9. QED
    BY <1>2, <1>4, <1>6, <1>8 DEF DataInv

\* The call of a thread that is told EALREADY, and the start of a Restore.
LEMMA DataRestoreEntry ==
  ASSUME SessionRules, Typed, ControlInv, DataInv, NEW a \in Actor,
         \/ a \in Thread /\ RestoreCall(a)
         \/ a = EventThread /\ RestoreCheck(a)
  PROVE  DataInv'
  <1>1. RestoreEntry(a) /\ UNCHANGED <<frame, statics, memory, system>>
    BY DEF RestoreCall, RestoreCheck, RestoreEntry
  <1>2. CASE pc[a] = "idle" /\ registeredPid = NoPid
    <2>1. Goto(a, "idle")
      BY <1>1, <1>2 DEF RestoreEntry
    <2>2. UNCHANGED pc
      BY <1>2, <2>1 DEF Goto, Typed, CallsTyped
    <2>3. QED
      BY <1>1, <2>2, DataStutter DEF vars
  <1>3. CASE pc[a] = "idle" /\ registeredPid # NoPid
    <2>1. /\ a \in Thread /\ MayCall(a, "restore") /\ registeredPid = ThreadProc[a]
      BY <1>3 DEF RestoreCall, RestoreCheck, OwnSession, SessionRules
    <2>2. /\ alive[ThreadProc[a]]
          /\ \A u \in Thread \ {a} : pc[u] \notin RestoreSteps \cup ExecSteps
      BY <2>1, CallsAlone DEF Operation
    <2>3. \A u \in Actor : pc[u] \notin InjectSteps \cup RestoreSteps \cup ExecSteps
      <3>1. \A u \in Thread : pc[u] \notin RestoreSteps \cup ExecSteps
        BY <1>3, <2>2, StepsApart
      <3>2. \A u \in Actor : pc[u] \notin InjectSteps \cup RestoreSteps
        BY <2>1, <2>2, <3>1, BesideExec
      <3>3. pc[EventThread] \notin ExecSteps
        BY StepsApart DEF ControlInv
      <3>4. QED
        BY <3>1, <3>2, <3>3 DEF Actor
    <2>4. pc'[a] = "res_release" /\ \A u \in Actor \ {a} : pc'[u] = pc[u]
      BY <1>1, <1>3, GotoEffect DEF RestoreEntry
    <2>5. requestedCode \in Block /\ BlockOwner[requestedCode] = registeredPid
      BY <1>3 DEF DataInv, RegisteredInv
    <2>6. powered
      <3>1. \A u \in Actor : pc[u] # "res_resume"
        BY <2>3 DEF RestoreSteps
      <3>2. QED
        BY <3>1 DEF DataInv, RegisteredInv
    <2>7. Pinned
      BY <1>3, <2>3 DEF Pinned, TearingDown
    <2>8. \A b \in Block : refs[b] = IF b = requestedCode THEN 1 ELSE 0
      BY <2>7 DEF DataInv, PinsBalanced
    <2>9. UNCHANGED <<registeredPid, requestedCode, refs, powered>>
      BY <1>1 DEF statics, code, memory, system
    <2>10. powered' = (pc'[a] # "res_resume")
      BY <2>4, <2>6, <2>9, Zenon
    <2>11. QED
      BY <1>3, <2>3, <2>4, <2>5, <2>8, <2>9, <2>10, RestoreStep DEF RestoreSteps
  <1>4. CASE pc[a] = "res_check"
    <2>1. pc[a] \in RestoreSteps
      BY <1>4 DEF RestoreSteps
    <2>2. /\ \A u \in Actor \ {a} : pc[u] \notin InjectSteps \cup RestoreSteps \cup ExecSteps
          /\ registeredPid # NoPid
          /\ requestedCode \in Block /\ BlockOwner[requestedCode] = registeredPid
          /\ powered
          /\ \A b \in Block : refs[b] = IF b = requestedCode THEN 1 ELSE 0
      BY <1>4, <2>1, RestoreSide
    <2>3. pc'[a] = "res_release" /\ \A u \in Actor \ {a} : pc'[u] = pc[u]
      BY <1>1, <2>2, GotoEffect DEF RestoreEntry
    <2>4. UNCHANGED <<registeredPid, requestedCode, refs, powered>>
      BY <1>1 DEF statics, code, memory, system
    <2>5. powered' = (pc'[a] # "res_resume")
      BY <2>2, <2>3, <2>4, Zenon
    <2>6. QED
      BY <2>2, <2>3, <2>4, <2>5, RestoreStep DEF RestoreSteps
  <1>5. QED
    BY <1>2, <1>3, <1>4 DEF RestoreCall, MayCall, RestoreCheck

LEMMA DataRestore ==
  ASSUME Typed, ControlInv, DataInv, NEW a \in Actor, Restore(a)
  PROVE  DataInv'
  <1>1. pc[a] \in RestoreSteps \ {"res_check"}
    BY DEF Restore, RestoreRelease, ResetSuspend, ResetResume, RestoreUnmap,
       RestoreClear, RestoreSteps
  <1>2. /\ \A u \in Actor \ {a} : pc[u] \notin InjectSteps \cup RestoreSteps \cup ExecSteps
        /\ registeredPid # NoPid
        /\ requestedCode \in Block /\ BlockOwner[requestedCode] = registeredPid
        /\ powered = (pc[a] # "res_resume")
        /\ \A b \in Block : refs[b] =
             IF b = requestedCode /\ pc[a] \in {"res_check", "res_release"} THEN 1 ELSE 0
    BY <1>1, RestoreSide
  <1>3. CASE RestoreRelease(a)
    <2>1. /\ pc[a] = "res_release" /\ Release(requestedCode)
          /\ UNCHANGED <<registeredPid, requestedCode, powered>>
      BY <1>3 DEF RestoreRelease, statics, code, system
    <2>2. pc'[a] = "res_suspend" /\ \A u \in Actor \ {a} : pc'[u] = pc[u]
      BY <1>3, GotoEffect DEF RestoreRelease
    <2>3. \A b \in Block : refs'[b] = 0
      BY <1>2, <2>1 DEF Release, Typed, MemoryTyped
    <2>4. powered' = (pc'[a] # "res_resume")
      BY <1>2, <2>1, <2>2, Zenon
    <2>5. QED
      BY <1>2, <2>1, <2>2, <2>3, <2>4, RestoreStep DEF RestoreSteps
  <1>4. CASE ResetSuspend(a)
    <2>1. /\ pc[a] = "res_suspend" /\ powered' = FALSE
          /\ UNCHANGED <<registeredPid, requestedCode, refs>>
      BY <1>4 DEF ResetSuspend, statics, code, memory
    <2>2. pc'[a] = "res_resume" /\ \A u \in Actor \ {a} : pc'[u] = pc[u]
      BY <1>4, GotoEffect DEF ResetSuspend
    <2>3. powered' = (pc'[a] # "res_resume")
      BY <2>1, <2>2, Zenon
    <2>4. QED
      BY <1>2, <2>1, <2>2, <2>3, RestoreStep DEF RestoreSteps
  <1>5. CASE ResetResume(a)
    <2>1. /\ pc[a] = "res_resume" /\ powered' = TRUE
          /\ UNCHANGED <<registeredPid, requestedCode, refs>>
      BY <1>5 DEF ResetResume, statics, code, memory
    <2>2. pc'[a] = "res_unmap" /\ \A u \in Actor \ {a} : pc'[u] = pc[u]
      BY <1>5, GotoEffect DEF ResetResume
    <2>3. powered' = (pc'[a] # "res_resume")
      BY <2>1, <2>2, Zenon
    <2>4. QED
      BY <1>2, <2>1, <2>2, <2>3, RestoreStep DEF RestoreSteps
  <1>6. CASE RestoreUnmap(a)
    <2>1. /\ pc[a] = "res_unmap"
          /\ UNCHANGED <<registeredPid, requestedCode, refs, powered>>
      BY <1>6 DEF RestoreUnmap, code, system
    <2>2. pc'[a] = "res_clear" /\ \A u \in Actor \ {a} : pc'[u] = pc[u]
      BY <1>6, GotoEffect DEF RestoreUnmap
    <2>3. powered' = (pc'[a] # "res_resume")
      BY <1>2, <2>1, <2>2, Zenon
    <2>4. QED
      BY <1>2, <2>1, <2>2, <2>3, RestoreStep DEF RestoreSteps
  <1>7. CASE RestoreClear(a)
    <2>1. /\ pc[a] = "res_clear" /\ registeredPid' = NoPid
          /\ UNCHANGED <<requestedCode, refs, powered>>
      BY <1>7 DEF RestoreClear, code, memory, system
    <2>2. pc'[a] = "idle" /\ \A u \in Actor \ {a} : pc'[u] = pc[u]
      BY <1>7, GotoEffect DEF RestoreClear
    <2>3. \A u \in Actor : pc'[u] \notin InjectSteps \cup RestoreSteps \cup ExecSteps
      BY <1>2, <2>2, StepsApart
    <2>4. InjectInv' /\ SessionIntact'
      BY <2>1, <2>3, NoInject, NoSession DEF Actor
    <2>5. RegisteredInv'
      <3>1. powered'
        BY <1>2, <2>1, Zenon
      <3>2. \A u \in Actor : pc'[u] # "res_resume"
        BY <2>3 DEF RestoreSteps
      <3>3. powered' = (\A u \in Actor : pc'[u] # "res_resume")
        BY <3>2, <3>1, <1>2, <2>1
      <3>4. QED
        BY <2>1, <2>3, <3>3, NoExec DEF Actor
    <2>6. ~Pinned'
      BY <2>1, <2>3 DEF Pinned, InjectSteps, Actor
    <2>7. QED
      BY <1>2, <2>1, <2>4, <2>5, <2>6 DEF DataInv, PinsBalanced
  <1>8. QED
    BY <1>3, <1>4, <1>5, <1>6, <1>7 DEF Restore

-----------------------------------------------------------------------------
(* Exec and the kernel leave the session as it is.                         *)

\* What Exec may change of the session: the argument block.
LEMMA SetArgKeepsCode ==
  ASSUME commHeap \in [Block -> Heap], NEW b, NEW v, SetArg(b, v)
  PROVE  \A x \in Block : commHeap'[x].code = commHeap[x].code
  BY DEF SetArg, Heap

\* A step of a thread beside which nobody injects or restores.
LEMMA ExecStep ==
  ASSUME DataInv, NEW t \in Thread, registeredPid # NoPid,
         \A u \in Actor : pc[u] \notin InjectSteps \cup RestoreSteps,
         pc'[t] \notin InjectSteps \cup RestoreSteps,
         \A u \in Actor \ {t} : pc'[u] = pc[u],
         \A u \in Thread \ {t} : frame'[u] = frame[u],
         UNCHANGED <<registeredPid, code, blockMapId, heapPtr, mapOf, refs, atBase,
                     userLock, powered>>,
         \A x \in Block : commHeap'[x].code = commHeap[x].code,
         ExecProgress(t)'
  PROVE  DataInv'
  <1> Thread \subseteq Actor
    BY DEF Actor
  <1>1. \A u \in Actor : pc'[u] \notin InjectSteps \cup RestoreSteps
    OBVIOUS
  <1>2. InjectInv'
    BY <1>1, NoInject
  <1>3. (\A u \in Actor : pc[u] # "res_resume") /\ \A u \in Actor : pc'[u] # "res_resume"
    BY <1>1 DEF RestoreSteps
  <1>4. RegisteredInv'
    <2>1. \A u \in Thread \ {t} : ExecProgress(u)'
      BY DEF DataInv, RegisteredInv, ExecProgress, code
    <2>2. powered' = (\A u \in Actor : pc'[u] # "res_resume")
      BY <1>3 DEF DataInv, RegisteredInv
    <2>3. requestedCode' \in Block /\ BlockOwner[requestedCode'] = registeredPid'
      BY DEF DataInv, RegisteredInv, code
    <2>4. \A u \in Thread : ExecProgress(u)'
      BY <2>1
    <2>5. QED
      BY <2>2, <2>3, <2>4 DEF RegisteredInv, ExecProgress
  <1>5. ~Restoring /\ ~Restoring' /\ Pinned /\ Pinned'
    BY <1>1 DEF Restoring, TearingDown, Pinned
  <1>6. SessionIntact'
    BY <1>5 DEF DataInv, SessionIntact, Behind, code, heapPtr
  <1>7. PinsBalanced'
    BY <1>5 DEF DataInv, PinsBalanced, code
  <1>8. QED
    BY <1>2, <1>4, <1>6, <1>7 DEF DataInv

LEMMA DataExecCall ==
  ASSUME SessionRules, Typed, ControlInv, DataInv, NEW t \in Thread,
         ExecCall(t), ~Refused
  PROVE  DataInv'
  <1> t \in Actor
    BY DEF Actor
  <1>1. PICK arg \in ArgForms, susp \in BOOLEAN :
           /\ ~susp => userLock[t] > 0
           /\ frame' = [frame EXCEPT ![t].ptr = arg.ptr,
                               ![t].size = arg.size, ![t].susp = susp]
           /\ Goto(t, FirstStep(arg, susp))
    BY DEF ExecCall, SessionRules
  <1>2. /\ MayCall(t, "exec") /\ registeredPid = ThreadProc[t]
        /\ UNCHANGED <<statics, memory, system>>
    BY DEF ExecCall, ExecAdmits, OwnSession, SessionRules
  <1>3. pc'[t] \in {"exec_in", "exec_lock", "exec_rpc"}
        /\ \A u \in Actor \ {t} : pc'[u] = pc[u]
    <2>1. FirstStep(arg, susp) \in {"exec_in", "exec_lock", "exec_rpc"}
      BY DEF FirstStep, LockStep
    <2>2. QED
      BY <1>1, <2>1, GotoEffect
  <1>4. frame'[t].susp = susp
    BY <1>1 DEF Typed, CallsTyped, Frame
  <1>5. /\ pc[t] = "idle" /\ alive[ThreadProc[t]]
        /\ \A u \in Thread \ {t} : pc[u] \notin RestoreSteps
    BY <1>2, CallsAlone DEF Operation
  <1>6. \A u \in Actor : pc[u] \notin InjectSteps \cup RestoreSteps
    <2>1. \A u \in Thread : pc[u] \notin RestoreSteps
      BY <1>5, StepsApart
    <2>2. QED
      BY <1>2, <1>5, <2>1, BesideExec
  <1>7. ExecProgress(t)'
    BY <1>1, <1>2, <1>3, <1>4 DEF ExecProgress, system
  <1>8. registeredPid # NoPid
    BY <1>2, ProcessAssumption
  <1>9. pc'[t] \notin InjectSteps \cup RestoreSteps
    BY <1>3 DEF InjectSteps, RestoreSteps
  <1>10. \A u \in Thread \ {t} : frame'[u] = frame[u]
    BY <1>1 DEF Typed, CallsTyped
  <1>11. UNCHANGED <<registeredPid, code, blockMapId, heapPtr, mapOf, refs, atBase,
                     userLock, powered, commHeap>>
    BY <1>2 DEF statics, memory, system
  <1>12. QED
    BY <1>3, <1>6, <1>7, <1>8, <1>9, <1>10, <1>11, ExecStep

LEMMA DataExec ==
  ASSUME SessionRules, Typed, ControlInv, DataInv, NEW t \in Thread, Exec(t)
  PROVE  DataInv'
  <1> t \in Actor
    BY DEF Actor
  <1>1. CASE ExecCall(t)
    BY <1>1, DataExecCall, DataStutter DEF Refused
  <1>2. CASE ~ExecCall(t)
    <2>1. /\ pc[t] \in ExecSteps
          /\ Return(t) \/ \E step \in ExecSteps : Goto(t, step)
          /\ UNCHANGED <<registeredPid, code, blockMapId, heapPtr, mapOf, refs, atBase,
                         userLock, powered>>
      BY <1>2 DEF Exec, ExecCopyIn, ExecLock, ExecRpc, MepRun, ExecUnlock, ExecCopyOut,
         LockStep, UnlockStep, ExecSteps, statics, memory, system
    <2>2. /\ pc'[t] = "idle" \/ pc'[t] \in ExecSteps
          /\ \A u \in Actor \ {t} : pc'[u] = pc[u]
      BY <2>1, GotoEffect, ReturnEffect
    <2>3. pc'[t] \notin InjectSteps \cup RestoreSteps
      BY <2>2, StepsApart
    <2>4. /\ registeredPid = ThreadProc[t] /\ alive[ThreadProc[t]]
          /\ \A u \in Thread : pc[u] \notin RestoreSteps
      BY <2>1, StepsApart DEF ControlInv
    <2>5. /\ registeredPid # NoPid
          /\ \A u \in Actor : pc[u] \notin InjectSteps \cup RestoreSteps
      BY <2>4, BesideExec, ProcessAssumption
    <2>6. \A x \in Block : commHeap'[x].code = commHeap[x].code
      BY <1>2, SetArgKeepsCode DEF Exec, ExecCopyIn, ExecLock, ExecRpc, MepRun, ExecUnlock,
         ExecCopyOut, memory, Typed, MemoryTyped
    <2>7. \A u \in Thread \ {t} : frame'[u] = frame[u]
      BY <1>2, ReturnEffect DEF Exec, ExecCopyIn, ExecLock, ExecRpc, MepRun, ExecUnlock,
         ExecCopyOut, Typed, CallsTyped
    <2>8. ExecProgress(t)'
      <3>1. ExecProgress(t)
        BY DEF DataInv, RegisteredInv
      <3>2. CASE Return(t)
        <4>1. pc'[t] = "idle"
          BY <3>2, ReturnFrame
        <4>2. QED
          BY <4>1 DEF ExecProgress, ExecSteps
      <3>3. CASE ExecRpc(t)
        <4>1. commHeapPaddr = requestedCode
          BY <2>5 DEF DataInv, SessionIntact, Restoring, TearingDown
        <4>2. frame'[t].paddr = commHeapPaddr /\ frame'[t].susp = frame[t].susp
          BY <3>3 DEF ExecRpc, Typed, CallsTyped, Frame
        <4>3. QED
          BY <2>1, <3>1, <4>1, <4>2 DEF ExecProgress, code
      <3>4. CASE ~Return(t) /\ ~ExecRpc(t)
        <4>1. /\ frame'[t].susp = frame[t].susp
              /\ \E step \in ExecSteps \ {"exec_mep"} : Goto(t, step)
          BY <1>2, <3>4 DEF Exec, ExecCopyIn, ExecLock, MepRun, ExecUnlock, ExecCopyOut,
             LockStep, UnlockStep, ExecSteps, Typed, CallsTyped, Frame
        <4>2. pc'[t] # "exec_mep"
          BY <4>1, GotoEffect
        <4>3. QED
          BY <2>1, <3>1, <4>1, <4>2 DEF ExecProgress
      <3>5. QED
        BY <3>2, <3>3, <3>4
    <2>9. QED
      BY <2>1, <2>2, <2>3, <2>5, <2>6, <2>7, <2>8, ExecStep
  <1>3. QED
    BY <1>1, <1>2

\* A step of the kernel or of the suspend lock: no call moves, and nothing of the
\* session changes but the memblock at the CDRAM base, while that one is free.
LEMMA KernelStep ==
  ASSUME DataInv, \A t \in Thread : pc'[t] = pc[t] /\ frame'[t] = frame[t],
         pc[EventThread] \in {"idle", "res_check"} \/ UNCHANGED pc,
         pc'[EventThread] \in {"idle", "res_check"} \/ UNCHANGED pc,
         UNCHANGED <<registeredPid, code, blockMapId, heapPtr, mapOf, refs, commHeap,
                     powered>>,
         \A t \in Thread : pc[t] # "idle" => userLock'[t] = userLock[t],
         UNCHANGED atBase \/ (atBase \in Block => refs[atBase] = 0)
  PROVE  DataInv'
  <1> Actor = Thread \cup {EventThread}
    BY DEF Actor
  <1>1. \A a \in Actor : TearingDown(a)' <=> TearingDown(a)
    BY DEF TearingDown, RestoreSteps
  <1>2. Restoring' <=> Restoring
    BY <1>1 DEF Restoring
  <1>3. \A a \in Actor : pc'[a] \in {"res_release", "res_resume"} \/
                         pc[a] \in {"res_release", "res_resume"} => pc'[a] = pc[a]
    OBVIOUS
  <1>4. Pinned' <=> Pinned
    BY <1>1, <1>3 DEF Pinned
  <1>5. PinsBalanced'
    BY <1>4 DEF DataInv, PinsBalanced, code
  <1>6. RegisteredInv'
    <2>1. \A t \in Thread : ExecProgress(t)'
      BY DEF DataInv, RegisteredInv, ExecProgress, ExecSteps, code
    <2>2. (\A a \in Actor : pc'[a] # "res_resume") <=> (\A a \in Actor : pc[a] # "res_resume")
      BY <1>3
    <2>3. QED
      BY <2>1, <2>2 DEF DataInv, RegisteredInv, code
  <1>7. atBase' # atBase /\ Pinned => atBase # requestedCode \/ requestedCode \notin Block
    BY DEF DataInv, PinsBalanced
  <1>8. SessionIntact'
    <2>1. registeredPid # NoPid /\ ~Restoring => Pinned
      BY DEF Pinned, Restoring
    <2>2. QED
      BY <1>2, <1>7, <2>1 DEF DataInv, SessionIntact, Behind, code, heapPtr
  <1>9. InjectInv'
    <2>1. SUFFICES ASSUME NEW t \in Thread PROVE InjectProgress(t)'
      BY DEF InjectInv
    <2>2. InjectProgress(t)
      BY DEF DataInv, InjectInv
    <2>3. pc[t] = "inj_register" => Pinned
      BY DEF Pinned
    <2>4. QED
      BY <1>7, <2>2, <2>3 DEF InjectProgress, InjectSteps, code, heapPtr
  <1>10. QED
    BY <1>5, <1>6, <1>8, <1>9 DEF DataInv

LEMMA DataKernel ==
  ASSUME Typed, DataInv,
         \/ \E t \in Thread : SuspendCalls(t)
         \/ \E p \in Process : ExitEvent(p) \/ Spawn(p)
         \/ \E b \in Block : PlaceAtBase(b)
  PROVE  DataInv'
  <1>1. CASE \E t \in Thread : SuspendCalls(t)
    <2>1. PICK t \in Thread : SuspendCalls(t)
      BY <1>1
    <2>2. /\ pc[t] = "idle" /\ UNCHANGED <<pc, frame, statics, memory, powered>>
          /\ \A u \in Thread \ {t} : userLock'[u] = userLock[u]
      BY <2>1 DEF SuspendCalls, LockProcessSuspend, UnlockProcessSuspend, Typed, SystemTyped
    <2>3. QED
      BY <2>2, KernelStep DEF statics, memory
  <1>2. CASE \E p \in Process : ExitEvent(p)
    <2>1. PICK p \in Process : ExitEvent(p)
      BY <1>2
    <2>2. /\ pc[EventThread] = "idle" /\ Goto(EventThread, ExitStep(p))
          /\ UNCHANGED <<frame, statics, memory, userLock, powered>>
      BY <2>1 DEF ExitEvent
    <2>3. /\ pc'[EventThread] \in {"idle", "res_check"}
          /\ \A t \in Thread : pc'[t] = pc[t]
      BY <2>2, GotoEffect, ProcessAssumption DEF ExitStep, Actor
    <2>4. QED
      BY <2>2, <2>3, KernelStep DEF statics, memory
  <1>3. CASE \E p \in Process : Spawn(p)
    BY <1>3, KernelStep DEF Spawn, statics, memory
  <1>4. CASE \E b \in Block : PlaceAtBase(b)
    BY <1>4, KernelStep, MemoryAssumption DEF PlaceAtBase, statics, system
  <1>5. QED
    BY <1>1, <1>2, <1>3, <1>4

LEMMA DataNext ==
  ASSUME SessionRules, Typed, ControlInv, DataInv, [Next]_vars
  PROVE  DataInv'
  <1>1. CASE UNCHANGED vars
    BY <1>1, DataStutter
  <1>2. CASE \E t \in Thread : Inject(t)
    BY <1>2, DataInject
  <1>3. CASE \E t \in Thread : Exec(t)
    BY <1>3, DataExec
  <1>4. CASE (\E t \in Thread : RestoreCall(t) \/ Restore(t)) \/ ExitHandler
    BY <1>4, DataRestoreEntry, DataRestore DEF ExitHandler, Actor
  <1>5. CASE \/ \E t \in Thread : SuspendCalls(t)
             \/ \E p \in Process : ExitEvent(p) \/ Spawn(p)
             \/ \E b \in Block : PlaceAtBase(b)
    BY <1>5, DataKernel
  <1>6. QED
    BY <1>1, <1>2, <1>3, <1>4, <1>5 DEF Next

LEMMA DataInit == Init => DataInv
  <1> SUFFICES ASSUME Init PROVE DataInv
    OBVIOUS
  <1>1. /\ registeredPid = NoPid /\ powered = TRUE /\ \A a \in Actor : pc[a] = "idle"
        /\ \A b \in Block : refs[b] = 0
    BY DEF Init
  <1>2. InjectInv /\ RegisteredInv
    BY <1>1, StepsApart
       DEF InjectInv, InjectProgress, InjectSteps, RegisteredInv, ExecProgress, Actor
  <1>3. SessionIntact
    BY <1>1 DEF SessionIntact
  <1>4. ~Pinned
    BY <1>1 DEF Pinned, Actor
  <1>5. QED
    BY <1>1, <1>2, <1>3, <1>4 DEF DataInv, PinsBalanced

-----------------------------------------------------------------------------
(* The theorems.                                                           *)

LEMMA SessionInvariant ==
  ASSUME SessionRules
  PROVE  Spec => [](Typed /\ LockInv /\ ControlInv /\ DataInv)
  <1>1. Init => Typed /\ LockInv /\ ControlInv /\ DataInv
    BY TypedInit, LockInit, ControlInit, DataInit
  <1>2. /\ Typed /\ LockInv /\ ControlInv /\ DataInv /\ [Next]_vars
        => (Typed /\ LockInv /\ ControlInv /\ DataInv)'
    BY TypedNext, LockNext, ControlNext, DataNext
  <1>3. QED
    BY <1>1, <1>2, PTL DEF Spec

\* Among callers that keep the session rules, the statics, the kernel map, the
\* reference, the communication heap and the processor follow one injection through
\* every step of Inject, Exec, Restore and the exit handler.
THEOREM SessionConsistent == SessionRules => (Spec => []SessionInv)
  <1> SUFFICES ASSUME SessionRules PROVE Spec => []SessionInv
    OBVIOUS
  <1>1. Typed /\ LockInv /\ ControlInv /\ DataInv => SessionInv
    BY DEF SessionInv, DataInv
  <1>2. QED
    BY <1>1, SessionInvariant, PTL

\* An Exec is inside the session it was admitted to until it returns: no Restore and
\* no exit of the process comes between, and the MeP program gets the heap that the
\* session published.
THEOREM ExecStaysInside == SessionRules => (Spec => []ExecInsideSession)
  <1> SUFFICES ASSUME SessionRules PROVE Spec => []ExecInsideSession
    OBVIOUS
  <1>1. ControlInv /\ DataInv => ExecInsideSession
    <2> SUFFICES ASSUME ControlInv, DataInv, NEW t \in Thread, pc[t] \in ExecSteps
                 PROVE  /\ registeredPid = ThreadProc[t] /\ ~Restoring
                        /\ pc[t] = "exec_mep" => frame[t].paddr = requestedCode
      BY DEF ExecInsideSession
    <2>1. /\ registeredPid = ThreadProc[t] /\ alive[ThreadProc[t]]
          /\ \A u \in Thread : pc[u] \notin RestoreSteps
      BY StepsApart DEF ControlInv
    <2>2. \A u \in Actor : pc[u] \notin RestoreSteps
      BY <2>1, BesideExec
    <2>3. QED
      BY <2>1, <2>2 DEF Restoring, TearingDown, DataInv, RegisteredInv, ExecProgress
  <1>2. QED
    BY <1>1, SessionInvariant, PTL

\* Inject reaches the store of s_registeredPid only while nobody is registered.
THEOREM InjectsOnce == SessionRules => (Spec => []OneInjection)
  <1> SUFFICES ASSUME SessionRules PROVE Spec => []OneInjection
    OBVIOUS
  <1>1. ControlInv => OneInjection
    BY DEF ControlInv, OneInjection, InjectSteps
  <1>2. QED
    BY <1>1, SessionInvariant, PTL

\* While a MeP program runs the kernel's suspend lock is held, by the Exec itself or,
\* in the NoSuspend variant, by the vnzLockProcessSuspend of its thread.
THEOREM SuspendIsGuarded == SessionRules => (Spec => []SuspendGuarded)
  <1> SUFFICES ASSUME SessionRules PROVE Spec => []SuspendGuarded
    OBVIOUS
  <1>1. Typed /\ LockInv /\ DataInv => SuspendGuarded
    <2> SUFFICES ASSUME Typed, LockInv, DataInv, NEW t \in Thread, pc[t] = "exec_mep"
                 PROVE  suspendLock > 0
      BY DEF SuspendGuarded
    <2>1. frame[t].susp \/ userLock[t] > 0
      BY DEF DataInv, RegisteredInv, ExecProgress, ExecSteps
    <2>2. userLock[t] > 0 => <<t, 1>> \in UserHolds
      <3>1. userLock[t] \in 0 .. MaxNest
        BY DEF Typed, SystemTyped
      <3>2. userLock[t] > 0 => 1 \in 1 .. MaxNest /\ 1 <= userLock[t]
        BY <3>1, DisciplineAssumption
      <3>3. QED
        BY <3>2 DEF UserHolds
    <2>3. ExecHolders # {} \/ UserHolds # {}
      BY <2>1, <2>2 DEF ExecHolders
    <2>4. Cardinality(ExecHolders) # 0 \/ Cardinality(UserHolds) # 0
      BY <2>3, HoldersFinite, FS_EmptySet
    <2>5. suspendLock = Cardinality(ExecHolders) + Cardinality(UserHolds)
      BY DEF LockInv, LockLaw, SuspendLockBalance, SessionRules, Holds
    <2>6. QED
      BY <2>4, <2>5, HoldersFinite
  <1>2. QED
    BY <1>1, SessionInvariant, PTL

\* The exit handler takes down no session of a living process, a later one included.
THEOREM LivingAreSpared == SessionRules => (Spec => []ExitSparesTheLiving)
  <1> SUFFICES ASSUME SessionRules PROVE Spec => []ExitSparesTheLiving
    OBVIOUS
  <1>1. ControlInv => ExitSparesTheLiving
    BY DEF ControlInv, ExitSparesTheLiving, TearingDown
  <1>2. QED
    BY <1>1, SessionInvariant, PTL

-----------------------------------------------------------------------------
(* The exit of a registered process, without any rule for the callers.     *)

DeadInv == /\ \A t \in Thread : pc[t] # "idle" => alive[ThreadProc[t]]
           /\ DeadOwnerCleaned

LEMMA DeadNext ==
  ASSUME Typed, DeadInv, [Next]_vars
  PROVE  DeadInv'
  <1> EventThread \in Actor /\ EventThread \notin Thread /\ NoPid \notin Process
      /\ Thread \subseteq Actor /\ ThreadProc \in [Thread -> Process]
    BY ProcessAssumption DEF Actor
  <1>1. CASE UNCHANGED <<pc, registeredPid, alive>>
    BY <1>1 DEF DeadInv, DeadOwnerCleaned
  <1>2. ASSUME NEW t \in Thread, pc'[EventThread] = pc[EventThread], UNCHANGED alive,
               \A u \in Thread \ {t} : pc'[u] = pc[u],
               alive[ThreadProc[t]],
               registeredPid' \in {registeredPid, NoPid, ThreadProc[t]}
        PROVE  DeadInv'
    BY <1>2 DEF DeadInv, DeadOwnerCleaned
  <1>3. CASE \E t \in Thread : \/ Inject(t) /\ ~Refused
                               \/ Exec(t) /\ ~Refused
                               \/ RestoreCall(t) \/ Restore(t)
    <2>1. PICK t \in Thread : \/ Inject(t) /\ ~Refused
                              \/ Exec(t) /\ ~Refused
                              \/ RestoreCall(t) \/ Restore(t)
      BY <1>3
    <2>2. alive[ThreadProc[t]]
      BY <2>1 DEF DeadInv, Inject, InjectCall, InjectUserMap, InjectLoad, InjectPin,
         InjectBase, InjectRegister, Exec, ExecCall, ExecCopyIn, ExecLock, ExecRpc,
         MepRun, ExecUnlock, ExecCopyOut, RestoreCall, Restore, RestoreRelease,
         ResetSuspend, ResetResume, RestoreUnmap, RestoreClear, MayCall
    <2>3. \E step : Goto(t, step)
      BY <2>1 DEF Return, Inject, InjectCall, InjectUserMap, InjectLoad, InjectPin,
         InjectBase, InjectRegister, Exec, ExecCall, ExecCopyIn, ExecLock, ExecRpc,
         MepRun, ExecUnlock, ExecCopyOut, RestoreCall, RestoreEntry, Restore,
         RestoreRelease, ResetSuspend, ResetResume, RestoreUnmap, RestoreClear
    <2>4. \A u \in Actor \ {t} : pc'[u] = pc[u]
      BY <2>3, GotoEffect
    <2>5. UNCHANGED alive /\ registeredPid' \in {registeredPid, NoPid, ThreadProc[t]}
      BY <2>1 DEF Inject, InjectCall, InjectUserMap, InjectLoad, InjectPin,
         InjectBase, InjectRegister, Exec, ExecCall, ExecCopyIn, ExecLock, ExecRpc,
         MepRun, ExecUnlock, ExecCopyOut, RestoreCall, RestoreEntry, Restore,
         RestoreRelease, ResetSuspend, ResetResume, RestoreUnmap, RestoreClear,
         statics, system
    <2>6. QED
      BY <1>2, <2>2, <2>4, <2>5
  <1>4. CASE ExitHandler
    <2>1. /\ \E step \in {"idle"} \cup RestoreSteps : Goto(EventThread, step)
          /\ UNCHANGED alive
          /\ \/ registeredPid' = NoPid
             \/ /\ UNCHANGED registeredPid
                /\ \E step \in RestoreSteps : Goto(EventThread, step)
      BY <1>4 DEF ExitHandler, RestoreCheck, RestoreEntry, Restore, RestoreRelease,
         ResetSuspend, ResetResume, RestoreUnmap, RestoreClear, RestoreSteps, statics,
         system
    <2>2. \A u \in Thread : pc'[u] = pc[u]
      BY <2>1, GotoEffect
    <2>3. /\ \A u \in Thread : pc'[u] # "idle" => alive'[ThreadProc[u]]
      BY <2>1, <2>2 DEF DeadInv
    <2>4. CASE registeredPid' = NoPid
      BY <2>3, <2>4 DEF DeadInv, DeadOwnerCleaned
    <2>5. CASE UNCHANGED registeredPid /\ \E step \in RestoreSteps : Goto(EventThread, step)
      <3>1. pc'[EventThread] \in RestoreSteps
        BY <2>5, GotoEffect
      <3>2. QED
        BY <2>3, <3>1 DEF DeadInv, DeadOwnerCleaned
    <2>6. QED
      BY <2>1, <2>4, <2>5
  <1>5. CASE \E p \in Process : ExitEvent(p)
    <2>1. PICK p \in Process : ExitEvent(p)
      BY <1>5
    <2>2. /\ pc[EventThread] = "idle" /\ UNCHANGED registeredPid
          /\ alive' = [alive EXCEPT ![p] = FALSE]
          /\ Goto(EventThread, ExitStep(p))
          /\ \A t \in Thread : ThreadProc[t] = p => pc[t] = "idle"
      BY <2>1 DEF ExitEvent, ThreadsOf, statics
    <2>3. /\ pc'[EventThread] = IF registeredPid = p THEN "res_check" ELSE "idle"
          /\ \A t \in Thread : pc'[t] = pc[t]
      BY <2>2, GotoEffect DEF ExitStep
    <2>4. \A q \in Process \ {p} : alive'[q] = alive[q]
      BY <2>2 DEF Typed, SystemTyped
    <2>5. DeadOwnerCleaned'
      BY <2>2, <2>3, <2>4, StepsApart DEF DeadInv, DeadOwnerCleaned, RestoreSteps
    <2>6. QED
      BY <2>2, <2>3, <2>4, <2>5 DEF DeadInv
  <1>6. CASE \E p \in Process : Spawn(p)
    <2>1. PICK p \in Process : Spawn(p)
      BY <1>6
    <2>2. /\ UNCHANGED <<pc, registeredPid>>
          /\ alive'[p] /\ \A q \in Process \ {p} : alive'[q] = alive[q]
      BY <2>1 DEF Spawn, statics, Typed, SystemTyped
    <2>3. \A q \in Process : alive[q] => alive'[q]
      BY <2>2
    <2>4. QED
      BY <2>2, <2>3 DEF DeadInv, DeadOwnerCleaned
  <1>7. CASE \/ \E t \in Thread : SuspendCalls(t)
             \/ \E b \in Block : PlaceAtBase(b)
    BY <1>1, <1>7 DEF SuspendCalls, LockProcessSuspend, UnlockProcessSuspend, PlaceAtBase,
       statics, system
  <1>8. CASE UNCHANGED vars
    BY <1>1, <1>8 DEF vars, statics, system
  <1>9. QED
    BY <1>3, <1>4, <1>5, <1>6, <1>7, <1>8 DEF Next, Refused

\* Whatever calls overlap, a registered process that has exited is always in the hands
\* of the exit handler.
THEOREM DeadAreCleaned == Spec => []DeadOwnerCleaned
  <1>1. Init => DeadInv
    BY ProcessAssumption DEF Init, DeadInv, DeadOwnerCleaned, Actor
  <1>2. Typed /\ DeadInv /\ [Next]_vars => DeadInv'
    BY DeadNext
  <1>3. DeadInv => DeadOwnerCleaned
    BY DEF DeadInv
  <1>4. Typed /\ LockInv => Typed
    OBVIOUS
  <1>5. QED
    BY <1>1, <1>2, <1>3, <1>4, LockInvariant, PTL DEF Spec

-----------------------------------------------------------------------------
(* The exit handler finishes, without any rule for the callers.            *)

\* Each step of the handler can be taken.  It is so by the shape of the definitions: no
\* step of vnzBridgeRestore waits for anything, and each moves the program counter.  It
\* is a hypothesis of the theorem only because no prover expands ENABLED; TLC, which
\* does, checks the conclusion without it in bridge_serial.
HandlerReady ==
    pc[EventThread] \in RestoreSteps => ENABLED <<ExitHandler>>_vars

\* Process p has exited with the session registered, and the handler is at this step.
Cleaning(p, step) == registeredPid = p /\ ~alive[p] /\ pc[EventThread] = step
Unregistered(p) == registeredPid # p
StepAfter == [res_check |-> "res_release", res_release |-> "res_suspend",
              res_suspend |-> "res_resume", res_resume |-> "res_unmap",
              res_unmap |-> "res_clear", res_clear |-> "idle"]

\* A step of the handler is the next one of vnzBridgeRestore; the last one unregisters.
LEMMA HandlerAdvances ==
  ASSUME Typed, NEW p \in Process, NEW step \in RestoreSteps, Cleaning(p, step), ExitHandler
  PROVE  Cleaning(p, StepAfter[step])' \/ registeredPid' # p
  <1> EventThread \in Actor /\ NoPid \notin Process
    BY ProcessAssumption DEF Actor
  <1>1. UNCHANGED alive
    BY DEF ExitHandler, RestoreCheck, RestoreEntry, Restore, RestoreRelease, ResetSuspend,
       ResetResume, RestoreUnmap, RestoreClear, system
  <1>2. \/ registeredPid' = NoPid
        \/ UNCHANGED registeredPid /\ Goto(EventThread, StepAfter[step])
    BY DEF Cleaning, ExitHandler, RestoreCheck, RestoreEntry, Restore, RestoreRelease,
       ResetSuspend, ResetResume, RestoreUnmap, RestoreClear, RestoreSteps, StepAfter, statics
  <1>3. QED
    BY <1>1, <1>2, GotoEffect DEF Cleaning

\* No step of anyone else moves the handler, or revives the process while it is registered.
LEMMA OthersLetHandlerBe ==
  ASSUME Typed, NEW p \in Process, NEW step \in RestoreSteps, Cleaning(p, step),
         [Next]_vars, ~ExitHandler
  PROVE  Cleaning(p, step)' \/ registeredPid' # p
  <1> EventThread \in Actor /\ EventThread \notin Thread /\ Thread \subseteq Actor
    BY ProcessAssumption DEF Actor
  <1>1. CASE \E t \in Thread : \/ Inject(t) /\ ~Refused
                               \/ Exec(t) /\ ~Refused
                               \/ RestoreCall(t) \/ Restore(t)
    <2>1. PICK t \in Thread : \/ Inject(t) /\ ~Refused
                              \/ Exec(t) /\ ~Refused
                              \/ RestoreCall(t) \/ Restore(t)
      BY <1>1
    <2>2. UNCHANGED alive
      BY <2>1 DEF Inject, InjectCall, InjectUserMap, InjectLoad, InjectPin,
         InjectBase, InjectRegister, Exec, ExecCall, ExecCopyIn, ExecLock, ExecRpc,
         MepRun, ExecUnlock, ExecCopyOut, RestoreCall, RestoreEntry, Restore,
         RestoreRelease, ResetSuspend, ResetResume, RestoreUnmap, RestoreClear, system
    <2>3. \E to : Goto(t, to)
      BY <2>1 DEF Return, Inject, InjectCall, InjectUserMap, InjectLoad, InjectPin,
         InjectBase, InjectRegister, Exec, ExecCall, ExecCopyIn, ExecLock, ExecRpc,
         MepRun, ExecUnlock, ExecCopyOut, RestoreCall, RestoreEntry, Restore,
         RestoreRelease, ResetSuspend, ResetResume, RestoreUnmap, RestoreClear
    <2>4. pc'[EventThread] = pc[EventThread]
      BY <2>3, GotoEffect
    <2>5. QED
      BY <2>2, <2>4 DEF Cleaning
  <1>2. CASE \E q \in Process : ExitEvent(q)
    <2>1. pc[EventThread] = "idle"
      BY <1>2 DEF ExitEvent
    <2>2. QED
      BY <2>1 DEF Cleaning, RestoreSteps
  <1>3. CASE \E q \in Process : Spawn(q)
    BY <1>3 DEF Spawn, Cleaning, RestoreSteps
  <1>4. CASE \/ \E t \in Thread : SuspendCalls(t)
             \/ \E b \in Block : PlaceAtBase(b)
             \/ UNCHANGED vars
    BY <1>4 DEF SuspendCalls, LockProcessSuspend, UnlockProcessSuspend, PlaceAtBase,
       statics, system, vars, Cleaning
  <1>5. QED
    BY <1>1, <1>2, <1>3, <1>4 DEF Next, Refused

\* Weak fairness of the exit handler is enough: when none of its steps ever blocks, the
\* session of a process that has exited is taken down in the end, whatever calls overlap.
THEOREM ExitIsCleanedUp == FairSpec /\ []HandlerReady => ExitCleansUp
  <1> SUFFICES ASSUME NEW p \in Process
               PROVE  FairSpec /\ []HandlerReady => (~alive[p] ~> Unregistered(p))
    BY DEF ExitCleansUp, Unregistered
  <1> DEFINE At(step) == Cleaning(p, step)
             Gone == Unregistered(p)
  <1>1. ASSUME NEW step \in RestoreSteps
        PROVE  /\ Typed /\ At(step) /\ [Next]_vars
                    => At(step)' \/ At(StepAfter[step])' \/ Gone'
               /\ Typed /\ At(step) /\ <<ExitHandler>>_vars
                    => At(StepAfter[step])' \/ Gone'
    BY HandlerAdvances, OthersLetHandlerBe DEF Unregistered
  <1>2. /\ Typed /\ At("res_check") /\ [Next]_vars
             => At("res_check")' \/ At("res_release")' \/ Gone'
        /\ Typed /\ At("res_check") /\ <<ExitHandler>>_vars => At("res_release")' \/ Gone'
    BY <1>1 DEF RestoreSteps, StepAfter
  <1>3. /\ Typed /\ At("res_release") /\ [Next]_vars
             => At("res_release")' \/ At("res_suspend")' \/ Gone'
        /\ Typed /\ At("res_release") /\ <<ExitHandler>>_vars => At("res_suspend")' \/ Gone'
    BY <1>1 DEF RestoreSteps, StepAfter
  <1>4. /\ Typed /\ At("res_suspend") /\ [Next]_vars
             => At("res_suspend")' \/ At("res_resume")' \/ Gone'
        /\ Typed /\ At("res_suspend") /\ <<ExitHandler>>_vars => At("res_resume")' \/ Gone'
    BY <1>1 DEF RestoreSteps, StepAfter
  <1>5. /\ Typed /\ At("res_resume") /\ [Next]_vars
             => At("res_resume")' \/ At("res_unmap")' \/ Gone'
        /\ Typed /\ At("res_resume") /\ <<ExitHandler>>_vars => At("res_unmap")' \/ Gone'
    BY <1>1 DEF RestoreSteps, StepAfter
  <1>6. /\ Typed /\ At("res_unmap") /\ [Next]_vars
             => At("res_unmap")' \/ At("res_clear")' \/ Gone'
        /\ Typed /\ At("res_unmap") /\ <<ExitHandler>>_vars => At("res_clear")' \/ Gone'
    BY <1>1 DEF RestoreSteps, StepAfter
  <1>7. /\ Typed /\ At("res_clear") /\ [Next]_vars
             => At("res_clear")' \/ At("idle")' \/ Gone'
        /\ Typed /\ At("res_clear") /\ <<ExitHandler>>_vars => At("idle")' \/ Gone'
    BY <1>1 DEF RestoreSteps, StepAfter
  <1>8. /\ HandlerReady /\ (\/ At("res_check") \/ At("res_release") \/ At("res_suspend")
                            \/ At("res_resume") \/ At("res_unmap") \/ At("res_clear"))
             => ENABLED <<ExitHandler>>_vars
        /\ DeadOwnerCleaned /\ ~alive[p]
             => \/ Gone \/ At("res_check") \/ At("res_release") \/ At("res_suspend")
                \/ At("res_resume") \/ At("res_unmap") \/ At("res_clear")
        /\ ~(DeadOwnerCleaned /\ At("idle"))
    BY DEF HandlerReady, DeadOwnerCleaned, Cleaning, RestoreSteps, Unregistered
  <1>9. Typed /\ LockInv => Typed
    OBVIOUS
  <1>10. QED
    BY <1>2, <1>3, <1>4, <1>5, <1>6, <1>7, <1>8, <1>9, LockInvariant, DeadAreCleaned, PTL
       DEF FairSpec, Spec
=============================================================================
