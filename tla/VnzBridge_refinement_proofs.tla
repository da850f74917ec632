---------------------- MODULE VnzBridge_refinement_proofs ----------------------
(***************************************************************************)
(* Under SessionRules, the plugin implements VnzSession: every step of the *)
(* statics opens or closes the session, starts or finishes an execution,   *)
(* or is invisible in it.                                                  *)
(***************************************************************************)
EXTENDS VnzBridge_session_proofs

Running == {t \in Thread : pc[t] \in ExecSteps}

\* What a step of one actor changes of the session besides s_registeredPid.
LEMMA RunningKept ==
  ASSUME NEW a \in Actor, \A u \in Actor \ {a} : pc'[u] = pc[u],
         a \in Thread => (pc[a] \notin ExecSteps /\ pc'[a] \notin ExecSteps)
                         \/ (pc[a] \in ExecSteps /\ pc'[a] \in ExecSteps)
  PROVE  Running' = Running
  BY DEF Running, Actor

LEMMA RestoringKept ==
  ASSUME NEW a \in Actor, \A u \in Actor \ {a} : pc'[u] = pc[u],
         TearingDown(a)' <=> TearingDown(a)
  PROVE  Restoring' = Restoring
  BY DEF Restoring, TearingDown

\* A step that changes nothing of the session.
LEMMA Invisible ==
  ASSUME UNCHANGED registeredPid, Running' = Running, Restoring' = Restoring
  PROVE  [Session!Next]_(Session!svars)
  BY DEF Session!svars, Running

LEMMA StutterInvisible ==
  ASSUME UNCHANGED <<pc, registeredPid>>
  PROVE  [Session!Next]_(Session!svars)
  BY Invisible DEF Running, Restoring, TearingDown

\* Only the store of s_registeredPid in Inject is visible: it opens the session.
LEMMA InjectImplements ==
  ASSUME SessionRules, Typed, ControlInv, NEW t \in Thread, Inject(t)
  PROVE  [Session!Next]_(Session!svars)
  <1> t \in Actor
    BY DEF Actor
  <1>1. CASE Refused
    BY <1>1, StutterInvisible DEF Refused, vars, statics
  <1>2. CASE ~Refused
    <2>1. /\ pc[t] \in {"idle"} \cup InjectSteps
          /\ Return(t) \/ \E step \in InjectSteps : Goto(t, step)
      BY <1>2 DEF Inject, InjectCall, MayCall, InjectUserMap, InjectLoad, InjectPin,
         InjectBase, InjectRegister, InjectSteps
    <2>2. /\ pc'[t] \in {"idle"} \cup InjectSteps
          /\ \A u \in Actor \ {t} : pc'[u] = pc[u]
      BY <2>1, GotoEffect, ReturnEffect
    <2>3. Running' = Running /\ Restoring' = Restoring
      BY <2>1, <2>2, RunningKept, RestoringKept, StepsApart DEF TearingDown
    <2>4. CASE InjectRegister(t)
      <3>1. registeredPid = NoPid /\ registeredPid' = ThreadProc[t]
            /\ ThreadProc[t] \in Process
        BY <2>4, ProcessAssumption DEF InjectRegister, ControlInv, InjectSteps
      <3>2. Session!Open(ThreadProc[t])
        BY <2>3, <3>1 DEF Session!Open, Running
      <3>3. QED
        BY <3>1, <3>2 DEF Session!Next
    <2>5. CASE ~InjectRegister(t)
      <3>1. UNCHANGED registeredPid
        BY <1>2, <2>5 DEF Inject, InjectCall, InjectUserMap, InjectLoad, InjectPin,
           InjectBase, statics
      <3>2. QED
        BY <2>3, <3>1, Invisible
    <2>6. QED
      BY <2>4, <2>5
  <1>3. QED
    BY <1>1, <1>2

\* An Exec that passes its checks starts an execution, its return finishes it.
LEMMA ExecImplements ==
  ASSUME SessionRules, Typed, ControlInv, NEW t \in Thread, Exec(t)
  PROVE  [Session!Next]_(Session!svars)
  <1> t \in Actor
    BY DEF Actor
  <1>1. CASE Refused
    BY <1>1, StutterInvisible DEF Refused, vars, statics
  <1>2. CASE ExecCall(t) /\ ~Refused
    <2>1. /\ MayCall(t, "exec") /\ registeredPid = ThreadProc[t]
          /\ UNCHANGED registeredPid
          /\ \E step \in ExecSteps : Goto(t, step)
      BY <1>2 DEF ExecCall, ExecAdmits, OwnSession, SessionRules, FirstStep, LockStep,
         ExecSteps, statics
    <2>2. pc'[t] \in ExecSteps /\ \A u \in Actor \ {t} : pc'[u] = pc[u]
      BY <2>1, GotoEffect
    <2>3. /\ pc[t] = "idle" /\ alive[ThreadProc[t]]
          /\ \A u \in Thread \ {t} : pc[u] \notin RestoreSteps
      BY <2>1, CallsAlone DEF Operation
    <2>4. \A u \in Actor : pc[u] \notin RestoreSteps
      <3>1. \A u \in Thread : pc[u] \notin RestoreSteps
        BY <2>3, StepsApart
      <3>2. QED
        BY <2>1, <2>3, <3>1, BesideExec
    <2>5. ~Restoring /\ ~TearingDown(t) /\ ~TearingDown(t)'
      BY <2>2, <2>4, StepsApart DEF Restoring, TearingDown
    <2>6. Restoring' = Restoring
      BY <2>2, <2>5, RestoringKept
    <2>7. t \notin Running /\ Running' = Running \cup {t}
      BY <2>2, <2>3, StepsApart DEF Running, Actor
    <2>8. Session!Start(t)
      BY <2>1, <2>5, <2>6, <2>7 DEF Session!Start, Running
    <2>9. QED
      BY <2>8 DEF Session!Next
  <1>3. CASE ~ExecCall(t)
    <2>1. /\ pc[t] \in ExecSteps /\ UNCHANGED registeredPid
          /\ Return(t) \/ \E step \in ExecSteps : Goto(t, step)
      BY <1>3 DEF Exec, ExecCopyIn, ExecLock, ExecRpc, MepRun, ExecUnlock, ExecCopyOut,
         LockStep, UnlockStep, ExecSteps, statics
    <2>2. /\ pc'[t] = "idle" \/ pc'[t] \in ExecSteps
          /\ \A u \in Actor \ {t} : pc'[u] = pc[u]
      BY <2>1, GotoEffect, ReturnEffect
    <2>3. Restoring' = Restoring
      BY <2>1, <2>2, RestoringKept, StepsApart DEF TearingDown
    <2>4. CASE pc'[t] = "idle"
      <3>1. t \in Running /\ Running' = Running \ {t}
        BY <2>1, <2>2, <2>4, StepsApart DEF Running, Actor
      <3>2. Session!Finish(t)
        BY <2>1, <2>3, <3>1 DEF Session!Finish, Running
      <3>3. QED
        BY <3>2 DEF Session!Next
    <2>5. CASE pc'[t] \in ExecSteps
      BY <2>1, <2>2, <2>3, <2>5, RunningKept, Invisible
    <2>6. QED
      BY <2>2, <2>4, <2>5
  <1>4. QED
    BY <1>1, <1>2, <1>3

\* Restore begins to close the session past its check, while no Exec runs, and closes
\* it with the last store.
LEMMA RestoreImplements ==
  ASSUME SessionRules, Typed, ControlInv, ControlInv', NEW a \in Actor,
         \/ a \in Thread /\ RestoreCall(a)
         \/ a = EventThread /\ RestoreCheck(a)
         \/ Restore(a)
  PROVE  [Session!Next]_(Session!svars)
  <1>1. CASE RestoreEntry(a) /\ pc[a] \in {"idle", "res_check"}
    <2>1. /\ UNCHANGED registeredPid
          /\ Goto(a, IF registeredPid = NoPid THEN "idle" ELSE "res_release")
      BY <1>1 DEF RestoreEntry, statics
    <2>2. /\ pc'[a] = IF registeredPid = NoPid THEN "idle" ELSE "res_release"
          /\ \A u \in Actor \ {a} : pc'[u] = pc[u]
      BY <2>1, GotoEffect
    <2>3. Running' = Running
      BY <1>1, <2>2, RunningKept, StepsApart DEF ExecSteps
    <2>4. CASE registeredPid = NoPid
      <3>1. ~TearingDown(a) /\ ~TearingDown(a)'
        BY <1>1, <2>2, <2>4 DEF TearingDown, RestoreSteps
      <3>2. QED
        BY <2>1, <2>2, <2>3, <3>1, RestoringKept, Invisible
    <2>5. CASE registeredPid # NoPid
      <3>1. pc'[a] \in RestoreSteps /\ TearingDown(a)' /\ ~TearingDown(a)
        BY <1>1, <2>2, <2>5 DEF TearingDown, RestoreSteps
      <3>2. \A u \in Actor \ {a} : pc'[u] \notin RestoreSteps \cup ExecSteps
        <4>1. \A u \in Thread \ {a} : pc'[u] \notin RestoreSteps \cup ExecSteps
          BY <3>1, StepsApart DEF ControlInv, Actor
        <4>2. a \in Thread => pc'[EventThread] \notin RestoreSteps \cup ExecSteps
          BY <3>1, StepsApart DEF ControlInv
        <4>3. QED
          BY <4>1, <4>2 DEF Actor
      <3>3. Running' = {}
        BY <3>1, <3>2, StepsApart DEF Running, Actor
      <3>4. ~Restoring /\ Restoring'
        BY <2>2, <3>1, <3>2 DEF Restoring, TearingDown
      <3>5. Session!BeginClose
        BY <2>1, <2>3, <2>5, <3>3, <3>4 DEF Session!BeginClose, Running
      <3>6. QED
        BY <3>5 DEF Session!Next
    <2>6. QED
      BY <2>4, <2>5
  <1>2. CASE Restore(a) /\ ~RestoreClear(a)
    <2>1. /\ pc[a] \in RestoreSteps \ {"res_check"} /\ UNCHANGED registeredPid
          /\ \E step \in RestoreSteps \ {"res_check"} : Goto(a, step)
      BY <1>2 DEF Restore, RestoreRelease, ResetSuspend, ResetResume, RestoreUnmap,
         RestoreSteps, statics
    <2>2. pc'[a] \in RestoreSteps \ {"res_check"} /\ \A u \in Actor \ {a} : pc'[u] = pc[u]
      BY <2>1, GotoEffect
    <2>3. QED
      BY <2>1, <2>2, RunningKept, RestoringKept, Invisible, StepsApart DEF TearingDown
  <1>3. CASE RestoreClear(a)
    <2>1. pc[a] = "res_clear" /\ pc[a] \in RestoreSteps /\ registeredPid' = NoPid
      BY <1>3 DEF RestoreClear, RestoreSteps
    <2>2. pc'[a] = "idle" /\ \A u \in Actor \ {a} : pc'[u] = pc[u]
      BY <1>3, GotoEffect DEF RestoreClear
    <2>3. \A u \in Actor \ {a} : pc[u] \notin RestoreSteps
      BY <2>1, InsideAlone
    <2>4. Restoring /\ Restoring' = FALSE
      BY <2>1, <2>2, <2>3, StepsApart DEF Restoring, TearingDown
    <2>5. Running' = Running
      BY <2>1, <2>2, RunningKept, StepsApart
    <2>6. Session!Close
      BY <2>1, <2>4, <2>5 DEF Session!Close, Running
    <2>7. QED
      BY <2>6 DEF Session!Next
  <1>4. QED
    BY <1>1, <1>2, <1>3 DEF RestoreCall, MayCall, RestoreCheck

\* The suspend lock and the kernel are invisible: the exit event only wakes the handler.
LEMMA KernelImplements ==
  ASSUME Typed,
         \/ \E t \in Thread : SuspendCalls(t)
         \/ \E p \in Process : ExitEvent(p) \/ Spawn(p)
         \/ \E b \in Block : PlaceAtBase(b)
  PROVE  [Session!Next]_(Session!svars)
  <1>1. CASE \E p \in Process : ExitEvent(p)
    <2>1. /\ pc[EventThread] = "idle" /\ UNCHANGED registeredPid
          /\ \E step \in {"idle", "res_check"} : Goto(EventThread, step)
      BY <1>1 DEF ExitEvent, ExitStep, statics
    <2>2. /\ pc'[EventThread] \in {"idle", "res_check"}
          /\ \A u \in Actor \ {EventThread} : pc'[u] = pc[u]
      BY <2>1, GotoEffect DEF Actor
    <2>3. EventThread \in Actor /\ EventThread \notin Thread
      BY ProcessAssumption DEF Actor
    <2>4. TearingDown(EventThread)' <=> TearingDown(EventThread)
      BY <2>1, <2>2, StepsApart DEF TearingDown
    <2>5. QED
      BY <2>1, <2>2, <2>3, <2>4, RunningKept, RestoringKept, Invisible
  <1>2. CASE ~ \E p \in Process : ExitEvent(p)
    BY <1>2, StutterInvisible DEF SuspendCalls, LockProcessSuspend,
       UnlockProcessSuspend, Spawn, PlaceAtBase, statics
  <1>3. QED
    BY <1>1, <1>2

\* Among callers that keep the session rules the plugin keeps the promise of its
\* header: one process at a time has code in the Venezia, its threads and no others
\* execute it, and it is taken away only while nobody executes it.
THEOREM ImplementsSession == SessionRules => (Spec => SessionSpec)
  <1> SUFFICES ASSUME SessionRules PROVE Spec => Session!Spec
    BY DEF SessionSpec
  <1>1. Init => Session!Init
    BY StepsApart DEF Init, Session!Init, Restoring, TearingDown, Actor
  <1>2. /\ Typed /\ LockInv /\ ControlInv /\ DataInv
        /\ (Typed /\ LockInv /\ ControlInv /\ DataInv)'
        /\ [Next]_vars
        => [Session!Next]_(Session!svars)
    <2> SUFFICES ASSUME Typed, ControlInv, ControlInv', [Next]_vars
                 PROVE  [Session!Next]_(Session!svars)
      OBVIOUS
    <2>1. CASE UNCHANGED vars
      BY <2>1, StutterInvisible DEF vars, statics
    <2>2. CASE \E t \in Thread : Inject(t)
      BY <2>2, InjectImplements
    <2>3. CASE \E t \in Thread : Exec(t)
      BY <2>3, ExecImplements
    <2>4. CASE (\E t \in Thread : RestoreCall(t) \/ Restore(t)) \/ ExitHandler
      BY <2>4, RestoreImplements DEF ExitHandler, Actor
    <2>5. CASE \/ \E t \in Thread : SuspendCalls(t)
               \/ \E p \in Process : ExitEvent(p) \/ Spawn(p)
               \/ \E b \in Block : PlaceAtBase(b)
      BY <2>5, KernelImplements
    <2>6. QED
      BY <2>1, <2>2, <2>3, <2>4, <2>5 DEF Next
  <1>3. QED
    BY <1>1, <1>2, SessionInvariant, PTL DEF Spec, Session!Spec

-----------------------------------------------------------------------------
(* VnzClock is written against the session alone: who owns it, and whether *)
(* it is being closed.  What VnzBridge does to those two is a behaviour of *)
(* the same specification with the executions left out, so every step of   *)
(* the session that the plugin can take is one that VnzClock admits.       *)

ClockSession == INSTANCE VnzSession WITH
    owner <- registeredPid, closing <- Restoring, running <- {}

\* An execution that starts or ends is not seen by who looks at the owner only.
LEMMA ExecutionsHidden ==
  [Session!Next]_(Session!svars) => [ClockSession!Next]_(ClockSession!svars)
  <1> SUFFICES ASSUME [Session!Next]_(Session!svars)
               PROVE  [ClockSession!Next]_(ClockSession!svars)
    OBVIOUS
  <1> USE DEF ClockSession!svars
  <1>1. CASE UNCHANGED Session!svars
    BY <1>1 DEF Session!svars
  <1>2. CASE \E p \in Process : Session!Open(p)
    BY <1>2 DEF Session!Open, ClockSession!Next, ClockSession!Open
  <1>3. CASE \E t \in Thread : Session!Start(t) \/ Session!Finish(t)
    BY <1>3 DEF Session!Start, Session!Finish
  <1>4. CASE Session!BeginClose
    BY <1>4 DEF Session!BeginClose, ClockSession!Next, ClockSession!BeginClose
  <1>5. CASE Session!Close
    BY <1>5 DEF Session!Close, ClockSession!Next, ClockSession!Close
  <1>6. QED
    BY <1>1, <1>2, <1>3, <1>4, <1>5 DEF Session!Next

\* The owner and the closing phase of the plugin's session are those of a session as
\* VnzClock has it: the theorems about the clock apply to every session VnzBridge makes.
THEOREM ImplementsClockSession == SessionRules => (Spec => ClockSession!Spec)
  <1>1. Session!Init => ClockSession!Init
    BY DEF Session!Init, ClockSession!Init
  <1>2. SessionRules => (Spec => Session!Spec)
    BY ImplementsSession DEF SessionSpec
  <1>3. QED
    BY <1>1, <1>2, ExecutionsHidden, PTL DEF Session!Spec, ClockSession!Spec
=============================================================================
