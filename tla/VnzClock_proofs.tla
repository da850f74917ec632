---------------------------- MODULE VnzClock_proofs ----------------------------
(***************************************************************************)
(* Proofs about VnzClock, for any processes, threads and frequencies asked *)
(* for: the types for any callers, the clock of the registered process for *)
(* callers that keep the discipline.                                       *)
(***************************************************************************)
EXTENDS VnzClock, TLAPS

\* Where an actor can be.
LEMMA Actors == /\ EventThread \in Actor /\ EventThread \notin Thread
                /\ Thread \subseteq Actor /\ Actor = Thread \cup {EventThread}
                /\ ThreadProc \in [Thread -> Process] /\ NoPid \notin Process
                /\ Default \in AllowedClock
  BY ClockAssumption DEF Actor, AllowedClock, Default

\* Set stores only what it has checked, and the handlers only what Set has stored.
THEOREM ClockTypeCorrect == Spec => []TypeOK
  <1>1. Init => TypeOK
    BY Actors DEF Init, TypeOK, Session!Init
  <1>2. TypeOK /\ [Next]_vars => TypeOK'
    <2> SUFFICES ASSUME TypeOK, [Next]_vars PROVE TypeOK'
      OBVIOUS
    <2>1. CASE UNCHANGED vars
      BY <2>1 DEF vars, session, kernel, history, TypeOK
    <2>2. ASSUME NEW t \in Thread, SetCall(t) PROVE TypeOK'
      <3>1. CASE UNCHANGED vars
        BY <3>1 DEF vars, session, kernel, history, TypeOK
      <3>2. CASE ~UNCHANGED vars
        <4>1. PICK c \in Requested :
                 /\ Legal(c)
                 /\ clock' = [clock EXCEPT ![t] = c]
                 /\ pc' = [pc EXCEPT ![t] = "set_target"]
                 /\ hasSet' = [hasSet EXCEPT ![ThreadProc[t]] = TRUE]
                 /\ overtaken' \in BOOLEAN
                 /\ UNCHANGED <<target, actual, session, kernel>>
          BY <2>2, <3>2 DEF SetCall, Goto
        <4>2. c \in AllowedClock
          BY <4>1 DEF Legal
        <4>3. QED
          BY <4>1, <4>2, Actors DEF TypeOK, session, kernel
      <3>3. QED
        BY <3>1, <3>2
    <2>3. ASSUME NEW t \in Thread, SetTarget(t) PROVE TypeOK'
      BY <2>3, Actors DEF SetTarget, Goto, TypeOK, session, kernel, history
    <2>4. ASSUME NEW a \in Actor, SetActual(a) \/ EventStore PROVE TypeOK'
      BY <2>4, Actors DEF SetActual, EventStore, StoreActual, Goto, TypeOK, session,
         kernel, history
    <2>5. ASSUME NEW t \in Thread, Inject(t) PROVE TypeOK'
      BY <2>5, Actors DEF Inject, Session!Open, TypeOK, kernel, history
    <2>6. ASSUME NEW t \in Thread, RestoreBegin(t) PROVE TypeOK'
      BY <2>6, Actors DEF RestoreBegin, Session!BeginClose, Goto, TypeOK, kernel, history
    <2>7. ASSUME NEW a \in Actor, RestoreEnd(a) PROVE TypeOK'
      BY <2>7, Actors DEF RestoreEnd, Session!Close, Goto, TypeOK, kernel, history
    <2>8. ASSUME NEW p \in Process, StopEvent(p) \/ StartEvent(p) PROVE TypeOK'
      <3>1. /\ stopped' \in [Process -> BOOLEAN]
            /\ \E c \in AllowedClock : Handle(p, c)
            /\ UNCHANGED <<target, actual, session, alive, hasSet>>
        BY <2>8, Actors DEF StopEvent, StartEvent, TypeOK
      <3>2. /\ pc' = pc \/ pc' = [pc EXCEPT ![EventThread] = "event_store"]
            /\ clock' \in [Actor -> AllowedClock]
        BY <3>1, Actors DEF Handle, Goto, TypeOK
      <3>3. overtaken' \in BOOLEAN
        BY <3>1 DEF Handle, Noted, TypeOK
      <3>4. QED
        BY <3>1, <3>2, <3>3, Actors DEF TypeOK, session
    <2>9. ASSUME NEW p \in Process, ExitEvent(p) PROVE TypeOK'
      <3>1. \E step \in {"idle", "exit_target", "exit_restore"} : Goto(EventThread, step)
        BY <2>9 DEF ExitEvent
      <3>2. overtaken' \in BOOLEAN
        BY <2>9 DEF ExitEvent, Noted, TypeOK
      <3>3. QED
        BY <2>9, <3>1, <3>2, Actors DEF ExitEvent, Tuned, Goto, TypeOK, session
    <2>10. ASSUME NEW p \in Process, Spawn(p) PROVE TypeOK'
      BY <2>10 DEF Spawn, TypeOK, session
    <2>11. ASSUME ExitTarget \/ ExitRestore PROVE TypeOK'
      BY <2>11, Actors DEF ExitTarget, ResetTarget, ExitRestore, Session!BeginClose, Goto,
         TypeOK, session, kernel, history
    <2>12. QED
      BY <2>1, <2>2, <2>3, <2>4, <2>5, <2>6, <2>7, <2>8, <2>9, <2>10, <2>11, Actors
         DEF Next
  <1>3. QED
    BY <1>1, <1>2, PTL DEF Spec

-----------------------------------------------------------------------------
(* Who changes the clock, and what the two words are meanwhile.            *)

SetSteps == {"set_target", "set_actual"}

\* One thread at a time changes the clock or closes the session, a thread of the
\* registered process; the exit handler does once that process is dead.
ChangerInv ==
    /\ \A t \in Thread : pc[t] # "idle" =>
          /\ pc[t] \in SetSteps \cup {"restoring"}
          /\ registeredPid = ThreadProc[t]
          /\ alive[ThreadProc[t]]
    /\ \A t, u \in Thread : pc[t] # "idle" /\ pc[u] # "idle" => t = u
    /\ pc[EventThread] \in {"idle", "event_store"} \/
          /\ pc[EventThread] \in {"restoring", "exit_target", "exit_restore"}
          /\ registeredPid \in Process /\ ~alive[registeredPid]
    /\ \A p \in Process : stopped[p] => alive[p]

\* What a Set carries, and what the exit handler has done to our word.
CarriedInv ==
    /\ \A t \in Thread : pc[t] = "set_actual" => clock[t] = target
    /\ pc[EventThread] \in {"exit_restore", "restoring"} => target = Default

\* When no event has overtaken a call: an owner inside a call is not stopped, an event
\* handler is beside no Set, and but for a store under way the kernel's word is right.
Setting == \E t \in Thread : pc[t] \in SetSteps
WordsInv ==
    /\ \A t \in Thread : pc[t] # "idle" => ~stopped[ThreadProc[t]]
    /\ Setting => pc[EventThread] = "idle"
    /\ pc[EventThread] = "event_store" =>
          target # Default /\ clock[EventThread] = Expected
    /\ pc[EventThread] = "exit_target" => actual = Default
    /\ ~Setting /\ pc[EventThread] \notin {"event_store", "exit_target"} =>
          actual = Expected

ClockInv == ChangerInv /\ CarriedInv /\ (~overtaken => WordsInv)

USE DEF Session!Open, Session!BeginClose, Session!Close, Session!Init

\* What the steps of a Set do.
LEMMA SetCallKeeps ==
  ASSUME TypeOK, TypeOK', ClockInv, Disciplined, NEW t \in Thread, SetCall(t),
         ~UNCHANGED vars
  PROVE  ClockInv'
  <1>1. PICK c \in Requested :
           /\ clock' = [clock EXCEPT ![t] = c]
           /\ pc' = [pc EXCEPT ![t] = "set_target"]
           /\ overtaken' = (pc[EventThread] # "idle")
           /\ UNCHANGED <<target, actual, registeredPid, alive, stopped>>
    BY DEF SetCall, Goto, session, kernel
  <1>2. /\ registeredPid = ThreadProc[t] /\ alive[ThreadProc[t]]
        /\ ~stopped[ThreadProc[t]] /\ \A u \in Thread : pc[u] = "idle"
    BY DEF SetCall, MayCall, MayChange
  <1>3. pc'[t] = "set_target" /\ \A a \in Actor : a # t => pc'[a] = pc[a]
    BY <1>1, Actors DEF TypeOK
  <1>4. pc[EventThread] \in {"idle", "event_store"} /\ pc'[EventThread] = pc[EventThread]
    BY <1>2, <1>3, Actors DEF ClockInv, ChangerInv
  <1>5. ChangerInv'
    BY <1>1, <1>2, <1>3, <1>4, Actors DEF ClockInv, ChangerInv, SetSteps
  <1>6. CarriedInv'
    BY <1>2, <1>3, <1>4, Actors DEF CarriedInv
  <1>7. Setting'
    BY <1>3 DEF Setting, SetSteps
  <1>8. ~overtaken' => WordsInv'
    BY <1>1, <1>2, <1>3, <1>4, <1>7, Actors DEF WordsInv
  <1>9. QED
    BY <1>5, <1>6, <1>8 DEF ClockInv

LEMMA SetTargetKeeps ==
  ASSUME TypeOK, TypeOK', ClockInv, NEW t \in Thread, SetTarget(t)
  PROVE  ClockInv'
  <1>1. /\ pc[t] = "set_target" /\ pc' = [pc EXCEPT ![t] = "set_actual"]
        /\ target' = clock[t]
        /\ UNCHANGED <<clock, actual, registeredPid, alive, stopped, overtaken>>
    BY DEF SetTarget, Goto, session, kernel, history
  <1>2. pc'[t] = "set_actual" /\ \A a \in Actor : a # t => pc'[a] = pc[a]
    BY <1>1, Actors DEF TypeOK
  <1>3. /\ registeredPid = ThreadProc[t] /\ alive[ThreadProc[t]]
        /\ \A u \in Thread : u # t => pc[u] = "idle"
        /\ pc[EventThread] \in {"idle", "event_store"}
    BY <1>1, Actors DEF ClockInv, ChangerInv
  <1>4. ChangerInv'
    BY <1>1, <1>2, <1>3, Actors DEF ClockInv, ChangerInv, SetSteps
  <1>5. CarriedInv'
    BY <1>1, <1>2, <1>3, Actors DEF CarriedInv
  <1>6. Setting /\ Setting'
    BY <1>1, <1>2 DEF Setting, SetSteps
  <1>7. ~overtaken' => WordsInv'
    BY <1>1, <1>2, <1>3, <1>6, Actors DEF ClockInv, WordsInv
  <1>8. QED
    BY <1>4, <1>5, <1>7 DEF ClockInv

LEMMA SetActualKeeps ==
  ASSUME TypeOK, TypeOK', ClockInv, NEW t \in Thread, SetActual(t)
  PROVE  ClockInv'
  <1>1. /\ pc[t] = "set_actual" /\ pc' = [pc EXCEPT ![t] = "idle"]
        /\ actual' = clock[t] /\ clock' = [clock EXCEPT ![t] = Default]
        /\ UNCHANGED <<target, registeredPid, alive, stopped, overtaken>>
    BY DEF SetActual, StoreActual, Goto, session, kernel, history
  <1>2. pc'[t] = "idle" /\ \A a \in Actor : a # t => pc'[a] = pc[a]
    BY <1>1, Actors DEF TypeOK
  <1>3. /\ registeredPid = ThreadProc[t] /\ alive[ThreadProc[t]] /\ clock[t] = target
        /\ \A u \in Thread : u # t => pc[u] = "idle"
        /\ pc[EventThread] \in {"idle", "event_store"}
    BY <1>1, Actors DEF ClockInv, ChangerInv, CarriedInv
  <1>4. ChangerInv'
    BY <1>1, <1>2, <1>3, Actors DEF ClockInv, ChangerInv
  <1>5. CarriedInv'
    BY <1>1, <1>2, <1>3, Actors DEF CarriedInv
  <1>6. Setting /\ ~Setting'
    BY <1>1, <1>2, <1>3, Actors DEF Setting, SetSteps
  <1>7. ~overtaken' => WordsInv'
    <2> SUFFICES ASSUME ~overtaken PROVE WordsInv'
      BY <1>1
    <2>1. pc[EventThread] = "idle" /\ ~stopped[registeredPid]
      BY <1>1, <1>3, <1>6 DEF ClockInv, WordsInv
    <2>2. actual' = Expected'
      BY <1>1, <1>3, <2>1 DEF Expected
    <2>3. QED
      BY <1>1, <1>2, <1>3, <1>6, <2>1, <2>2, Actors DEF WordsInv
  <1>8. QED
    BY <1>4, <1>5, <1>7 DEF ClockInv

\* Inject and Restore change the owner only while what the words should be stays.
LEMMA SessionKeeps ==
  ASSUME TypeOK, TypeOK', ClockInv, Disciplined
  PROVE  /\ \A t \in Thread : Inject(t) => ClockInv'
         /\ \A t \in Thread : RestoreBegin(t) => ClockInv'
         /\ \A a \in Actor : RestoreEnd(a) => ClockInv'
  <1>1. ASSUME NEW t \in Thread, Inject(t) PROVE ClockInv'
    <2>1. /\ registeredPid = NoPid /\ registeredPid' = ThreadProc[t]
          /\ ~stopped[ThreadProc[t]]
          /\ UNCHANGED <<pc, clock, target, actual, alive, stopped, overtaken>>
      BY <1>1 DEF Inject, MayCall, kernel, history
    <2>2. /\ \A u \in Thread : pc[u] = "idle"
          /\ pc[EventThread] \in {"idle", "event_store"}
      BY <2>1, Actors DEF ClockInv, ChangerInv
    <2>3. Expected' = Expected /\ Setting' = Setting
      BY <2>1, Actors DEF Expected, Setting
    <2>4. ChangerInv' /\ CarriedInv'
      BY <2>1, <2>2, Actors DEF ClockInv, ChangerInv, CarriedInv
    <2>5. ~overtaken' => WordsInv'
      BY <2>1, <2>2, <2>3, Actors DEF ClockInv, WordsInv
    <2>6. QED
      BY <2>4, <2>5 DEF ClockInv
  <1>2. ASSUME NEW t \in Thread, RestoreBegin(t) PROVE ClockInv'
    <2>1. /\ pc[t] = "idle" /\ pc' = [pc EXCEPT ![t] = "restoring"]
          /\ registeredPid = ThreadProc[t] /\ alive[ThreadProc[t]]
          /\ ~stopped[ThreadProc[t]] /\ \A u \in Thread : pc[u] = "idle"
          /\ UNCHANGED <<registeredPid, clock, target, actual, alive, stopped, overtaken>>
      BY <1>2 DEF RestoreBegin, MayCall, MayChange, Goto, kernel, history
    <2>2. pc'[t] = "restoring" /\ \A a \in Actor : a # t => pc'[a] = pc[a]
      BY <2>1, Actors DEF TypeOK
    <2>3. /\ pc[EventThread] \in {"idle", "event_store"}
          /\ pc'[EventThread] = pc[EventThread]
      BY <2>1, <2>2, Actors DEF ClockInv, ChangerInv
    <2>4. Expected' = Expected /\ ~Setting /\ ~Setting'
      BY <2>1, <2>2, Actors DEF Expected, Setting, SetSteps
    <2>5. ChangerInv' /\ CarriedInv'
      BY <2>1, <2>2, <2>3, Actors DEF ClockInv, ChangerInv, CarriedInv
    <2>6. ~overtaken' => WordsInv'
      BY <2>1, <2>2, <2>3, <2>4, Actors DEF ClockInv, WordsInv
    <2>7. QED
      BY <2>5, <2>6 DEF ClockInv
  <1>3. ASSUME NEW a \in Actor, RestoreEnd(a) PROVE ClockInv'
    <2>1. /\ pc[a] = "restoring" /\ pc' = [pc EXCEPT ![a] = "idle"]
          /\ registeredPid' = NoPid
          /\ UNCHANGED <<clock, target, actual, alive, stopped, overtaken>>
      BY <1>3 DEF RestoreEnd, Goto, kernel, history
    <2>2. /\ \A u \in Thread : u # a => pc[u] = "idle"
          /\ a # EventThread => pc[EventThread] \in {"idle", "event_store"}
      BY <2>1, Actors DEF ClockInv, ChangerInv
    <2>3. pc'[a] = "idle" /\ \A b \in Actor : b # a => pc'[b] = pc[b]
      BY <2>1, Actors DEF TypeOK
    <2>4. ChangerInv' /\ CarriedInv'
      BY <2>1, <2>2, <2>3, Actors DEF ClockInv, ChangerInv, CarriedInv
    <2>5. ~Setting /\ ~Setting'
      BY <2>1, <2>2, <2>3, Actors DEF Setting, SetSteps
    <2>6. ~overtaken' => WordsInv'
      <3> SUFFICES ASSUME ~overtaken PROVE WordsInv'
        BY <2>1
      <3>1. registeredPid # NoPid => ~stopped[registeredPid]
        BY <2>1, Actors DEF ClockInv, ChangerInv, WordsInv
      <3>2. Expected' = Expected
        BY <2>1, <3>1 DEF Expected
      <3>3. QED
        BY <2>1, <2>2, <2>3, <2>5, <3>2, Actors DEF ClockInv, WordsInv
    <2>7. QED
      BY <2>4, <2>6 DEF ClockInv
  <1>4. QED
    BY <1>1, <1>2, <1>3

\* A stop or start puts the words right or is seen to overtake a call.
LEMMA HandleKeeps ==
  ASSUME TypeOK, TypeOK', ClockInv, NEW p \in Process, NEW s \in BOOLEAN,
         s => alive[p],
         Handle(p, IF s THEN Default ELSE target),
         stopped' = [stopped EXCEPT ![p] = s],
         UNCHANGED <<target, actual, session, alive>>
  PROVE  ClockInv'
  <1>1. /\ pc[EventThread] = "idle" /\ Noted(p)
        /\ IF Tuned(p)
           THEN /\ clock' = [clock EXCEPT ![EventThread] = IF s THEN Default ELSE target]
                /\ pc' = [pc EXCEPT ![EventThread] = "event_store"]
           ELSE UNCHANGED <<pc, clock>>
        /\ UNCHANGED <<target, actual, registeredPid, alive>>
    BY DEF Handle, Goto, session
  <1>2. \A u \in Thread : pc'[u] = pc[u] /\ clock'[u] = clock[u]
    BY <1>1, Actors DEF TypeOK
  <1>3. pc'[EventThread] = IF Tuned(p) THEN "event_store" ELSE "idle"
    BY <1>1, Actors DEF TypeOK
  <1>4. stopped'[p] = s /\ \A q \in Process : q # p => stopped'[q] = stopped[q]
    BY DEF TypeOK
  <1>5. ChangerInv' /\ CarriedInv'
    BY <1>1, <1>2, <1>3, <1>4, Actors DEF ClockInv, ChangerInv, CarriedInv
  <1>6. Setting' = Setting
    BY <1>2 DEF Setting
  <1>7. ~overtaken' => WordsInv'
    <2> SUFFICES ASSUME ~overtaken' PROVE WordsInv'
      OBVIOUS
    <2>1. CASE registeredPid = p
      <3>1. /\ \A t \in Thread : pc[t] = "idle"
            /\ ~overtaken \/ target # Default
        BY <1>1, <2>1, Actors DEF Noted, Quiet, ThreadsOf, ClockInv, ChangerInv
      <3>2. ~Setting'
        BY <1>6, <3>1 DEF Setting, SetSteps
      <3>3. Expected' = IF s THEN Default ELSE target
        BY <1>1, <1>4, <2>1, Actors DEF Expected
      <3>4. CASE target # Default
        <4>1. Tuned(p) /\ pc'[EventThread] = "event_store" /\ clock'[EventThread] = Expected'
          BY <1>1, <1>3, <2>1, <3>3, <3>4, Actors DEF Tuned, TypeOK
        <4>2. QED
          BY <1>1, <1>2, <3>1, <3>2, <3>4, <4>1 DEF WordsInv
      <3>5. CASE target = Default
        <4>1. ~overtaken /\ ~Tuned(p) /\ pc'[EventThread] = "idle"
          BY <1>3, <3>1, <3>5 DEF Tuned
        <4>2. actual = Default /\ Expected' = Default
          BY <1>1, <1>6, <3>2, <3>3, <3>5, <4>1 DEF ClockInv, WordsInv, Expected
        <4>3. QED
          BY <1>1, <1>2, <3>1, <3>2, <4>1, <4>2 DEF WordsInv
      <3>6. QED
        BY <3>4, <3>5
    <2>2. CASE registeredPid # p
      <3>1. ~overtaken /\ ~Tuned(p) /\ UNCHANGED <<pc, clock>>
        BY <1>1, <2>2 DEF Noted, Tuned
      <3>2. registeredPid # NoPid => stopped'[registeredPid] = stopped[registeredPid]
        BY <1>4, <2>2 DEF TypeOK
      <3>3. Expected' = Expected
        BY <1>1, <3>2 DEF Expected
      <3>4. \A t \in Thread : pc[t] # "idle" => stopped'[ThreadProc[t]] = stopped[ThreadProc[t]]
        BY <1>4, <2>2, Actors DEF ClockInv, ChangerInv
      <3>5. QED
        BY <1>1, <1>6, <3>1, <3>3, <3>4 DEF ClockInv, WordsInv
    <2>3. QED
      BY <2>1, <2>2
  <1>8. QED
    BY <1>5, <1>7 DEF ClockInv

LEMMA StoreKeeps ==
  ASSUME TypeOK, TypeOK', ClockInv, EventStore
  PROVE  ClockInv'
  <1>1. /\ pc[EventThread] = "event_store" /\ pc' = [pc EXCEPT ![EventThread] = "idle"]
        /\ actual' = clock[EventThread]
        /\ clock' = [clock EXCEPT ![EventThread] = Default]
        /\ UNCHANGED <<target, registeredPid, alive, stopped, overtaken>>
    BY DEF EventStore, StoreActual, Goto, session, kernel, history
  <1>2. /\ pc'[EventThread] = "idle"
        /\ \A u \in Thread : pc'[u] = pc[u] /\ clock'[u] = clock[u]
    BY <1>1, Actors DEF TypeOK
  <1>3. ChangerInv' /\ CarriedInv'
    BY <1>1, <1>2, Actors DEF ClockInv, ChangerInv, CarriedInv
  <1>4. Setting' = Setting /\ Expected' = Expected
    BY <1>1, <1>2 DEF Setting, Expected
  <1>5. ~overtaken' => WordsInv'
    BY <1>1, <1>2, <1>4 DEF ClockInv, WordsInv
  <1>6. QED
    BY <1>3, <1>5 DEF ClockInv

\* An exit finds its process out of its calls.
LEMMA ExitEventKeeps ==
  ASSUME TypeOK, TypeOK', ClockInv, NEW p \in Process, ExitEvent(p)
  PROVE  ClockInv'
  <1>1. /\ alive[p] /\ pc[EventThread] = "idle" /\ Noted(p)
        /\ \A t \in ThreadsOf(p) : pc[t] = "idle"
        /\ alive' = [alive EXCEPT ![p] = FALSE]
        /\ stopped' = [stopped EXCEPT ![p] = FALSE]
        /\ UNCHANGED <<clock, target, registeredPid>>
        /\ actual' = IF Tuned(p) THEN Default ELSE actual
    BY DEF ExitEvent, Quiet, session
  <1>2. \A q \in Process : q # p => alive'[q] = alive[q] /\ stopped'[q] = stopped[q]
    BY <1>1 DEF TypeOK
  <1>3. ~alive'[p] /\ ~stopped'[p]
    BY <1>1 DEF TypeOK
  <1>4. CASE registeredPid = p
    <2>1. \A t \in Thread : pc[t] = "idle"
      BY <1>1, <1>4, Actors DEF ThreadsOf, ClockInv, ChangerInv
    <2>2. \/ Tuned(p) /\ pc' = [pc EXCEPT ![EventThread] = "exit_target"]
          \/ ~Tuned(p) /\ pc' = [pc EXCEPT ![EventThread] = "exit_restore"]
      BY <1>4 DEF ExitEvent, Tuned, Goto
    <2>3. /\ \A t \in Thread : pc'[t] = "idle"
          /\ pc'[EventThread] = IF Tuned(p) THEN "exit_target" ELSE "exit_restore"
          /\ Tuned(p) <=> target # Default
      BY <1>4, <2>1, <2>2, Actors DEF Tuned, TypeOK
    <2>4. ChangerInv' /\ CarriedInv'
      BY <1>1, <1>2, <1>3, <1>4, <2>3, Actors DEF ClockInv, ChangerInv, CarriedInv
    <2>5. ~Setting /\ ~Setting'
      BY <2>1, <2>3 DEF Setting, SetSteps
    <2>6. ~overtaken' => WordsInv'
      <3> SUFFICES ASSUME ~overtaken' PROVE WordsInv'
        OBVIOUS
      <3>1. target = Default => ~overtaken
        BY <1>1, <1>4 DEF Noted
      <3>2. target = Default => actual' = Default /\ Expected' = Default
        BY <1>1, <1>3, <1>4, <2>3, <2>5, <3>1 DEF ClockInv, WordsInv, Expected
      <3>3. QED
        BY <1>1, <2>3, <2>5, <3>2 DEF WordsInv
    <2>7. QED
      BY <2>4, <2>6 DEF ClockInv
  <1>5. CASE registeredPid # p
    <2>1. pc' = [pc EXCEPT ![EventThread] = "idle"]
      BY <1>5 DEF ExitEvent, Tuned, Goto
    <2>2. pc' = pc /\ actual' = actual /\ overtaken' = overtaken
      BY <1>1, <1>5, <2>1, Actors DEF TypeOK, Noted, Tuned
    <2>3. ChangerInv' /\ CarriedInv'
      BY <1>1, <1>2, <1>3, <1>5, <2>2, Actors DEF ClockInv, ChangerInv, CarriedInv, ThreadsOf
    <2>4. registeredPid # NoPid => stopped'[registeredPid] = stopped[registeredPid]
      BY <1>2, <1>5 DEF TypeOK
    <2>5. Expected' = Expected /\ Setting' = Setting
      BY <1>1, <2>2, <2>4 DEF Expected, Setting
    <2>6. \A t \in Thread : pc[t] # "idle" => stopped'[ThreadProc[t]] = stopped[ThreadProc[t]]
      BY <1>2, <1>5, Actors DEF ClockInv, ChangerInv
    <2>7. ~overtaken' => WordsInv'
      BY <1>1, <2>2, <2>5, <2>6 DEF ClockInv, WordsInv
    <2>8. QED
      BY <2>3, <2>7 DEF ClockInv
  <1>6. QED
    BY <1>4, <1>5

LEMMA SpawnKeeps ==
  ASSUME TypeOK, TypeOK', ClockInv, NEW p \in Process, Spawn(p)
  PROVE  ClockInv'
  <1>1. /\ ~alive[p] /\ registeredPid # p /\ alive' = [alive EXCEPT ![p] = TRUE]
        /\ UNCHANGED <<pc, clock, target, actual, registeredPid, stopped, overtaken>>
    BY DEF Spawn, session
  <1>2. ChangerInv' /\ CarriedInv'
    BY <1>1, Actors DEF ClockInv, ChangerInv, CarriedInv, TypeOK
  <1>3. Expected' = Expected /\ Setting' = Setting
    BY <1>1 DEF Expected, Setting
  <1>4. ~overtaken' => WordsInv'
    BY <1>1, <1>3 DEF ClockInv, WordsInv
  <1>5. QED
    BY <1>2, <1>4 DEF ClockInv

\* The exit handler resets our word before it restores.
LEMMA ExitKeeps ==
  ASSUME TypeOK, TypeOK', ClockInv, ExitTarget \/ ExitRestore
  PROVE  ClockInv'
  <1>1. /\ pc[EventThread] \in {"exit_target", "exit_restore"}
        /\ registeredPid \in Process /\ ~alive[registeredPid]
        /\ \A t \in Thread : pc[t] = "idle"
        /\ ~stopped[registeredPid]
    BY Actors DEF ExitTarget, ExitRestore, ClockInv, ChangerInv
  <1>2. /\ UNCHANGED <<registeredPid, clock, actual, alive, stopped, overtaken>>
        /\ target' = Default
        /\ \/ pc' = [pc EXCEPT ![EventThread] = "exit_restore"]
           \/ pc' = [pc EXCEPT ![EventThread] = "restoring"]
    BY <1>1, Actors DEF ExitTarget, ResetTarget, ExitRestore, Goto, session, kernel,
       history, ClockInv, CarriedInv
  <1>3. /\ pc'[EventThread] \in {"exit_restore", "restoring"}
        /\ \A t \in Thread : pc'[t] = "idle"
    BY <1>1, <1>2, Actors DEF TypeOK
  <1>4. ChangerInv' /\ CarriedInv'
    BY <1>1, <1>2, <1>3, Actors DEF ClockInv, ChangerInv, CarriedInv
  <1>5. ~Setting /\ Expected' = Default
    BY <1>1, <1>2 DEF Setting, SetSteps, Expected
  <1>6. pc[EventThread] = "exit_restore" => Expected = Default
    BY <1>1 DEF ClockInv, CarriedInv, Expected
  <1>7. ~overtaken' => WordsInv'
    BY <1>1, <1>2, <1>3, <1>5, <1>6 DEF ClockInv, WordsInv, Setting, SetSteps
  <1>8. QED
    BY <1>4, <1>7 DEF ClockInv

LEMMA ClockInvariant == Disciplined => (Spec => []ClockInv)
  <1> SUFFICES ASSUME Disciplined PROVE Spec => []ClockInv
    OBVIOUS
  <1>1. Init => ClockInv
    BY Actors DEF Init, ClockInv, ChangerInv, CarriedInv, WordsInv, Expected, Setting,
       SetSteps
  <1>2. TypeOK /\ TypeOK' /\ ClockInv /\ [Next]_vars => ClockInv'
    <2> SUFFICES ASSUME TypeOK, TypeOK', ClockInv, [Next]_vars PROVE ClockInv'
      OBVIOUS
    <2>1. CASE UNCHANGED vars
      BY <2>1 DEF vars, session, kernel, history, ClockInv, ChangerInv, CarriedInv,
         WordsInv, Expected, Setting
    <2>2. ASSUME NEW p \in Process, StopEvent(p) PROVE ClockInv'
      <3>1. Handle(p, IF TRUE THEN Default ELSE target)
        BY <2>2 DEF StopEvent
      <3>2. QED
        BY <2>2, <3>1, HandleKeeps DEF StopEvent
    <2>3. ASSUME NEW p \in Process, StartEvent(p) PROVE ClockInv'
      <3>1. Handle(p, IF FALSE THEN Default ELSE target)
        BY <2>3 DEF StartEvent
      <3>2. QED
        BY <2>3, <3>1, HandleKeeps DEF StartEvent
    <2>4. CASE Next /\ ~UNCHANGED vars
      BY <2>2, <2>3, <2>4, SetCallKeeps, SetTargetKeeps, SetActualKeeps, SessionKeeps,
         StoreKeeps, ExitEventKeeps, SpawnKeeps, ExitKeeps, Actors DEF Next
    <2>5. QED
      BY <2>1, <2>4
  <1>3. QED
    BY <1>1, <1>2, ClockTypeCorrect, PTL DEF Spec

\* Under the discipline, only a stop or start handled beside a call of its process
\* leaves the kernel's word at another clock than the owner's state calls for.
THEOREM OwnersClock == Disciplined => (Spec => []ClockFollowsOwner)
  <1>1. ClockInv => ClockFollowsOwner
    BY Actors DEF ClockInv, WordsInv, ClockFollowsOwner, Settled, Setting, SetSteps
  <1>2. QED
    BY <1>1, ClockInvariant, PTL

-----------------------------------------------------------------------------
(* What a session inherits, when programs reset the clock before Restore.  *)

InheritInv ==
    /\ registeredPid # NoPid /\ ~hasSet[registeredPid] => target = Default
    /\ registeredPid = NoPid \/ closing => target = Default
    /\ closing => \E a \in Actor : pc[a] = "restoring"
    /\ \A t \in Thread : pc[t] \in SetSteps => hasSet[ThreadProc[t]]

\* A call keeps what sessions inherit.
LEMMA CallsInherit ==
  ASSUME TypeOK, ClockInv, InheritInv, Disciplined, ResetsFirst, NEW t \in Thread
  PROVE  /\ SetCall(t) /\ ~UNCHANGED vars => InheritInv'
         /\ SetTarget(t) => InheritInv'
         /\ SetActual(t) => InheritInv'
         /\ Inject(t) => InheritInv'
         /\ RestoreBegin(t) => InheritInv'
  <1>1. ASSUME SetCall(t), ~UNCHANGED vars PROVE InheritInv'
    <2>1. /\ hasSet' = [hasSet EXCEPT ![ThreadProc[t]] = TRUE]
          /\ pc' = [pc EXCEPT ![t] = "set_target"]
          /\ registeredPid = ThreadProc[t] /\ alive[registeredPid]
          /\ \A u \in Thread : pc[u] = "idle"
          /\ UNCHANGED <<registeredPid, closing, target>>
      BY <1>1 DEF SetCall, MayCall, MayChange, Goto, session
    <2>2. hasSet'[registeredPid] /\ \A u \in Thread : u # t => pc'[u] = "idle"
      BY <2>1, Actors DEF TypeOK
    <2>3. \A a \in Actor : pc[a] # "restoring"
      BY <2>1, Actors DEF ClockInv, ChangerInv
    <2>4. ~closing /\ registeredPid # NoPid
      BY <2>1, <2>3, Actors DEF InheritInv
    <2>5. QED
      BY <2>1, <2>2, <2>4 DEF InheritInv, SetSteps
  <1>2. ASSUME SetTarget(t) \/ SetActual(t) PROVE InheritInv'
    <2>1. /\ pc[t] \in SetSteps
          /\ \E step \in {"idle", "set_actual"} : pc' = [pc EXCEPT ![t] = step]
          /\ UNCHANGED <<registeredPid, closing, hasSet>>
      BY <1>2 DEF SetTarget, SetActual, StoreActual, Goto, session, history, SetSteps
    <2>2. /\ registeredPid = ThreadProc[t] /\ registeredPid # NoPid
          /\ hasSet[registeredPid] /\ alive[registeredPid]
          /\ \A u \in Thread : u # t => pc[u] = "idle"
      BY <2>1, Actors DEF ClockInv, ChangerInv, InheritInv, SetSteps
    <2>3. \A a \in Actor : pc[a] # "restoring"
      BY <2>1, <2>2, Actors DEF ClockInv, ChangerInv, SetSteps
    <2>4. ~closing /\ \A u \in Thread : pc'[u] \in SetSteps => u = t
      BY <2>1, <2>2, <2>3, Actors DEF InheritInv, TypeOK, SetSteps
    <2>5. QED
      BY <2>1, <2>2, <2>4 DEF InheritInv
  <1>3. ASSUME Inject(t) PROVE InheritInv'
    <2>1. /\ registeredPid = NoPid
          /\ UNCHANGED <<pc, target, closing, hasSet>>
      BY <1>3 DEF Inject, history
    <2>2. QED
      BY <2>1 DEF InheritInv
  <1>4. ASSUME RestoreBegin(t) PROVE InheritInv'
    <2>1. /\ target = Default /\ registeredPid' = registeredPid
          /\ pc' = [pc EXCEPT ![t] = "restoring"]
          /\ UNCHANGED <<target, hasSet>>
      BY <1>4 DEF RestoreBegin, Goto, history
    <2>2. pc'[t] = "restoring" /\ \A u \in Thread : u # t => pc'[u] = pc[u]
      BY <2>1, Actors DEF TypeOK
    <2>3. QED
      BY <2>1, <2>2, Actors DEF InheritInv, SetSteps
  <1>5. QED
    BY <1>1, <1>2, <1>3, <1>4

\* The event thread's steps that do not restore, and restart.
LEMMA EventsInherit ==
  ASSUME TypeOK, InheritInv, pc[EventThread] # "restoring",
         UNCHANGED <<registeredPid, closing, hasSet>>,
         target' \in {target, Default},
         NEW step \in {"idle", "event_store", "exit_target", "exit_restore"},
         pc' = pc \/ pc' = [pc EXCEPT ![EventThread] = step]
  PROVE  InheritInv'
  <1>1. \A t \in Thread : pc'[t] = pc[t]
    BY Actors DEF TypeOK
  <1>2. \A a \in Actor : pc[a] = "restoring" => pc'[a] = "restoring"
    BY Actors DEF TypeOK
  <1>3. QED
    BY <1>1, <1>2 DEF InheritInv

LEMMA HandlersInherit ==
  ASSUME TypeOK, ClockInv, InheritInv
  PROVE  /\ \A a \in Actor : RestoreEnd(a) => InheritInv'
         /\ \A p \in Process : StopEvent(p) \/ StartEvent(p) => InheritInv'
         /\ EventStore => InheritInv'
         /\ \A p \in Process : ExitEvent(p) => InheritInv'
         /\ \A p \in Process : Spawn(p) => InheritInv'
         /\ ExitTarget => InheritInv'
         /\ ExitRestore => InheritInv'
  <1>1. ASSUME NEW a \in Actor, RestoreEnd(a) PROVE InheritInv'
    <2>1. /\ closing /\ registeredPid' = NoPid /\ closing' = FALSE
          /\ pc' = [pc EXCEPT ![a] = "idle"]
          /\ UNCHANGED <<target, hasSet>>
      BY <1>1 DEF RestoreEnd, Goto, history
    <2>2. \A t \in Thread : pc'[t] \in SetSteps => pc[t] \in SetSteps
      BY <2>1 DEF TypeOK, SetSteps
    <2>3. QED
      BY <2>1, <2>2 DEF InheritInv
  <1>2. ASSUME NEW p \in Process, StopEvent(p) \/ StartEvent(p) PROVE InheritInv'
    BY <1>2, EventsInherit DEF StopEvent, StartEvent, Handle, Goto, session
  <1>3. ASSUME EventStore PROVE InheritInv'
    BY <1>3, EventsInherit DEF EventStore, StoreActual, Goto, session, history
  <1>4. ASSUME NEW p \in Process, ExitEvent(p) PROVE InheritInv'
    <2>1. PICK step \in {"idle", "exit_target", "exit_restore"} :
             pc' = [pc EXCEPT ![EventThread] = step]
      BY <1>4 DEF ExitEvent, Goto
    <2>2. QED
      BY <1>4, <2>1, EventsInherit DEF ExitEvent, session
  <1>5. ASSUME NEW p \in Process, Spawn(p) PROVE InheritInv'
    <2>1. /\ ~alive[p] /\ registeredPid # p /\ hasSet' = [hasSet EXCEPT ![p] = FALSE]
          /\ UNCHANGED <<pc, target, registeredPid, closing>>
      BY <1>5 DEF Spawn, session
    <2>2. \A q \in Process : q # p => hasSet'[q] = hasSet[q]
      BY <2>1 DEF TypeOK
    <2>3. \A t \in Thread : pc[t] \in SetSteps => ThreadProc[t] # p
      BY <2>1 DEF ClockInv, ChangerInv, SetSteps
    <2>4. QED
      BY <2>1, <2>2, <2>3, Actors DEF InheritInv, TypeOK
  <1>6. ASSUME ExitTarget PROVE InheritInv'
    BY <1>6, EventsInherit DEF ExitTarget, ResetTarget, Goto, session, history
  <1>7. ASSUME ExitRestore PROVE InheritInv'
    <2>1. /\ pc[EventThread] = "exit_restore" /\ registeredPid # NoPid
          /\ target = Default
      BY <1>7, Actors DEF ExitRestore, ClockInv, ChangerInv, CarriedInv
    <2>2. /\ pc' = [pc EXCEPT ![EventThread] = "restoring"]
          /\ UNCHANGED <<target, registeredPid, hasSet>>
      BY <1>7, <2>1 DEF ExitRestore, Goto, history
    <2>3. pc'[EventThread] = "restoring" /\ \A t \in Thread : pc'[t] = pc[t]
      BY <2>2, Actors DEF TypeOK
    <2>4. QED
      BY <2>1, <2>2, <2>3, Actors DEF InheritInv
  <1>8. QED
    BY <1>1, <1>2, <1>3, <1>4, <1>5, <1>6, <1>7

\* When programs reset the clock before they restore, a process that has not set
\* it runs at the default, whatever the owners before it asked for, unless an event
\* has overtaken a call of one of them.
THEOREM DefaultForNewcomers ==
  Disciplined /\ ResetsFirst => (Spec => []DefaultUntilSet)
  <1> SUFFICES ASSUME Disciplined, ResetsFirst PROVE Spec => []DefaultUntilSet
    OBVIOUS
  <1>1. Init => InheritInv
    BY Actors DEF Init, InheritInv, SetSteps
  <1>2. TypeOK /\ ClockInv /\ InheritInv /\ [Next]_vars => InheritInv'
    <2> SUFFICES ASSUME TypeOK, ClockInv, InheritInv, [Next]_vars PROVE InheritInv'
      OBVIOUS
    <2>1. CASE UNCHANGED vars
      BY <2>1 DEF vars, session, kernel, history, InheritInv
    <2>2. CASE Next /\ ~UNCHANGED vars
      BY <2>2, CallsInherit, HandlersInherit, Actors DEF Next
    <2>3. QED
      BY <2>1, <2>2
  <1>3. ClockInv /\ InheritInv => DefaultUntilSet
    <2> SUFFICES ASSUME ClockInv, InheritInv, registeredPid # NoPid,
                        ~hasSet[registeredPid], ~overtaken
                 PROVE  actual = Default
      BY DEF DefaultUntilSet
    <2>1. target = Default /\ Expected = Default
      BY DEF InheritInv, Expected
    <2>2. ~Setting
      BY Actors DEF Setting, SetSteps, ClockInv, ChangerInv, InheritInv
    <2>3. QED
      BY <2>1, <2>2 DEF ClockInv, WordsInv
  <1>4. Disciplined => (Spec => []ClockInv)
    BY ClockInvariant
  <1>5. QED
    BY <1>1, <1>2, <1>3, <1>4, ClockTypeCorrect, PTL DEF Spec

=============================================================================
