--------------------------- MODULE VnzSample_proofs ---------------------------
(***************************************************************************)
(* Proofs about the start of the plugin and the sample programs.  The      *)
(* inductive invariant follows module_start to its end or to where it gave *)
(* up (StartInv), the program that runs on what was started (ClientInv),   *)
(* its framebuffers (BufferInv), and the one MeP program that it executes  *)
(* (MepInv).                                                               *)
(***************************************************************************)
EXTENDS VnzSample, TLAPS

\* How far module_start has come, and what is in place then.
StartInv ==
    /\ BootTypeOK
    /\ boot = "find_engine" => pointers = {}
    /\ boot = "find_avcodec" => pointers = EnginePointers
    /\ boot = "gave_up" => "map" \notin pointers
    /\ boot \in {"register", "patch", "reset", "started"} =>
          pointers = EnginePointers \cup AvcodecPointers
    /\ boot \in {"reset", "started"} => image = "patched"
    /\ boot = "started" => loaded = "patched"
    /\ ~Booted => proc = NoPid /\ registeredPid = NoPid
    /\ fault => boot = "gave_up"

NewOnly == {"map1", "frame", "display"}
OldOnly == {"spawn", "poll", "unmap", "restore", "closing", "idle"}
Common  == {"load", "inject", "register", "map0"}

\* Which program runs, and that a session is closed by it or by the exit of another.
ClientInv ==
    /\ registeredPid \in Process \cup {NoPid} /\ closing \in BOOLEAN
    /\ proc \in Process \cup {NoPid} /\ fault \in BOOLEAN
    /\ IF proc = NoPid THEN kind = "none" /\ pc = "none"
       ELSE \/ kind = "new" /\ pc \in Common \cup NewOnly
            \/ kind = "old" /\ pc \in Common \cup OldOnly
    /\ worker \in [Worker -> {"unspawned", "running", "failed", "deleted"}]
    /\ kind = "old" /\ pc \notin {"spawn", "poll"} =>
          \A i \in Worker : worker[i] # "running"
    /\ pc \in Common \cup {"spawn"} => \A i \in Worker : worker[i] = "unspawned"
    /\ pc = "register" => registeredPid = NoPid /\ "map" \in pointers
    /\ registeredPid # NoPid =>
          /\ "map" \in pointers
          /\ closing => proc = NoPid \/ pc = "closing"
    /\ closing => registeredPid # NoPid
    /\ pc = "closing" => closing

\* A program has the address only of what is mapped, until it unmaps.
BufferInv ==
    /\ fbmem \subseteq 0 .. FB_COUNT - 1 /\ mapped \subseteq 0 .. FB_COUNT - 1
    /\ pc \in Common \cup NewOnly \cup {"spawn", "poll"} => fbmem \subseteq mapped

\* The MeP program that a thread executes, and what it holds on the Venezia.
MepSteps   == {"open", "main", "vthread", "draw", "delete", "close", "return"}
HeapOpen   == {"main", "vthread", "draw", "delete", "close"}
HasContext == {"vthread", "draw", "delete"}
MepInv ==
    /\ mep \in [Thread -> {"off"} \cup MepSteps]
    /\ \A t \in Thread : mep[t] # "off" =>
          /\ AtExec(t) /\ proc # NoPid /\ registeredPid # NoPid /\ ~closing
    /\ opened = {t \in Thread : mep[t] \in HeapOpen}
    /\ commParam \in Thread \cup {NoThread}
    /\ \A t \in Thread : mep[t] \in HeapOpen => commParam = t
    /\ contexts = IF \E t \in Thread : mep[t] \in HasContext THEN 1 ELSE 0
    /\ \A t \in Thread : mep[t] = "draw" => FbIdx \in fbmem \/ Foreign

SampleInv == StartInv /\ ClientInv /\ BufferInv /\ MepInv

LEMMA OneWorker == Thread = {0, 1} /\ Worker = {1} /\ Main = 0 /\ 1 \in Worker
  BY DEF Thread, Worker, Main, VTHREAD_NUM

LEMMA InitInv == Init => SampleInv
  <1> SUFFICES ASSUME Init PROVE SampleInv
    OBVIOUS
  <1> USE DEF Init, BootInit, ProgramInit
  <1>1. StartInv
    BY DEF StartInv, BootTypeOK, Booted
  <1>2. ClientInv
    BY DEF ClientInv
  <1>3. BufferInv
    BY DEF BufferInv, Common, NewOnly
  <1>4. MepInv
    BY DEF MepInv, HeapOpen, HasContext
  <1>5. QED
    BY <1>1, <1>2, <1>3, <1>4 DEF SampleInv

\* A restart of the console is a new beginning.
LEMMA RebootInv == Reboot => SampleInv'
  <1> SUFFICES ASSUME Reboot PROVE SampleInv'
    OBVIOUS
  <1>1. StartInv'
    BY DEF Reboot, StartInv, BootTypeOK, Booted
  <1>2. ClientInv'
    BY DEF Reboot, ClientInv
  <1>3. BufferInv'
    BY DEF Reboot, BufferInv, Common, NewOnly
  <1>4. MepInv'
    BY DEF Reboot, MepInv, HeapOpen, HasContext
  <1>5. QED
    BY <1>1, <1>2, <1>3, <1>4 DEF SampleInv

\* A step that leaves a part of the system alone.
LEMMA StartKept ==
  ASSUME StartInv, Booted, UNCHANGED <<boot, pointers, handlers, image>>,
         loaded' = loaded \/ loaded' = image,
         fault' = fault \/ boot = "gave_up", fault' \in BOOLEAN
  PROVE  StartInv'
  BY DEF StartInv, BootTypeOK, Booted

LEMMA ClientKept ==
  ASSUME ClientInv, UNCHANGED <<pointers, session, program>>, fault' \in BOOLEAN
  PROVE  ClientInv'
  BY DEF ClientInv, session, program

LEMMA BufferKept ==
  ASSUME BufferInv, UNCHANGED <<fbmem, mapped>>,
         pc' \in Common \cup NewOnly \cup {"spawn", "poll"} =>
            pc \in Common \cup NewOnly \cup {"spawn", "poll"}
  PROVE  BufferInv'
  BY DEF BufferInv

\* No MeP program runs beside a step of the main thread, of the exit or of the start.
LEMMA MepKept ==
  ASSUME MepInv, \A t \in Thread : mep[t] = "off", UNCHANGED venezia
  PROVE  MepInv'
  BY DEF MepInv, venezia, HeapOpen, HasContext

-----------------------------------------------------------------------------
(* The start of the plugin, and of a program.                              *)

LEMMA BootStep ==
  ASSUME SampleInv, Boot
  PROVE  SampleInv'
  <1>1. /\ proc = NoPid /\ registeredPid = NoPid
        /\ \A t \in Thread : mep[t] = "off"
    BY DEF SampleInv, StartInv, MepInv, Boot, BootNext, FindEngine, FindAvcodec,
       RegisterHandlers, PatchImage, ResetVenezia, Booted
  <1>2. StartInv'
    BY <1>1 DEF SampleInv, StartInv, BootTypeOK, Booted, Boot, BootNext, FindEngine,
       FindAvcodec, RegisterHandlers, PatchImage, ResetVenezia, GiveUp, EnginePointers,
       AvcodecPointers, program, session
  <1>3. UNCHANGED <<session, program, mapped, venezia, fault>>
    BY DEF Boot
  <1>4. "map" \in pointers => "map" \in pointers'
    BY DEF Boot, BootNext, FindEngine, FindAvcodec, RegisterHandlers, PatchImage,
       ResetVenezia, GiveUp, SampleInv, StartInv, EnginePointers
  <1>5. ClientInv'
    BY <1>3, <1>4 DEF SampleInv, ClientInv, session, program
  <1>6. BufferInv' /\ MepInv'
    BY <1>1, <1>3, BufferKept, MepKept DEF SampleInv, program
  <1>7. QED
    BY <1>2, <1>5, <1>6 DEF SampleInv

LEMMA LaunchStep ==
  ASSUME SampleInv, NEW p \in Process, NEW k \in {"new", "old"},
         Launch(p, k)
  PROVE  SampleInv'
  <1>1. \A t \in Thread : mep[t] = "off"
    BY DEF SampleInv, MepInv, Launch
  <1>2. StartInv'
    BY DEF SampleInv, StartInv, BootTypeOK, Booted, Launch, bvars
  <1>3. ClientInv'
    BY SampleAssumption DEF SampleInv, ClientInv, Launch, bvars, session, Common
  <1>4. BufferInv' /\ MepInv'
    BY <1>1, MepKept DEF SampleInv, BufferInv, Launch
  <1>5. QED
    BY <1>2, <1>3, <1>4 DEF SampleInv

\* While a program runs the plugin has started, or given up.
LEMMA RunsBooted ==
  ASSUME SampleInv, proc # NoPid \/ pc # "none" \/ registeredPid # NoPid
  PROVE  Booted /\ ("map" \in pointers => boot = "started")
  BY DEF SampleInv, StartInv, ClientInv, Booted, BootTypeOK, EnginePointers

LEMMA ExitSteps ==
  ASSUME SampleInv, Exit \/ ExitRestore
  PROVE  SampleInv'
  <1>1. \A t \in Thread : mep[t] = "off"
    BY DEF SampleInv, MepInv, Exit, InCall, ExitRestore
  <1>2. Booted
    BY RunsBooted DEF Exit, ExitRestore, CloseSession, SampleInv, ClientInv
  <1>3. StartInv'
    BY <1>2, StartKept DEF Exit, ExitRestore, CloseSession, bvars, SampleInv, ClientInv
  <1>4. CASE Exit
    <2>1. closing' \in BOOLEAN /\ ~closing
      BY <1>4 DEF SampleInv, ClientInv, Exit, InCall
    <2>2. ClientInv'
      BY <1>4, <2>1 DEF SampleInv, ClientInv, Exit, bvars, InCall, Common
    <2>3. QED
      BY <1>1, <1>3, <1>4, <2>2, BufferKept, MepKept
         DEF SampleInv, Exit, Common, NewOnly
  <1>5. CASE ExitRestore
    <2>1. ClientInv'
      BY <1>5 DEF SampleInv, ClientInv, ExitRestore, CloseSession, program
    <2>2. QED
      BY <1>1, <1>3, <1>5, <2>1, BufferKept, MepKept DEF SampleInv, ExitRestore, program
  <1>6. QED
    BY <1>4, <1>5

-----------------------------------------------------------------------------
(* The main thread.                                                        *)

\* A MeP program runs only where a thread of the program executes it.
LEMMA MepIdle ==
  ASSUME SampleInv,
         \/ pc \notin {"frame", "spawn", "poll"}
         \/ pc # "frame" /\ \A i \in Worker : worker[i] # "running"
  PROVE  \A t \in Thread : mep[t] = "off"
  <1> SUFFICES ASSUME NEW t \in Thread, mep[t] # "off" PROVE FALSE
    OBVIOUS
  <1>1. AtExec(t)
    BY DEF SampleInv, MepInv
  <1>2. t = Main \/ (t = 1 /\ t # Main)
    BY OneWorker
  <1>3. CASE t = Main
    BY <1>1, <1>3 DEF AtExec
  <1>4. CASE t = 1 /\ t # Main
    BY <1>1, <1>4, OneWorker DEF AtExec, SampleInv, ClientInv
  <1>5. QED
    BY <1>2, <1>3, <1>4

\* A call goes through NULL only where module_start gave up.
LEMMA FaultStep ==
  ASSUME SampleInv, Fault, pc # "none", ~Through("map") \/ ~Through("load")
  PROVE  SampleInv'
  <1>1. Booted
    BY RunsBooted
  <1>2. boot = "gave_up"
    BY <1>1 DEF Booted, SampleInv, StartInv, Through, EnginePointers, AvcodecPointers
  <1>3. StartInv'
    BY <1>1, <1>2, StartKept DEF Fault, SampleInv, bvars
  <1>4. ClientInv'
    BY ClientKept DEF Fault, SampleInv, bvars
  <1>5. BufferInv'
    BY BufferKept DEF Fault, SampleInv, program
  <1>6. MepInv'
    BY DEF Fault, SampleInv, MepInv, AtExec, Foreign, program, session, venezia
  <1>7. QED
    BY <1>3, <1>4, <1>5, <1>6 DEF SampleInv

\* What is left to show of a step of the main thread beside which no MeP program runs.
LEMMA MainStep ==
  ASSUME SampleInv, pc # "none", \A t \in Thread : mep[t] = "off",
         UNCHANGED <<boot, pointers, handlers, image, venezia, fault>>,
         loaded' = loaded \/ loaded' = image,
         ClientInv', BufferInv'
  PROVE  SampleInv'
  BY RunsBooted, StartKept, MepKept DEF SampleInv, ClientInv

LEMMA LoadSteps ==
  ASSUME SampleInv, ~fault, Load \/ Inject \/ Register
  PROVE  SampleInv'
  <1>1. pc \in {"load", "inject", "register"}
    BY DEF Load, Inject, Register
  <1>2. \A t \in Thread : mep[t] = "off"
    BY <1>1, MepIdle
  <1>3. CASE Fault
    BY <1>1, <1>3, FaultStep DEF Load, Inject, Register, Fault
  <1>4. CASE ~Fault
    <2>1. /\ UNCHANGED <<bvars, closing, worker, fbmem, mapped, venezia, fault, proc, kind>>
          /\ pc' \in {"inject", "register", "map0"}
      BY <1>4 DEF Load, Inject, Register, Goto, session
    <2>2. BufferInv'
      BY <1>1, <2>1, BufferKept DEF SampleInv, Common
    <2>3. ClientInv'
      <3>1. CASE Load
        BY <2>1, <3>1 DEF Load, Goto, SampleInv, ClientInv, session, bvars, Common
      <3>2. CASE Inject
        BY <1>4, <2>1, <3>2 DEF Inject, Goto, Through, SampleInv, ClientInv, session,
           bvars, Common
      <3>3. CASE Register
        BY <2>1, <3>3 DEF Register, Goto, SampleInv, ClientInv, bvars, Common
      <3>4. QED
        BY <3>1, <3>2, <3>3
    <2>4. QED
      BY <1>1, <1>2, <2>1, <2>2, <2>3, MainStep DEF bvars
  <1>5. QED
    BY <1>3, <1>4

LEMMA MapSteps ==
  ASSUME SampleInv, ~fault, NEW fb \in 0 .. FB_COUNT - 1, MapFramebuffer(fb)
  PROVE  SampleInv'
  <1>1. pc \in {"map0", "map1"} /\ fb \in {0, 1}
    BY DEF MapFramebuffer, MapStep, FB_COUNT
  <1>2. \A t \in Thread : mep[t] = "off"
    BY <1>1, MepIdle
  <1>3. CASE ~Through("map") /\ Fault
    BY <1>1, <1>3, FaultStep
  <1>4. CASE ~(~Through("map") /\ Fault)
    <2>1. /\ UNCHANGED <<bvars, session, worker, venezia, fault, proc, kind>>
          /\ pc' = AfterMap(fb)
          /\ \/ mapped' = mapped \cup {fb} /\ fbmem' = fbmem \cup {fb}
             \/ UNCHANGED <<mapped, fbmem>>
      BY <1>4 DEF MapFramebuffer, Goto
    <2>2. kind \in {"new", "old"}
      BY <1>1 DEF SampleInv, ClientInv
    <2>3. pc' = IF kind = "old" THEN "spawn" ELSE IF fb = 0 THEN "map1" ELSE "frame"
      BY <1>1, <2>1, <2>2 DEF AfterMap, Framebuffers, MapStep, FB_COUNT
    <2>4. BufferInv'
      BY <1>1, <2>1 DEF SampleInv, BufferInv, Common, NewOnly
    <2>5. ClientInv'
      BY <1>1, <2>1, <2>2, <2>3
         DEF SampleInv, ClientInv, session, bvars, Common, NewOnly, OldOnly
    <2>6. QED
      BY <1>1, <1>2, <2>1, <2>4, <2>5, MainStep DEF bvars
  <1>5. QED
    BY <1>3, <1>4

LEMMA WorkerSteps ==
  ASSUME SampleInv, ~fault, Display \/ Poll \/ \E i \in Worker : Spawn(i)
  PROVE  SampleInv'
  <1>1. CASE Poll /\ ~Through("load")
    BY <1>1, FaultStep DEF Poll
  <1>2. CASE ~(Poll /\ ~Through("load"))
    <2>1. \A t \in Thread : mep[t] = "off"
      <3>1. Display \/ (\E i \in Worker : Spawn(i)) \/ (Poll /\ Joined)
        BY <1>2 DEF Poll
      <3>2. CASE Display
        BY <3>2, MepIdle DEF Display
      <3>3. CASE \E i \in Worker : Spawn(i)
        BY <3>3, MepIdle, OneWorker DEF Spawn
      <3>4. CASE Poll /\ Joined
        BY <3>4, MepIdle DEF Poll, Joined, Finished
      <3>5. QED
        BY <3>1, <3>2, <3>3, <3>4
    <2>2. /\ UNCHANGED <<bvars, session, proc, kind, fbmem, mapped, venezia, fault>>
          /\ pc \in {"display", "spawn", "poll"}
      BY <1>2 DEF Display, Poll, Spawn, Goto
    <2>3. ClientInv'
      <3>1. CASE Display
        BY <2>2, <3>1 DEF Display, Goto, SampleInv, ClientInv, session, bvars, Common,
           NewOnly, OldOnly
      <3>2. CASE \E i \in Worker : Spawn(i)
        BY <2>2, <3>2, OneWorker DEF Spawn, VTHREAD_NUM, Goto, SampleInv, ClientInv,
           session, bvars, Common, NewOnly, OldOnly
      <3>3. CASE Poll
        BY <1>2, <2>2, <3>3 DEF Poll, Joined, Finished, Goto, SampleInv, ClientInv,
           session, bvars, Common, NewOnly, OldOnly
      <3>4. QED
        BY <3>1, <3>2, <3>3
    <2>4. BufferInv'
      BY <2>2, BufferKept DEF SampleInv, NewOnly
    <2>5. QED
      BY <2>1, <2>2, <2>3, <2>4, MainStep DEF bvars
  <1>3. QED
    BY <1>1, <1>2

LEMMA EndSteps ==
  ASSUME SampleInv, ~fault, Unmap \/ Restore \/ RestoreEnd
  PROVE  SampleInv'
  <1>1. /\ pc \in {"unmap", "restore", "closing"}
        /\ pc' \in {"restore", "closing", "idle"}
        /\ UNCHANGED <<boot, pointers, handlers, image, proc, kind, worker, fbmem,
                       venezia, fault>>
        /\ loaded' = loaded \/ loaded' = image
    BY DEF Unmap, Restore, RestoreEnd, CloseSession, Goto, bvars
  <1>2. \A t \in Thread : mep[t] = "off"
    BY <1>1, MepIdle
  <1>3. BufferInv'
    BY <1>1 DEF SampleInv, BufferInv, Unmap, Restore, RestoreEnd, Common, NewOnly
  <1>4. ClientInv'
    <2>1. CASE Unmap
      BY <1>1, <2>1 DEF Unmap, Goto, SampleInv, ClientInv, session, Common, NewOnly,
         OldOnly
    <2>2. CASE Restore
      <3>1. /\ pc = "restore" /\ UNCHANGED registeredPid
            /\ \/ registeredPid = NoPid /\ pc' = "idle" /\ closing' = closing
               \/ registeredPid # NoPid /\ pc' = "closing" /\ closing'
        BY <2>2 DEF Restore, Goto
      <3>2. closing' \in BOOLEAN /\ (closing => registeredPid # NoPid)
        BY <2>2 DEF Restore, SampleInv, ClientInv
      <3>3. proc # NoPid /\ kind = "old" /\ \A i \in Worker : worker[i] # "running"
        BY <3>1 DEF SampleInv, ClientInv, Common, NewOnly
      <3>4. registeredPid # NoPid => "map" \in pointers
        BY <3>1, <3>3 DEF SampleInv, ClientInv
      <3>5. QED
        BY <1>1, <3>1, <3>2, <3>3, <3>4 DEF SampleInv, ClientInv, Common, OldOnly
    <2>3. CASE RestoreEnd
      BY <1>1, <2>3 DEF RestoreEnd, CloseSession, Goto, SampleInv, ClientInv, Common,
         NewOnly, OldOnly
    <2>4. QED
      BY <2>1, <2>2, <2>3
  <1>5. QED
    BY <1>1, <1>2, <1>3, <1>4, MainStep

-----------------------------------------------------------------------------
(* The thread that executes, and its MeP program.                          *)

\* The new sample executes in its main thread, the old one in its only worker.
LEMMA OneExecutes ==
  ASSUME ClientInv, NEW t \in Thread, NEW u \in Thread, AtExec(t), AtExec(u)
  PROVE  t = u
  BY OneWorker DEF ClientInv, AtExec, Common, OldOnly

\* The others have no MeP program, neither now nor after a step of t's.
LEMMA OthersOff ==
  ASSUME SampleInv, NEW t \in Thread, AtExec(t),
         \A u \in Thread \ {t} : mep'[u] = mep[u]
  PROVE  \A u \in Thread \ {t} : mep[u] = "off" /\ mep'[u] = "off"
  BY OneExecutes DEF SampleInv, MepInv

\* What MepInv says when t's MeP program is the only one.
LEMMA OnlyMep ==
  ASSUME NEW t \in Thread, \A u \in Thread \ {t} : mep'[u] = "off",
         mep' \in [Thread -> {"off"} \cup MepSteps],
         mep'[t] # "off" => AtExec(t)' /\ proc' # NoPid /\ registeredPid' # NoPid
                            /\ ~closing',
         opened' = IF mep'[t] \in HeapOpen THEN {t} ELSE {},
         commParam' \in Thread \cup {NoThread},
         mep'[t] \in HeapOpen => commParam' = t,
         contexts' = IF mep'[t] \in HasContext THEN 1 ELSE 0,
         mep'[t] = "draw" => FbIdx \in fbmem' \/ Foreign'
  PROVE  MepInv'
  BY DEF MepInv, HeapOpen, HasContext

\* ... and now.
LEMMA OnlyMepNow ==
  ASSUME MepInv, NEW t \in Thread, \A u \in Thread \ {t} : mep[u] = "off"
  PROVE  /\ opened = IF mep[t] \in HeapOpen THEN {t} ELSE {}
         /\ mep[t] \in HeapOpen => commParam = t
         /\ contexts = IF mep[t] \in HasContext THEN 1 ELSE 0
  BY DEF MepInv, HeapOpen, HasContext

\* The thread leaves its call, executed or refused.
LEMMA LeaveStep ==
  ASSUME SampleInv, NEW t \in Thread, AtExec(t), proc # NoPid, Leave(t),
         mep' \in [Thread -> {"off"} \cup MepSteps], mep'[t] = "off",
         mep[t] \in {"off", "return"}, \A u \in Thread \ {t} : mep'[u] = mep[u],
         UNCHANGED <<bvars, session, mapped, opened, commParam, contexts, fault>>
  PROVE  SampleInv'
  <1>1. StartInv'
    BY StartKept, RunsBooted DEF SampleInv, ClientInv, bvars
  <1>2. /\ pc \in {"frame", "spawn", "poll"} \/ t # Main
        /\ IF t = Main THEN kind = "new" /\ pc = "frame" /\ pc' = "display"
                            /\ worker' = worker
           ELSE /\ kind = "old" /\ pc' = pc
                /\ worker' = [worker EXCEPT ![t] = "deleted"]
        /\ UNCHANGED <<proc, kind, fbmem>>
    BY DEF Leave, AtExec, SampleInv, ClientInv, Common, OldOnly
  <1>3. ClientInv'
    <2>1. pc' \notin Common \cup {"spawn"}
      <3>1. CASE t = Main
        BY <1>2, <3>1 DEF Common
      <3>2. CASE t # Main
        BY <1>2, <3>2, OneWorker DEF AtExec, SampleInv, ClientInv
      <3>3. QED
        BY <3>1, <3>2
    <2>2. QED
      BY <1>2, <2>1, OneWorker
         DEF SampleInv, ClientInv, bvars, session, Common, NewOnly, OldOnly
  <1>4. BufferInv'
    BY <1>2, BufferKept DEF SampleInv, NewOnly
  <1>5. MepInv'
    <2>1. \A u \in Thread \ {t} : mep[u] = "off" /\ mep'[u] = "off"
      BY OthersOff
    <2>2. MepInv
      BY DEF SampleInv
    <2>3. opened' = {} /\ contexts' = 0 /\ commParam' \in Thread \cup {NoThread}
      BY <2>1, <2>2, OnlyMepNow DEF HeapOpen, HasContext, MepInv
    <2>4. QED
      BY <2>1, <2>3, OnlyMep DEF HeapOpen, HasContext
  <1>6. QED
    BY <1>1, <1>3, <1>4, <1>5 DEF SampleInv

LEMMA ExecSteps ==
  ASSUME SampleInv, ~fault, NEW t \in Thread, Exec(t)
  PROVE  SampleInv'
  <1>1. mep \in [Thread -> {"off"} \cup MepSteps]
    BY DEF SampleInv, MepInv
  <1>2. AtExec(t)
    BY DEF Exec, ExecCall, ExecRefused, ExecReturn, SampleInv, MepInv
  <1>3. proc # NoPid
    BY <1>2 DEF AtExec, SampleInv, ClientInv
  <1>4. CASE ExecCall(t)
    <2>1. registeredPid # NoPid /\ ~closing
      <3>1. pc # "closing"
        BY <1>2, OneWorker DEF AtExec, SampleInv, ClientInv
      <3>2. registeredPid # NoPid
        BY <1>4 DEF ExecCall, ExecAdmits
      <3>3. QED
        BY <1>3, <3>1, <3>2 DEF SampleInv, ClientInv
    <2>2. /\ mep[t] = "off" /\ mep' = [mep EXCEPT ![t] = "open"]
          /\ UNCHANGED <<bvars, session, program, mapped, opened, commParam, contexts, fault>>
      BY <1>4 DEF ExecCall
    <2>3. StartInv' /\ ClientInv' /\ BufferInv'
      BY <1>3, <2>2, StartKept, RunsBooted, ClientKept, BufferKept
         DEF SampleInv, bvars, program, ClientInv
    <2>4. MepInv'
      <3>1. \A u \in Thread \ {t} : mep'[u] = mep[u]
        BY <1>1, <2>2
      <3>2. \A u \in Thread \ {t} : mep[u] = "off" /\ mep'[u] = "off"
        BY <1>2, <3>1, OthersOff
      <3>3. MepInv
        BY DEF SampleInv
      <3>4. opened' = {} /\ contexts' = 0 /\ commParam' \in Thread \cup {NoThread}
        BY <2>2, <3>2, <3>3, OnlyMepNow DEF HeapOpen, HasContext, MepInv
      <3>5. mep'[t] = "open" /\ mep' \in [Thread -> {"off"} \cup MepSteps]
        BY <1>1, <2>2 DEF MepSteps
      <3>6. AtExec(t)' /\ proc' # NoPid /\ registeredPid' # NoPid /\ ~closing'
        BY <1>2, <1>3, <2>1, <2>2 DEF AtExec, program, session
      <3>7. QED
        BY <3>2, <3>4, <3>5, <3>6, OnlyMep DEF HeapOpen, HasContext
    <2>5. QED
      BY <2>3, <2>4 DEF SampleInv
  <1>5. CASE ExecRefused(t)
    BY <1>1, <1>2, <1>3, <1>5, LeaveStep DEF ExecRefused, venezia
  <1>6. CASE ExecReturn(t)
    <2>1. /\ mep' \in [Thread -> {"off"} \cup MepSteps] /\ mep'[t] = "off"
          /\ \A u \in Thread \ {t} : mep'[u] = mep[u]
      BY <1>1, <1>6 DEF ExecReturn
    <2>2. QED
      BY <1>2, <1>3, <1>6, <2>1, LeaveStep DEF ExecReturn
  <1>7. QED
    BY <1>4, <1>5, <1>6 DEF Exec

LEMMA MepProgramSteps ==
  ASSUME SampleInv, ~fault, NEW t \in Thread, MepProgram(t)
  PROVE  SampleInv'
  <1>1. /\ mep \in [Thread -> {"off"} \cup MepSteps] /\ mep[t] # "off"
        /\ AtExec(t) /\ proc # NoPid /\ registeredPid # NoPid /\ ~closing
        /\ commParam \in Thread \cup {NoThread}
    BY DEF SampleInv, MepInv, MepProgram, MepOpen, MepCreate, RenderThread, Draw,
       MepDelete, MepClose, Mep
  <1>2. UNCHANGED <<bvars, session, program, mapped, fault>>
    BY DEF MepProgram, MepOpen, MepCreate, RenderThread, Draw, MepDelete, MepClose
  <1>3. \E to \in MepSteps : mep' = [mep EXCEPT ![t] = to]
    BY DEF MepProgram, MepOpen, MepCreate, RenderThread, Draw, MepDelete, MepClose, Mep,
       MepSteps, AfterCreateFailure, WithoutFramebuffer
  <1>4. StartInv' /\ ClientInv' /\ BufferInv'
    BY <1>1, <1>2, StartKept, RunsBooted, ClientKept, BufferKept
       DEF SampleInv, bvars, program, ClientInv
  <1>5. MepInv'
    <2>1. /\ mep' \in [Thread -> {"off"} \cup MepSteps]
          /\ \A u \in Thread \ {t} : mep'[u] = mep[u]
      BY <1>1, <1>3
    <2>2. \A u \in Thread \ {t} : mep[u] = "off" /\ mep'[u] = "off"
      BY <1>1, <2>1, OthersOff
    <2>3. AtExec(t)' /\ proc' # NoPid /\ registeredPid' # NoPid /\ ~closing'
      BY <1>1, <1>2 DEF AtExec, program, session
    <2>4. /\ opened = IF mep[t] \in HeapOpen THEN {t} ELSE {}
          /\ mep[t] \in HeapOpen => commParam = t
          /\ contexts = IF mep[t] \in HasContext THEN 1 ELSE 0
      BY <2>2, OnlyMepNow DEF SampleInv
    <2>5. /\ opened' = IF mep'[t] \in HeapOpen THEN {t} ELSE {}
          /\ commParam' \in Thread \cup {NoThread}
          /\ mep'[t] \in HeapOpen => commParam' = t
          /\ contexts' = IF mep'[t] \in HasContext THEN 1 ELSE 0
          /\ mep'[t] = "draw" => FbIdx \in fbmem' \/ Foreign'
      <3>1. CASE MepOpen(t)
        BY <1>1, <2>4, <3>1 DEF MepOpen, Mep, HeapOpen, HasContext
      <3>2. CASE MepCreate(t)
        BY <1>1, <2>4, <3>2 DEF MepCreate, Mep, HeapOpen, HasContext, AfterCreateFailure
      <3>3. CASE RenderThread(t)
        BY <1>1, <1>2, <2>4, <3>3
           DEF RenderThread, HasFramebuffer, WithoutFramebuffer, Foreign, Mep, HeapOpen,
               HasContext, program, session
      <3>4. CASE Draw(t)
        BY <1>1, <2>4, <3>4 DEF Draw, Mep, HeapOpen, HasContext
      <3>5. CASE MepDelete(t)
        BY <1>1, <2>4, <3>5 DEF MepDelete, Mep, HeapOpen, HasContext
      <3>6. CASE MepClose(t)
        BY <1>1, <2>4, <3>6 DEF MepClose, Mep, HeapOpen, HasContext
      <3>7. QED
        BY <3>1, <3>2, <3>3, <3>4, <3>5, <3>6 DEF MepProgram
    <2>6. QED
      BY <2>1, <2>2, <2>3, <2>5, OnlyMep
  <1>6. QED
    BY <1>4, <1>5 DEF SampleInv

LEMMA SampleNext == SampleInv /\ [Next]_vars => SampleInv'
  <1> SUFFICES ASSUME SampleInv, [Next]_vars PROVE SampleInv'
    OBVIOUS
  <1>1. CASE UNCHANGED vars
    BY <1>1 DEF SampleInv, StartInv, BootTypeOK, Booted, ClientInv, BufferInv, MepInv,
       AtExec, Foreign, vars, bvars, session, program, venezia
  <1>2. CASE Reboot
    BY <1>2, RebootInv
  <1>3. CASE ~fault /\ (Boot \/ \E p \in Process, k \in {"new", "old"} : Launch(p, k))
    BY <1>3, BootStep, LaunchStep
  <1>4. CASE ~fault /\ (Exit \/ ExitRestore)
    BY <1>4, ExitSteps
  <1>5. CASE ~fault /\ MainThread
    BY <1>5, LoadSteps, MapSteps, WorkerSteps, EndSteps DEF MainThread
  <1>6. CASE ~fault /\ \E t \in Thread : Exec(t) \/ MepProgram(t)
    BY <1>6, ExecSteps, MepProgramSteps
  <1>7. QED
    BY <1>1, <1>2, <1>3, <1>4, <1>5, <1>6 DEF Next, Running

LEMMA SampleInvariant == Spec => []SampleInv
  BY InitInv, SampleNext, PTL DEF Spec

\* Where the handlers are registered no session outlives its program: the exit that would
\* leave it begins to close it.
Watched == Orphaned => ~handlers

LEMMA WatchedNext == SampleInv /\ Watched /\ [Next]_vars => Watched'
  <1> SUFFICES ASSUME SampleInv, Watched, [Next]_vars PROVE Watched'
    OBVIOUS
  <1> USE DEF Watched, Orphaned
  <1>1. CASE UNCHANGED vars
    BY <1>1 DEF vars, bvars, session, program
  <1>2. CASE Reboot
    BY <1>2 DEF Reboot
  <1>3. CASE Boot
    BY <1>3 DEF Boot, BootNext, FindEngine, FindAvcodec, RegisterHandlers, PatchImage,
       ResetVenezia, session, SampleInv, StartInv, Booted
  <1>4. CASE \E p \in Process, k \in {"new", "old"} : Launch(p, k)
    BY <1>4, SampleAssumption DEF Launch, bvars, session
  <1>5. CASE Exit
    <2>1. ~closing
      BY <1>5 DEF Exit, InCall, SampleInv, ClientInv
    <2>2. QED
      BY <1>5, <2>1 DEF Exit, bvars
  <1>6. CASE ExitRestore
    BY <1>6 DEF ExitRestore, CloseSession
  <1>7. CASE MainThread
    <2>1. UNCHANGED <<proc, handlers>>
      BY <1>7 DEF MainThread, Load, Inject, Register, Display, Poll, Unmap, Restore,
         RestoreEnd, MapFramebuffer, Spawn, Goto, Fault, program, bvars
    <2>2. CASE Register
      BY <2>1, <2>2 DEF Register
    <2>3. CASE Restore
      <3>1. \/ registeredPid = NoPid /\ UNCHANGED registeredPid
            \/ closing'
        BY <2>3 DEF Restore
      <3>2. QED
        BY <3>1
    <2>4. CASE RestoreEnd
      BY <2>4 DEF RestoreEnd, CloseSession
    <2>5. CASE ~Register /\ ~Restore /\ ~RestoreEnd
      <3>1. UNCHANGED session
        BY <1>7, <2>5 DEF MainThread, Load, Inject, Display, Poll, Unmap, MapFramebuffer,
           Spawn, Fault
      <3>2. QED
        BY <2>1, <3>1 DEF session
    <2>6. QED
      BY <2>2, <2>3, <2>4, <2>5
  <1>8. CASE \E t \in Thread : Exec(t) \/ MepProgram(t)
    BY <1>8 DEF Exec, ExecCall, ExecRefused, ExecReturn, Leave, MepProgram, MepOpen,
       MepCreate, RenderThread, Draw, MepDelete, MepClose, program, session, bvars
  <1>9. QED
    BY <1>1, <1>2, <1>3, <1>4, <1>5, <1>6, <1>7, <1>8 DEF Next, Running

LEMMA WatchedInvariant == Spec => []Watched
  <1>1. Init => Watched
    BY DEF Init, BootInit, Watched
  <1>2. QED
    BY <1>1, WatchedNext, SampleInvariant, PTL DEF Spec

-----------------------------------------------------------------------------
(* The theorems.                                                           *)

\* The state of the plugin, of the program and of its MeP program stays in its types;
\* no V-thread context is deleted that was not created.
THEOREM SampleTypeCorrect == Spec => []TypeOK
  <1>1. SampleInv => TypeOK
    <2> SUFFICES ASSUME SampleInv PROVE TypeOK
      OBVIOUS
    <2>1. contexts \in Nat /\ opened \subseteq Thread
      BY DEF SampleInv, MepInv
    <2>2. QED
      BY <2>1 DEF SampleInv, StartInv, ClientInv, BufferInv, MepInv, MepSteps, TypeOK,
         Common, NewOnly, OldOnly
  <1>2. QED
    BY <1>1, SampleInvariant, PTL

\* Wherever module_start gave up, nobody can open a session on a processor whose image was
\* not patched: Inject goes through the pointer that is resolved last.  And a session
\* outlives its program only where the kernel refused to register the handlers.
THEOREM SessionsAreWatched == Spec => []SessionsWatched
  <1>1. SampleInv /\ Watched => SessionsWatched
    <2> SUFFICES ASSUME SampleInv, Watched PROVE SessionsWatched
      OBVIOUS
    <2>1. registeredPid # NoPid => boot = "started"
      BY RunsBooted DEF SampleInv, ClientInv
    <2>2. QED
      BY <2>1 DEF SampleInv, StartInv, Watched, SessionsWatched
  <1>2. QED
    BY <1>1, SampleInvariant, WatchedInvariant, PTL

\* Where module_start has come to its end, no call of the samples goes through NULL.
THEOREM StartedNeverFaults == Spec => []FaultsOnlyUnstarted
  <1>1. SampleInv => FaultsOnlyUnstarted
    BY DEF SampleInv, StartInv, FaultsOnlyUnstarted
  <1>2. QED
    BY <1>1, SampleInvariant, PTL

\* With one execution at a time, the word that addresses are resolved from is always
\* the address of the program's own, open communication heap.
THEOREM CommParamStaysOpen == Spec => []CommParamOpen
  <1>1. SampleInv => CommParamOpen
    BY DEF SampleInv, MepInv, CommParamOpen, HeapOpen
  <1>2. QED
    BY <1>1, SampleInvariant, PTL

\* A V-thread of the program's own session draws only on a framebuffer that is mapped:
\* nothing is
\* unmapped while a program that has its address executes.
THEOREM DrawsOnMapped == Spec => []DrawsMapped
  <1>1. SampleInv => DrawsMapped
    <2> SUFFICES ASSUME SampleInv, NEW t \in Thread, mep[t] = "draw", ~Foreign
                 PROVE  FbIdx \in mapped
      BY DEF DrawsMapped
    <2>1. AtExec(t) /\ FbIdx \in fbmem
      BY DEF SampleInv, MepInv
    <2>2. pc \in Common \cup NewOnly \cup {"spawn", "poll"}
      BY <2>1, OneWorker DEF AtExec, SampleInv, ClientInv, NewOnly
    <2>3. QED
      BY <2>1, <2>2 DEF SampleInv, BufferInv
  <1>2. QED
    BY <1>1, SampleInvariant, PTL

\* Whatever fails on the way, a MeP program that has returned has deleted the context
\* that it created and closed the communication heap that it opened.
THEOREM RunsCleanUp == Spec => []RunsLeaveNothing
  <1>1. SampleInv => RunsLeaveNothing
    BY DEF SampleInv, MepInv, RunsLeaveNothing, HeapOpen, HasContext
  <1>2. QED
    BY <1>1, SampleInvariant, PTL

-----------------------------------------------------------------------------
(* The samples and the session that the header documents.                  *)

RunningNow == {<<proc, t>> : t \in {u \in Thread : mep[u] # "off"}}

\* A step that leaves the session, and who executes, alone.
LEMMA SessionStutters ==
  ASSUME UNCHANGED session,
         UNCHANGED <<proc, mep>> \/ ((\A t \in Thread : mep[t] = "off") /\ UNCHANGED mep)
  PROVE  UNCHANGED Session!svars
  BY DEF Session!svars, session

LEMMA SessionExit ==
  ASSUME SampleInv, Exit \/ ExitRestore
  PROVE  Session!Next \/ UNCHANGED Session!svars
  <1>1. (\A t \in Thread : mep[t] = "off") /\ UNCHANGED mep
    BY DEF SampleInv, MepInv, Exit, InCall, ExitRestore, venezia
  <1>2. RunningNow = {} /\ RunningNow' = {}
    BY <1>1 DEF RunningNow
  <1>3. CASE ExitRestore
    BY <1>2, <1>3 DEF ExitRestore, CloseSession, RunningNow, Session!Next, Session!Close
  <1>4. CASE Exit
    <2>1. ~closing /\ closing \in BOOLEAN
      BY <1>4 DEF Exit, InCall, SampleInv, ClientInv
    <2>2. CASE handlers /\ registeredPid = proc
      <3>1. closing' = TRUE /\ registeredPid # NoPid /\ UNCHANGED registeredPid
        BY <1>4, <2>2 DEF Exit
      <3>2. QED
        BY <1>2, <2>1, <3>1 DEF RunningNow, Session!Next, Session!BeginClose
    <2>3. CASE ~(handlers /\ registeredPid = proc)
      <3>1. closing' = FALSE /\ closing = FALSE
        BY <1>4, <2>1, <2>3 DEF Exit
      <3>2. UNCHANGED session
        BY <1>4, <3>1 DEF Exit, session
      <3>3. QED
        BY <1>1, <3>2, SessionStutters
    <2>4. QED
      BY <2>2, <2>3
  <1>5. QED
    BY <1>3, <1>4

LEMMA SessionMain ==
  ASSUME SampleInv, MainThread
  PROVE  Session!Next \/ UNCHANGED Session!svars
  <1>1. UNCHANGED <<proc, mep>>
    BY DEF MainThread, Load, Inject, Register, Display, Poll, Unmap, Restore, RestoreEnd,
       MapFramebuffer, Spawn, Goto, Fault, program, venezia
  <1>2. RunningNow' = RunningNow
    BY <1>1 DEF RunningNow
  <1>3. CASE Register
    <2>1. /\ registeredPid = NoPid /\ registeredPid' = proc /\ UNCHANGED closing
          /\ proc \in Process
      BY <1>3 DEF Register, SampleInv, ClientInv
    <2>2. QED
      BY <1>2, <2>1 DEF RunningNow, Session!Next, Session!Open
  <1>4. CASE Restore
    <2>1. \A t \in Thread : mep[t] = "off"
      BY <1>4, MepIdle DEF Restore
    <2>2. RunningNow = {}
      BY <2>1 DEF RunningNow
    <2>3. CASE registeredPid = NoPid
      BY <1>1, <1>4, <2>3, SessionStutters DEF Restore, session
    <2>4. CASE registeredPid # NoPid
      <3>1. ~closing
        BY <1>4 DEF Restore, SampleInv, ClientInv, Common, OldOnly
      <3>2. QED
        BY <1>2, <1>4, <2>2, <2>4, <3>1
           DEF Restore, RunningNow, Session!Next, Session!BeginClose
    <2>5. QED
      BY <2>3, <2>4
  <1>5. CASE RestoreEnd
    BY <1>2, <1>5 DEF RestoreEnd, CloseSession, RunningNow, Session!Next, Session!Close
  <1>6. CASE ~Register /\ ~Restore /\ ~RestoreEnd
    <2>1. UNCHANGED session
      BY <1>6 DEF MainThread, Load, Inject, Display, Poll, Unmap, MapFramebuffer, Spawn,
         Fault
    <2>2. QED
      BY <1>1, <2>1, SessionStutters
  <1>7. QED
    BY <1>3, <1>4, <1>5, <1>6

LEMMA SessionExec ==
  ASSUME SampleInv, NEW t \in Thread, Exec(t) \/ MepProgram(t)
  PROVE  Session!Next \/ Orphaned \/ UNCHANGED Session!svars
  <1>1. mep \in [Thread -> {"off"} \cup MepSteps]
    BY DEF SampleInv, MepInv
  <1>2. UNCHANGED <<session, proc>>
    BY DEF Exec, ExecCall, ExecRefused, ExecReturn, Leave, MepProgram, MepOpen, MepCreate,
       RenderThread, Draw, MepDelete, MepClose, program
  <1>3. proc \in Process
    BY DEF Exec, ExecCall, ExecRefused, ExecReturn, MepProgram, MepOpen, MepCreate, Mep,
       RenderThread, Draw, MepDelete, MepClose, SampleInv, MepInv, ClientInv, AtExec
  <1>4. CASE ExecCall(t)
    <2>1. mep[t] = "off" /\ mep' = [mep EXCEPT ![t] = "open"] /\ AtExec(t)
      BY <1>4 DEF ExecCall
    <2>2. RunningNow' = RunningNow \cup {<<proc, t>>} /\ <<proc, t>> \notin RunningNow
      BY <1>1, <1>2, <2>1 DEF RunningNow
    <2>3. pc # "closing"
      BY <2>1, OneWorker DEF AtExec, SampleInv, ClientInv
    <2>4. registeredPid # NoPid
      BY <1>4 DEF ExecCall, ExecAdmits
    <2>5. Orphaned \/ (registeredPid = proc /\ ~closing)
      BY <1>3, <2>3, <2>4, SampleAssumption DEF SampleInv, ClientInv, Orphaned
    <2>6. <<proc, t>> \in Threads /\ [x \in Threads |-> x[1]][<<proc, t>>] = proc
      BY <1>3 DEF Threads
    <2>7. QED
      BY <1>2, <2>2, <2>5, <2>6 DEF RunningNow, session, Session!Next, Session!Start
  <1>5. CASE ExecReturn(t)
    <2>1. mep[t] # "off" /\ mep' = [mep EXCEPT ![t] = "off"]
      BY <1>5 DEF ExecReturn
    <2>2. RunningNow' = RunningNow \ {<<proc, t>>} /\ <<proc, t>> \in RunningNow
      BY <1>1, <1>2, <2>1 DEF RunningNow
    <2>3. <<proc, t>> \in Threads
      BY <1>3 DEF Threads
    <2>4. QED
      BY <1>2, <2>2, <2>3 DEF RunningNow, session, Session!Next, Session!Finish
  <1>6. CASE ExecRefused(t)
    BY <1>2, <1>6, SessionStutters DEF ExecRefused, venezia
  <1>7. CASE MepProgram(t)
    <2>1. \E to \in MepSteps : mep[t] # "off" /\ mep' = [mep EXCEPT ![t] = to]
      BY <1>7 DEF MepProgram, MepOpen, MepCreate, RenderThread, Draw, MepDelete, MepClose,
         Mep, MepSteps, AfterCreateFailure, WithoutFramebuffer
    <2>2. \A u \in Thread : mep'[u] = "off" <=> mep[u] = "off"
      BY <1>1, <2>1 DEF MepSteps
    <2>3. RunningNow' = RunningNow
      BY <1>2, <2>2 DEF RunningNow
    <2>4. QED
      BY <1>2, <2>3 DEF RunningNow, session, Session!svars
  <1>8. QED
    BY <1>4, <1>5, <1>6, <1>7 DEF Exec

LEMMA SessionStep ==
  ASSUME SampleInv, [Next]_vars
  PROVE  [Session!Next \/ Reboot \/ Orphaned]_(Session!svars)
  <1>1. CASE UNCHANGED vars
    BY <1>1, SessionStutters DEF vars, session, program, venezia
  <1>2. CASE Boot
    BY <1>2, SessionStutters DEF Boot, program, venezia
  <1>3. CASE \E p \in Process, k \in {"new", "old"} : Launch(p, k)
    <2>1. \A t \in Thread : mep[t] = "off"
      BY <1>3 DEF Launch, SampleInv, MepInv
    <2>2. QED
      BY <1>3, <2>1, SessionStutters DEF Launch, venezia
  <1>4. QED
    BY <1>1, <1>2, <1>3, SessionExit, SessionMain, SessionExec DEF Next, Running

\* The sample programs keep to the session that the header documents, between restarts
\* of the console: the plugin's check of s_registeredPid, which does not look at the
\* caller, is enough for them while no session outlives its program.
THEOREM SamplesKeepSession == Spec => KeepsSession
  <1>1. Init => Session!Init
    BY DEF Init, ProgramInit, Session!Init
  <1>2. SampleInv /\ [Next]_vars => [Session!Next \/ Reboot \/ Orphaned]_(Session!svars)
    BY SessionStep
  <1>3. QED
    BY <1>1, <1>2, SampleInvariant, PTL DEF Spec, KeepsSession

-----------------------------------------------------------------------------
(* The old sample comes to its end.  That a step whose guard holds can be  *)
(* taken follows from the shape of the actions, but is a hypothesis here   *)
(* (GuardsSuffice): no prover expands ENABLED.  That the guards hold where *)
(* the main thread does not wait is proved.                                *)

\* The main thread waits only where another thread executes: at every other step its
\* guard holds.
Waits == \/ pc \in {"none", "frame", "idle"}
         \/ pc = "poll" /\ \E i \in Worker : worker[i] = "running"
MainGuard ==
    \/ pc \in {"load", "inject", "register", "display", "unmap", "restore"}
    \/ \E fb \in Framebuffers : pc = MapStep(fb)
    \/ pc = "spawn" /\ \E i \in Worker : /\ worker[i] = "unspawned"
                                        /\ \A j \in 1 .. i - 1 : worker[j] # "unspawned"
    \/ pc = "poll" /\ (Through("load") => Joined)
    \/ pc = "closing" /\ closing
NeverStuck == ~fault => Waits \/ MainGuard

\* Where its guard holds the main thread can take a step that changes something, and so
\* can a thread that executes, at every step of its call and of its MeP program.
ExecReady(t) == AtExec(t) => ENABLED <<~fault /\ (Exec(t) \/ MepProgram(t))>>_vars
GuardsSuffice ==
    ~fault => /\ MainGuard => ENABLED <<~fault /\ MainThread>>_vars
              /\ \A t \in Thread : ExecReady(t)

SampleReady == NeverStuck /\ GuardsSuffice

LEMMA GuardsHold == Spec => []NeverStuck
  <1>1. SampleInv => NeverStuck
    <2> SUFFICES ASSUME SampleInv, ~Waits PROVE MainGuard
      BY DEF NeverStuck
    <2>1. \/ kind = "new" /\ pc \in Common \cup NewOnly
          \/ kind = "old" /\ pc \in Common \cup OldOnly
      BY DEF SampleInv, ClientInv, Waits
    <2>2. CASE pc \in {"load", "inject", "register", "display", "unmap", "restore"}
      BY <2>2 DEF MainGuard
    <2>3. CASE pc \in {"map0", "map1"}
      <3>1. \E fb \in Framebuffers : pc = MapStep(fb)
        BY <2>1, <2>3 DEF Framebuffers, MapStep, FB_COUNT, Common, OldOnly
      <3>2. QED
        BY <3>1 DEF MainGuard
    <2>4. CASE pc = "spawn"
      BY <2>4, OneWorker DEF SampleInv, ClientInv, MainGuard
    <2>5. CASE pc = "poll"
      BY <2>5 DEF Waits, Joined, Finished, MainGuard
    <2>6. CASE pc = "closing"
      BY <2>6 DEF SampleInv, ClientInv, MainGuard
    <2>7. QED
      BY <2>1, <2>2, <2>3, <2>4, <2>5, <2>6 DEF Waits, Common, NewOnly, OldOnly
  <1>2. QED
    BY <1>1, SampleInvariant, PTL

LEMMA AlwaysReady == Spec /\ []GuardsSuffice => []SampleReady
  BY GuardsHold, PTL DEF SampleReady

\* The old sample is at this step; its loop waits for a worker whose MeP program is at
\* that step, or for none; it has ended, was killed, or the console faults.
Old(step)     == kind = "old" /\ pc = step /\ ~fault
Working(step) == Old("poll") /\ worker[1] = "running" /\ mep[1] = step
Done          == Old("poll") /\ worker[1] # "running"
Over          == (pc = "idle" /\ registeredPid = NoPid) \/ pc = "none" \/ fault

\* The steps of the main thread, and of the worker and its MeP program, in order.
MainAfter == [load |-> {"inject"}, inject |-> {"register", "map0"}, register |-> {"map0"},
              map0 |-> {"spawn"}, spawn |-> {"poll"}, poll |-> {"unmap"},
              unmap |-> {"restore"}, restore |-> {"closing"}, closing |-> {}]
MepAfter == [off |-> {"open"}, open |-> {"main", "return"}, main |-> {"vthread", "close"},
             vthread |-> {"draw", "delete"}, draw |-> {"delete"}, delete |-> {"close"},
             close |-> {"return"}, return |-> {}]

\* A step of the main thread of the old sample brings it on.
LEMMA OldMain ==
  ASSUME SampleInv, NEW step \in DOMAIN MainAfter, Old(step), ~fault, MainThread
  PROVE  Over' \/ \E to \in MainAfter[step] : Old(to)'
  <1> USE DEF Old, Over
  <1>1. CASE Fault
    BY <1>1 DEF Fault
  <1>2. CASE ~Fault
    <2>1. UNCHANGED <<kind, fault>>
      BY <1>2 DEF MainThread, Load, Inject, Register, MapFramebuffer, Display, Spawn, Poll,
         Unmap, Restore, RestoreEnd, Goto
    <2>2. CASE Load \/ Inject \/ Register
      BY <1>2, <2>1, <2>2 DEF Load, Inject, Register, Goto, MainAfter
    <2>3. CASE \E fb \in 0 .. FB_COUNT - 1 : MapFramebuffer(fb)
      <3>1. PICK fb \in 0 .. FB_COUNT - 1 : MapFramebuffer(fb)
        BY <2>3
      <3>2. fb = 0 /\ pc = "map0"
        BY <3>1 DEF MapFramebuffer, MapStep, Framebuffers
      <3>3. pc' = "spawn"
        BY <1>2, <3>1, <3>2 DEF MapFramebuffer, Goto, AfterMap, Framebuffers
      <3>4. QED
        BY <2>1, <3>2, <3>3 DEF MainAfter
    <2>4. CASE \E i \in Worker : Spawn(i)
      BY <2>1, <2>4, OneWorker DEF Spawn, VTHREAD_NUM, Goto, MainAfter
    <2>5. CASE Display
      BY <2>5 DEF Display, MainAfter
    <2>6. CASE Poll \/ Unmap
      BY <1>2, <2>1, <2>6 DEF Poll, Unmap, Goto, MainAfter
    <2>7. CASE Restore \/ RestoreEnd
      BY <2>1, <2>7 DEF Restore, RestoreEnd, CloseSession, Goto, MainAfter
    <2>8. QED
      BY <2>2, <2>3, <2>4, <2>5, <2>6, <2>7 DEF MainThread
  <1>3. QED
    BY <1>1, <1>2

\* Only the worker executes, while the loop waits for it.
LEMMA OldExecutes ==
  ASSUME SampleInv, kind = "old", NEW t \in Thread, Exec(t) \/ MepProgram(t)
  PROVE  t = 1 /\ worker[1] = "running" /\ UNCHANGED <<kind, pc, fault>>
  <1>1. AtExec(t)
    BY DEF Exec, ExecCall, ExecRefused, ExecReturn, MepProgram, MepOpen, MepCreate, Mep,
       RenderThread, Draw, MepDelete, MepClose, SampleInv, MepInv
  <1>2. t = 1 /\ worker[1] = "running"
    BY <1>1, OneWorker DEF AtExec, SampleInv, ClientInv, Common, OldOnly
  <1>3. QED
    BY <1>2, OneWorker DEF Exec, ExecCall, ExecRefused, ExecReturn, Leave, MepProgram,
       MepOpen, MepCreate, RenderThread, Draw, MepDelete, MepClose, program

\* ... and every step of it brings it on.
LEMMA OldWorks ==
  ASSUME SampleInv, NEW step \in DOMAIN MepAfter, Working(step), Exec(1) \/ MepProgram(1)
  PROVE  Done' \/ \E to \in MepAfter[step] : Working(to)'
  <1>1. 1 \in Thread /\ 1 # Main /\ 1 \in Worker
    BY OneWorker
  <1>2. UNCHANGED <<kind, pc, fault>>
    BY <1>1, OldExecutes DEF Working, Old
  <1>3. /\ mep \in [Thread -> {"off"} \cup MepSteps]
        /\ worker \in [Worker -> {"unspawned", "running", "failed", "deleted"}]
    BY DEF SampleInv, MepInv, ClientInv
  <1>4. CASE ExecRefused(1) \/ ExecReturn(1)
    BY <1>1, <1>2, <1>3, <1>4 DEF ExecRefused, ExecReturn, Leave, Done, Working, Old
  <1>5. CASE ExecCall(1) \/ MepProgram(1)
    <2>1. UNCHANGED worker
      BY <1>5 DEF ExecCall, MepProgram, MepOpen, MepCreate, RenderThread, Draw, MepDelete,
         MepClose, program
    <2>2. \E to \in MepAfter[step] : mep' = [mep EXCEPT ![1] = to]
      BY <1>5 DEF ExecCall, MepProgram, MepOpen, MepCreate, RenderThread, Draw, MepDelete,
         MepClose, Mep, AfterCreateFailure, WithoutFramebuffer, MepAfter, Working
    <2>3. QED
      BY <1>1, <1>2, <1>3, <2>1, <2>2 DEF Working, Old
  <1>6. QED
    BY <1>4, <1>5 DEF Exec

\* No other step moves the old sample, but a kill.
LEMMA OldWaits ==
  ASSUME SampleInv, NEW step \in DOMAIN MainAfter, Old(step), [Next]_vars, ~MainThread,
         \A t \in Thread : ~(Exec(t) \/ MepProgram(t))
  PROVE  Over' \/ (Old(step)' /\ UNCHANGED <<worker, mep>>)
  <1> USE DEF Old, Over
  <1>1. proc # NoPid
    BY DEF SampleInv, ClientInv
  <1>2. CASE Boot \/ UNCHANGED vars
    BY <1>2 DEF Boot, program, venezia, vars
  <1>3. CASE Exit
    BY <1>3 DEF Exit
  <1>4. QED
    BY <1>1, <1>2, <1>3 DEF Next, Running, Reboot, Launch, ExitRestore

\* What may follow a step of the main thread, of the worker, and of the loop.
MainNext(step) == Over \/ \E to \in MainAfter[step] : Old(to)
WorkNext(step) == Done \/ \E to \in MepAfter[step] : Working(to)

\* A step of anyone leaves the main thread where it is or brings it on; a step of its
\* own brings it on, and it can take one.
LEMMA OldMainSteps ==
  ASSUME NEW step \in DOMAIN MainAfter \ {"poll"}
  PROVE  /\ SampleInv /\ Old(step) /\ [Next]_vars => Old(step)' \/ MainNext(step)'
         /\ SampleInv /\ Old(step) /\ <<~fault /\ MainThread>>_vars => MainNext(step)'
         /\ SampleReady /\ Old(step) => ENABLED <<~fault /\ MainThread>>_vars
  <1>1. SampleReady /\ Old(step) => ENABLED <<~fault /\ MainThread>>_vars
    BY DEF SampleReady, NeverStuck, GuardsSuffice, Waits, Old, MainAfter
  <1>2. ASSUME SampleInv, Old(step), [Next]_vars
        PROVE  Old(step)' \/ MainNext(step)'
    <2>1. CASE MainThread
      BY <1>2, <2>1, OldMain DEF MainNext, Old
    <2>2. CASE \E t \in Thread : Exec(t) \/ MepProgram(t)
      BY <1>2, <2>2, OldExecutes DEF Old
    <2>3. QED
      BY <1>2, <2>1, <2>2, OldWaits DEF MainNext
  <1>3. ASSUME SampleInv, Old(step), <<~fault /\ MainThread>>_vars
        PROVE  MainNext(step)'
    BY <1>3, OldMain DEF MainNext
  <1>4. QED
    BY <1>1, <1>2, <1>3

\* The same of the loop once the worker has ended.
LEMMA DoneSteps ==
  /\ SampleInv /\ Done /\ [Next]_vars => Done' \/ MainNext("poll")'
  /\ SampleInv /\ Done /\ <<~fault /\ MainThread>>_vars => MainNext("poll")'
  /\ SampleReady /\ Done => ENABLED <<~fault /\ MainThread>>_vars
  <1>1. "poll" \in DOMAIN MainAfter /\ Worker = {1}
    BY OneWorker DEF MainAfter
  <1>2. SampleReady /\ Done => ENABLED <<~fault /\ MainThread>>_vars
    BY <1>1 DEF SampleReady, NeverStuck, GuardsSuffice, Waits, Done, Old
  <1>3. ASSUME SampleInv, Done, [Next]_vars
        PROVE  Done' \/ MainNext("poll")'
    <2>1. CASE MainThread
      BY <1>1, <1>3, <2>1, OldMain DEF MainNext, Done, Old
    <2>2. CASE \E t \in Thread : Exec(t) \/ MepProgram(t)
      BY <1>3, <2>2, OldExecutes DEF Done, Old
    <2>3. QED
      BY <1>1, <1>3, <2>1, <2>2, OldWaits DEF MainNext, Done
  <1>4. ASSUME SampleInv, Done, <<~fault /\ MainThread>>_vars
        PROVE  MainNext("poll")'
    BY <1>1, <1>4, OldMain DEF MainNext, Done
  <1>5. QED
    BY <1>2, <1>3, <1>4

\* The same of the worker, while the loop waits for it.
LEMMA WorkSteps ==
  ASSUME NEW step \in DOMAIN MepAfter
  PROVE  /\ SampleInv /\ Working(step) /\ [Next]_vars
              => Working(step)' \/ WorkNext(step)' \/ MainNext("poll")'
         /\ SampleInv /\ Working(step) /\ <<~fault /\ (Exec(1) \/ MepProgram(1))>>_vars
              => WorkNext(step)'
         /\ SampleReady /\ Working(step) => ExecReady(1) /\ AtExec(1)
  <1>1. "poll" \in DOMAIN MainAfter /\ 1 \in Thread /\ 1 # Main
    BY OneWorker DEF MainAfter
  <1>2. SampleReady /\ Working(step) => ExecReady(1) /\ AtExec(1)
    BY <1>1 DEF SampleReady, GuardsSuffice, Working, Old, AtExec
  <1>3. ASSUME SampleInv, Working(step), [Next]_vars
        PROVE  Working(step)' \/ WorkNext(step)' \/ MainNext("poll")'
    <2>1. CASE MainThread
      BY <1>1, <1>3, <2>1, OldMain DEF MainNext, Working, Old
    <2>2. CASE \E t \in Thread : Exec(t) \/ MepProgram(t)
      <3>1. Exec(1) \/ MepProgram(1)
        BY <1>3, <2>2, OldExecutes DEF Working, Old
      <3>2. QED
        BY <1>3, <3>1, OldWorks DEF WorkNext
    <2>3. QED
      BY <1>1, <1>3, <2>1, <2>2, OldWaits DEF MainNext, Working
  <1>4. ASSUME SampleInv, Working(step), <<~fault /\ (Exec(1) \/ MepProgram(1))>>_vars
        PROVE  WorkNext(step)'
    BY <1>4, OldWorks DEF WorkNext
  <1>5. QED
    BY <1>2, <1>3, <1>4

\* Weak fairness of the threads is enough for the loop: the worker's MeP program takes
\* its steps to the end, and the loop does not wait for a thread that is gone.
LEMMA LoopEnds == Spec /\ []SampleReady => (Old("poll") ~> MainNext("poll"))
  <1>1. /\ SampleInv /\ Working("off") /\ [Next]_vars
             => MainNext("poll")' \/ Done' \/ Working("off")' \/ Working("open")'
        /\ SampleInv /\ Working("off") /\ <<~fault /\ (Exec(1) \/ MepProgram(1))>>_vars
             => Done' \/ Working("open")'
        /\ SampleReady /\ Working("off") => ExecReady(1) /\ AtExec(1)
    BY WorkSteps DEF WorkNext, MepAfter
  <1>2. /\ SampleInv /\ Working("open") /\ [Next]_vars
             => MainNext("poll")' \/ Done' \/ Working("open")' \/ Working("main")' \/ Working("return")'
        /\ SampleInv /\ Working("open") /\ <<~fault /\ (Exec(1) \/ MepProgram(1))>>_vars
             => Done' \/ Working("main")' \/ Working("return")'
        /\ SampleReady /\ Working("open") => ExecReady(1) /\ AtExec(1)
    BY WorkSteps DEF WorkNext, MepAfter
  <1>3. /\ SampleInv /\ Working("main") /\ [Next]_vars
             => MainNext("poll")' \/ Done' \/ Working("main")' \/ Working("vthread")' \/ Working("close")'
        /\ SampleInv /\ Working("main") /\ <<~fault /\ (Exec(1) \/ MepProgram(1))>>_vars
             => Done' \/ Working("vthread")' \/ Working("close")'
        /\ SampleReady /\ Working("main") => ExecReady(1) /\ AtExec(1)
    BY WorkSteps DEF WorkNext, MepAfter
  <1>4. /\ SampleInv /\ Working("vthread") /\ [Next]_vars
             => MainNext("poll")' \/ Done' \/ Working("vthread")' \/ Working("draw")' \/ Working("delete")'
        /\ SampleInv /\ Working("vthread") /\ <<~fault /\ (Exec(1) \/ MepProgram(1))>>_vars
             => Done' \/ Working("draw")' \/ Working("delete")'
        /\ SampleReady /\ Working("vthread") => ExecReady(1) /\ AtExec(1)
    BY WorkSteps DEF WorkNext, MepAfter
  <1>5. /\ SampleInv /\ Working("draw") /\ [Next]_vars
             => MainNext("poll")' \/ Done' \/ Working("draw")' \/ Working("delete")'
        /\ SampleInv /\ Working("draw") /\ <<~fault /\ (Exec(1) \/ MepProgram(1))>>_vars
             => Done' \/ Working("delete")'
        /\ SampleReady /\ Working("draw") => ExecReady(1) /\ AtExec(1)
    BY WorkSteps DEF WorkNext, MepAfter
  <1>6. /\ SampleInv /\ Working("delete") /\ [Next]_vars
             => MainNext("poll")' \/ Done' \/ Working("delete")' \/ Working("close")'
        /\ SampleInv /\ Working("delete") /\ <<~fault /\ (Exec(1) \/ MepProgram(1))>>_vars
             => Done' \/ Working("close")'
        /\ SampleReady /\ Working("delete") => ExecReady(1) /\ AtExec(1)
    BY WorkSteps DEF WorkNext, MepAfter
  <1>7. /\ SampleInv /\ Working("close") /\ [Next]_vars
             => MainNext("poll")' \/ Done' \/ Working("close")' \/ Working("return")'
        /\ SampleInv /\ Working("close") /\ <<~fault /\ (Exec(1) \/ MepProgram(1))>>_vars
             => Done' \/ Working("return")'
        /\ SampleReady /\ Working("close") => ExecReady(1) /\ AtExec(1)
    BY WorkSteps DEF WorkNext, MepAfter
  <1>8. /\ SampleInv /\ Working("return") /\ [Next]_vars
             => MainNext("poll")' \/ Done' \/ Working("return")'
        /\ SampleInv /\ Working("return") /\ <<~fault /\ (Exec(1) \/ MepProgram(1))>>_vars
             => Done'
        /\ SampleReady /\ Working("return") => ExecReady(1) /\ AtExec(1)
    BY WorkSteps DEF WorkNext, MepAfter
  <1>9. SampleInv /\ Old("poll")
           => Done \/ Working("off") \/ Working("open") \/ Working("main") \/ Working("vthread")
                   \/ Working("draw") \/ Working("delete") \/ Working("close") \/ Working("return")
    BY OneWorker DEF SampleInv, MepInv, MepSteps, Done, Working
  <1>10. FairExecs => FairExec(1)
    BY OneWorker DEF FairExecs
  <1>11. QED
    BY <1>1, <1>2, <1>3, <1>4, <1>5, <1>6, <1>7, <1>8, <1>9, <1>10, DoneSteps,
       SampleInvariant, PTL DEF Spec, Fairness, FairExec, ExecReady

\* The old sample comes to its end, its session closed, unless it is killed or the
\* console faults, whatever fails on the way.
THEOREM OldSampleEnds == Spec /\ []GuardsSuffice => OldEnds
  <1>1. /\ SampleInv /\ Old("load") /\ [Next]_vars
             => Over' \/ Old("load")' \/ Old("inject")'
        /\ SampleInv /\ Old("load") /\ <<~fault /\ MainThread>>_vars
             => Over' \/ Old("inject")'
        /\ SampleReady /\ Old("load") => ENABLED <<~fault /\ MainThread>>_vars
    BY OldMainSteps DEF MainNext, MainAfter
  <1>2. /\ SampleInv /\ Old("inject") /\ [Next]_vars
             => Over' \/ Old("inject")' \/ Old("register")' \/ Old("map0")'
        /\ SampleInv /\ Old("inject") /\ <<~fault /\ MainThread>>_vars
             => Over' \/ Old("register")' \/ Old("map0")'
        /\ SampleReady /\ Old("inject") => ENABLED <<~fault /\ MainThread>>_vars
    BY OldMainSteps DEF MainNext, MainAfter
  <1>3. /\ SampleInv /\ Old("register") /\ [Next]_vars
             => Over' \/ Old("register")' \/ Old("map0")'
        /\ SampleInv /\ Old("register") /\ <<~fault /\ MainThread>>_vars
             => Over' \/ Old("map0")'
        /\ SampleReady /\ Old("register") => ENABLED <<~fault /\ MainThread>>_vars
    BY OldMainSteps DEF MainNext, MainAfter
  <1>4. /\ SampleInv /\ Old("map0") /\ [Next]_vars
             => Over' \/ Old("map0")' \/ Old("spawn")'
        /\ SampleInv /\ Old("map0") /\ <<~fault /\ MainThread>>_vars
             => Over' \/ Old("spawn")'
        /\ SampleReady /\ Old("map0") => ENABLED <<~fault /\ MainThread>>_vars
    BY OldMainSteps DEF MainNext, MainAfter
  <1>5. /\ SampleInv /\ Old("spawn") /\ [Next]_vars
             => Over' \/ Old("spawn")' \/ Old("poll")'
        /\ SampleInv /\ Old("spawn") /\ <<~fault /\ MainThread>>_vars
             => Over' \/ Old("poll")'
        /\ SampleReady /\ Old("spawn") => ENABLED <<~fault /\ MainThread>>_vars
    BY OldMainSteps DEF MainNext, MainAfter
  <1>6. /\ SampleInv /\ Old("unmap") /\ [Next]_vars
             => Over' \/ Old("unmap")' \/ Old("restore")'
        /\ SampleInv /\ Old("unmap") /\ <<~fault /\ MainThread>>_vars
             => Over' \/ Old("restore")'
        /\ SampleReady /\ Old("unmap") => ENABLED <<~fault /\ MainThread>>_vars
    BY OldMainSteps DEF MainNext, MainAfter
  <1>7. /\ SampleInv /\ Old("restore") /\ [Next]_vars
             => Over' \/ Old("restore")' \/ Old("closing")'
        /\ SampleInv /\ Old("restore") /\ <<~fault /\ MainThread>>_vars
             => Over' \/ Old("closing")'
        /\ SampleReady /\ Old("restore") => ENABLED <<~fault /\ MainThread>>_vars
    BY OldMainSteps DEF MainNext, MainAfter
  <1>8. /\ SampleInv /\ Old("closing") /\ [Next]_vars
             => Over' \/ Old("closing")'
        /\ SampleInv /\ Old("closing") /\ <<~fault /\ MainThread>>_vars
             => Over'
        /\ SampleReady /\ Old("closing") => ENABLED <<~fault /\ MainThread>>_vars
    BY OldMainSteps DEF MainNext, MainAfter
  <1>9. MainNext("poll") => Over \/ Old("unmap")
    BY DEF MainNext, MainAfter
  <1>10. /\ kind = "old" /\ pc = "load" => Old("load") \/ Over
         /\ Over => (pc = "idle" /\ registeredPid = NoPid) \/ pc = "none" \/ fault
    BY DEF Old, Over
  <1>11. QED
    BY <1>1, <1>2, <1>3, <1>4, <1>5, <1>6, <1>7, <1>8, <1>9, <1>10, LoopEnds, SampleInvariant,
       AlwaysReady, PTL
       DEF Spec, Fairness, OldEnds

-----------------------------------------------------------------------------
(* The new sample goes on for ever, in the same way: its main thread comes *)
(* to its loop, its MeP program to its end, and the loop round.            *)

\* The new sample is at this step; it executes a MeP program that is at that step, or is
\* about to; it was killed, or the console faults.
New(step)     == kind = "new" /\ pc = step /\ ~fault
Drawing(step) == New("frame") /\ mep[0] = step
Ended         == pc = "none" \/ fault

NewAfter == [load |-> {"inject", "map0"}, inject |-> {"register", "map0"},
             register |-> {"map0"}, map0 |-> {"map1"}, map1 |-> {"frame"},
             display |-> {"frame"}]

\* A step of the main thread of the new sample brings it on.
LEMMA NewMain ==
  ASSUME SampleInv, NEW step \in DOMAIN NewAfter, New(step), MainThread
  PROVE  Ended' \/ \E to \in NewAfter[step] : New(to)'
  <1> USE DEF New, Ended
  <1>1. CASE Fault
    BY <1>1 DEF Fault
  <1>2. CASE ~Fault
    <2>1. UNCHANGED <<kind, fault>>
      BY <1>2 DEF MainThread, Load, Inject, Register, MapFramebuffer, Display, Spawn, Poll,
         Unmap, Restore, RestoreEnd, Goto
    <2>2. CASE Load \/ Inject \/ Register \/ Display
      BY <1>2, <2>1, <2>2 DEF Load, Inject, Register, Display, Goto, NewAfter
    <2>3. CASE \E fb \in 0 .. FB_COUNT - 1 : MapFramebuffer(fb)
      <3>1. PICK fb \in 0 .. FB_COUNT - 1 : MapFramebuffer(fb)
        BY <2>3
      <3>2. \/ fb = 0 /\ pc = "map0"
            \/ fb = 1 /\ pc = "map1"
        BY <3>1 DEF MapFramebuffer, MapStep, Framebuffers, FB_COUNT
      <3>3. pc' = AfterMap(fb)
        BY <1>2, <3>1 DEF MapFramebuffer, Goto
      <3>4. AfterMap(fb) = IF fb = 0 THEN "map1" ELSE "frame"
        BY <3>2 DEF AfterMap, Framebuffers, MapStep, FB_COUNT
      <3>5. QED
        BY <2>1, <3>2, <3>3, <3>4 DEF NewAfter
    <2>4. CASE (\E i \in Worker : Spawn(i)) \/ Poll \/ Unmap \/ Restore \/ RestoreEnd
      BY <2>4 DEF Spawn, Poll, Unmap, Restore, RestoreEnd, NewAfter
    <2>5. QED
      BY <2>2, <2>3, <2>4 DEF MainThread
  <1>3. QED
    BY <1>1, <1>2

\* While the main thread executes it takes no other step, and nobody else executes.
LEMMA NewExecutes ==
  ASSUME SampleInv, kind = "new"
  PROVE  /\ pc = "frame" => ~MainThread
         /\ \A t \in Thread : Exec(t) \/ MepProgram(t)
                => t = 0 /\ pc = "frame" /\ UNCHANGED <<kind, fault>>
  <1>1. pc = "frame" => ~MainThread
    BY DEF MainThread, Load, Inject, Register, MapFramebuffer, MapStep, Display, Spawn,
       Poll, Unmap, Restore, RestoreEnd
  <1>2. ASSUME NEW t \in Thread, Exec(t) \/ MepProgram(t)
        PROVE  t = 0 /\ pc = "frame" /\ UNCHANGED <<kind, fault>>
    <2>1. AtExec(t)
      BY <1>2 DEF Exec, ExecCall, ExecRefused, ExecReturn, MepProgram, MepOpen, MepCreate,
         Mep, RenderThread, Draw, MepDelete, MepClose, SampleInv, MepInv
    <2>2. t = 0 /\ pc = "frame"
      BY <2>1, OneWorker DEF AtExec
    <2>3. QED
      BY <1>2, <2>2 DEF Exec, ExecCall, ExecRefused, ExecReturn, Leave, MepProgram,
         MepOpen, MepCreate, RenderThread, Draw, MepDelete, MepClose, program
  <1>3. QED
    BY <1>1, <1>2

\* What may follow a step of the main thread, and of its MeP program.
NewNext(step)  == Ended \/ \E to \in NewAfter[step] : New(to)
DrawNext(step) == New("display") \/ \E to \in MepAfter[step] : Drawing(to)

\* A step of the MeP program brings it on, and its end the main thread.
LEMMA NewDraws ==
  ASSUME SampleInv, NEW step \in DOMAIN MepAfter, Drawing(step), Exec(0) \/ MepProgram(0)
  PROVE  DrawNext(step)'
  <1>1. 0 \in Thread /\ 0 = Main
    BY OneWorker
  <1>2. UNCHANGED <<kind, fault>>
    BY <1>1, NewExecutes DEF Drawing, New
  <1>3. mep \in [Thread -> {"off"} \cup MepSteps]
    BY DEF SampleInv, MepInv
  <1>4. CASE ExecRefused(0) \/ ExecReturn(0)
    BY <1>1, <1>2, <1>4 DEF ExecRefused, ExecReturn, Leave, Drawing, New, DrawNext
  <1>5. CASE ExecCall(0) \/ MepProgram(0)
    <2>1. UNCHANGED pc
      BY <1>5 DEF ExecCall, MepProgram, MepOpen, MepCreate, RenderThread, Draw, MepDelete,
         MepClose, program
    <2>2. \E to \in MepAfter[step] : mep' = [mep EXCEPT ![0] = to]
      BY <1>5 DEF ExecCall, MepProgram, MepOpen, MepCreate, RenderThread, Draw, MepDelete,
         MepClose, Mep, AfterCreateFailure, WithoutFramebuffer, MepAfter, Drawing
    <2>3. QED
      BY <1>1, <1>2, <1>3, <2>1, <2>2 DEF Drawing, New, DrawNext
  <1>6. QED
    BY <1>4, <1>5 DEF Exec

\* No other step moves the new sample, but a kill.
LEMMA NewWaits ==
  ASSUME SampleInv, NEW step, New(step), [Next]_vars, ~MainThread,
         \A t \in Thread : ~(Exec(t) \/ MepProgram(t))
  PROVE  Ended' \/ (New(step)' /\ UNCHANGED mep)
  <1> USE DEF New, Ended
  <1>1. proc # NoPid
    BY DEF SampleInv, ClientInv
  <1>2. CASE Boot \/ UNCHANGED vars
    BY <1>2 DEF Boot, program, venezia, vars
  <1>3. CASE Exit
    BY <1>3 DEF Exit
  <1>4. QED
    BY <1>1, <1>2, <1>3 DEF Next, Running, Reboot, Launch, ExitRestore

\* A step of anyone leaves the main thread where it is or brings it on; a step of its
\* own brings it on, and it can take one.
LEMMA NewMainSteps ==
  ASSUME NEW step \in DOMAIN NewAfter
  PROVE  /\ SampleInv /\ New(step) /\ [Next]_vars => New(step)' \/ NewNext(step)'
         /\ SampleInv /\ New(step) /\ <<~fault /\ MainThread>>_vars => NewNext(step)'
         /\ SampleReady /\ New(step) => ENABLED <<~fault /\ MainThread>>_vars
  <1>1. SampleReady /\ New(step) => ENABLED <<~fault /\ MainThread>>_vars
    BY DEF SampleReady, NeverStuck, GuardsSuffice, Waits, New, NewAfter
  <1>2. step # "frame"
    BY DEF NewAfter
  <1>3. ASSUME SampleInv, New(step), [Next]_vars
        PROVE  New(step)' \/ NewNext(step)'
    <2>1. CASE MainThread
      BY <1>3, <2>1, NewMain DEF NewNext
    <2>2. CASE ~MainThread
      <3>1. \A t \in Thread : ~(Exec(t) \/ MepProgram(t))
        BY <1>2, <1>3, NewExecutes DEF New
      <3>2. QED
        BY <1>3, <2>2, <3>1, NewWaits DEF NewNext
    <2>3. QED
      BY <2>1, <2>2
  <1>4. ASSUME SampleInv, New(step), <<~fault /\ MainThread>>_vars
        PROVE  NewNext(step)'
    BY <1>4, NewMain DEF NewNext
  <1>5. QED
    BY <1>1, <1>3, <1>4

\* The same of the MeP program, while the main thread executes it.
LEMMA DrawSteps ==
  ASSUME NEW step \in DOMAIN MepAfter
  PROVE  /\ SampleInv /\ Drawing(step) /\ [Next]_vars
              => Drawing(step)' \/ DrawNext(step)' \/ Ended'
         /\ SampleInv /\ Drawing(step) /\ <<~fault /\ (Exec(0) \/ MepProgram(0))>>_vars
              => DrawNext(step)'
         /\ SampleReady /\ Drawing(step) => ExecReady(0) /\ AtExec(0)
  <1>1. 0 \in Thread /\ 0 = Main
    BY OneWorker
  <1>2. SampleReady /\ Drawing(step) => ExecReady(0) /\ AtExec(0)
    BY <1>1 DEF SampleReady, GuardsSuffice, Drawing, New, AtExec
  <1>3. ASSUME SampleInv, Drawing(step), [Next]_vars
        PROVE  Drawing(step)' \/ DrawNext(step)' \/ Ended'
    <2>1. ~MainThread
      BY <1>3, NewExecutes DEF Drawing, New
    <2>2. CASE \E t \in Thread : Exec(t) \/ MepProgram(t)
      <3>1. Exec(0) \/ MepProgram(0)
        BY <1>3, <2>2, NewExecutes DEF Drawing, New
      <3>2. QED
        BY <1>3, <3>1, NewDraws
    <2>3. QED
      BY <1>3, <2>1, <2>2, NewWaits DEF Drawing
  <1>4. ASSUME SampleInv, Drawing(step), <<~fault /\ (Exec(0) \/ MepProgram(0))>>_vars
        PROVE  DrawNext(step)'
    BY <1>4, NewDraws
  <1>5. QED
    BY <1>2, <1>3, <1>4

\* Weak fairness of the thread that executes is enough for its call to return.
LEMMA ExecReturns == Spec /\ []SampleReady => (New("frame") ~> New("display") \/ Ended)
  <1>1. /\ SampleInv /\ Drawing("off") /\ [Next]_vars
             => Ended' \/ Drawing("off")' \/ New("display")' \/ Drawing("open")'
        /\ SampleInv /\ Drawing("off") /\ <<~fault /\ (Exec(0) \/ MepProgram(0))>>_vars
             => New("display")' \/ Drawing("open")'
        /\ SampleReady /\ Drawing("off") => ExecReady(0) /\ AtExec(0)
    BY DrawSteps DEF DrawNext, MepAfter
  <1>2. /\ SampleInv /\ Drawing("open") /\ [Next]_vars
             => Ended' \/ Drawing("open")' \/ New("display")' \/ Drawing("main")' \/ Drawing("return")'
        /\ SampleInv /\ Drawing("open") /\ <<~fault /\ (Exec(0) \/ MepProgram(0))>>_vars
             => New("display")' \/ Drawing("main")' \/ Drawing("return")'
        /\ SampleReady /\ Drawing("open") => ExecReady(0) /\ AtExec(0)
    BY DrawSteps DEF DrawNext, MepAfter
  <1>3. /\ SampleInv /\ Drawing("main") /\ [Next]_vars
             => Ended' \/ Drawing("main")' \/ New("display")' \/ Drawing("vthread")' \/ Drawing("close")'
        /\ SampleInv /\ Drawing("main") /\ <<~fault /\ (Exec(0) \/ MepProgram(0))>>_vars
             => New("display")' \/ Drawing("vthread")' \/ Drawing("close")'
        /\ SampleReady /\ Drawing("main") => ExecReady(0) /\ AtExec(0)
    BY DrawSteps DEF DrawNext, MepAfter
  <1>4. /\ SampleInv /\ Drawing("vthread") /\ [Next]_vars
             => Ended' \/ Drawing("vthread")' \/ New("display")' \/ Drawing("draw")' \/ Drawing("delete")'
        /\ SampleInv /\ Drawing("vthread") /\ <<~fault /\ (Exec(0) \/ MepProgram(0))>>_vars
             => New("display")' \/ Drawing("draw")' \/ Drawing("delete")'
        /\ SampleReady /\ Drawing("vthread") => ExecReady(0) /\ AtExec(0)
    BY DrawSteps DEF DrawNext, MepAfter
  <1>5. /\ SampleInv /\ Drawing("draw") /\ [Next]_vars
             => Ended' \/ Drawing("draw")' \/ New("display")' \/ Drawing("delete")'
        /\ SampleInv /\ Drawing("draw") /\ <<~fault /\ (Exec(0) \/ MepProgram(0))>>_vars
             => New("display")' \/ Drawing("delete")'
        /\ SampleReady /\ Drawing("draw") => ExecReady(0) /\ AtExec(0)
    BY DrawSteps DEF DrawNext, MepAfter
  <1>6. /\ SampleInv /\ Drawing("delete") /\ [Next]_vars
             => Ended' \/ Drawing("delete")' \/ New("display")' \/ Drawing("close")'
        /\ SampleInv /\ Drawing("delete") /\ <<~fault /\ (Exec(0) \/ MepProgram(0))>>_vars
             => New("display")' \/ Drawing("close")'
        /\ SampleReady /\ Drawing("delete") => ExecReady(0) /\ AtExec(0)
    BY DrawSteps DEF DrawNext, MepAfter
  <1>7. /\ SampleInv /\ Drawing("close") /\ [Next]_vars
             => Ended' \/ Drawing("close")' \/ New("display")' \/ Drawing("return")'
        /\ SampleInv /\ Drawing("close") /\ <<~fault /\ (Exec(0) \/ MepProgram(0))>>_vars
             => New("display")' \/ Drawing("return")'
        /\ SampleReady /\ Drawing("close") => ExecReady(0) /\ AtExec(0)
    BY DrawSteps DEF DrawNext, MepAfter
  <1>8. /\ SampleInv /\ Drawing("return") /\ [Next]_vars
             => Ended' \/ Drawing("return")' \/ New("display")'
        /\ SampleInv /\ Drawing("return") /\ <<~fault /\ (Exec(0) \/ MepProgram(0))>>_vars
             => New("display")'
        /\ SampleReady /\ Drawing("return") => ExecReady(0) /\ AtExec(0)
    BY DrawSteps DEF DrawNext, MepAfter
  <1>9. SampleInv /\ New("frame")
           => Drawing("off") \/ Drawing("open") \/ Drawing("main") \/ Drawing("vthread")
                   \/ Drawing("draw") \/ Drawing("delete") \/ Drawing("close")
                   \/ Drawing("return")
    BY OneWorker DEF SampleInv, MepInv, MepSteps, Drawing
  <1>10. FairExecs => FairExec(0)
    BY OneWorker DEF FairExecs
  <1>11. QED
    BY <1>1, <1>2, <1>3, <1>4, <1>5, <1>6, <1>7, <1>8, <1>9, <1>10, SampleInvariant, PTL
       DEF Spec, Fairness, FairExec, ExecReady

\* The new sample draws and displays again and again until it is killed or the console
\* faults, whatever fails on the way: no call of its one thread stops it.
THEOREM NewSampleGoesOn == Spec /\ []GuardsSuffice => NewGoesOn
  <1>1. /\ SampleInv /\ New("load") /\ [Next]_vars
             => New("load")' \/ Ended' \/ New("inject")' \/ New("map0")'
        /\ SampleInv /\ New("load") /\ <<~fault /\ MainThread>>_vars
             => Ended' \/ New("inject")' \/ New("map0")'
        /\ SampleReady /\ New("load") => ENABLED <<~fault /\ MainThread>>_vars
    BY NewMainSteps DEF NewNext, NewAfter
  <1>2. /\ SampleInv /\ New("inject") /\ [Next]_vars
             => New("inject")' \/ Ended' \/ New("register")' \/ New("map0")'
        /\ SampleInv /\ New("inject") /\ <<~fault /\ MainThread>>_vars
             => Ended' \/ New("register")' \/ New("map0")'
        /\ SampleReady /\ New("inject") => ENABLED <<~fault /\ MainThread>>_vars
    BY NewMainSteps DEF NewNext, NewAfter
  <1>3. /\ SampleInv /\ New("register") /\ [Next]_vars
             => New("register")' \/ Ended' \/ New("map0")'
        /\ SampleInv /\ New("register") /\ <<~fault /\ MainThread>>_vars
             => Ended' \/ New("map0")'
        /\ SampleReady /\ New("register") => ENABLED <<~fault /\ MainThread>>_vars
    BY NewMainSteps DEF NewNext, NewAfter
  <1>4. /\ SampleInv /\ New("map0") /\ [Next]_vars
             => New("map0")' \/ Ended' \/ New("map1")'
        /\ SampleInv /\ New("map0") /\ <<~fault /\ MainThread>>_vars
             => Ended' \/ New("map1")'
        /\ SampleReady /\ New("map0") => ENABLED <<~fault /\ MainThread>>_vars
    BY NewMainSteps DEF NewNext, NewAfter
  <1>5. /\ SampleInv /\ New("map1") /\ [Next]_vars
             => New("map1")' \/ Ended' \/ New("frame")'
        /\ SampleInv /\ New("map1") /\ <<~fault /\ MainThread>>_vars
             => Ended' \/ New("frame")'
        /\ SampleReady /\ New("map1") => ENABLED <<~fault /\ MainThread>>_vars
    BY NewMainSteps DEF NewNext, NewAfter
  <1>6. /\ SampleInv /\ New("display") /\ [Next]_vars
             => New("display")' \/ Ended' \/ New("frame")'
        /\ SampleInv /\ New("display") /\ <<~fault /\ MainThread>>_vars
             => Ended' \/ New("frame")'
        /\ SampleReady /\ New("display") => ENABLED <<~fault /\ MainThread>>_vars
    BY NewMainSteps DEF NewNext, NewAfter
  <1>7. SampleInv /\ kind = "new"
           => Ended \/ New("load") \/ New("inject") \/ New("register") \/ New("map0")
                    \/ New("map1") \/ New("frame") \/ New("display")
    BY DEF SampleInv, ClientInv, Common, NewOnly, New, Ended
  <1>8. /\ New("frame") => kind = "new" /\ pc = "frame"
        /\ New("display") => kind = "new" /\ pc = "display"
        /\ Ended => pc = "none" \/ fault
    BY DEF New, Ended
  <1>9. QED
    BY <1>1, <1>2, <1>3, <1>4, <1>5, <1>6, <1>7, <1>8, ExecReturns, SampleInvariant,
       AlwaysReady, PTL DEF Spec, Fairness, NewGoesOn, NewReturnsTo
=============================================================================
