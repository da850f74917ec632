------------------------------ MODULE VnzSample ------------------------------
(***************************************************************************)
(* The two sample programs of the repository, from the start of the plugin *)
(* to their end, and the MeP programs they execute.                        *)
(*                                                                         *)
(* The ARM side of the new sample (samples_new/arm_sample_hello_draw)      *)
(* injects, maps two framebuffers, and executes and displays for ever: it  *)
(* ends by being killed.  That of the old one (sample_old/sample) injects, *)
(* maps one buffer, starts VTHREAD_NUM threads that execute, polls until   *)
(* they have ended, unmaps, restores and idles.  Neither looks at errors.  *)
(* On the MeP side crt0 opens the communication heap, puts the address in  *)
(* one word of the SPRAM, from which GET_SYMBOL_ADDR takes the code base,  *)
(* and calls main, which draws on a V-thread.                              *)
(*                                                                         *)
(* The plugin is VnzBoot, and of the session core (VnzBridge) what calls   *)
(* that do not overlap see of it.  One program runs at a time; the next    *)
(* starts when the exit of the last has been handled, or where nobody does *)
(* that because the kernel refused the handlers: it finds the session of   *)
(* the last.  As in VnzBridge, a process exits when its threads have left  *)
(* their system calls.                                                     *)
(***************************************************************************)
EXTENDS VnzBoot, Naturals

CONSTANTS Process, NoPid, NoThread

ASSUME SampleAssumption == NoPid \notin Process /\ NoThread \notin Nat

\* Mutant: the sample with two threads.
VTHREAD_NUM_Two == 2
VTHREAD_NUM == 1

Worker == 1 .. VTHREAD_NUM
Main   == 0
Thread == {Main} \cup Worker

FB_COUNT == 2
FbIdx    == 0 \* never changed: callArg->fbidx ^= 1 is commented out

VARIABLES
    registeredPid, closing, \* the session: s_registeredPid; a Restore is under way
    proc, kind, \* the process that runs, NoPid for none, and which sample it is
    pc,         \* next step of its main thread
    worker,     \* its other threads
    fbmem,      \* the framebuffers it has a Venezia address of (the others are NULL)
    mapped,     \* kernel: the framebuffers mapped to the Venezia
    mep,        \* next step of the MeP program that each thread executes
    opened,     \* Venezia: the threads whose communication heap is open
    commParam,  \* GET_COMM_PARAM: whose opening it is the address of
    contexts,   \* Venezia: number of V-thread contexts
    fault       \* a call has gone through NULL: the console stops

session == <<registeredPid, closing>>
program == <<proc, kind, pc, worker, fbmem>>
venezia == <<mep, opened, commParam, contexts>>
vars    == <<bvars, session, program, mapped, venezia, fault>>

ProgramInit == /\ registeredPid = NoPid
               /\ closing = FALSE
               /\ proc = NoPid
               /\ kind = "none"
               /\ pc = "none"
               /\ worker = [i \in Worker |-> "unspawned"]
               /\ fbmem = {}
               /\ mapped = {}
               /\ mep = [t \in Thread |-> "off"]
               /\ opened = {}
               /\ commParam = NoThread
               /\ contexts = 0
               /\ fault = FALSE

Init == BootInit /\ ProgramInit

-----------------------------------------------------------------------------
(* Starting and ending.                                                    *)

Boot == BootNext /\ UNCHANGED <<session, program, mapped, venezia, fault>>

\* A new process has not the identifier of the registered one, dead or not.
Launch(p, k) ==
    /\ Booted /\ proc = NoPid /\ ~closing /\ p # registeredPid
    /\ proc' = p /\ kind' = k /\ pc' = "load"
    /\ worker' = [i \in Worker |-> "unspawned"]
    /\ fbmem' = {} /\ mapped' = {}
    /\ UNCHANGED <<bvars, session, venezia, fault>>

\* The user kills the program; procEvExitHandler restores if it is the registered one.
InCall == pc \in {"register", "closing"} \/ \E t \in Thread : mep[t] # "off"
Exit ==
    /\ proc # NoPid /\ ~InCall
    /\ proc' = NoPid /\ kind' = "none" /\ pc' = "none"
    /\ closing' = (handlers /\ registeredPid = proc)
    /\ UNCHANGED <<bvars, registeredPid, worker, fbmem, mapped, venezia, fault>>

\* The reset in Restore, and its last store.
CloseSession == /\ closing
                /\ loaded' = image
                /\ registeredPid' = NoPid
                /\ closing' = FALSE

ExitRestore == /\ proc = NoPid
               /\ CloseSession
               /\ UNCHANGED <<boot, pointers, handlers, image>>
               /\ UNCHANGED <<program, mapped, venezia, fault>>

\* A kernel call through the pointer is a fault when it is NULL.
Through(pointer) == pointer \in pointers
Fault == fault' = TRUE /\ UNCHANGED <<bvars, session, program, mapped, venezia>>

Reboot ==
    /\ fault
    /\ boot' = "find_engine" /\ pointers' = {} /\ handlers' = FALSE
    /\ image' = "factory" /\ loaded' = "factory"
    /\ registeredPid' = NoPid /\ closing' = FALSE
    /\ proc' = NoPid /\ kind' = "none" /\ pc' = "none"
    /\ worker' = [i \in Worker |-> "unspawned"]
    /\ fbmem' = {} /\ mapped' = {}
    /\ mep' = [t \in Thread |-> "off"]
    /\ opened' = {} /\ commParam' = NoThread /\ contexts' = 0
    /\ fault' = FALSE

-----------------------------------------------------------------------------
(* The main thread.                                                        *)

Goto(step) == pc' = step /\ UNCHANGED <<proc, kind>>

\* loadMepElf; when it fails the new sample leaves init(), the old one goes on to
\* inject an address it has not set.
Load ==
    /\ pc = "load"
    /\ Goto("inject") \/ (kind = "new" /\ Goto("map0"))
    /\ UNCHANGED <<bvars, session, worker, fbmem, mapped, venezia, fault>>

\* vnzBridgeInject: refused, or failed on the way, or up to its last store.  It maps
\* the code to the Venezia through a pointer.
Inject ==
    /\ pc = "inject"
    /\ \/ /\ Goto("map0")
          /\ UNCHANGED <<bvars, session, worker, fbmem, mapped, venezia, fault>>
       \/ /\ registeredPid = NoPid /\ Through("map")
          /\ Goto("register")
          /\ UNCHANGED <<bvars, session, worker, fbmem, mapped, venezia, fault>>
       \/ registeredPid = NoPid /\ ~Through("map") /\ Fault

Register ==
    /\ pc = "register"
    /\ registeredPid' = proc
    /\ Goto("map0")
    /\ UNCHANGED <<bvars, closing, worker, fbmem, mapped, venezia, fault>>

\* vnzBridgeMapMemory of each framebuffer, which may fail; the address is NULL then.
Framebuffers == IF kind = "new" THEN 0 .. FB_COUNT - 1 ELSE {0}
MapStep(fb) == IF fb = 0 THEN "map0" ELSE "map1"
AfterMap(fb) == IF fb + 1 \in Framebuffers THEN MapStep(fb + 1)
                ELSE IF kind = "new" THEN "frame" ELSE "spawn"

MapFramebuffer(fb) ==
    /\ pc = MapStep(fb) /\ fb \in Framebuffers
    /\ \/ /\ Through("map")
          /\ \/ mapped' = mapped \cup {fb} /\ fbmem' = fbmem \cup {fb}
             \/ UNCHANGED <<mapped, fbmem>>
          /\ Goto(AfterMap(fb))
          /\ UNCHANGED <<bvars, session, worker, venezia, fault>>
       \/ ~Through("map") /\ Fault

\* The new sample shows what has been drawn, and draws again.
Display ==
    /\ pc = "display"
    /\ Goto("frame")
    /\ UNCHANGED <<bvars, session, worker, fbmem, mapped, venezia, fault>>

\* The old sample starts its threads, each of which may fail to start.
Spawn(i) ==
    /\ pc = "spawn" /\ worker[i] = "unspawned"
    /\ \A j \in 1 .. i - 1 : worker[j] # "unspawned"
    /\ \E w \in {"running", "failed"} : worker' = [worker EXCEPT ![i] = w]
    /\ Goto(IF i = VTHREAD_NUM THEN "poll" ELSE "spawn")
    /\ UNCHANGED <<bvars, session, fbmem, mapped, venezia, fault>>

\* sceKernelGetThreadExitStatus is NOT_DORMANT; a thread that is gone, or never was, has
\* no status.  Mutants: wait for a thread that ended; do not wait.
FinishedDeleted(w) == w = "deleted"
Finished(w) == w # "running"
JoinedNever == TRUE
Joined == \A i \in Worker : Finished(worker[i])

Poll ==
    /\ pc = "poll"
    /\ IF Through("load")
       THEN /\ Joined
            /\ Goto("unmap")
            /\ UNCHANGED <<bvars, session, worker, fbmem, mapped, venezia, fault>>
       ELSE Fault

Unmap ==
    /\ pc = "unmap"
    /\ mapped' = mapped \ {0}
    /\ Goto("restore")
    /\ UNCHANGED <<bvars, session, worker, fbmem, venezia, fault>>

\* vnzBridgeRestore, EALREADY when nobody is registered.
Restore ==
    /\ pc = "restore"
    /\ \/ registeredPid = NoPid /\ Goto("idle") /\ UNCHANGED closing
       \/ registeredPid # NoPid /\ Goto("closing") /\ closing' = TRUE
    /\ UNCHANGED <<bvars, registeredPid, worker, fbmem, mapped, venezia, fault>>

RestoreEnd ==
    /\ pc = "closing"
    /\ CloseSession
    /\ Goto("idle")
    /\ UNCHANGED <<boot, pointers, handlers, image>>
    /\ UNCHANGED <<worker, fbmem, mapped, venezia, fault>>

-----------------------------------------------------------------------------
(* vnzBridgeExec, by the main thread of the new sample and by the workers  *)
(* of the old one.                                                         *)

AtExec(t) == IF t = Main THEN pc = "frame" ELSE worker[t] = "running" /\ kind = "old"

\* The thread after its call: the new sample displays, a worker ends.
Leave(t) ==
    /\ pc' = IF t = Main THEN "display" ELSE pc
    /\ worker' = IF t = Main THEN worker ELSE [worker EXCEPT ![t] = "deleted"]
    /\ UNCHANGED <<proc, kind, fbmem>>

\* Mutant: whoever asks.
ExecAdmitsAnyone == TRUE
ExecAdmits == registeredPid # NoPid

ExecCall(t) ==
    /\ AtExec(t) /\ mep[t] = "off"
    /\ ExecAdmits
    /\ mep' = [mep EXCEPT ![t] = "open"]
    /\ UNCHANGED <<bvars, session, program, mapped, opened, commParam, contexts, fault>>

\* EPERM, or an error of the process-suspend lock.
ExecRefused(t) ==
    /\ AtExec(t) /\ mep[t] = "off"
    /\ Leave(t)
    /\ UNCHANGED <<bvars, session, mapped, venezia, fault>>

ExecReturn(t) ==
    /\ mep[t] = "return"
    /\ mep' = [mep EXCEPT ![t] = "off"]
    /\ Leave(t)
    /\ UNCHANGED <<bvars, session, mapped, opened, commParam, contexts, fault>>

-----------------------------------------------------------------------------
(* The MeP program that thread t executes.                                 *)

Mep(t, from, to) == mep[t] = from /\ mep' = [mep EXCEPT ![t] = to]

\* _start of crt0, which opens the communication heap and stores the address.
MepOpen(t) ==
    /\ \/ Mep(t, "open", "return") /\ UNCHANGED <<opened, commParam>>
       \/ /\ Mep(t, "open", "main")
          /\ opened' = opened \cup {t}
          /\ commParam' = t
    /\ UNCHANGED <<bvars, session, program, mapped, contexts, fault>>

\* main creates a V-thread context, or returns EBUSY.  Mutants: the context is deleted
\* all the same; crt0 returns the error at once.
AfterCreateFailureDelete == "delete"
AfterCreateFailureReturn == "return"
AfterCreateFailure == "close"

MepCreate(t) ==
    /\ \/ Mep(t, "main", AfterCreateFailure) /\ UNCHANGED contexts
       \/ Mep(t, "main", "vthread") /\ contexts' = contexts + 1
    /\ UNCHANGED <<bvars, session, program, mapped, opened, commParam, fault>>

\* renderThread (execEntry in the old sample, which also tests what OpenPrivate returns):
\* there is a framebuffer to draw on, or there is none.  Mutant: the address is not tested.
HasFramebufferAlways == TRUE
HasFramebuffer == FbIdx \in fbmem

\* The MeP program is that of another process, and looks for the address in an argument
\* that may be laid out in another way: what it finds there is anything.
Foreign == registeredPid # proc

\* Where it goes otherwise.  Mutant: it waits for a framebuffer.
WithoutFramebufferWait == "vthread"
WithoutFramebuffer == "delete"

RenderThread(t) ==
    /\ \/ (HasFramebuffer \/ Foreign) /\ Mep(t, "vthread", "draw")
       \/ /\ ~HasFramebuffer \/ kind = "old" \/ Foreign
          /\ Mep(t, "vthread", WithoutFramebuffer)
    /\ UNCHANGED <<bvars, session, program, mapped, opened, commParam, contexts, fault>>

\* drawFont, and ClosePrivate.
Draw(t) ==
    /\ Mep(t, "draw", "delete")
    /\ UNCHANGED <<bvars, session, program, mapped, opened, commParam, contexts, fault>>

\* main deletes the context, which waits for the V-thread.
MepDelete(t) ==
    /\ Mep(t, "delete", "close")
    /\ contexts' = contexts - 1
    /\ UNCHANGED <<bvars, session, program, mapped, opened, commParam, fault>>

MepClose(t) ==
    /\ Mep(t, "close", "return")
    /\ opened' = opened \ {t}
    /\ UNCHANGED <<bvars, session, program, mapped, commParam, contexts, fault>>

-----------------------------------------------------------------------------
MainThread == \/ Load \/ Inject \/ Register \/ Display \/ Poll
              \/ Unmap \/ Restore \/ RestoreEnd
              \/ \E fb \in 0 .. FB_COUNT - 1 : MapFramebuffer(fb)
              \/ \E i \in Worker : Spawn(i)
Exec(t) == \/ ExecCall(t) \/ ExecRefused(t) \/ ExecReturn(t)
MepProgram(t) == \/ MepOpen(t) \/ MepCreate(t) \/ RenderThread(t)
                 \/ Draw(t) \/ MepDelete(t) \/ MepClose(t)

Running == \/ Boot
           \/ \E p \in Process, k \in {"new", "old"} : Launch(p, k)
           \/ Exit \/ ExitRestore
           \/ MainThread
           \/ \E t \in Thread : Exec(t) \/ MepProgram(t)

Next == (~fault /\ Running) \/ Reboot

\* The threads of a program are scheduled, MeP programs run, and the kernel's exit
\* handler too.  Nobody has to launch a program, to kill it, or to restart the console.
FairExec(t) == WF_vars(~fault /\ (Exec(t) \/ MepProgram(t)))
FairExecs   == \A t \in Thread : FairExec(t)
Fairness == /\ WF_vars(~fault /\ MainThread)
            /\ WF_vars(~fault /\ ExitRestore)
            /\ FairExecs

Spec == Init /\ [][Next]_vars /\ Fairness

-----------------------------------------------------------------------------
(* Properties.                                                             *)

\* Types; no V-thread context is deleted that was not created.
TypeOK ==
    /\ BootTypeOK
    /\ registeredPid \in Process \cup {NoPid} /\ closing \in BOOLEAN
    /\ proc \in Process \cup {NoPid} /\ kind \in {"none", "new", "old"}
    /\ pc \in {"none", "load", "inject", "register", "map0", "map1", "frame", "display",
               "spawn", "poll", "unmap", "restore", "closing", "idle"}
    /\ worker \in [Worker -> {"unspawned", "running", "failed", "deleted"}]
    /\ fbmem \subseteq 0 .. FB_COUNT - 1 /\ mapped \subseteq 0 .. FB_COUNT - 1
    /\ mep \in [Thread -> {"off", "open", "main", "vthread", "draw", "delete",
                           "close", "return"}]
    /\ opened \subseteq Thread /\ commParam \in Thread \cup {NoThread}
    /\ contexts \in Nat
    /\ fault \in BOOLEAN

\* However far module_start came, no session exists on a processor that does not run the
\* patched image; and none outlives its program, but where the kernel refused the
\* handlers: else one that its program did not close is being closed for it.
Orphaned == registeredPid \notin {NoPid, proc} /\ ~closing
SessionsWatched == /\ registeredPid # NoPid => loaded = "patched"
                   /\ Orphaned => ~handlers

\* A kernel pointer is NULL only where module_start gave up.
FaultsOnlyUnstarted == fault => boot = "gave_up"

\* While a MeP program resolves addresses, the word they are resolved from is the
\* address of a communication heap that is open.
CommParamOpen ==
    \A t \in Thread : mep[t] \in {"main", "vthread", "draw"} => commParam \in opened

\* A V-thread of the program's own session draws only on a framebuffer that is mapped.
DrawsMapped == \A t \in Thread : mep[t] = "draw" /\ ~Foreign => FbIdx \in mapped

\* A MeP program that has ended, on whichever path, has left no context and no opening.
RunsLeaveNothing == (\A t \in Thread : mep[t] = "off") => contexts = 0 /\ opened = {}

\* The samples, with what the plugin checks and no more, keep to the session as the
\* header has it: a program executes only its own injection, and takes it away when
\* none of its threads executes it.  Only a session that outlived its program is executed
\* by another.
Threads == Process \X Thread
Session == INSTANCE VnzSession WITH
    Thread <- Threads, ThreadProc <- [t \in Threads |-> t[1]],
    owner <- registeredPid,
    running <- {<<proc, t>> : t \in {u \in Thread : mep[u] # "off"}}
KeepsSession ==
    Session!Init /\ [][Session!Next \/ Reboot \/ Orphaned]_(Session!svars)

\* The old sample comes to its end, its session closed, unless it is killed or the
\* console faults: its loop does not wait for a thread that is gone.
OldEnds == (kind = "old" /\ pc = "load") ~>
               \/ pc = "idle" /\ registeredPid = NoPid
               \/ pc = "none"
               \/ fault

\* The new sample goes on drawing and displaying until it is killed or the console
\* faults: its loop has one thread, and stops for good if any of its calls does, on
\* whatever path.
NewReturnsTo(step) == kind = "new" ~> \/ kind = "new" /\ pc = step
                                      \/ pc = "none"
                                      \/ fault
NewGoesOn == NewReturnsTo("frame") /\ NewReturnsTo("display")
=============================================================================
