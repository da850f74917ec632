------------------------------ MODULE VnzClock ------------------------------
(***************************************************************************)
(* The execution clock of the Venezia (VVNZRunner/main.c): the system      *)
(* calls that read and set it, and the process event handlers that drop it *)
(* to the default while the registered process is stopped, give it back    *)
(* when the process starts again, and reset it when the process exits.     *)
(*                                                                         *)
(* The session is the abstract one of VnzSession, which VnzBridge is shown *)
(* to implement; Exec does not touch the clock and is left out.  The two   *)
(* clock words, ours and the kernel's, are stored one after the other, and *)
(* threads run on several cores, so each store is a step of its own.  A    *)
(* stop reaches a process wherever its threads are, inside a call too; what*)
(* is in the kernel goes on or waits, as the interleaving has it.          *)
(***************************************************************************)
EXTENDS Naturals

CONSTANTS
    Process, NoPid,        \* the processes that use the plugin, and no process
    Thread, ThreadProc,    \* their threads, and the process of each
    EventThread,           \* the kernel thread that delivers process events
    Requested,             \* the frequencies callers ask for
    Disciplined,           \* one Set or Restore at a time, by the registered process
    ResetsFirst            \* a program sets the default before it restores

ASSUME ClockAssumption == /\ NoPid \notin Process
                          /\ ThreadProc \in [Thread -> Process]
                          /\ EventThread \notin Thread
                          /\ Requested \subseteq Nat
                          /\ {Disciplined, ResetsFirst} \subseteq BOOLEAN

VARIABLES
    pc,            \* next step of each actor
    clock,         \* what each actor is about to store in the kernel's word
    target,        \* targetExecClockFrequency
    actual,        \* *_vnzExecClockFrequency
    registeredPid, \* the session's owner
    closing,       \* a Restore is past its check
    alive, stopped,\* state of each process in the kernel
    hasSet,        \* the process has called Set (history)
    overtaken      \* a stop or start was handled beside a call of its process,
                   \* and the clock has not been put right since (history)

session == <<registeredPid, closing>>
kernel  == <<alive, stopped>>
history == <<hasSet, overtaken>>
vars    == <<pc, clock, target, actual, session, kernel, history>>

Default == 166
AllowedClock == {111, 55, 83, 41, 222, 333, Default}

Session == INSTANCE VnzSession WITH owner <- registeredPid, running <- {}

Actor == Thread \cup {EventThread}
Goto(a, step) == pc' = [pc EXCEPT ![a] = step]
ThreadsOf(p) == {t \in Thread : ThreadProc[t] = p}

Init == /\ pc = [a \in Actor |-> "idle"]
        /\ clock = [a \in Actor |-> Default]
        /\ target = Default
        /\ actual = Default
        /\ Session!Init
        /\ alive = [p \in Process |-> TRUE]
        /\ stopped = [p \in Process |-> FALSE]
        /\ hasSet = [p \in Process |-> FALSE]
        /\ overtaken = FALSE

\* A thread of a process that is neither stopped nor dead makes a call.
MayCall(t) == /\ pc[t] = "idle"
              /\ alive[ThreadProc[t]]
              /\ ~stopped[ThreadProc[t]]

\* A disciplined program changes the clock, or restores, from one thread at a
\* time and only while it is registered.
MayChange(t) == Disciplined => /\ registeredPid = ThreadProc[t]
                               /\ \A u \in Thread : pc[u] = "idle"

-----------------------------------------------------------------------------
(* vnzBridgeSetVeneziaExecClockFrequency; EINVAL for any other frequency.  *)

\* Mutant: any frequency is accepted.
Unchecked(c) == TRUE
Legal(c) == c \in AllowedClock

SetCall(t) ==
    /\ MayCall(t) /\ MayChange(t)
    /\ \E c \in Requested :
          IF ~Legal(c) THEN UNCHANGED vars
          ELSE /\ clock' = [clock EXCEPT ![t] = c]
               /\ Goto(t, "set_target")
               /\ hasSet' = [hasSet EXCEPT ![ThreadProc[t]] = TRUE]
               /\ overtaken' = (pc[EventThread] # "idle")
               /\ UNCHANGED <<target, actual, session, kernel>>

SetTarget(t) ==
    /\ pc[t] = "set_target"
    /\ target' = clock[t]
    /\ Goto(t, "set_actual")
    /\ UNCHANGED <<clock, actual, session, kernel, history>>

\* The store of the kernel's word, by a Set or by an event handler.
StoreActual(a, from) ==
    /\ pc[a] = from
    /\ actual' = clock[a]
    /\ clock' = [clock EXCEPT ![a] = Default]
    /\ Goto(a, "idle")
    /\ UNCHANGED <<target, session, kernel, history>>

SetActual(t) == StoreActual(t, "set_actual")

-----------------------------------------------------------------------------
(* Inject and Restore, as the session sees them; neither touches the clock.*)

Inject(t) == /\ MayCall(t)
             /\ Session!Open(ThreadProc[t])
             /\ UNCHANGED <<pc, clock, target, actual, kernel, history>>

RestoreBegin(t) == /\ MayCall(t) /\ MayChange(t)
                   /\ ResetsFirst => target = Default
                   /\ Session!BeginClose
                   /\ Goto(t, "restoring")
                   /\ UNCHANGED <<clock, target, actual, kernel, history>>

RestoreEnd(a) == /\ pc[a] = "restoring"
                 /\ Session!Close
                 /\ Goto(a, "idle")
                 /\ UNCHANGED <<clock, target, actual, kernel, history>>

-----------------------------------------------------------------------------
(* procEvHandler and procEvExitHandler.  Events are delivered one at a     *)
(* time: an exit when the threads of the process have left their system    *)
(* calls, a stop or a start at any moment.                                 *)

Quiet(p) == \A t \in ThreadsOf(p) : pc[t] = "idle"

\* The handlers act for the registered process with a clock of its own.
\* Mutant: for no process.
NeverTuned(p) == FALSE
Tuned(p) == registeredPid = p /\ target # Default

\* An event of the owner beside a call of its process may leave the words apart;
\* one that finds it quiet puts them right if the clock is not the default.
Noted(p) == overtaken' = IF registeredPid # p THEN overtaken
                         ELSE ~Quiet(p) \/ (overtaken /\ target = Default)

\* procEvHandler: the test, on our word, and then the store of c.
Handle(p, c) ==
    /\ pc[EventThread] = "idle"
    /\ IF Tuned(p)
       THEN /\ clock' = [clock EXCEPT ![EventThread] = c]
            /\ Goto(EventThread, "event_store")
       ELSE UNCHANGED <<pc, clock>>
    /\ Noted(p)

StopEvent(p) == /\ alive[p] /\ ~stopped[p]
                /\ stopped' = [stopped EXCEPT ![p] = TRUE]
                /\ Handle(p, Default)
                /\ UNCHANGED <<target, actual, session, alive, hasSet>>

StartEvent(p) == /\ stopped[p]
                 /\ stopped' = [stopped EXCEPT ![p] = FALSE]
                 /\ Handle(p, target)
                 /\ UNCHANGED <<target, actual, session, alive, hasSet>>

EventStore == StoreActual(EventThread, "event_store")

\* The clock the exit handler leaves in our own word.  Mutant: what was there.
KeptTarget == target
ResetTarget == Default

\* The clock of the kernel is reset first, then ours, then Restore is called.
ExitEvent(p) == /\ alive[p] /\ pc[EventThread] = "idle" /\ Quiet(p)
                /\ alive' = [alive EXCEPT ![p] = FALSE]
                /\ stopped' = [stopped EXCEPT ![p] = FALSE]
                /\ actual' = IF Tuned(p) THEN Default ELSE actual
                /\ Goto(EventThread, CASE Tuned(p) -> "exit_target"
                                       [] registeredPid = p /\ ~Tuned(p) -> "exit_restore"
                                       [] OTHER -> "idle")
                /\ Noted(p)
                /\ UNCHANGED <<clock, target, session, hasSet>>

ExitTarget == /\ pc[EventThread] = "exit_target"
              /\ target' = ResetTarget
              /\ Goto(EventThread, "exit_restore")
              /\ UNCHANGED <<clock, actual, session, kernel, history>>

\* Restore returns at once when the session is gone.
ExitRestore == /\ pc[EventThread] = "exit_restore"
               /\ IF registeredPid = NoPid
                  THEN Goto(EventThread, "idle") /\ UNCHANGED session
                  ELSE Session!BeginClose /\ Goto(EventThread, "restoring")
               /\ UNCHANGED <<clock, target, actual, kernel, history>>

\* A new process takes the place of a dead one.
Spawn(p) == /\ ~alive[p] /\ registeredPid # p /\ pc[EventThread] = "idle"
            /\ alive' = [alive EXCEPT ![p] = TRUE]
            /\ hasSet' = [hasSet EXCEPT ![p] = FALSE]
            /\ UNCHANGED <<pc, clock, target, actual, session, stopped, overtaken>>

-----------------------------------------------------------------------------
Next == \/ \E t \in Thread : \/ SetCall(t) \/ SetTarget(t) \/ SetActual(t)
                             \/ Inject(t) \/ RestoreBegin(t) \/ RestoreEnd(t)
        \/ \E p \in Process : \/ StopEvent(p) \/ StartEvent(p)
                              \/ ExitEvent(p) \/ Spawn(p)
        \/ EventStore \/ ExitTarget \/ ExitRestore \/ RestoreEnd(EventThread)

Spec == Init /\ [][Next]_vars

-----------------------------------------------------------------------------
(* Properties.                                                             *)

\* Types; with them, that neither clock word ever holds a frequency that Set
\* refuses.
TypeOK ==
    /\ pc \in [Actor -> {"idle", "set_target", "set_actual", "restoring",
                         "event_store", "exit_target", "exit_restore"}]
    /\ clock \in [Actor -> AllowedClock]
    /\ {target, actual} \subseteq AllowedClock
    /\ registeredPid \in Process \cup {NoPid}
    /\ closing \in BOOLEAN
    /\ alive \in [Process -> BOOLEAN]
    /\ stopped \in [Process -> BOOLEAN]
    /\ hasSet \in [Process -> BOOLEAN]
    /\ overtaken \in BOOLEAN

Settled == \A a \in Actor : pc[a] = "idle"

\* The clock that the state of the session calls for: the default while the
\* registered process is stopped, what was asked for otherwise.
Expected == IF registeredPid # NoPid /\ stopped[registeredPid]
            THEN Default ELSE target

\* A stop or a start handled beside a call of its process is the only thing that
\* can leave the Venezia at another clock, and only until a Set, or an event that
\* finds the process out of its calls, puts it right: a sequence of Sets, stops,
\* starts, exits, restarts and changes of owner never leaves the two words apart.
ClockFollowsOwner == Settled /\ ~overtaken => actual = Expected

\* A registered process that has not set the clock runs at the default value
\* ("Default value is 166 MHz"), whatever the owners before it asked for, unless
\* an event has overtaken a call of one of them.
DefaultUntilSet ==
    registeredPid # NoPid /\ ~hasSet[registeredPid] /\ ~overtaken => actual = Default

=============================================================================
