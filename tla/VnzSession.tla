----------------------------- MODULE VnzSession -----------------------------
(***************************************************************************)
(* What the bridge promises its callers (VVNZRunner/include/vvnzrunner.h): *)
(* at most one process has code injected in the Venezia; its threads, and  *)
(* no others, execute it; the code is taken away only when no call is      *)
(* executing it, and nobody injects or executes until it is gone.          *)
(***************************************************************************)
CONSTANTS Process, NoPid, Thread, ThreadProc

VARIABLES owner,    \* the process whose code is injected, or NoPid
          closing,  \* the code is being taken away
          running   \* the threads inside an Exec call

svars == <<owner, closing, running>>

Init == owner = NoPid /\ closing = FALSE /\ running = {}

Open(p) == /\ owner = NoPid
           /\ owner' = p
           /\ UNCHANGED <<closing, running>>

Start(t) == /\ owner = ThreadProc[t]
            /\ ~closing
            /\ t \notin running
            /\ running' = running \cup {t}
            /\ UNCHANGED <<owner, closing>>

Finish(t) == /\ t \in running
             /\ running' = running \ {t}
             /\ UNCHANGED <<owner, closing>>

BeginClose == /\ owner # NoPid
              /\ ~closing
              /\ running = {}
              /\ closing' = TRUE
              /\ UNCHANGED <<owner, running>>

Close == /\ closing
         /\ owner' = NoPid
         /\ closing' = FALSE
         /\ UNCHANGED running

Next == \/ \E p \in Process : Open(p)
        \/ \E t \in Thread : Start(t) \/ Finish(t)
        \/ BeginClose
        \/ Close

Spec == Init /\ [][Next]_svars
=============================================================================
