---------------------------- MODULE VnzAllocator ----------------------------
(***************************************************************************)
(* What vvnzrunner.h promises of memory from an unmapped memblock: a chunk *)
(* that has been allocated is PUBLIC on the Venezia side until it is       *)
(* freed, and goes back to the memblock only after the Venezia has been    *)
(* denied it.  In between it is in the charge of one call, or of the       *)
(* program that has closed it; a call may lose a chunk, never share one.   *)
(***************************************************************************)
CONSTANTS Chunk, Thread, Program

VARIABLES public,   \* chunks the Venezia may use
          charge    \* who answers for each chunk that is neither free nor public

avars == <<public, charge>>

Free == "free"
Lost == "lost"

Init == public = {} /\ charge = [c \in Chunk |-> Free]

Pass(c, from, to) == /\ charge[c] = from
                     /\ charge' = [charge EXCEPT ![c] = to]

\* A call takes a chunk out of the memblock, or puts back one it answers for.
Take(t, c) == c \notin public /\ Pass(c, Free, t) /\ UNCHANGED public
Give(t, c) == Pass(c, t, Free) /\ UNCHANGED public

\* Whoever answers for a chunk opens it to the Venezia; a public chunk is closed
\* to it, and one call, or the program, answers for it from then on.
Open(w, c) == Pass(c, w, Free) /\ public' = public \cup {c}
Shut(w, c) == c \in public /\ Pass(c, Free, w) /\ public' = public \ {c}

\* A call gives a chunk up without putting it back.
Lose(t, c) == Pass(c, t, Lost) /\ UNCHANGED public

Next == \E c \in Chunk :
           \/ \E t \in Thread : Take(t, c) \/ Give(t, c) \/ Lose(t, c)
           \/ \E w \in Thread \cup {Program} : Open(w, c) \/ Shut(w, c)

Spec == Init /\ [][Next]_avars
=============================================================================
