------------------------ MODULE VnzUnmapMemory_proofs ------------------------
(***************************************************************************)
(* Proofs about VnzUnmapMemory: types, that every chunk is accounted for,  *)
(* that the addresses a program holds are live, and that the module        *)
(* implements VnzAllocator.  None depends on how many threads there are,   *)
(* nor on which addresses they race to free.                               *)
(***************************************************************************)
EXTENDS VnzUnmapMemory, TLAPS

\* Types of Alloc, Free and the wrappers: each step keeps them.
THEOREM UnmapTypeCorrect == Spec => []TypeOK
<1>1. Init => TypeOK
  BY DEF Init, TypeOK
<1>2. TypeOK /\ [Next]_vars => TypeOK'
  <2> SUFFICES ASSUME TypeOK, [Next]_vars PROVE TypeOK'
    OBVIOUS
  <2> USE DEF TypeOK, AllocSteps, FreeSteps, Goto, program, calls
  <2>1. ASSUME NEW t \in Thread, AllocCall(t) PROVE TypeOK'
    BY <2>1 DEF AllocCall, Obtained, Refused, vars
  <2>2. ASSUME NEW t \in Thread, AllocConvert(t) PROVE TypeOK'
    BY <2>2 DEF AllocConvert, OnConvertFailure
  <2>3. ASSUME NEW t \in Thread, AllocOpen(t) PROVE TypeOK'
    BY <2>3 DEF AllocOpen, OnOpenFailure
  <2>4. ASSUME NEW t \in Thread, AllocCopy(t) PROVE TypeOK'
    BY <2>4 DEF AllocCopy
  <2>5. ASSUME NEW t \in Thread, AllocUndo(t) PROVE TypeOK'
    BY <2>5 DEF AllocUndo, PutBack, Strand
  <2>6. ASSUME NEW t \in Thread, FreeCall(t) PROVE TypeOK'
    BY <2>6 DEF FreeCall
  <2>7. ASSUME NEW t \in Thread, FreeClose(t) PROVE TypeOK'
    BY <2>7 DEF FreeClose, OnCloseFailure
  <2>8. ASSUME NEW t \in Thread, FreeConvert(t) PROVE TypeOK'
    BY <2>8 DEF FreeConvert, Strand
  <2>9. ASSUME NEW t \in Thread, FreeRelease(t) PROVE TypeOK'
    BY <2>9 DEF FreeRelease, PutBack, Strand
  <2>10. ASSUME NEW c \in Chunk, CloseUser(c) PROVE TypeOK'
    BY <2>10 DEF CloseUser
  <2>11. ASSUME NEW c \in Chunk, OpenUser(c) PROVE TypeOK'
    BY <2>11 DEF OpenUser
  <2>12. CASE UNCHANGED vars
    BY <2>12 DEF vars
  <2> QED
    BY <2>1, <2>2, <2>3, <2>4, <2>5, <2>6, <2>7, <2>8, <2>9, <2>10, <2>11, <2>12
    DEF Next, Alloc, FreeMemory
<1> QED
  BY <1>1, <1>2, PTL DEF Spec

-----------------------------------------------------------------------------
(* Every chunk is accounted for.  A step concerns one chunk, the one its   *)
(* call works on: nobody else comes to answer for it or stops answering,   *)
(* and no other chunk is touched.                                          *)

\* A call that answers for a chunk outside its own step goes on doing so.
LEMMA ChargeOfOthers ==
    ASSUME NEW t \in Thread, NEW u \in Thread, NEW c \in Chunk, TypeOK,
           u # t,
           \E step : pc' = [pc EXCEPT ![t] = step],
           memory' = memory \/ \E d : memory' = [memory EXCEPT ![t] = d]
    PROVE  InCharge(u, c)' <=> InCharge(u, c)
  BY DEF TypeOK, InCharge

\* The accounting at a step of thread t that works on chunk d, given what the
\* step does to the sets and to the charge of t itself.
LEMMA Accounting ==
    ASSUME NEW t \in Thread, NEW d \in Chunk, TypeOK, ChunksAccounted,
           \A u \in Thread \ {t}, c \in Chunk : InCharge(u, c)' <=> InCharge(u, c),
           \A c \in Chunk \ {d} : /\ InCharge(t, c)' <=> InCharge(t, c)
                                  /\ c \in allocated' <=> c \in allocated
                                  /\ c \in opened' <=> c \in opened
                                  /\ c \in withdrawn' <=> c \in withdrawn
                                  /\ c \in stranded' <=> c \in stranded,
           d \in allocated' <=> d \in opened' \/ d \in withdrawn' \/ d \in stranded'
                                  \/ InCall(d)',
           d \in opened' => d \notin withdrawn' \cup stranded' /\ ~InCall(d)',
           d \in withdrawn' => d \notin stranded' /\ ~InCall(d)',
           d \in stranded' => ~InCall(d)',
           InCharge(t, d)' => \A u \in Thread \ {t} : ~InCharge(u, d)
    PROVE  ChunksAccounted'
<1>1. \A c \in Chunk \ {d} : InCall(c)' <=> InCall(c)
  BY DEF InCall
<1>2. \A c \in Chunk, u \in Thread, w \in Thread :
         InCharge(u, c)' /\ InCharge(w, c)' => u = w
  BY DEF ChunksAccounted
<1> QED
  BY <1>1, <1>2 DEF ChunksAccounted

\* No chunk is left to nobody but where the kernel refuses to take it back, put back
\* twice by racing Frees, or answered for by two calls: whatever the threads race to free.
THEOREM AllChunksAccounted == Spec => []ChunksAccounted
<1>1. Init => ChunksAccounted
  BY ChunkAssumption DEF Init, ChunksAccounted, InCall, InCharge
<1>2. TypeOK /\ ChunksAccounted /\ [Next]_vars => ChunksAccounted'
  <2> SUFFICES ASSUME TypeOK, ChunksAccounted, [Next]_vars PROVE ChunksAccounted'
    OBVIOUS
  <2> USE DEF Goto, program, calls
  <2>1. ASSUME NEW t \in Thread, AllocCall(t) PROVE ChunksAccounted'
    <3>1. CASE Refused
      BY <3>1 DEF Refused, vars, ChunksAccounted, InCall, InCharge
    <3>2. CASE ~Refused
      <4>1. PICK c \in Chunk \ allocated :
              /\ allocated' = allocated \cup {c}
              /\ memory' = [memory EXCEPT ![t] = c]
              /\ pc' = [pc EXCEPT ![t] = "alloc_pa"]
              /\ UNCHANGED <<opened, withdrawn, stranded>>
        BY <2>1, <3>2 DEF AllocCall, Obtained
      <4>2. pc[t] = "idle"
        BY <2>1 DEF AllocCall
      <4>3. \A u \in Thread \ {t}, d \in Chunk : InCharge(u, d)' <=> InCharge(u, d)
        BY <4>1, ChargeOfOthers
      <4>4. ~InCall(c) /\ c \notin opened /\ c \notin withdrawn /\ c \notin stranded
        BY <4>1 DEF ChunksAccounted
      <4>5. InCharge(t, c)' /\ InCall(c)'
        BY <4>1 DEF InCharge, InCall, TypeOK
      <4>6. \A d \in Chunk \ {c} : InCharge(t, d)' <=> InCharge(t, d)
        BY <4>1, <4>2 DEF InCharge, TypeOK
      <4> QED
        BY <4>1, <4>3, <4>4, <4>5, <4>6, Accounting DEF InCall
    <3> QED
      BY <3>1, <3>2
  <2>2. ASSUME NEW t \in Thread, AllocConvert(t) PROVE ChunksAccounted'
    <3>1. \A u \in Thread, c \in Chunk : InCharge(u, c)' <=> InCharge(u, c)
      BY <2>2 DEF AllocConvert, OnConvertFailure, InCharge, TypeOK
    <3> QED
      BY <2>2, <3>1 DEF AllocConvert, ChunksAccounted, InCall
  <2>3. ASSUME NEW t \in Thread, AllocOpen(t) PROVE ChunksAccounted'
    <3>1. PICK d \in Chunk : d = memory[t]
      BY <2>3 DEF AllocOpen, TypeOK
    <3>2. InCharge(t, d)
      BY <2>3, <3>1 DEF AllocOpen, InCharge
    <3>3. \A u \in Thread \ {t}, c \in Chunk : InCharge(u, c)' <=> InCharge(u, c)
      BY <2>3, ChargeOfOthers DEF AllocOpen
    <3>4. \A c \in Chunk \ {d} : InCharge(t, c)' <=> InCharge(t, c)
      BY <2>3, <3>1 DEF AllocOpen, InCharge, TypeOK
    <3>5. /\ d \in allocated /\ d \notin opened \cup withdrawn \cup stranded
          /\ \A u \in Thread \ {t} : ~InCharge(u, d)
      BY <3>2 DEF ChunksAccounted, InCall
    <3>6. CASE opened' = opened \cup {memory[t]} /\ pc' = [pc EXCEPT ![t] = "alloc_copy"]
      <4>1. ~InCharge(t, d)'
        BY <2>3, <3>6 DEF AllocOpen, InCharge, TypeOK
      <4> QED
        BY <2>3, <3>1, <3>3, <3>4, <3>5, <3>6, <4>1, Accounting DEF AllocOpen, InCall
    <3>7. CASE UNCHANGED opened /\ pc' = [pc EXCEPT ![t] = OnOpenFailure]
      <4>1. InCharge(t, d)'
        BY <2>3, <3>1, <3>7 DEF AllocOpen, OnOpenFailure, InCharge, TypeOK
      <4> QED
        BY <2>3, <3>3, <3>4, <3>5, <3>7, <4>1, Accounting DEF AllocOpen, InCall
    <3> QED
      BY <2>3, <3>6, <3>7 DEF AllocOpen
  <2>4. ASSUME NEW t \in Thread, AllocCopy(t) PROVE ChunksAccounted'
    <3>1. \A u \in Thread, c \in Chunk : InCharge(u, c)' <=> InCharge(u, c)
      BY <2>4 DEF AllocCopy, InCharge, TypeOK
    <3> QED
      BY <2>4, <3>1 DEF AllocCopy, ChunksAccounted, InCall
  <2>6. ASSUME NEW t \in Thread, FreeCall(t) PROVE ChunksAccounted'
    <3>1. \A u \in Thread, c \in Chunk : InCharge(u, c)' <=> InCharge(u, c)
      BY <2>6 DEF FreeCall, InCharge, TypeOK
    <3> QED
      BY <2>6, <3>1 DEF FreeCall, ChunksAccounted, InCall
  <2>7. ASSUME NEW t \in Thread, FreeClose(t) PROVE ChunksAccounted'
    <3>1. PICK d \in Chunk : d = memory[t]
      BY <2>7 DEF FreeClose, TypeOK
    <3>2. ~InCharge(t, d) /\ \A c \in Chunk : ~InCharge(t, c)
      BY <2>7 DEF FreeClose, InCharge
    <3>3. \A u \in Thread \ {t}, c \in Chunk : InCharge(u, c)' <=> InCharge(u, c)
      BY <2>7, ChargeOfOthers DEF FreeClose
    <3>4. CASE /\ memory[t] \in opened
               /\ opened' = opened \ {memory[t]}
               /\ pc' = [pc EXCEPT ![t] = "free_va"]
      <4>1. InCharge(t, d)' /\ \A c \in Chunk \ {d} : ~InCharge(t, c)'
        BY <2>7, <3>1, <3>4 DEF FreeClose, InCharge, TypeOK
      <4>2. /\ d \in allocated /\ d \notin withdrawn \cup stranded
            /\ \A u \in Thread \ {t} : ~InCharge(u, d)
        BY <3>1, <3>4 DEF ChunksAccounted, InCall
      <4> QED
        BY <2>7, <3>1, <3>2, <3>3, <3>4, <4>1, <4>2, Accounting DEF FreeClose, InCall
    <3>5. CASE UNCHANGED opened /\ pc' = [pc EXCEPT ![t] = OnCloseFailure]
      <4>1. \A u \in Thread, c \in Chunk : InCharge(u, c)' <=> InCharge(u, c)
        BY <2>7, <3>5 DEF FreeClose, OnCloseFailure, InCharge, TypeOK
      <4> QED
        BY <2>7, <3>5, <4>1 DEF FreeClose, ChunksAccounted, InCall
    <3> QED
      BY <2>7, <3>4, <3>5 DEF FreeClose
  <2>8. ASSUME NEW t \in Thread, AllocUndo(t) \/ FreeConvert(t) \/ FreeRelease(t) PROVE ChunksAccounted'
    <3>1. PICK d \in Chunk : d = memory[t]
      BY <2>8 DEF AllocUndo, FreeConvert, FreeRelease, PutBack, TypeOK
    <3>2. InCharge(t, d)
      BY <2>8, <3>1 DEF AllocUndo, FreeConvert, FreeRelease, PutBack, InCharge
    <3>3. \A u \in Thread \ {t}, c \in Chunk : InCharge(u, c)' <=> InCharge(u, c)
      BY <2>8, ChargeOfOthers DEF AllocUndo, FreeConvert, FreeRelease, PutBack, Strand
    <3>4. \A c \in Chunk \ {d} : InCharge(t, c)' <=> InCharge(t, c)
      BY <2>8, <3>1 DEF AllocUndo, FreeConvert, FreeRelease, PutBack, Strand, InCharge, TypeOK
    <3>5. /\ d \in allocated /\ d \notin opened \cup withdrawn \cup stranded
          /\ \A u \in Thread \ {t} : ~InCharge(u, d)
      BY <3>2 DEF ChunksAccounted, InCall
    <3>6. CASE UNCHANGED <<allocated, stranded>> /\ pc' = [pc EXCEPT ![t] = "free_release"]
      <4>1. InCharge(t, d)'
        BY <2>8, <3>1, <3>6 DEF AllocUndo, FreeConvert, FreeRelease, PutBack, InCharge, TypeOK
      <4> QED
        BY <2>8, <3>3, <3>4, <3>5, <3>6, <4>1, Accounting DEF AllocUndo, FreeConvert, FreeRelease, PutBack, InCall
    <3>7. CASE pc' = [pc EXCEPT ![t] = "idle"] /\ \/ Strand(t)
                                                  \/ /\ allocated' = allocated \ {memory[t]}
                                                     /\ UNCHANGED stranded
      <4>1. ~InCharge(t, d)'
        BY <2>8, <3>1, <3>7 DEF InCharge, TypeOK
      <4> QED
        BY <2>8, <3>1, <3>3, <3>4, <3>5, <3>7, <4>1, Accounting
        DEF AllocUndo, FreeConvert, FreeRelease, PutBack, Strand, InCall
    <3> QED
      BY <2>8, <3>6, <3>7 DEF AllocUndo, FreeConvert, FreeRelease, PutBack, Strand
  <2>9. ASSUME NEW c \in Chunk, CloseUser(c) \/ OpenUser(c) PROVE ChunksAccounted'
    <3>1. \A u \in Thread, d \in Chunk : InCharge(u, d)' <=> InCharge(u, d)
      BY <2>9 DEF CloseUser, OpenUser, InCharge
    <3> QED
      BY <2>9, <3>1 DEF CloseUser, OpenUser, ChunksAccounted, InCall
  <2>10. CASE UNCHANGED vars
    BY <2>10 DEF vars, ChunksAccounted, InCall, InCharge
  <2> QED
    BY <2>1, <2>2, <2>3, <2>4, <2>6, <2>7, <2>8, <2>9, <2>10
    DEF Next, Alloc, FreeMemory
<1> QED
  BY <1>1, <1>2, UnmapTypeCorrect, PTL DEF Spec

-----------------------------------------------------------------------------
(* The addresses a program holds.                                          *)

\* What a step of thread t leaves alone: the other calls that deliver or free c.
LEMMA OthersDeliverAndFree ==
    ASSUME NEW t \in Thread, NEW c \in Chunk, TypeOK,
           \E step : pc' = [pc EXCEPT ![t] = step],
           memory' = memory \/ \E d : memory' = [memory EXCEPT ![t] = d]
    PROVE  /\ Delivering(c)' \ {t} = Delivering(c) \ {t}
           /\ Freeing(c)' \ {t} = Freeing(c) \ {t}
  BY DEF TypeOK, Delivering, Freeing

\* An address that a program holds, and does not race to free, is that of an
\* allocated chunk that the Venezia may use; whatever happens to the others.
THEOREM HandlesStayLive == Spec => []HandlesLive
<1>1. Init => HandleInv
  BY DEF Init, HandleInv, Delivering, Freeing
<1>2. TypeOK /\ ChunksAccounted /\ HandleInv /\ [Next]_vars => HandleInv'
  <2> SUFFICES ASSUME TypeOK, ChunksAccounted, HandleInv, [Next]_vars,
                      NEW c \in Chunk \ Raced
               PROVE  /\ Delivering(c)' # {} =>
                            c \in opened' /\ c \notin held' /\ Freeing(c)' = {}
                      /\ Freeing(c)' # {} => c \in held'
                      /\ c \in held' => c \in opened'
                      /\ \A t, u \in Delivering(c)' \cup Freeing(c)' : t = u
    BY DEF HandleInv
  <2>0. /\ Delivering(c) # {} => c \in opened /\ c \notin held /\ Freeing(c) = {}
        /\ Freeing(c) # {} => c \in held
        /\ c \in held => c \in opened
        /\ \A t, u \in Delivering(c) \cup Freeing(c) : t = u
    BY DEF HandleInv
  <2> USE DEF Goto, program, calls
  <2>1. CASE UNCHANGED <<calls, opened, held>>
    BY <2>0, <2>1 DEF Delivering, Freeing
  <2>2. ASSUME NEW t \in Thread, AllocCall(t) \/ AllocConvert(t) \/ AllocUndo(t) \/ FreeConvert(t) \/ FreeRelease(t),
               ~UNCHANGED calls
        PROVE  Delivering(c)' = Delivering(c) /\ Freeing(c)' = Freeing(c) /\ UNCHANGED <<opened, held>>
    BY <2>2 DEF AllocCall, AllocConvert, AllocUndo, FreeConvert, FreeRelease, PutBack, Strand, Refused, vars,
                OnConvertFailure, Delivering, Freeing, TypeOK
  <2>3. ASSUME NEW t \in Thread, AllocOpen(t)
        PROVE  \/ UNCHANGED <<opened, held>> /\ Delivering(c)' = Delivering(c) /\ Freeing(c)' = Freeing(c)
               \/ /\ c \notin opened /\ opened' = opened \cup {c} /\ UNCHANGED held
                  /\ Delivering(c)' = {t} /\ Freeing(c)' = Freeing(c)
               \/ /\ c \in opened <=> c \in opened'
                  /\ UNCHANGED held
                  /\ Delivering(c)' = Delivering(c) /\ Freeing(c)' = Freeing(c)
    <3>1. Freeing(c)' = Freeing(c)
      BY <2>3 DEF AllocOpen, OnOpenFailure, Freeing, TypeOK
    <3>2. CASE UNCHANGED opened /\ pc' = [pc EXCEPT ![t] = OnOpenFailure]
      BY <2>3, <3>1, <3>2 DEF AllocOpen, OnOpenFailure, Delivering, TypeOK
    <3>3. CASE opened' = opened \cup {memory[t]} /\ pc' = [pc EXCEPT ![t] = "alloc_copy"]
      <4>1. CASE memory[t] = c
        <5>1. InCall(c)
          BY <2>3, <4>1 DEF AllocOpen, InCall, InCharge
        <5>2. c \notin opened /\ Delivering(c) = {}
          BY <5>1, <2>0 DEF ChunksAccounted
        <5>3. Delivering(c)' = {t}
          BY <2>3, <3>3, <4>1, <5>2 DEF AllocOpen, Delivering, TypeOK
        <5> QED
          BY <2>3, <3>1, <3>3, <4>1, <5>2, <5>3 DEF AllocOpen
      <4>2. CASE memory[t] # c
        BY <2>3, <3>1, <3>3, <4>2 DEF AllocOpen, Delivering, TypeOK
      <4> QED
        BY <4>1, <4>2
    <3> QED
      BY <2>3, <3>2, <3>3 DEF AllocOpen
  <2>4. ASSUME NEW t \in Thread, AllocCopy(t)
        PROVE  /\ UNCHANGED opened
               /\ Delivering(c)' = Delivering(c) \ {t} /\ Freeing(c)' = Freeing(c)
               /\ \/ c \in held' <=> c \in held
                  \/ t \in Delivering(c) /\ c \in held'
    BY <2>4 DEF AllocCopy, Delivering, Freeing, TypeOK
  <2>5. ASSUME NEW t \in Thread, FreeCall(t)
        PROVE  /\ UNCHANGED <<opened, held>> /\ Delivering(c)' = Delivering(c)
               /\ \/ Freeing(c)' = Freeing(c)
                  \/ c \in held /\ Freeing(c) = {} /\ Freeing(c)' = {t}
    <3>1. PICK d \in Chunk : /\ d \in Raced \/ (d \in held /\ NotInFree(d))
                             /\ memory' = [memory EXCEPT ![t] = d]
      BY <2>5 DEF FreeCall
    <3>2. UNCHANGED <<opened, held>> /\ Delivering(c)' = Delivering(c)
      BY <2>5, <3>1 DEF FreeCall, Delivering, TypeOK
    <3>3. CASE d = c
      <4>1. c \in held /\ Freeing(c) = {}
        BY <3>1, <3>3 DEF NotInFree, Freeing, FreeSteps
      <4> QED
        BY <2>5, <3>1, <3>2, <3>3, <4>1 DEF FreeCall, Freeing, TypeOK
    <3>4. CASE d # c
      BY <2>5, <3>1, <3>2, <3>4 DEF FreeCall, Freeing, TypeOK
    <3> QED
      BY <3>3, <3>4
  <2>6. ASSUME NEW t \in Thread, FreeClose(t)
        PROVE  /\ Delivering(c)' = Delivering(c) /\ Freeing(c)' = Freeing(c) \ {t}
               /\ \/ (c \in held' <=> c \in held) /\ (c \in opened' <=> c \in opened)
                  \/ t \in Freeing(c) /\ c \notin held' /\ c \notin opened'
    BY <2>6 DEF FreeClose, OnCloseFailure, Delivering, Freeing, TypeOK
  <2>7. ASSUME NEW d \in Chunk, CloseUser(d)
        PROVE  /\ Delivering(c)' = Delivering(c) /\ Freeing(c)' = Freeing(c)
               /\ \/ (c \in held' <=> c \in held) /\ (c \in opened' <=> c \in opened)
                  \/ c \in held /\ Freeing(c) = {} /\ c \notin held' /\ c \notin opened'
    BY <2>7 DEF CloseUser, NotInFree, Delivering, Freeing, FreeSteps
  <2>8. ASSUME NEW d \in Chunk, OpenUser(d)
        PROVE  /\ Delivering(c)' = Delivering(c) /\ Freeing(c)' = Freeing(c)
               /\ \/ (c \in held' <=> c \in held) /\ (c \in opened' <=> c \in opened)
                  \/ c \notin opened /\ c \in held' /\ c \in opened'
    BY <2>8 DEF OpenUser, ChunksAccounted, Delivering, Freeing
  <2>9. ASSUME NEW t \in Thread, Alloc(t) \/ FreeMemory(t), ~UNCHANGED <<calls, opened, held>>
        PROVE  \/ AllocOpen(t) \/ AllocCopy(t) \/ FreeCall(t) \/ FreeClose(t)
               \/ Delivering(c)' = Delivering(c) /\ Freeing(c)' = Freeing(c) /\ UNCHANGED <<opened, held>>
    <3>1. CASE UNCHANGED calls
      BY <2>9, <3>1 DEF Alloc, FreeMemory, AllocCall, AllocConvert, AllocUndo, FreeConvert, FreeRelease, PutBack, Refused, vars
    <3>2. CASE ~UNCHANGED calls
      BY <2>9, <3>2, <2>2 DEF Alloc, FreeMemory
    <3> QED
      BY <3>1, <3>2
  <2>10. CASE \E t \in Thread : Alloc(t) \/ FreeMemory(t)
    <3>1. CASE \E t \in Thread : AllocOpen(t)
      BY <3>1, <2>0, <2>3
    <3>2. CASE \E t \in Thread : AllocCopy(t)
      BY <3>2, <2>0, <2>4
    <3>3. CASE \E t \in Thread : FreeCall(t)
      BY <3>3, <2>0, <2>5
    <3>4. CASE \E t \in Thread : FreeClose(t)
      BY <3>4, <2>0, <2>6
    <3> QED
      BY <2>10, <2>0, <2>1, <2>9, <3>1, <3>2, <3>3, <3>4
  <2>11. CASE \E d \in Chunk : CloseUser(d) \/ OpenUser(d)
    BY <2>11, <2>0, <2>7, <2>8
  <2>12. CASE UNCHANGED vars
    BY <2>12, <2>1 DEF vars
  <2> QED
    BY <2>10, <2>11, <2>12 DEF Next
<1>3. TypeOK /\ ChunksAccounted /\ HandleInv => HandlesLive
  BY DEF TypeOK, ChunksAccounted, HandleInv, HandlesLive
<1> QED
  BY <1>1, <1>2, <1>3, UnmapTypeCorrect, AllChunksAccounted, PTL DEF Spec

-----------------------------------------------------------------------------
(* The refinement of VnzAllocator.                                         *)

Charge(c) == IF c \in withdrawn THEN Program
             ELSE IF c \in stranded THEN "lost"
             ELSE IF InCall(c) THEN CHOOSE t \in Thread : InCharge(t, c)
             ELSE "free"

\* The charge of the mapping, told apart from the choice it is defined with.
LEMMA ChargeValues ==
    ASSUME ChunksAccounted, NEW c \in Chunk
    PROVE  /\ \A t \in Thread : InCharge(t, c) => Charge(c) = t
           /\ c \in withdrawn => Charge(c) = Program
           /\ c \in stranded => Charge(c) = "lost"
           /\ c \notin allocated \/ c \in opened => Charge(c) = "free"
<1>1. ASSUME NEW t \in Thread, InCharge(t, c) PROVE Charge(c) = t
  <2>1. c \notin withdrawn /\ c \notin stranded /\ InCall(c)
    BY <1>1 DEF ChunksAccounted, InCall
  <2>2. \A u \in Thread : InCharge(u, c) => u = t
    BY <1>1 DEF ChunksAccounted
  <2> QED
    BY <1>1, <2>1, <2>2 DEF Charge
<1> QED
  BY <1>1 DEF ChunksAccounted, Charge

LEMMA NextChargeValues ==
    ASSUME ChunksAccounted', NEW c \in Chunk
    PROVE  /\ \A t \in Thread : InCharge(t, c)' => Charge(c)' = t
           /\ c \in withdrawn' => Charge(c)' = Program
           /\ c \in stranded' => Charge(c)' = "lost"
           /\ c \notin allocated' \/ c \in opened' => Charge(c)' = "free"
<1>1. ASSUME NEW t \in Thread, InCharge(t, c)' PROVE Charge(c)' = t
  <2>1. c \notin withdrawn' /\ c \notin stranded' /\ InCall(c)'
    BY <1>1 DEF ChunksAccounted, InCall
  <2>2. \A u \in Thread : InCharge(u, c)' => u = t
    BY <1>1 DEF ChunksAccounted
  <2> QED
    BY <1>1, <2>1, <2>2 DEF Charge
<1> QED
  BY <1>1 DEF ChunksAccounted, Charge

\* The charge of a chunk changes only when the sets or the calls' charges do.
LEMMA KeptCharge ==
    ASSUME ChunksAccounted, ChunksAccounted', NEW c \in Chunk,
           c \in withdrawn' <=> c \in withdrawn,
           c \in stranded' <=> c \in stranded,
           \A u \in Thread : InCharge(u, c)' <=> InCharge(u, c)
    PROVE  Charge(c)' = Charge(c)
<1>1. CASE \E t \in Thread : InCharge(t, c)
  BY <1>1, ChargeValues, NextChargeValues
<1>2. CASE ~\E t \in Thread : InCharge(t, c)
  <2>1. ~InCall(c) /\ ~InCall(c)'
    BY <1>2 DEF InCall
  <2> QED
    BY <2>1 DEF Charge
<1> QED
  BY <1>1, <1>2

LEMMA SameCharge ==
    ASSUME ChunksAccounted, ChunksAccounted',
           UNCHANGED <<opened, withdrawn, stranded>>,
           \A u \in Thread, c \in Chunk : InCharge(u, c)' <=> InCharge(u, c)
    PROVE  UNCHANGED Allocator!avars
<1>1. \A c \in Chunk : Charge(c)' = Charge(c)
  BY KeptCharge
<1> QED
  BY <1>1 DEF Allocator!avars, Charge

\* A step that changes the charge of chunk d, and of no other.
LEMMA PassCharge ==
    ASSUME ChunksAccounted, ChunksAccounted', NEW d \in Chunk,
           \A c \in Chunk \ {d} : /\ c \in withdrawn' <=> c \in withdrawn
                                  /\ c \in stranded' <=> c \in stranded
                                  /\ \A u \in Thread : InCharge(u, c)' <=> InCharge(u, c)
    PROVE  [c \in Chunk |-> Charge(c)]' = [[c \in Chunk |-> Charge(c)] EXCEPT ![d] = Charge(d)']
<1>1. \A c \in Chunk \ {d} : Charge(c)' = Charge(c)
  BY KeptCharge
<1> QED
  BY <1>1

\* Alloc, Free and the wrappers implement the allocator that the header documents.
THEOREM ImplementsAllocator == Spec => AllocatorSpec
<1>1. Init => Allocator!Init
  <2> SUFFICES ASSUME Init PROVE Allocator!Init
    OBVIOUS
  <2>1. \A c \in Chunk : ~InCall(c)
    BY DEF Init, InCall, InCharge
  <2> QED
    BY <2>1 DEF Init, Allocator!Init, Allocator!Free
<1>2. TypeOK /\ ChunksAccounted /\ ChunksAccounted' /\ [Next]_vars => [Allocator!Next]_Allocator!avars
  <2> SUFFICES ASSUME TypeOK, ChunksAccounted, ChunksAccounted', [Next]_vars
               PROVE  \/ UNCHANGED Allocator!avars
                      \/ \E c \in Chunk :
                           \/ \E t \in Thread : \/ Allocator!Take(t, c) \/ Allocator!Give(t, c)
                                               \/ Allocator!Lose(t, c)
                           \/ \E w \in Thread \cup {Program} : Allocator!Open(w, c) \/ Allocator!Shut(w, c)
    BY DEF Allocator!Next
  <2> DEFINE Passes(c, from, to) ==
        /\ Charge(c) = from
        /\ [d \in Chunk |-> Charge(d)]' = [[d \in Chunk |-> Charge(d)] EXCEPT ![c] = to]
  <2>0. \A c \in Chunk : \A x, y : Passes(c, x, y) => Allocator!Pass(c, x, y)
    BY DEF Charge, Allocator!Pass
  <2> HIDE DEF Passes
  <2> USE DEF Goto, program, calls
  <2>1. ASSUME NEW t \in Thread, AllocCall(t)
        PROVE  UNCHANGED vars \/ \E c \in Chunk : Allocator!Take(t, c)
    <3>1. CASE Refused
      BY <3>1 DEF Refused
    <3>2. CASE ~Refused
      <4>1. PICK c \in Chunk \ allocated :
              /\ allocated' = allocated \cup {c}
              /\ memory' = [memory EXCEPT ![t] = c]
              /\ pc' = [pc EXCEPT ![t] = "alloc_pa"]
              /\ UNCHANGED <<opened, withdrawn, stranded>>
        BY <2>1, <3>2 DEF AllocCall, Obtained
      <4>2. pc[t] = "idle"
        BY <2>1 DEF AllocCall
      <4>3. \A u \in Thread \ {t}, d \in Chunk : InCharge(u, d)' <=> InCharge(u, d)
        BY <4>1, ChargeOfOthers
      <4>4. InCharge(t, c)' /\ \A d \in Chunk \ {c} : InCharge(t, d)' <=> InCharge(t, d)
        BY <4>1, <4>2 DEF InCharge, TypeOK
      <4>5. c \notin opened /\ Charge(c) = "free" /\ Charge(c)' = t
        BY <4>1, <4>4, ChargeValues, NextChargeValues DEF ChunksAccounted
      <4>6. Passes(c, "free", t)
        BY <4>1, <4>3, <4>4, <4>5, PassCharge DEF Passes
      <4> QED
        BY <4>1, <4>5, <4>6, <2>0 DEF Allocator!Take, Allocator!Free
    <3> QED
      BY <3>1, <3>2
  <2>2. ASSUME NEW t \in Thread, AllocConvert(t) \/ AllocCopy(t) \/ FreeCall(t)
        PROVE  UNCHANGED Allocator!avars
    <3>1. \A u \in Thread, c \in Chunk : InCharge(u, c)' <=> InCharge(u, c)
      BY <2>2 DEF AllocConvert, AllocCopy, FreeCall, OnConvertFailure, InCharge, TypeOK
    <3> QED
      BY <2>2, <3>1, SameCharge DEF AllocConvert, AllocCopy, FreeCall
  <2>3. ASSUME NEW t \in Thread, AllocOpen(t)
        PROVE  UNCHANGED Allocator!avars \/ \E c \in Chunk : Allocator!Open(t, c)
    <3>1. PICK d \in Chunk : d = memory[t]
      BY <2>3 DEF AllocOpen, TypeOK
    <3>2. InCharge(t, d)
      BY <2>3, <3>1 DEF AllocOpen, InCharge
    <3>3. \A u \in Thread \ {t}, c \in Chunk : InCharge(u, c)' <=> InCharge(u, c)
      BY <2>3, ChargeOfOthers DEF AllocOpen
    <3>4. \A c \in Chunk \ {d} : InCharge(t, c)' <=> InCharge(t, c)
      BY <2>3, <3>1 DEF AllocOpen, InCharge, TypeOK
    <3>5. CASE opened' = opened \cup {memory[t]}
      <4>1. Charge(d) = t /\ Charge(d)' = "free"
        BY <3>1, <3>2, <3>5, ChargeValues, NextChargeValues
      <4>2. Passes(d, t, "free")
        BY <2>3, <3>3, <3>4, <4>1, PassCharge DEF AllocOpen, Passes
      <4> QED
        BY <3>1, <3>5, <4>2, <2>0 DEF Allocator!Open, Allocator!Free
    <3>6. CASE UNCHANGED opened /\ pc' = [pc EXCEPT ![t] = OnOpenFailure]
      <4>1. InCharge(t, d)'
        BY <2>3, <3>1, <3>6 DEF AllocOpen, OnOpenFailure, InCharge, TypeOK
      <4> QED
        BY <2>3, <3>2, <3>3, <3>4, <3>6, <4>1, SameCharge DEF AllocOpen
    <3> QED
      BY <2>3, <3>5, <3>6 DEF AllocOpen
  <2>4. ASSUME NEW t \in Thread, AllocUndo(t) \/ FreeConvert(t) \/ FreeRelease(t)
        PROVE  UNCHANGED Allocator!avars
                 \/ \E c \in Chunk : Allocator!Give(t, c) \/ Allocator!Lose(t, c)
    <3>1. PICK d \in Chunk : d = memory[t]
      BY <2>4 DEF AllocUndo, FreeConvert, FreeRelease, PutBack, TypeOK
    <3>2. InCharge(t, d)
      BY <2>4, <3>1 DEF AllocUndo, FreeConvert, FreeRelease, PutBack, InCharge
    <3>3. \A u \in Thread \ {t}, c \in Chunk : InCharge(u, c)' <=> InCharge(u, c)
      BY <2>4, ChargeOfOthers DEF AllocUndo, FreeConvert, FreeRelease, PutBack, Strand
    <3>4. \A c \in Chunk \ {d} : InCharge(t, c)' <=> InCharge(t, c)
      BY <2>4, <3>1 DEF AllocUndo, FreeConvert, FreeRelease, PutBack, Strand, InCharge, TypeOK
    <3>5. Charge(d) = t
      BY <3>2, ChargeValues, NextChargeValues
    <3>6. CASE allocated' = allocated \ {memory[t]} /\ UNCHANGED stranded
      <4>1. Charge(d)' = "free"
        BY <3>1, <3>6, ChargeValues, NextChargeValues
      <4>2. Passes(d, t, "free")
        BY <2>4, <3>3, <3>4, <3>5, <3>6, <4>1, PassCharge DEF AllocUndo, FreeConvert, FreeRelease, PutBack, Strand, Passes
      <4> QED
        BY <2>4, <4>2, <2>0 DEF AllocUndo, FreeConvert, FreeRelease, PutBack, Strand, Allocator!Give, Allocator!Free
    <3>7. CASE Strand(t)
      <4>1. Charge(d)' = "lost"
        BY <3>1, <3>7, ChargeValues, NextChargeValues DEF Strand
      <4>2. Passes(d, t, "lost")
        BY <2>4, <3>1, <3>3, <3>4, <3>5, <3>7, <4>1, PassCharge DEF AllocUndo, FreeConvert, FreeRelease, PutBack, Strand, Passes
      <4> QED
        BY <2>4, <4>2, <2>0 DEF AllocUndo, FreeConvert, FreeRelease, PutBack, Allocator!Lose, Allocator!Lost
    <3>8. CASE UNCHANGED <<allocated, stranded>> /\ pc' = [pc EXCEPT ![t] = "free_release"]
      <4>1. InCharge(t, d)'
        BY <2>4, <3>1, <3>8 DEF AllocUndo, FreeConvert, FreeRelease, PutBack, Strand, InCharge, TypeOK
      <4> QED
        BY <2>4, <3>2, <3>3, <3>4, <3>8, <4>1, SameCharge DEF AllocUndo, FreeConvert, FreeRelease, PutBack, Strand
    <3> QED
      BY <2>4, <3>6, <3>7, <3>8 DEF AllocUndo, FreeConvert, FreeRelease, PutBack
  <2>5. ASSUME NEW t \in Thread, FreeClose(t)
        PROVE  UNCHANGED Allocator!avars \/ \E c \in Chunk : Allocator!Shut(t, c)
    <3>1. PICK d \in Chunk : d = memory[t]
      BY <2>5 DEF FreeClose, TypeOK
    <3>2. \A c \in Chunk : ~InCharge(t, c)
      BY <2>5 DEF FreeClose, InCharge
    <3>3. \A u \in Thread \ {t}, c \in Chunk : InCharge(u, c)' <=> InCharge(u, c)
      BY <2>5, ChargeOfOthers DEF FreeClose
    <3>4. CASE /\ memory[t] \in opened
               /\ opened' = opened \ {memory[t]}
               /\ pc' = [pc EXCEPT ![t] = "free_va"]
      <4>1. InCharge(t, d)' /\ \A c \in Chunk \ {d} : ~InCharge(t, c)'
        BY <2>5, <3>1, <3>4 DEF FreeClose, InCharge, TypeOK
      <4>2. Charge(d) = "free" /\ Charge(d)' = t
        BY <3>1, <3>4, <4>1, ChargeValues, NextChargeValues
      <4>3. Passes(d, "free", t)
        BY <2>5, <3>2, <3>3, <4>1, <4>2, PassCharge DEF FreeClose, Passes
      <4> QED
        BY <3>1, <3>4, <4>3, <2>0 DEF Allocator!Shut, Allocator!Free
    <3>5. CASE UNCHANGED opened /\ pc' = [pc EXCEPT ![t] = OnCloseFailure]
      <4>1. \A u \in Thread, c \in Chunk : InCharge(u, c)' <=> InCharge(u, c)
        BY <2>5, <3>5 DEF FreeClose, OnCloseFailure, InCharge, TypeOK
      <4> QED
        BY <2>5, <3>5, <4>1, SameCharge DEF FreeClose
    <3> QED
      BY <2>5, <3>4, <3>5 DEF FreeClose
  <2>6. ASSUME NEW c \in Chunk, CloseUser(c) \/ OpenUser(c)
        PROVE  Allocator!Open(Program, c) \/ Allocator!Shut(Program, c)
    <3>1. \A u \in Thread, d \in Chunk : InCharge(u, d)' <=> InCharge(u, d)
      BY <2>6 DEF CloseUser, OpenUser, InCharge
    <3>2. CASE CloseUser(c)
      <4>1. Charge(c) = "free" /\ Charge(c)' = Program
        BY <3>2, ChargeValues, NextChargeValues DEF CloseUser
      <4>2. Passes(c, "free", Program)
        BY <3>1, <3>2, <4>1, PassCharge DEF CloseUser, Passes
      <4> QED
        BY <3>2, <4>2, <2>0 DEF CloseUser, Allocator!Shut, Allocator!Free
    <3>3. CASE OpenUser(c)
      <4>1. Charge(c) = Program /\ Charge(c)' = "free"
        BY <3>3, ChargeValues, NextChargeValues DEF OpenUser
      <4>2. Passes(c, Program, "free")
        BY <3>1, <3>3, <4>1, PassCharge DEF OpenUser, Passes
      <4> QED
        BY <3>3, <4>2, <2>0 DEF OpenUser, Allocator!Open, Allocator!Free
    <3> QED
      BY <2>6, <3>2, <3>3
  <2>7. ASSUME UNCHANGED vars PROVE UNCHANGED Allocator!avars
    <3>1. \A u \in Thread, c \in Chunk : InCharge(u, c)' <=> InCharge(u, c)
      BY <2>7 DEF vars, InCharge
    <3> QED
      BY <2>7, <3>1, SameCharge DEF vars
  <2>8. CASE \E t \in Thread : Alloc(t) \/ FreeMemory(t)
    BY <2>8, <2>1, <2>2, <2>3, <2>4, <2>5, <2>7 DEF Alloc, FreeMemory
  <2>9. CASE \E c \in Chunk : CloseUser(c) \/ OpenUser(c)
    BY <2>9, <2>6
  <2> QED
    BY <2>7, <2>8, <2>9 DEF Next
<1> QED
  BY <1>1, <1>2, UnmapTypeCorrect, AllChunksAccounted, PTL DEF Spec, AllocatorSpec, Allocator!Spec
=============================================================================
