--------------------------- MODULE VnzUnmapMemory ---------------------------
(***************************************************************************)
(* Memory from an unmapped memblock (VVNZRunner/codec_engine_bridge.c):    *)
(* vnzBridgeAllocUnmapMemory and vnzBridgeFreeUnmapMemory, each a sequence *)
(* of kernel calls any of which may fail, and the wrappers with which a    *)
(* program closes an allocation to the Venezia and opens it again.  The    *)
(* plugin keeps no state of its own and no lock; threads interleave        *)
(* between the kernel calls.                                               *)
(*                                                                         *)
(* A chunk stands for an allocation and for its user address, its physical *)
(* address and its Venezia address: the conversions of the kernel are      *)
(* one to one when they succeed.  A program frees an address once and only *)
(* while it has it, except for the addresses in Raced, which its threads   *)
(* free whenever they like.                                                *)
(***************************************************************************)
CONSTANTS Thread, Chunk, NoChunk, Raced, Program

ASSUME ChunkAssumption == NoChunk \notin Chunk /\ Raced \subseteq Chunk
ASSUME ChargeAssumption ==
    /\ Program \notin Thread
    /\ {"free", "lost"} \cap (Thread \cup {Program}) = {}

VARIABLES
    pc,        \* next step of each thread
    memory,    \* the local "memory" of its call, by whatever address it has it
    allocated, \* kernel: chunks taken out of the memblock
    opened,    \* kernel: chunks that are PUBLIC on the Venezia side
    held,      \* program: Venezia addresses it has got and not given back
    withdrawn, \* program: physical addresses it has got by closing a chunk
    stranded   \* history: chunks that a call could not put back

calls   == <<pc, memory>>
program == <<held, withdrawn>>
vars    == <<calls, allocated, opened, program, stranded>>

AllocSteps == {"alloc_pa", "alloc_open", "alloc_copy", "alloc_undo"}
FreeSteps  == {"free_close", "free_va", "free_release"}

Init ==
    /\ pc = [t \in Thread |-> "idle"]
    /\ memory = [t \in Thread |-> NoChunk]
    /\ allocated = {} /\ opened = {}
    /\ held = {} /\ withdrawn = {}
    /\ stranded = {}

Goto(t, step) == pc' = [pc EXCEPT ![t] = step]
Refused == UNCHANGED vars

-----------------------------------------------------------------------------
(* vnzBridgeAllocUnmapMemory.                                              *)

\* Mutant: the result of the kernel's allocator is not compared with NULL.
ObtainedUnchecked(c) == TRUE
Obtained(c) == c # NoChunk

\* A call that ends with a chunk neither opened nor put back leaves it where it is.
Strand(t) ==
    /\ stranded' = stranded \cup {memory[t]}
    /\ Goto(t, "idle")
    /\ UNCHANGED allocated

\* EINVAL without a place for the result, or when the memblock has no room.
AllocCall(t) ==
    /\ pc[t] = "idle"
    /\ \E c \in (Chunk \ allocated) \cup {NoChunk} :
          IF ~Obtained(c)
          THEN Refused
          ELSE /\ allocated' = allocated \cup {c}
               /\ memory' = [memory EXCEPT ![t] = c]
               /\ Goto(t, "alloc_pa")
               /\ UNCHANGED <<opened, program, stranded>>

\* Where Alloc goes when the address conversion, or the opening, has failed.
\* Mutants: the function returns; the result is not compared with NULL.
OnConvertFailureReturn == "idle"
OnConvertFailure == "alloc_undo"
OnOpenFailureGoOn == "alloc_copy"
OnOpenFailure == "alloc_undo"

\* sceCodecEngineUnmapUserVAtoPA.
AllocConvert(t) ==
    /\ pc[t] = "alloc_pa"
    /\ Goto(t, "alloc_open") \/ Goto(t, OnConvertFailure)
    /\ UNCHANGED <<memory, allocated, opened, program, stranded>>

\* sceVeneziaOpenPublicMemory.
AllocOpen(t) ==
    /\ pc[t] = "alloc_open"
    /\ \/ opened' = opened \cup {memory[t]} /\ Goto(t, "alloc_copy")
       \/ UNCHANGED opened /\ Goto(t, OnOpenFailure)
    /\ UNCHANGED <<memory, allocated, program, stranded>>

\* sceKernelCopyToUser, whose result is ignored: the address may not arrive.
AllocCopy(t) ==
    /\ pc[t] = "alloc_copy"
    /\ held' = held \cup {memory[t]} \/ UNCHANGED held
    /\ Goto(t, "idle")
    /\ UNCHANGED <<memory, allocated, opened, withdrawn, stranded>>

\* _sceCodecEngineFreeMemoryFromUnmapMemBlock, which may fail, as the last step
\* of a call.
PutBack(t) ==
    /\ \/ /\ allocated' = allocated \ {memory[t]}
          /\ Goto(t, "idle")
          /\ UNCHANGED stranded
       \/ Strand(t)
    /\ UNCHANGED <<memory, opened, program>>

\* The label error: the chunk is put back, and the result is ignored.
AllocUndo(t) == pc[t] = "alloc_undo" /\ PutBack(t)

-----------------------------------------------------------------------------
(* vnzBridgeFreeUnmapMemory.                                               *)

\* No call is under way that frees c.
NotInFree(c) == \A u \in Thread : pc[u] \in FreeSteps => memory[u] # c

FreeCall(t) ==
    /\ pc[t] = "idle"
    /\ \E c \in Chunk :
          /\ c \in Raced \/ (c \in held /\ NotInFree(c))
          /\ memory' = [memory EXCEPT ![t] = c]
    /\ Goto(t, "free_close")
    /\ UNCHANGED <<allocated, opened, program, stranded>>

\* Where Free goes when the memory could not be closed.
\* Mutant: the result is not compared with NULL.
OnCloseFailureGoOn == "free_va"
OnCloseFailure == "idle"

\* sceVeneziaClosePublicMemory, which fails for memory that is not open and may
\* fail for any: of two threads that free one address, one gets past here.
FreeClose(t) ==
    /\ pc[t] = "free_close"
    /\ \/ /\ memory[t] \in opened
          /\ opened' = opened \ {memory[t]}
          /\ held' = held \ {memory[t]}
          /\ Goto(t, "free_va")
       \/ UNCHANGED <<opened, held>> /\ Goto(t, OnCloseFailure)
    /\ UNCHANGED <<memory, allocated, withdrawn, stranded>>

\* sceCodecEngineUnmapPAtoUserVA.
FreeConvert(t) ==
    /\ pc[t] = "free_va"
    /\ \/ Goto(t, "free_release") /\ UNCHANGED <<allocated, stranded>>
       \/ Strand(t)
    /\ UNCHANGED <<memory, opened, program>>

\* The chunk is put back, with the uid of the caller.
FreeRelease(t) == pc[t] = "free_release" /\ PutBack(t)

-----------------------------------------------------------------------------
(* The wrappers _sceVeneziaClosePublicMemory and                           *)
(* _sceVeneziaOpenPublicMemory: one kernel call each, on an address the    *)
(* program has and nobody is freeing.                                      *)

CloseUser(c) ==
    /\ c \in held \cap opened /\ NotInFree(c)
    /\ opened' = opened \ {c}
    /\ held' = held \ {c}
    /\ withdrawn' = withdrawn \cup {c}
    /\ UNCHANGED <<calls, allocated, stranded>>

OpenUser(c) ==
    /\ c \in withdrawn
    /\ opened' = opened \cup {c}
    /\ held' = held \cup {c}
    /\ withdrawn' = withdrawn \ {c}
    /\ UNCHANGED <<calls, allocated, stranded>>

-----------------------------------------------------------------------------
Alloc(t) == \/ AllocCall(t) \/ AllocConvert(t) \/ AllocOpen(t) \/ AllocCopy(t)
            \/ AllocUndo(t)

FreeMemory(t) == FreeCall(t) \/ FreeClose(t) \/ FreeConvert(t) \/ FreeRelease(t)

Next == \/ \E t \in Thread : Alloc(t) \/ FreeMemory(t)
        \/ \E c \in Chunk : CloseUser(c) \/ OpenUser(c)

Spec == Init /\ [][Next]_vars

-----------------------------------------------------------------------------
(* Properties.                                                             *)

\* Types of the calls and of the kernel's sets; a call that works on a chunk
\* has one.
TypeOK ==
    /\ pc \in [Thread -> {"idle"} \cup AllocSteps \cup FreeSteps]
    /\ memory \in [Thread -> Chunk \cup {NoChunk}]
    /\ \A t \in Thread : pc[t] # "idle" => memory[t] \in Chunk
    /\ {allocated, opened, held, withdrawn, stranded} \subseteq SUBSET Chunk

\* The call of thread t answers for chunk c: it has taken it out of the memblock
\* and not opened it yet, or closed it and not put it back.
InCharge(t, c) ==
    /\ memory[t] = c
    /\ pc[t] \in {"alloc_pa", "alloc_open", "alloc_undo", "free_va", "free_release"}
InCall(c) == \E t \in Thread : InCharge(t, c)

\* Every chunk outside the memblock is accounted for, in one way only: public,
\* closed by the program, in the charge of one call, or left behind by a call that
\* the kernel would not let put it back: a Free that failed half way
\* (codec_engine_bridge.c:75) or the error path of Alloc (:55).  No chunk is lost
\* otherwise, and threads that free one address at the same time do not put it
\* back twice.
ChunksAccounted ==
    \A c \in Chunk :
        /\ c \in allocated <=>
              c \in opened \/ c \in withdrawn \/ c \in stranded \/ InCall(c)
        /\ c \in opened => c \notin withdrawn \cup stranded /\ ~InCall(c)
        /\ c \in withdrawn => c \notin stranded /\ ~InCall(c)
        /\ c \in stranded => ~InCall(c)
        /\ \A t, u \in Thread : InCharge(t, c) /\ InCharge(u, c) => t = u

\* An address the program has and has not raced to free is that of a chunk which is
\* allocated and which the Venezia may use, whatever else is allocated and
\* freed around it.
HandlesLive == held \ Raced \subseteq allocated \cap opened

\* What makes HandlesLive inductive: a call that frees an address the program
\* holds finds it open, one Free at a time, and one about to deliver an address
\* has it open too and to itself.
Delivering(c) == {t \in Thread : pc[t] = "alloc_copy" /\ memory[t] = c}
Freeing(c) == {t \in Thread : pc[t] = "free_close" /\ memory[t] = c}
HandleInv ==
    \A c \in Chunk \ Raced :
        /\ Delivering(c) # {} => c \in opened /\ c \notin held /\ Freeing(c) = {}
        /\ Freeing(c) # {} => c \in held
        /\ c \in held => c \in opened
        /\ \A t, u \in Delivering(c) \cup Freeing(c) : t = u

\* Alloc, Free and the wrappers implement the allocator the header documents.
Allocator == INSTANCE VnzAllocator WITH
    public <- opened,
    charge <- [c \in Chunk |->
        IF c \in withdrawn THEN Program
        ELSE IF c \in stranded THEN "lost"
        ELSE IF InCall(c) THEN CHOOSE t \in Thread : InCharge(t, c)
        ELSE "free"]
AllocatorSpec == Allocator!Spec
=============================================================================
