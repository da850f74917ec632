------------------------------ MODULE VnzMemory ------------------------------
(***************************************************************************)
(* Memory that programs map to the Venezia (VVNZRunner/memory.c), and the  *)
(* CPU cache in front of it.  vnzBridgeMapMemory is one kernel call;       *)
(* vnzBridgeUnmapMemory invalidates the CPU cache of a range the Venezia   *)
(* may have written, and then releases the kernel's references.            *)
(*                                                                         *)
(* Memory is a set of lines of VnzRanges, each with a value.  The CPU may  *)
(* hold a line in its cache, where it is dirty when the CPU has written    *)
(* it; lines are filled (reads, prefetches) and evicted at any time.  The  *)
(* Venezia reads and writes the memory itself.                             *)
(*                                                                         *)
(* Of the callers: a thread has one mapping at a time and unmaps it with   *)
(* the value of isVnzWritable it mapped it with; no CPU writes a line while*)
(* it is mapped (vvnzrunner.h: memory must be aligned to lines, so that no *)
(* other data is in them); no MeP program uses a mapping that is being     *)
(* unmapped.  Assumed of the kernel: Map takes one reference, for the      *)
(* Venezia's use, on each line with a byte of the range; it writes the     *)
(* CPU's data back, and drops it when the Venezia is to write.             *)
(***************************************************************************)
EXTENDS VnzRanges, FiniteSets

CONSTANTS Thread, Region, Value, Fresh, NoMapping

ASSUME MapAssumption == /\ IsFiniteSet(Thread)
                        /\ \A r \in Region : IsRange(r)
                        /\ Fresh \in Value
                        /\ NoMapping \notin [region : Region, writable : BOOLEAN]

VARIABLES
    pc,      \* next step of each thread
    mapping, \* the mapping each thread has, with the value of isVnzWritable
    refs,    \* kernel: references of each line, by permission (writable or not)
    mem,     \* the value of each line in memory
    cache,   \* the CPU's copy of each line: whether there is one, dirty, its value
    written, \* history: the value last written to each line, by either processor
    strayed, \* history: a copy or read has gone beyond the SPRAM
    wrapped  \* history: a copy got past its check by a sum that wraps

calls   == <<pc, mapping>>
content == <<mem, cache, written>>
spram   == <<strayed, wrapped>>
vars    == <<calls, refs, content, spram>>

Absent == [present |-> FALSE, dirty |-> FALSE, value |-> Fresh]
Copy(dirty, v) == [present |-> TRUE, dirty |-> dirty, value |-> v]

Init ==
    /\ pc = [t \in Thread |-> "idle"]
    /\ mapping = [t \in Thread |-> NoMapping]
    /\ refs = [w \in BOOLEAN |-> [l \in LineNo |-> 0]]
    /\ mem = [l \in LineNo |-> Fresh]
    /\ cache = [l \in LineNo |-> Absent]
    /\ written = [l \in LineNo |-> Fresh]
    /\ strayed = FALSE
    /\ wrapped = FALSE

Touched(r)     == LinesOf(r.va, r.size)
Released(r)    == LinesIn(RangeBase(r.va), RangeSize(r.va, r.size))
Invalidated(r) == LinesIn(RangeBase(r.va), CacheSize(r.va, r.size))

\* Thread t has a mapping of line l.
Maps(t, l) == pc[t] # "idle" /\ l \in Touched(mapping[t].region)

-----------------------------------------------------------------------------
(* vnzBridgeMapMemory.                                                     *)

\* _sceAvcodecMapMemoryToVenezia for writing or for reading; when it fails the
\* call returns its error and nothing is mapped.
MapMemory(t) ==
    /\ pc[t] = "idle"
    /\ \E r \in Region, w \in BOOLEAN :
          /\ mapping' = [mapping EXCEPT ![t] = [region |-> r, writable |-> w]]
          /\ refs' = [refs EXCEPT ![w] = [l \in LineNo |->
                         IF l \in Touched(r) THEN @[l] + 1 ELSE @[l]]]
          /\ mem' = [l \in LineNo |->
                 IF l \in Touched(r) /\ cache[l].dirty THEN cache[l].value ELSE mem[l]]
          /\ cache' = [l \in LineNo |->
                 IF l \notin Touched(r) THEN cache[l]
                 ELSE IF w THEN Absent ELSE [cache[l] EXCEPT !.dirty = FALSE]]
    /\ pc' = [pc EXCEPT ![t] = "mapped"]
    /\ UNCHANGED <<written, spram>>

-----------------------------------------------------------------------------
(* vnzBridgeUnmapMemory.                                                   *)

\* Only memory the Venezia could write is invalidated.  Mutant: never.
NeedsNone(w) == FALSE
NeedsInvalidation(w) == w

UnmapCall(t) ==
    /\ pc[t] = "mapped"
    /\ pc' = [pc EXCEPT ![t] = IF NeedsInvalidation(mapping[t].writable)
                               THEN "unmap_invalidate" ELSE "unmap_release"]
    /\ UNCHANGED <<mapping, refs, content, spram>>

\* sceKernelCpuDcacheAndL2InvalidateRange drops the CPU's copies, dirty or not.
UnmapInvalidate(t) ==
    /\ pc[t] = "unmap_invalidate"
    /\ cache' = [l \in LineNo |->
           IF l \in Invalidated(mapping[t].region) THEN Absent ELSE cache[l]]
    /\ pc' = [pc EXCEPT ![t] = "unmap_release"]
    /\ UNCHANGED <<mapping, refs, mem, written, spram>>

\* Mutant: the else is missing, and the release for reading follows the one for
\* writing.
AfterReleaseFallsThrough(w) == IF w THEN "unmap_release" ELSE "idle"
AfterRelease(w) == "idle"

\* sceKernelMemRangeReleaseWithPerm: an error, and no change, when a line of the
\* range has no such reference.
UnmapRelease(t) ==
    /\ pc[t] = "unmap_release"
    /\ LET w == mapping[t].writable
           lines == Released(mapping[t].region)
       IN  refs' = IF \A l \in lines : refs[w][l] > 0
                   THEN [refs EXCEPT ![w] = [l \in LineNo |->
                            IF l \in lines THEN @[l] - 1 ELSE @[l]]]
                   ELSE refs
    /\ pc' = [pc EXCEPT ![t] = AfterRelease(mapping[t].writable)]
    /\ mapping' = [mapping EXCEPT ![t] = NoMapping]
    /\ UNCHANGED <<content, spram>>

-----------------------------------------------------------------------------
(* vnzBridgeMemcpyToSpram and vnzBridgeMemcpyFromSpram with any offset and *)
(* size, and vnzBridgeGetSpramValue.  A copy that is refused does nothing. *)

Reach(end) == strayed' = (strayed \/ end > SpramSize)

MemcpySpram ==
    /\ \E offset, size \in 0 .. Word - 1 :
          /\ SpramAdmits(offset, size)
          /\ Reach(offset + size)
          /\ wrapped' = (wrapped \/ offset + size >= Word)
    /\ UNCHANGED <<calls, refs, content>>

GetSpramValue ==
    /\ \E offset \in 0 .. Word - 1 : SpramValueAdmits(offset) /\ Reach(offset + IntSize)
    /\ UNCHANGED <<calls, refs, content, wrapped>>

-----------------------------------------------------------------------------
(* The two processors.                                                     *)

CpuWrite(l, v) ==
    /\ \A t \in Thread : ~Maps(t, l)
    /\ cache' = [cache EXCEPT ![l] = Copy(TRUE, v)]
    /\ written' = [written EXCEPT ![l] = v]
    /\ UNCHANGED <<calls, refs, mem, spram>>

CacheFill(l) ==
    /\ ~cache[l].present
    /\ cache' = [cache EXCEPT ![l] = Copy(FALSE, mem[l])]
    /\ UNCHANGED <<calls, refs, mem, written, spram>>

CacheEvict(l) ==
    /\ cache[l].present
    /\ cache' = [cache EXCEPT ![l] = Absent]
    /\ mem' = IF cache[l].dirty THEN [mem EXCEPT ![l] = cache[l].value] ELSE mem
    /\ UNCHANGED <<calls, refs, written, spram>>

\* A MeP program that thread t executes writes a line mapped for writing.
VeneziaWrite(t, v) ==
    /\ pc[t] = "mapped" /\ mapping[t].writable
    /\ \E l \in Touched(mapping[t].region) :
          /\ mem' = [mem EXCEPT ![l] = v]
          /\ written' = [written EXCEPT ![l] = v]
    /\ UNCHANGED <<calls, refs, cache, spram>>

-----------------------------------------------------------------------------
UnmapMemory(t) == UnmapCall(t) \/ UnmapInvalidate(t) \/ UnmapRelease(t)
Spram == MemcpySpram \/ GetSpramValue

Next == \/ \E t \in Thread : MapMemory(t) \/ UnmapMemory(t)
        \/ Spram
        \/ \E l \in LineNo : CacheFill(l) \/ CacheEvict(l)
        \/ \E l \in LineNo, v \in Value : CpuWrite(l, v)
        \/ \E t \in Thread, v \in Value : VeneziaWrite(t, v)

Spec == Init /\ [][Next]_vars

-----------------------------------------------------------------------------
(* Properties.                                                             *)

\* Types; no reference count goes below zero.
Mapping == [region : Region, writable : BOOLEAN]
Copies == [present : BOOLEAN, dirty : BOOLEAN, value : Value]
TypeOK ==
    /\ pc \in [Thread -> {"idle", "mapped", "unmap_invalidate", "unmap_release"}]
    /\ mapping \in [Thread -> Mapping \cup {NoMapping}]
    /\ \A t \in Thread : mapping[t] = NoMapping <=> pc[t] = "idle"
    /\ refs \in [BOOLEAN -> [LineNo -> Nat]]
    /\ mem \in [LineNo -> Value]
    /\ cache \in [LineNo -> Copies]
    /\ written \in [LineNo -> Value]
    /\ {strayed, wrapped} \subseteq BOOLEAN

\* Unmap gives back what Map took: on each line, as many references for each
\* permission as there are mappings of it, whatever their alignment and however
\* they overlap.
Holders(w, l) == {t \in Thread : Maps(t, l) /\ mapping[t].writable = w}
RefsFollowMappings ==
    \A w \in BOOLEAN, l \in LineNo : refs[w][l] = Cardinality(Holders(w, l))

\* What a CPU reads from line l.
CpuSees(l) == IF cache[l].present THEN cache[l].value ELSE mem[l]

\* A CPU reads what was last written, by itself or by the Venezia, from every line
\* that is not mapped for writing: no stale copy survives Unmap, and no write of a
\* CPU is dropped by an invalidation.
CpuCoherent ==
    \A l \in LineNo : Holders(TRUE, l) = {} => CpuSees(l) = written[l]

\* A MeP program reads what was last written to each line that is mapped.
VeneziaCoherent ==
    \A t \in Thread, l \in LineNo : Maps(t, l) => mem[l] = written[l]

\* An access of the ARM side leaves the SPRAM by a copy whose offset and size add up
\* to more than a word, whose sum gets past the 32-bit check (memory.c:48, :56), and
\* by nothing else: the boundary of the other copies, and of the reads, is exact.
SpramBounded == strayed <=> wrapped

\* What makes the two inductive: memory lags behind only a dirty copy, a dirty
\* copy is never of a mapped line, and a copy differs from what was last written
\* only while the Venezia may write the line.
Writable(l) == \E t \in Thread : /\ pc[t] \in {"mapped", "unmap_invalidate"}
                                 /\ l \in Touched(mapping[t].region)
                                 /\ mapping[t].writable
CacheInv ==
    \A l \in LineNo :
        /\ ~cache[l].dirty => mem[l] = written[l]
        /\ cache[l].dirty => cache[l].present /\ \A t \in Thread : ~Maps(t, l)
        /\ cache[l].present /\ ~Writable(l) => cache[l].value = written[l]

\* What a CPU reads from a line never goes back: in a step it stays, or becomes what
\* was last written.  A fill, an eviction, the write-back in Map and the invalidation
\* in Unmap show a CPU no value that has been overwritten, mapped lines included.
ViewsAdvance ==
    [][\A l \in LineNo : CpuSees(l)' \in {CpuSees(l), written'[l]}]_vars
=============================================================================
