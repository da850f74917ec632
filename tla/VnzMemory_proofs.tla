-------------------------- MODULE VnzMemory_proofs --------------------------
(***************************************************************************)
(* Proofs about VnzRanges and VnzMemory: the two formulas that round a     *)
(* range out agree with each other and with the lines the range touches,   *)
(* so that Unmap gives back what Map took, and neither processor reads a   *)
(* stale line.  All of it is proved for lines and words of any size, and   *)
(* for any threads, ranges and values.                                     *)
(***************************************************************************)
EXTENDS VnzMemory, FiniteSetTheorems, TLAPS

-----------------------------------------------------------------------------
(* The arithmetic of the ranges.                                           *)

LEMMA TruncateIsMultiple ==
    ASSUME NEW x \in Nat
    PROVE  /\ Truncate(x) \in Nat
           /\ \E k \in Nat : Truncate(x) = Line * k
           /\ Truncate(x) <= x /\ x < Truncate(x) + Line
           /\ x % Line = x - Truncate(x)
<1> DEFINE k == x \div Line
<1>1. Line \in Nat \ {0}
  BY RangeAssumption
<1>2. k \in Nat /\ x % Line \in Nat /\ x % Line < Line /\ x = Line * k + (x % Line)
  BY <1>1, Z3
<1>3. Line * k \in Nat
  BY <1>1, <1>2
<1> HIDE DEF k
<1>4. Truncate(x) = Line * k
  BY <1>1, <1>2, <1>3 DEF Truncate
<1> QED
  BY <1>1, <1>2, <1>3, <1>4

\* Lines and addresses: a line's first byte follows its number.
LEMMA LineAddresses ==
    ASSUME NEW a \in Int, NEW b \in Int
    PROVE  /\ Line * a \in Int /\ a * Line = Line * a /\ (a + 1) * Line = Line * a + Line
           /\ Line * (a + b) = Line * a + Line * b
           /\ a <= b <=> Line * a <= Line * b
           /\ a < b => Line * a + Line <= Line * b
<1>1. Line \in Nat \ {0}
  BY RangeAssumption
<1>2. /\ Line * a \in Int /\ a * Line = Line * a /\ (a + 1) * Line = Line * a + Line
      /\ Line * (a + b) = Line * a + Line * b
  BY <1>1
<1>3. a < b => Line * a + Line <= Line * b
  BY <1>1
<1>4. b < a => Line * b < Line * a
  BY <1>1
<1> QED
  BY <1>1, <1>2, <1>3, <1>4

\* What both formulas come to, before they are cut to a whole number of lines.
LEMMA RangeSums ==
    ASSUME NEW r, IsRange(r)
    PROVE  /\ r.va \in Nat /\ r.size \in Nat \ {0}
           /\ r.size + (Line - 1) + (r.va - Truncate(r.va)) \in Nat
           /\ RangeSize(r.va, r.size) = Truncate(r.size + (Line - 1) + (r.va - Truncate(r.va)))
           /\ CacheSize(r.va, r.size) = Truncate(r.size + (Line - 1) + (r.va - Truncate(r.va)))
<1> DEFINE sum == r.size + (Line - 1) + (r.va - Truncate(r.va))
<1>1. r.va \in Nat /\ r.size \in Nat \ {0} /\ Line \in Nat \ {0} /\ Word \in Nat
  BY RangeAssumption DEF IsRange
<1>2. /\ Truncate(r.va) \in Nat /\ Truncate(r.va) <= r.va
      /\ r.va % Line = r.va - Truncate(r.va)
  BY <1>1, TruncateIsMultiple
<1>3. r.size + (Line - 1) + (r.va % Line) = sum
  BY <1>1, <1>2
<1>4. sum \in Nat /\ sum < Word
  BY <1>1, <1>2, <1>3 DEF IsRange
<1>5. sum % Word = sum
  BY <1>1, <1>4, Z3
<1>6. (((r.va + (Line - 1)) - Truncate(r.va)) + r.size) = sum
  BY <1>1, <1>2
<1>7. RangeSize(r.va, r.size) = Truncate(sum)
  BY <1>3, <1>5 DEF RangeSize
<1>8. CacheSize(r.va, r.size) = Truncate(sum)
  BY <1>5, <1>6 DEF CacheSize
<1> QED
  BY <1>1, <1>4, <1>7, <1>8

\* vnzBridgeUnmapMemory rounds every range out to exactly the lines that hold one
\* of its bytes: to invalidate, with one formula, and to release, with the other.
THEOREM RoundingIsExact ==
    ASSUME NEW r, IsRange(r)
    PROVE  Released(r) = Touched(r) /\ Invalidated(r) = Touched(r)
<1> DEFINE base == Truncate(r.va)
           off  == r.va - base
           cut  == Truncate(r.size + (Line - 1) + off)
<1>1. /\ r.va \in Nat /\ r.size \in Nat \ {0} /\ r.size + (Line - 1) + off \in Nat
      /\ Line \in Nat \ {0}
  BY RangeSums, RangeAssumption
<1>2. PICK k \in Nat : base = Line * k /\ base <= r.va /\ r.va < base + Line
  BY <1>1, TruncateIsMultiple
<1>3. PICK m \in Nat : /\ cut = Line * m /\ cut <= r.size + (Line - 1) + off
                       /\ r.size + (Line - 1) + off < cut + Line
  BY <1>1, TruncateIsMultiple
<1>4. base \in Nat /\ cut \in Nat
  BY <1>1, TruncateIsMultiple
<1>5. LineNo \subseteq Nat
  <2>1. Word \div Line \in Nat
    BY <1>1, RangeAssumption, Z3
  <2> QED
    BY <2>1 DEF LineNo
<1> HIDE DEF base, cut
<1>6. Line * (k + m) = base + cut
  BY <1>2, <1>3, LineAddresses
<1>7. ASSUME NEW l \in LineNo
      PROVE  l \in LinesIn(base, cut) <=> k <= l /\ l < k + m
  <2>1. l \in Nat /\ l * Line = Line * l /\ Line * l \in Int
    BY <1>5, LineAddresses
  <2>2. base <= l * Line <=> k <= l
    <3>1. k <= l <=> Line * k <= Line * l
      BY <2>1, LineAddresses
    <3> QED
      BY <1>2, <2>1, <3>1
  <2>3. k + m <= l <=> base + cut <= Line * l
    <3>1. k + m \in Int /\ l \in Int
      BY <2>1
    <3>2. k + m <= l <=> Line * (k + m) <= Line * l
      BY <3>1, LineAddresses
    <3> QED
      BY <1>6, <2>1, <3>2
  <2>4. l * Line < base + cut <=> l < k + m
    BY <1>4, <2>1, <2>3
  <2> QED
    BY <2>2, <2>4 DEF LinesIn
<1>8. ASSUME NEW l \in LineNo
      PROVE  l \in LinesOf(r.va, r.size) <=> k <= l /\ l < k + m
  <2>1. /\ l \in Nat /\ l * Line = Line * l /\ Line * l \in Int
        /\ (l + 1) * Line = Line * l + Line
    BY <1>5, LineAddresses
  <2>2. ASSUME k <= l, l < k + m
        PROVE  \E a \in r.va .. r.va + r.size - 1 : l * Line <= a /\ a < (l + 1) * Line
    <3>1. base <= Line * l /\ Line * l + Line <= base + cut
      BY <1>2, <1>6, <2>1, <2>2, LineAddresses
    <3>2. CASE Line * l <= r.va
      <4>1. r.va < Line * l + Line
        BY <1>1, <1>2, <1>4, <2>1, <3>1
      <4> QED
        BY <1>1, <2>1, <3>2, <4>1
    <3>3. CASE r.va < Line * l
      <4>1. Line * l <= r.va + r.size - 1
        BY <1>1, <1>3, <1>4, <2>1, <3>1
      <4>2. Line * l < Line * l + Line
        BY <1>1, <2>1
      <4> QED
        BY <1>1, <2>1, <3>3, <4>1, <4>2
    <3> QED
      BY <1>1, <2>1, <3>2, <3>3
  <2>3. ASSUME NEW a \in r.va .. r.va + r.size - 1, l * Line <= a, a < (l + 1) * Line
        PROVE  k <= l /\ l < k + m
    <3>1. /\ a \in Nat /\ r.va <= a /\ a <= r.va + r.size - 1
          /\ Line * l <= a /\ a < Line * l + Line
      BY <1>1, <2>1, <2>3
    <3>2. l < k => Line * l + Line <= base
      BY <1>2, <2>1, LineAddresses
    <3>3. k <= l
      BY <1>1, <1>2, <1>4, <2>1, <3>1, <3>2
    <3>4. k + m <= l => base + cut <= Line * l
      BY <1>6, <2>1, LineAddresses
    <3>5. l < k + m
      BY <1>1, <1>3, <1>4, <2>1, <3>1, <3>4
    <3> QED
      BY <3>3, <3>5
  <2> QED
    BY <2>2, <2>3 DEF LinesOf
<1>9. LinesIn(base, cut) = LinesOf(r.va, r.size)
  BY <1>7, <1>8 DEF LinesIn, LinesOf
<1>10. RangeSize(r.va, r.size) = cut /\ CacheSize(r.va, r.size) = cut
  BY RangeSums DEF base, cut
<1> QED
  BY <1>9, <1>10 DEF Released, Invalidated, Touched, RangeBase, base

\* What the checks of the SPRAM accesses let through: of the copies, those that stay in
\* it, and those whose sum wraps to a place in it; of the reads, those that stay in it.
THEOREM SpramChecksAdmit ==
    /\ \A offset, size \in 0 .. Word - 1 :
          SpramAdmits(offset, size) <=>
             \/ offset + size <= SpramSize
             \/ offset + size >= Word /\ offset + size - Word <= SpramSize
    /\ \A offset \in Nat : SpramValueAdmits(offset) <=> offset + IntSize <= SpramSize
<1>1. SpramSize \in Nat /\ SpramSize < Word /\ IntSize \in Nat /\ Word \in Nat \ {0}
  BY RangeAssumption
<1>2. ASSUME NEW offset \in 0 .. Word - 1, NEW size \in 0 .. Word - 1
      PROVE  SpramAdmits(offset, size) <=>
                \/ offset + size <= SpramSize
                \/ offset + size >= Word /\ offset + size - Word <= SpramSize
  <2>1. offset + size < Word => (offset + size) % Word = offset + size
    BY <1>1
  <2>2. offset + size >= Word => (offset + size) % Word = offset + size - Word
    BY <1>1
  <2> QED
    BY <1>1, <2>1, <2>2 DEF SpramAdmits
<1> QED
  BY <1>1, <1>2 DEF SpramValueAdmits

-----------------------------------------------------------------------------
(* Types and references.                                                   *)

LEMMA CopiesTypes ==
    /\ Absent \in Copies
    /\ \A d \in BOOLEAN, v \in Value : Copy(d, v) \in Copies
    /\ \A c \in Copies : [c EXCEPT !.dirty = FALSE] \in Copies
    /\ \A c \in Copies : c.value \in Value /\ c.dirty \in BOOLEAN /\ c.present \in BOOLEAN
  BY MapAssumption DEF Copies, Absent, Copy

\* Types, and no reference count below zero, whatever lines Unmap releases.
THEOREM MemoryTypeCorrect == Spec => []TypeOK
<1>1. Init => TypeOK
  <2> SUFFICES ASSUME Init PROVE TypeOK
    OBVIOUS
  <2>1. /\ cache \in [LineNo -> Copies]
        /\ mem \in [LineNo -> Value] /\ written \in [LineNo -> Value]
    BY CopiesTypes, MapAssumption DEF Init
  <2>2. refs \in [BOOLEAN -> [LineNo -> Nat]]
    BY DEF Init
  <2>3. /\ pc \in [Thread -> {"idle", "mapped", "unmap_invalidate", "unmap_release"}]
        /\ mapping \in [Thread -> Mapping \cup {NoMapping}]
        /\ \A t \in Thread : mapping[t] = NoMapping <=> pc[t] = "idle"
    BY DEF Init
  <2> QED
    BY <2>1, <2>2, <2>3 DEF TypeOK, Init
<1>2. TypeOK /\ [Next]_vars => TypeOK'
  <2> SUFFICES ASSUME TypeOK, [Next]_vars PROVE TypeOK'
    OBVIOUS
  <2> USE DEF TypeOK, calls, content, spram
  <2>1. ASSUME NEW t \in Thread, MapMemory(t) PROVE TypeOK'
    <3> PICK r \in Region, w \in BOOLEAN : MapMemory(t)!2!(r, w)
      BY <2>1 DEF MapMemory
    <3>1. mapping' \in [Thread -> Mapping \cup {NoMapping}]
      BY DEF Mapping
    <3>2. refs' \in [BOOLEAN -> [LineNo -> Nat]]
      OBVIOUS
    <3>3. mem' \in [LineNo -> Value]
      BY CopiesTypes
    <3>4. cache' \in [LineNo -> Copies]
      BY CopiesTypes
    <3>5. \A u \in Thread : mapping'[u] = NoMapping <=> pc'[u] = "idle"
      BY <2>1, MapAssumption DEF MapMemory
    <3> QED
      BY <2>1, <3>1, <3>2, <3>3, <3>4, <3>5 DEF MapMemory
  <2>2. ASSUME NEW t \in Thread, UnmapCall(t) PROVE TypeOK'
    BY <2>2 DEF UnmapCall
  <2>3. ASSUME NEW t \in Thread, UnmapInvalidate(t) PROVE TypeOK'
    BY <2>3, CopiesTypes DEF UnmapInvalidate
  <2>4. ASSUME NEW t \in Thread, UnmapRelease(t) PROVE TypeOK'
    <3>1. mapping[t].writable \in BOOLEAN
      BY <2>4 DEF UnmapRelease, Mapping
    <3>2. refs' \in [BOOLEAN -> [LineNo -> Nat]]
      BY <2>4, <3>1 DEF UnmapRelease
    <3> QED
      BY <2>4, <3>2 DEF UnmapRelease, AfterRelease
  <2>5. CASE Spram
    BY <2>5 DEF Spram, MemcpySpram, GetSpramValue, Reach
  <2>6. ASSUME NEW l \in LineNo, CacheFill(l) \/ CacheEvict(l) PROVE TypeOK'
    <3>1. CASE CacheFill(l)
      <4>1. cache' \in [LineNo -> Copies]
        BY <3>1, CopiesTypes DEF CacheFill
      <4> QED
        BY <3>1, <4>1 DEF CacheFill
    <3>2. CASE CacheEvict(l)
      <4>1. cache' \in [LineNo -> Copies] /\ mem' \in [LineNo -> Value]
        BY <3>2, CopiesTypes DEF CacheEvict
      <4> QED
        BY <3>2, <4>1 DEF CacheEvict
    <3> QED
      BY <2>6, <3>1, <3>2
  <2>7. ASSUME NEW l \in LineNo, NEW v \in Value, CpuWrite(l, v) PROVE TypeOK'
    BY <2>7, CopiesTypes DEF CpuWrite
  <2>8. ASSUME NEW t \in Thread, NEW v \in Value, VeneziaWrite(t, v) PROVE TypeOK'
    <3> PICK l \in Touched(mapping[t].region) : /\ mem' = [mem EXCEPT ![l] = v]
                                                /\ written' = [written EXCEPT ![l] = v]
      BY <2>8 DEF VeneziaWrite
    <3>1. mem' \in [LineNo -> Value]
      OBVIOUS
    <3>2. written' \in [LineNo -> Value]
      OBVIOUS
    <3> QED
      BY <2>8, <3>1, <3>2 DEF VeneziaWrite
  <2>9. CASE UNCHANGED vars
    BY <2>9 DEF vars
  <2> QED
    BY <2>1, <2>2, <2>3, <2>4, <2>5, <2>6, <2>7, <2>8, <2>9 DEF Next, UnmapMemory
<1> QED
  BY <1>1, <1>2, PTL DEF Spec

LEMMA RoundingOfRegions ==
    ASSUME NEW r \in Region
    PROVE  Released(r) = Touched(r) /\ Invalidated(r) = Touched(r)
  BY RoundingIsExact, MapAssumption

LEMMA HoldersAreFinite ==
    ASSUME NEW w \in BOOLEAN, NEW l \in LineNo
    PROVE  IsFiniteSet(Holders(w, l)) /\ Cardinality(Holders(w, l)) \in Nat
  BY MapAssumption, FS_Subset, FS_CardinalityType DEF Holders

\* Unmap gives back, on every line, the reference that Map took.
THEOREM ReferencesFollowMappings == Spec => []RefsFollowMappings
<1>1. Init => RefsFollowMappings
  <2> SUFFICES ASSUME Init, NEW w \in BOOLEAN, NEW l \in LineNo
               PROVE  refs[w][l] = Cardinality(Holders(w, l))
    BY DEF RefsFollowMappings
  <2>1. Holders(w, l) = {}
    BY DEF Init, Holders, Maps
  <2> QED
    BY <2>1, FS_EmptySet DEF Init
<1>2. TypeOK /\ RefsFollowMappings /\ [Next]_vars => RefsFollowMappings'
  <2> SUFFICES ASSUME TypeOK, RefsFollowMappings, [Next]_vars PROVE RefsFollowMappings'
    OBVIOUS
  <2>1. ASSUME NEW t \in Thread, MapMemory(t) PROVE RefsFollowMappings'
    <3> SUFFICES ASSUME NEW w \in BOOLEAN, NEW l \in LineNo
                 PROVE  refs'[w][l] = Cardinality(Holders(w, l)')
      BY DEF RefsFollowMappings
    <3> PICK r \in Region, x \in BOOLEAN :
               /\ mapping' = [mapping EXCEPT ![t] = [region |-> r, writable |-> x]]
               /\ refs' = [refs EXCEPT ![x] = [m \in LineNo |->
                              IF m \in Touched(r) THEN @[m] + 1 ELSE @[m]]]
      BY <2>1 DEF MapMemory
    <3>1. pc[t] = "idle" /\ pc' = [pc EXCEPT ![t] = "mapped"]
      BY <2>1 DEF MapMemory
    <3>2. t \notin Holders(w, l)
      BY <3>1 DEF Holders, Maps
    <3>3. \A u \in Thread : u # t => pc'[u] = pc[u] /\ mapping'[u] = mapping[u]
      BY <3>1 DEF TypeOK
    <3>4. pc'[t] = "mapped" /\ mapping'[t] = [region |-> r, writable |-> x]
      BY <3>1 DEF TypeOK
    <3>5. refs[w][l] = Cardinality(Holders(w, l))
      BY DEF RefsFollowMappings
    <3>6. CASE w = x /\ l \in Touched(r)
      <4>1. Holders(w, l)' = Holders(w, l) \cup {t}
        BY <3>3, <3>4, <3>6 DEF Holders, Maps
      <4>2. refs'[w][l] = refs[w][l] + 1
        BY <3>6 DEF TypeOK
      <4> QED
        BY <3>2, <3>5, <4>1, <4>2, HoldersAreFinite, FS_AddElement
    <3>7. CASE ~(w = x /\ l \in Touched(r))
      <4>1. Holders(w, l)' = Holders(w, l)
        BY <3>2, <3>3, <3>4, <3>7 DEF Holders, Maps
      <4>2. refs'[w][l] = refs[w][l]
        BY <3>7 DEF TypeOK
      <4> QED
        BY <3>5, <4>1, <4>2
    <3> QED
      BY <3>6, <3>7
  <2>2. ASSUME NEW t \in Thread, UnmapCall(t) \/ UnmapInvalidate(t)
        PROVE  RefsFollowMappings'
    <3>1. refs' = refs /\ mapping' = mapping
      BY <2>2 DEF UnmapCall, UnmapInvalidate, calls
    <3>2. \A u \in Thread : pc'[u] = "idle" <=> pc[u] = "idle"
      BY <2>2 DEF UnmapCall, UnmapInvalidate, TypeOK
    <3>3. ASSUME NEW w \in BOOLEAN, NEW l \in LineNo PROVE Holders(w, l)' = Holders(w, l)
      BY <3>1, <3>2 DEF Holders, Maps
    <3> QED
      BY <3>1, <3>3 DEF RefsFollowMappings
  <2>3. ASSUME NEW t \in Thread, UnmapRelease(t) PROVE RefsFollowMappings'
    <3> DEFINE r == mapping[t].region
               x == mapping[t].writable
    <3>1. pc[t] = "unmap_release" /\ r \in Region /\ x \in BOOLEAN
      BY <2>3 DEF UnmapRelease, TypeOK, Mapping
    <3>2. Released(r) = Touched(r)
      BY <3>1, RoundingOfRegions
    <3>3. \A u \in Thread : u # t => pc'[u] = pc[u] /\ mapping'[u] = mapping[u]
      BY <2>3 DEF UnmapRelease, TypeOK
    <3>4. pc'[t] = "idle"
      BY <2>3 DEF UnmapRelease, AfterRelease, TypeOK
    <3>5. ASSUME NEW l \in LineNo, l \in Touched(r)
          PROVE  t \in Holders(x, l) /\ refs[x][l] > 0
      <4>1. t \in Holders(x, l)
        BY <3>1, <3>5 DEF Holders, Maps
      <4>2. Cardinality(Holders(x, l)) # 0
        BY <3>1, <4>1, HoldersAreFinite, FS_EmptySet
      <4> QED
        BY <3>1, <4>1, <4>2, HoldersAreFinite DEF RefsFollowMappings
    <3>6. Released(r) \subseteq LineNo
      BY DEF Released, LinesIn
    <3>7. refs' = [refs EXCEPT ![x] = [l \in LineNo |->
                      IF l \in Touched(r) THEN @[l] - 1 ELSE @[l]]]
      BY <2>3, <3>2, <3>5, <3>6 DEF UnmapRelease
    <3> SUFFICES ASSUME NEW w \in BOOLEAN, NEW l \in LineNo
                 PROVE  refs'[w][l] = Cardinality(Holders(w, l)')
      BY DEF RefsFollowMappings
    <3>8. refs[w][l] = Cardinality(Holders(w, l))
      BY DEF RefsFollowMappings
    <3>9. Holders(w, l)' = Holders(w, l) \ {t}
      BY <3>3, <3>4 DEF Holders, Maps
    <3>10. CASE w = x /\ l \in Touched(r)
      <4>1. refs'[w][l] = refs[w][l] - 1
        BY <3>7, <3>10 DEF TypeOK
      <4>2. t \in Holders(w, l)
        BY <3>5, <3>10
      <4> QED
        BY <3>8, <3>9, <4>1, <4>2, HoldersAreFinite, FS_RemoveElement
    <3>11. CASE ~(w = x /\ l \in Touched(r))
      <4>1. refs'[w][l] = refs[w][l]
        BY <3>7, <3>11 DEF TypeOK
      <4>2. t \notin Holders(w, l)
        BY <3>11 DEF Holders, Maps
      <4> QED
        BY <3>8, <3>9, <4>1, <4>2
    <3> QED
      BY <3>10, <3>11
  <2>4. ASSUME UNCHANGED <<calls, refs>> PROVE RefsFollowMappings'
    BY <2>4 DEF calls, RefsFollowMappings, Holders, Maps
  <2>5. CASE Spram
    BY <2>4, <2>5 DEF Spram, MemcpySpram, GetSpramValue
  <2>6. ASSUME NEW l \in LineNo, CacheFill(l) \/ CacheEvict(l) PROVE RefsFollowMappings'
    BY <2>4, <2>6 DEF CacheFill, CacheEvict
  <2>7. ASSUME NEW l \in LineNo, NEW v \in Value, CpuWrite(l, v) PROVE RefsFollowMappings'
    BY <2>4, <2>7 DEF CpuWrite
  <2>8. ASSUME NEW t \in Thread, NEW v \in Value, VeneziaWrite(t, v)
        PROVE  RefsFollowMappings'
    BY <2>4, <2>8 DEF VeneziaWrite
  <2>9. CASE UNCHANGED vars
    BY <2>4, <2>9 DEF vars
  <2> QED
    BY <2>1, <2>2, <2>3, <2>5, <2>6, <2>7, <2>8, <2>9 DEF Next, UnmapMemory
<1> QED
  BY <1>1, <1>2, MemoryTypeCorrect, PTL DEF Spec

-----------------------------------------------------------------------------
(* Coherence.                                                              *)

\* Nothing about line l that the invariant speaks of has changed.
LEMMA LineUntouched ==
    ASSUME CacheInv, NEW l \in LineNo, cache'[l] = cache[l], mem'[l] = mem[l],
           written'[l] = written[l], Writable(l)' <=> Writable(l),
           \A t \in Thread : Maps(t, l)' => Maps(t, l)
    PROVE  CacheInv!(l)'
  BY DEF CacheInv

\* The steps that leave the mappings alone.
LEMMA MappingsUntouched ==
    ASSUME UNCHANGED calls, NEW l \in LineNo
    PROVE  /\ Writable(l)' <=> Writable(l)
           /\ \A t \in Thread : Maps(t, l)' <=> Maps(t, l)
  BY DEF calls, Writable, Maps

\* A dirty copy is of a line no thread maps, so the Venezia cannot write it and the
\* copy is what was last written.
LEMMA DirtyCopyIsLatest ==
    ASSUME CacheInv, NEW l \in LineNo, cache[l].dirty
    PROVE  cache[l].present /\ ~Writable(l) /\ cache[l].value = written[l]
  BY DEF CacheInv, Writable, Maps

LEMMA MapKeepsCache ==
    ASSUME TypeOK, CacheInv, NEW t \in Thread, MapMemory(t)
    PROVE  CacheInv'
<1> SUFFICES ASSUME NEW l \in LineNo PROVE CacheInv!(l)'
  BY DEF CacheInv
<1> PICK r \in Region, w \in BOOLEAN : MapMemory(t)!2!(r, w)
  BY DEF MapMemory
<1>1. pc[t] = "idle" /\ pc' = [pc EXCEPT ![t] = "mapped"] /\ written' = written
  BY DEF MapMemory
<1>2. \A u \in Thread : u # t => pc'[u] = pc[u] /\ mapping'[u] = mapping[u]
  BY <1>1 DEF TypeOK
<1>3. pc'[t] = "mapped" /\ mapping'[t] = [region |-> r, writable |-> w]
  BY <1>1 DEF TypeOK
<1>4. CASE l \notin Touched(r)
  <2>1. Writable(l)' <=> Writable(l)
    BY <1>1, <1>2, <1>3, <1>4 DEF Writable
  <2>2. \A u \in Thread : Maps(u, l)' => Maps(u, l)
    BY <1>1, <1>2, <1>3, <1>4 DEF Maps
  <2> QED
    BY <1>1, <1>4, <2>1, <2>2, LineUntouched
<1>5. CASE l \in Touched(r)
  <2>1. mem'[l] = written'[l]
    BY <1>1, <1>5, DirtyCopyIsLatest DEF CacheInv
  <2>2. ~cache'[l].dirty
    BY <1>5 DEF Absent, TypeOK, Copies
  <2>3. ASSUME cache'[l].present, ~Writable(l)' PROVE cache'[l].value = written'[l]
    <3>1. ~w
      <4>1. l \in Touched(mapping'[t].region) /\ (mapping'[t].writable <=> w)
        BY <1>3, <1>5
      <4>2. pc'[t] \in {"mapped", "unmap_invalidate"}
        BY <1>3
      <4> QED
        BY <2>3, <4>1, <4>2, Zenon DEF Writable
    <3>2. cache'[l].value = cache[l].value /\ cache[l].present
      <4>1. cache[l] \in Copies
        BY DEF TypeOK
      <4>2. cache'[l] = [cache[l] EXCEPT !.dirty = FALSE]
        BY <1>5, <3>1
      <4>3. cache'[l].value = cache[l].value /\ cache'[l].present = cache[l].present
        BY <4>1, <4>2 DEF Copies
      <4> QED
        BY <2>3, <4>3
    <3>3. ~Writable(l)
      BY <1>1, <1>2, <2>3 DEF Writable
    <3> QED
      BY <1>1, <3>2, <3>3 DEF CacheInv
  <2> QED
    BY <2>1, <2>2, <2>3
<1> QED
  BY <1>4, <1>5

LEMMA UnmapKeepsCache ==
    ASSUME TypeOK, CacheInv, NEW t \in Thread, UnmapMemory(t)
    PROVE  CacheInv'
<1> SUFFICES ASSUME NEW l \in LineNo PROVE CacheInv!(l)'
  BY DEF CacheInv
<1> DEFINE r == mapping[t].region
<1>1. CASE UnmapCall(t)
  <2>1. \A u \in Thread : Maps(u, l)' => Maps(u, l)
    BY <1>1 DEF UnmapCall, Maps, TypeOK
  <2>2. Writable(l)' <=> Writable(l)
    BY <1>1 DEF UnmapCall, Writable, NeedsInvalidation, TypeOK
  <2> QED
    BY <1>1, <2>1, <2>2, LineUntouched DEF UnmapCall, content
<1>2. CASE UnmapInvalidate(t)
  <2>1. r \in Region
    BY <1>2 DEF UnmapInvalidate, TypeOK, Mapping
  <2>2. Invalidated(r) = Touched(r)
    BY <2>1, RoundingOfRegions
  <2>3. CASE l \in Touched(r)
    <3>1. ~cache[l].dirty
      BY <1>2, <2>3 DEF UnmapInvalidate, CacheInv, Maps
    <3>2. cache'[l] = Absent /\ mem'[l] = mem[l] /\ written'[l] = written[l]
      BY <1>2, <2>2, <2>3 DEF UnmapInvalidate
    <3> QED
      BY <3>1, <3>2 DEF CacheInv, Absent
  <2>4. CASE l \notin Touched(r)
    <3>1. cache'[l] = cache[l] /\ mem'[l] = mem[l] /\ written'[l] = written[l]
      BY <1>2, <2>2, <2>4 DEF UnmapInvalidate
    <3>2. \A u \in Thread : Maps(u, l)' => Maps(u, l)
      BY <1>2 DEF UnmapInvalidate, Maps, TypeOK
    <3>3. Writable(l)' <=> Writable(l)
      BY <1>2, <2>4 DEF UnmapInvalidate, Writable, TypeOK
    <3> QED
      BY <3>1, <3>2, <3>3, LineUntouched
  <2> QED
    BY <2>3, <2>4
<1>3. CASE UnmapRelease(t)
  <2>1. \A u \in Thread : Maps(u, l)' => Maps(u, l)
    BY <1>3 DEF UnmapRelease, AfterRelease, Maps, TypeOK
  <2>2. Writable(l)' <=> Writable(l)
    BY <1>3 DEF UnmapRelease, AfterRelease, Writable, TypeOK
  <2> QED
    BY <1>3, <2>1, <2>2, LineUntouched DEF UnmapRelease, content
<1> QED
  BY <1>1, <1>2, <1>3 DEF UnmapMemory

LEMMA ProcessorsKeepCache ==
    ASSUME TypeOK, CacheInv, NEW m \in LineNo,
           \/ CacheFill(m) \/ CacheEvict(m)
           \/ \E v \in Value : CpuWrite(m, v)
    PROVE  CacheInv'
<1> SUFFICES ASSUME NEW l \in LineNo PROVE CacheInv!(l)'
  BY DEF CacheInv
<1>1. UNCHANGED calls
  BY DEF CacheFill, CacheEvict, CpuWrite
<1>2. /\ Writable(l)' <=> Writable(l)
      /\ \A t \in Thread : Maps(t, l)' <=> Maps(t, l)
  BY <1>1, MappingsUntouched
<1>3. CASE l # m
  <2>1. cache'[l] = cache[l] /\ mem'[l] = mem[l] /\ written'[l] = written[l]
    BY <1>3 DEF CacheFill, CacheEvict, CpuWrite, TypeOK
  <2> QED
    BY <1>2, <2>1, LineUntouched
<1>4. CASE l = m /\ CacheFill(m)
  <2>1. /\ cache'[l] = Copy(FALSE, mem[l])
        /\ mem' = mem /\ written' = written /\ ~cache[l].present
    BY <1>4 DEF CacheFill, TypeOK
  <2> QED
    BY <2>1 DEF CacheInv, Copy
<1>5. CASE l = m /\ CacheEvict(m)
  <2>1. /\ cache'[l] = Absent /\ written' = written
        /\ mem'[l] = IF cache[l].dirty THEN cache[l].value ELSE mem[l]
    BY <1>5 DEF CacheEvict, TypeOK
  <2>2. mem'[l] = written'[l]
    BY <2>1, DirtyCopyIsLatest DEF CacheInv
  <2> QED
    BY <2>1, <2>2 DEF Absent
<1>6. ASSUME l = m, NEW v \in Value, CpuWrite(m, v) PROVE CacheInv!(l)'
  <2>1. cache'[l] = Copy(TRUE, v) /\ written'[l] = v /\ \A t \in Thread : ~Maps(t, l)
    BY <1>6 DEF CpuWrite, TypeOK
  <2> QED
    BY <1>2, <2>1 DEF Copy
<1> QED
  BY <1>3, <1>4, <1>5, <1>6

LEMMA VeneziaKeepsCache ==
    ASSUME TypeOK, CacheInv, NEW t \in Thread, NEW v \in Value, VeneziaWrite(t, v)
    PROVE  CacheInv'
<1> SUFFICES ASSUME NEW l \in LineNo PROVE CacheInv!(l)'
  BY DEF CacheInv
<1> PICK m \in Touched(mapping[t].region) : /\ mem' = [mem EXCEPT ![m] = v]
                                            /\ written' = [written EXCEPT ![m] = v]
  BY DEF VeneziaWrite
<1>1. UNCHANGED calls /\ cache' = cache /\ pc[t] = "mapped" /\ mapping[t].writable
  BY DEF VeneziaWrite
<1>2. /\ Writable(l)' <=> Writable(l)
      /\ \A u \in Thread : Maps(u, l)' <=> Maps(u, l)
  BY <1>1, MappingsUntouched
<1>3. CASE l # m
  <2>1. cache'[l] = cache[l] /\ mem'[l] = mem[l] /\ written'[l] = written[l]
    BY <1>1, <1>3 DEF TypeOK
  <2> QED
    BY <1>2, <2>1, LineUntouched
<1>4. CASE l = m
  <2>1. mem'[l] = written'[l]
    BY <1>4 DEF TypeOK
  <2>2. Writable(l) /\ Maps(t, l)
    BY <1>1, <1>4 DEF Writable, Maps
  <2>3. ~cache[l].dirty
    BY <2>2 DEF CacheInv
  <2> QED
    BY <1>1, <1>2, <2>1, <2>2, <2>3
<1> QED
  BY <1>3, <1>4

\* Memory lags behind only a dirty copy, no mapped line has one, and a copy is out of
\* date only while the Venezia may write its line.
THEOREM CacheConsistent == Spec => []CacheInv
<1>1. Init => CacheInv
  BY DEF Init, CacheInv, Absent
<1>2. TypeOK /\ CacheInv /\ [Next]_vars => CacheInv'
  <2> SUFFICES ASSUME TypeOK, CacheInv, [Next]_vars PROVE CacheInv'
    OBVIOUS
  <2>1. ASSUME UNCHANGED <<calls, content>> PROVE CacheInv'
    BY <2>1 DEF CacheInv, Writable, Maps, calls, content
  <2>2. CASE Spram
    BY <2>1, <2>2 DEF Spram, MemcpySpram, GetSpramValue
  <2>3. CASE UNCHANGED vars
    BY <2>1, <2>3 DEF vars
  <2> QED
    BY <2>2, <2>3, MapKeepsCache, UnmapKeepsCache, ProcessorsKeepCache, VeneziaKeepsCache
    DEF Next
<1> QED
  BY <1>1, <1>2, MemoryTypeCorrect, PTL DEF Spec

\* What a CPU reads outside the memory the Venezia may write is what was last written.
THEOREM CpuReadsLatest == Spec => []CpuCoherent
<1>1. TypeOK /\ CacheInv => CpuCoherent
  <2> SUFFICES ASSUME TypeOK, CacheInv, NEW l \in LineNo, Holders(TRUE, l) = {}
               PROVE  CpuSees(l) = written[l]
    BY DEF CpuCoherent
  <2>1. ~Writable(l)
    BY DEF Writable, Holders, Maps, TypeOK, Mapping
  <2> QED
    BY <2>1 DEF CacheInv, CpuSees
<1> QED
  BY <1>1, MemoryTypeCorrect, CacheConsistent, PTL

\* What a MeP program reads in mapped memory is what was last written.
THEOREM VeneziaReadsLatest == Spec => []VeneziaCoherent
<1>1. CacheInv => VeneziaCoherent
  BY DEF CacheInv, VeneziaCoherent
<1> QED
  BY <1>1, CacheConsistent, PTL

\* An access of the ARM side leaves the SPRAM exactly when the sum of a copy wraps, for
\* every size of the SPRAM and of a word.
THEOREM SpramLeftByWraps == Spec => []SpramBounded
<1>1. Init => SpramBounded
  BY DEF Init, SpramBounded
<1>2. SpramBounded /\ [Next]_vars => SpramBounded'
  <2> SUFFICES ASSUME SpramBounded, [Next]_vars PROVE SpramBounded'
    OBVIOUS
  <2> USE DEF SpramBounded
  <2>1. Word \in Nat /\ SpramSize \in Nat /\ IntSize \in Nat /\ SpramSize < Word
    BY RangeAssumption
  <2>2. CASE MemcpySpram
    <3> PICK offset \in 0 .. Word - 1, size \in 0 .. Word - 1 :
               /\ SpramAdmits(offset, size)
               /\ Reach(offset + size)
               /\ wrapped' = (wrapped \/ offset + size >= Word)
      BY <2>2 DEF MemcpySpram
    <3>1. offset + size > SpramSize <=> offset + size >= Word
      BY <2>1, SpramChecksAdmit
    <3> QED
      BY <3>1, Zenon DEF Reach
  <2>3. CASE GetSpramValue
    <3> PICK offset \in 0 .. Word - 1 : SpramValueAdmits(offset) /\ Reach(offset + IntSize)
      BY <2>3 DEF GetSpramValue
    <3>1. offset \in Nat
      BY <2>1
    <3>2. offset + IntSize <= SpramSize
      BY <3>1, SpramChecksAdmit
    <3>3. ~(offset + IntSize > SpramSize) /\ wrapped' = wrapped
      BY <2>1, <2>3, <3>1, <3>2 DEF GetSpramValue
    <3> QED
      BY <3>3, Zenon DEF Reach
  <2>4. ASSUME UNCHANGED spram PROVE SpramBounded'
    BY <2>4 DEF spram
  <2> QED
    BY <2>2, <2>3, <2>4 DEF Next, UnmapMemory, Spram, MapMemory, UnmapCall,
       UnmapInvalidate, UnmapRelease, CacheFill, CacheEvict, CpuWrite, VeneziaWrite,
       content, vars
<1> QED
  BY <1>1, <1>2, PTL DEF Spec

-----------------------------------------------------------------------------
(* What a CPU reads never goes back.                                       *)

\* What a CPU reads from memory it has no dirty copy of, it reads as last written.
LEMMA MemoryIsLatest ==
    ASSUME CacheInv, NEW l \in LineNo
    PROVE  /\ ~cache[l].dirty => mem[l] = written[l]
           /\ cache[l].dirty => cache[l].present /\ \A t \in Thread : ~Maps(t, l)
  BY DEF CacheInv

LEMMA MapAdvancesViews ==
    ASSUME TypeOK, CacheInv, NEW t \in Thread, MapMemory(t), NEW l \in LineNo
    PROVE  CpuSees(l)' \in {CpuSees(l), written'[l]}
<1> PICK r \in Region, w \in BOOLEAN : MapMemory(t)!2!(r, w)
  BY DEF MapMemory
<1>1. written' = written
  BY DEF MapMemory
<1>2. CASE l \notin Touched(r)
  BY <1>2 DEF CpuSees
<1>3. CASE l \in Touched(r) /\ w
  <2>1. mem'[l] = written'[l]
    BY <1>1, <1>3, DirtyCopyIsLatest, MemoryIsLatest
  <2>2. ~cache'[l].present
    BY <1>3 DEF Absent
  <2> QED
    BY <2>1, <2>2 DEF CpuSees
<1>4. CASE l \in Touched(r) /\ ~w
  <2>1. cache[l] \in Copies /\ cache'[l] = [cache[l] EXCEPT !.dirty = FALSE]
    BY <1>4 DEF TypeOK
  <2>2. cache'[l].present = cache[l].present /\ cache'[l].value = cache[l].value
    BY <2>1 DEF Copies
  <2>3. mem'[l] = written'[l]
    BY <1>1, <1>4, DirtyCopyIsLatest, MemoryIsLatest
  <2> QED
    BY <2>2, <2>3 DEF CpuSees
<1> QED
  BY <1>2, <1>3, <1>4

\* The invalidation drops copies of lines that thread t maps: no such copy is dirty.
LEMMA UnmapAdvancesViews ==
    ASSUME TypeOK, CacheInv, NEW t \in Thread, UnmapMemory(t), NEW l \in LineNo
    PROVE  CpuSees(l)' \in {CpuSees(l), written'[l]}
<1>1. CASE UnmapCall(t) \/ UnmapRelease(t)
  BY <1>1 DEF UnmapCall, UnmapRelease, content, CpuSees
<1>2. CASE UnmapInvalidate(t)
  <2> DEFINE r == mapping[t].region
  <2>1. /\ r \in Region /\ mem' = mem /\ written' = written /\ pc[t] # "idle"
        /\ cache'[l] = IF l \in Invalidated(r) THEN Absent ELSE cache[l]
    BY <1>2 DEF UnmapInvalidate, TypeOK, Mapping
  <2>2. CASE l \in Touched(r)
    <3>1. mem'[l] = written'[l]
      BY <2>1, <2>2, MemoryIsLatest DEF Maps
    <3>2. ~cache'[l].present
      BY <2>1, <2>2, RoundingOfRegions DEF Absent
    <3> QED
      BY <3>1, <3>2 DEF CpuSees
  <2>3. CASE l \notin Touched(r)
    BY <2>1, <2>3, RoundingOfRegions DEF CpuSees
  <2> QED
    BY <2>2, <2>3
<1> QED
  BY <1>1, <1>2 DEF UnmapMemory

LEMMA ProcessorsAdvanceViews ==
    ASSUME TypeOK, CacheInv, NEW m \in LineNo,
           \/ CacheFill(m) \/ CacheEvict(m)
           \/ \E v \in Value : CpuWrite(m, v),
           NEW l \in LineNo
    PROVE  CpuSees(l)' \in {CpuSees(l), written'[l]}
<1>1. CASE l # m
  BY <1>1 DEF CacheFill, CacheEvict, CpuWrite, TypeOK, CpuSees
<1>2. CASE l = m /\ CacheFill(m)
  BY <1>2 DEF CacheFill, TypeOK, Copy, CpuSees
<1>3. CASE l = m /\ CacheEvict(m)
  <2>1. /\ cache'[l] = Absent /\ written' = written
        /\ mem'[l] = IF cache[l].dirty THEN cache[l].value ELSE mem[l]
    BY <1>3 DEF CacheEvict, TypeOK
  <2>2. mem'[l] = written'[l]
    BY <2>1, DirtyCopyIsLatest, MemoryIsLatest
  <2> QED
    BY <2>1, <2>2 DEF CpuSees, Absent
<1>4. ASSUME l = m, NEW v \in Value, CpuWrite(m, v)
      PROVE  CpuSees(l)' = written'[l]
  <2>1. cache'[l] = Copy(TRUE, v) /\ written'[l] = v
    BY <1>4 DEF CpuWrite, TypeOK
  <2> QED
    BY <2>1 DEF CpuSees, Copy
<1> QED
  BY <1>1, <1>2, <1>3, <1>4

LEMMA VeneziaAdvancesViews ==
    ASSUME TypeOK, NEW t \in Thread, NEW v \in Value, VeneziaWrite(t, v), NEW l \in LineNo
    PROVE  CpuSees(l)' \in {CpuSees(l), written'[l]}
<1> PICK m \in Touched(mapping[t].region) : /\ mem' = [mem EXCEPT ![m] = v]
                                            /\ written' = [written EXCEPT ![m] = v]
  BY DEF VeneziaWrite
<1>1. cache' = cache
  BY DEF VeneziaWrite
<1>2. CASE l # m
  BY <1>1, <1>2 DEF TypeOK, CpuSees
<1>3. CASE l = m
  <2>1. mem'[l] = v /\ written'[l] = v
    BY <1>3 DEF TypeOK
  <2> QED
    BY <1>1, <2>1 DEF CpuSees
<1> QED
  BY <1>2, <1>3

\* No step of any processor or call shows a CPU a value that has been overwritten.
THEOREM ViewsNeverGoBack == Spec => ViewsAdvance
<1>1. TypeOK /\ CacheInv /\ [Next]_vars
         => [\A l \in LineNo : CpuSees(l)' \in {CpuSees(l), written'[l]}]_vars
  <2> SUFFICES ASSUME TypeOK, CacheInv, [Next]_vars, NEW l \in LineNo
               PROVE  CpuSees(l)' \in {CpuSees(l), written'[l]}
    OBVIOUS
  <2>1. ASSUME UNCHANGED content PROVE CpuSees(l)' \in {CpuSees(l), written'[l]}
    BY <2>1 DEF content, CpuSees
  <2>2. CASE Spram
    BY <2>1, <2>2 DEF Spram, MemcpySpram, GetSpramValue
  <2>3. CASE UNCHANGED vars
    BY <2>1, <2>3 DEF vars
  <2> QED
    BY <2>2, <2>3, MapAdvancesViews, UnmapAdvancesViews, ProcessorsAdvanceViews,
       VeneziaAdvancesViews DEF Next
<1> QED
  BY <1>1, MemoryTypeCorrect, CacheConsistent, PTL DEF Spec, ViewsAdvance
=============================================================================
