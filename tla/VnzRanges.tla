------------------------------ MODULE VnzRanges ------------------------------
(***************************************************************************)
(* The arithmetic of VVNZRunner/memory.c: the range that                   *)
(* vnzBridgeUnmapMemory rounds a mapping out to, and the bounds of the     *)
(* copies to and from the SPRAM.  Sums are those of unsigned words.  In    *)
(* the code Line = 256, Word = 2^32 and SpramSize = SPRAM_MEMSIZE; TLC     *)
(* uses small values, the theorems are about all.                          *)
(***************************************************************************)
EXTENDS Integers

CONSTANTS Line,      \* bytes of the unit that addresses are rounded to
          Word,      \* number of values of an unsigned int
          SpramSize, \* SPRAM_MEMSIZE
          IntSize    \* sizeof(unsigned int)

ASSUME RangeAssumption == /\ Line \in Nat \ {0}
                          /\ Word \in Nat /\ Word >= Line /\ Word % Line = 0
                          /\ IntSize \in Nat \ {0}
                          /\ SpramSize \in IntSize .. Word - 1

LineNo == 0 .. (Word \div Line) - 1

\* x & 0xffffff00
Truncate(x) == x - (x % Line)

RangeBase(va) == Truncate(va)

\* Mutant: the offset of va in its line is left out.
RangeSizeAligned(va, size) == Truncate((size + (Line - 1)) % Word)
RangeSize(va, size) == Truncate((size + (Line - 1) + (va % Line)) % Word)

\* The other formula, in the call that invalidates the cache; unsigned words
\* add and subtract modulo Word, whatever the order.
\* Mutant: the range is rounded up a second time.
CacheSizeTwice(va, size) ==
    Truncate((((va + (Line - 1)) - Truncate(va)) + size + Line) % Word)
CacheSize(va, size) ==
    Truncate((((va + (Line - 1)) - Truncate(va)) + size) % Word)

\* The lines between an address on a line's boundary and its end.
LinesIn(base, size) == {l \in LineNo : base <= l * Line /\ l * Line < base + size}

\* The lines that hold a byte of the range: what has to be invalidated, and what
\* the kernel takes references on.
LinesOf(va, size) ==
    {l \in LineNo : \E a \in va .. va + size - 1 : l * Line <= a /\ a < (l + 1) * Line}

\* A range of user memory, with room to round it out.
IsRange(r) == /\ r.va \in 0 .. Word - 1
              /\ r.size \in 1 .. Word - r.va
              /\ r.size + (Line - 1) + (r.va % Line) < Word

\* The tests of vnzBridgeMemcpyToSpram, vnzBridgeMemcpyFromSpram and
\* vnzBridgeGetSpramValue.  Mutants: only the offset is compared; the size of the
\* value is not taken off.
SpramAdmitsOffset(offset, size) == offset <= SpramSize
SpramAdmits(offset, size) == (offset + size) % Word <= SpramSize
SpramValueAdmits(offset) == offset <= SpramSize - IntSize
=============================================================================
