----------------------------- MODULE IndexMath -----------------------------
(***************************************************************************)
(* src/src/atomic_queue/atomic_queue.h, namespace details: how a queue     *)
(* rounds the size it is asked for, and how it maps a ticket to a slot.    *)
(* AtomicQueue2 takes from here that the map is a bijection.  An unsigned  *)
(* has Width bits.  A queue is either "inline" (AtomicQueue, AtomicQueue2, *)
(* their size a template parameter) or "heap" (AtomicQueueB, AtomicQueueB2,*)
(* their size an argument).                                                *)
(***************************************************************************)
EXTENDS Naturals, Bitwise

CONSTANTS
  Width,     \* bits of an unsigned
  Sizes,     \* sizes that queues are asked for
  PerLines   \* elements per cache line: 64 / sizeof

VARIABLES kind, size, per,   \* of the queue
          ticket             \* the next ticket it hands out

vars == <<kind, size, per, ticket>>

Word == 2 ^ Width

\* The shifts or_equal is given: 1, 2, 4, ... below the width.
Shifts == {2 ^ k : k \in {j \in 0 .. Width : 2 ^ j < Width}}
OrShifted(x, u) == x | shiftR(x, u)

RECURSIVE OrEqual(_, _)
OrEqual(x, us) ==
  IF us = {} THEN x
  ELSE LET u == CHOOSE u \in us : \A v \in us : u <= v
       IN  OrEqual(OrShifted(x, u), us \ {u})

RoundUp(a) == (OrEqual((a + Word - 1) % Word, Shifts) + 1) % Word

\* GetCacheLineIndexBits: specialized for powers of two, else 0.
LineBits(p) == IF \E k \in 1 .. 6 : p = 2 ^ k
               THEN CHOOSE k \in 1 .. 6 : p = 2 ^ k ELSE 0

MinSize(p) == 2 ^ (2 * LineBits(p))

\* size_
Capacity(k, n, p) ==
  IF k = "heap" /\ RoundUp(n) < MinSize(p) THEN MinSize(p) ELSE RoundUp(n)

ShuffleBitsAlways(k, n, p) ==   \* a slip: small queues are shuffled too
  LineBits(p)

\* SHUFFLE_BITS
ShuffleBits(k, n, p) ==
  IF k = "inline" /\ Capacity(k, n, p) < MinSize(p) THEN 0 ELSE LineBits(p)

\* remap_index
Remap(b, i) ==
  LET mix == (i ^^ shiftR(i, b)) & (2 ^ b - 1) IN (i ^^ mix) ^^ (mix * 2 ^ b)

Cap  == Capacity(kind, size, per)
Bits == ShuffleBits(kind, size, per)

\* The slot of a ticket: by a modulus, or by a mask.
Slot(t) == Remap(Bits, IF kind = "heap" THEN t & (Cap - 1) ELSE t % Cap)
Line(s) == s \div per

\* A template size is a positive power of two or rounds to one; a heap queue
\* of no elements per line, or of an odd number, does not compile.
Init ==
  /\ kind \in {"inline", "heap"} /\ size \in Sizes /\ per \in PerLines
  /\ kind = "inline" => RoundUp(size) > 0
  /\ kind = "heap" => LineBits(per) > 0
  /\ ticket = 0

\* head_.fetch_add(1)
Push == ticket' = (ticket + 1) % Word /\ UNCHANGED <<kind, size, per>>

Next == Push
Spec == Init /\ [][Next]_vars
-----------------------------------------------------------------------------
(* Properties *)

(* The capacity is a power of two that holds what was asked for, and the   *)
(* least one, unless the index map needs more; a size above half the words *)
(* wraps to nothing and leaves only what the map needs.                    *)
Rounded ==
  LET least == {2 ^ k : k \in 0 .. Width}
      wanted == {c \in least : c >= size /\ c >= (IF kind = "heap" THEN MinSize(per) ELSE 1)}
  IN  IF 0 < size /\ size <= Word \div 2
      THEN Cap \in wanted /\ \A c \in wanted : Cap <= c
      ELSE Cap = MinSize(per)

(* Any Cap tickets in a row, across the wrap of the word too, have         *)
(* different slots, all of them in the array; and of two in a row, when    *)
(* the queue is shuffled, "each subsequent element resides on another      *)
(* cache line".                                                            *)
SlotsApart ==
  /\ Slot(ticket) \in 0 .. Cap - 1
  /\ \A d \in 1 .. Cap - 1 : Slot((ticket + d) % Word) # Slot(ticket)
  /\ Bits > 0 => Line(Slot(ticket)) # Line(Slot((ticket + 1) % Word))
=============================================================================
