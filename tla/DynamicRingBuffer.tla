------------------------- MODULE DynamicRingBuffer -------------------------
(***************************************************************************)
(* The upload ring of the Direct3D 8 shim, src/dynamic_ring_buffer.cpp.    *)
(*                                                                         *)
(* Every per-draw constant buffer, DISCARD-locked vertex buffer and        *)
(* texture upload is a byte range of one persistently mapped buffer.  The  *)
(* CPU hands ranges out at tail; the GPU reads them some frames later.  A  *)
(* range is given back only with the whole frame it was allocated in, when *)
(* the device has seen that frame's fence: head moves to the place where   *)
(* the oldest frame still in flight began.                                 *)
(*                                                                         *)
(* Bytes are counted in units.  The environment of the ring is the device: *)
(* FreeFrameResources (src/device.cpp) calls HasCompletedFrame(f) for a    *)
(* fence f the GPU has passed and then SetCurrentFrame(CurrentFrame()),    *)
(* one step here because the device is single threaded and allocates       *)
(* nothing between the two calls.                                          *)
(***************************************************************************)
EXTENDS Integers, FiniteSets

CONSTANTS
  MaxSize,   \* max_size_, the capacity
  Aligns,    \* the alignments callers ask for, after max(align, min_align_)
  Sizes,     \* the sizes callers ask for
  MaxFrame   \* bound of the exploration: the last frame number

ASSUME MaxSizeAssumption == MaxSize \in Nat \ {0}
ASSUME AlignsAssumption == Aligns \subseteq Nat \ {0}
ASSUME SizesAssumption == Sizes \subseteq Nat \ {0}
ASSUME MaxFrameAssumption == MaxFrame \in Nat \ {0}

VARIABLES
  head,          \* head_: start of the oldest frame in flight
  tail,          \* tail_: where the next allocation is tried
  current_frame, \* current_frame_
  frame_heads,   \* frame_heads_: frame |-> the tail at which the frame began
  live_allocs,   \* live_allocs_ of the validation build
  collision,     \* "RINGBUF-COLLISION" has been logged by CheckForOverlap
  filled         \* history: some allocation has left tail exactly at head

ringVars == <<head, tail, current_frame, frame_heads, live_allocs, collision,
          filled>>

Frames == 1 .. MaxFrame
Allocation == [frame : Nat, offset : Nat, size : Nat]
End(a) == a.offset + a.size

AlignUp(x, align) == (x + align - 1) - ((x + align - 1) % align)

Overlap(a, b) == a.offset < End(b) /\ b.offset < End(a)

-----------------------------------------------------------------------------
\* The offset TryAllocate picks.  A definition marked "fault" is a plausible
\* slip in the one that follows it, which the properties are tried on.
FitsAtTail(n, align) ==
  AlignUp(tail, align) + n <= IF tail >= head THEN MaxSize ELSE head

FitsAtStart(n, align) ==
  /\ tail >= head
  /\ ~FitsAtTail(n, align)
  /\ head >= n

CanAllocate(n, align) == FitsAtTail(n, align) \/ FitsAtStart(n, align)

\* What the device constructor leaves: a new ring (current_frame_ = 0, no
\* frame head) after SetCurrentFrame(1).
RingInit ==
  /\ head = 0
  /\ tail = 0
  /\ current_frame = 1
  /\ frame_heads = [f \in {1} |-> 0]
  /\ live_allocs = {}
  /\ collision = FALSE
  /\ filled = FALSE

\* The part of TryAllocate common to both placements: record the allocation,
\* advance tail past it, CheckForOverlap against the live ones.
Place(offset, n) ==
  LET alloc == [frame |-> current_frame, offset |-> offset, size |-> n]
  IN  /\ tail' = offset + n
      /\ live_allocs' = live_allocs \cup {alloc}
      /\ collision' = (collision \/ \E a \in live_allocs : Overlap(a, alloc))
      /\ filled' = (filled \/ offset + n = head)
      /\ UNCHANGED <<head, current_frame, frame_heads>>

AllocateAtTail(n, align) ==
  /\ FitsAtTail(n, align)
  /\ Place(AlignUp(tail, align), n)

AllocateAtStart(n, align) ==
  /\ FitsAtStart(n, align)
  /\ Place(0, n)

\* TryAllocate; out of memory returns false and changes nothing (Allocate then
\* FAILs the process, FlushShadowToResource takes another path).
TryAllocate(n, align) == AllocateAtTail(n, align) \/ AllocateAtStart(n, align)

\* The frame heads HasCompletedFrame(f) leaves, and the head they imply.  With
\* no frame in flight head_ = tail_, which marks the ring empty.
HeadsAfter(f) == {g \in DOMAIN frame_heads : g > f}

HasCompletedFrameNewest(f) ==  \* fault: the newest frame's head, not the oldest's
  head' = IF HeadsAfter(f) = {} THEN tail
          ELSE frame_heads[CHOOSE g \in HeadsAfter(f) :
                             \A h \in HeadsAfter(f) : g >= h]

HasCompletedFrame(f) ==
  head' = IF HeadsAfter(f) = {} THEN tail
          ELSE frame_heads[CHOOSE g \in HeadsAfter(f) :
                             \A h \in HeadsAfter(f) : g <= h]

\* FreeFrameResources: HasCompletedFrame(f), then SetCurrentFrame(cur).
FreeRingFrames(f, cur) ==
  /\ f < cur
  /\ HasCompletedFrame(f)
  /\ live_allocs' = {a \in live_allocs : a.frame > f}
  /\ current_frame' = cur
  /\ frame_heads' =
       [g \in HeadsAfter(f) \cup (IF cur > current_frame THEN {cur} ELSE {})
          |-> IF g = cur /\ cur > current_frame THEN tail ELSE frame_heads[g]]
  /\ UNCHANGED <<tail, collision, filled>>

RingNext ==
  \/ \E n \in Sizes, align \in Aligns : TryAllocate(n, align)
  \/ \E cur \in {current_frame, current_frame + 1} \cap Frames, f \in 0 .. MaxFrame :
       FreeRingFrames(f, cur)

RingSpec == RingInit /\ [][RingNext]_ringVars

-----------------------------------------------------------------------------
RingTypeOK ==
  /\ head \in 0 .. MaxSize
  /\ tail \in 0 .. MaxSize
  /\ current_frame \in Nat
  /\ DOMAIN frame_heads \subseteq 0 .. current_frame
  /\ frame_heads \in [DOMAIN frame_heads -> 0 .. MaxSize]
  /\ live_allocs \subseteq Allocation
  /\ collision \in BOOLEAN
  /\ filled \in BOOLEAN

\* "head_/tail_ arithmetic is supposed to make two live allocations' byte
\* ranges overlap impossible ... which the arithmetic should make structurally
\* impossible" (src/dynamic_ring_buffer.h): no allocation is ever handed out
\* over a range the GPU may still read.  Refuted: see NoCollisionUntilFilled.
NoCollision == ~collision

\* The same promise as far as the code keeps it: while no allocation has
\* filled the ring to the last unit (tail back on head, which the code reads
\* as an empty ring), a new range never covers a live one.
NoCollisionUntilFilled == ~filled => ~collision

\* Giving a frame back never orphans a range: whatever is live is owned by a
\* frame whose start the ring still remembers, so head cannot move past it
\* while it is live.
LiveFramesAreRemembered ==
  \A a \in live_allocs : a.frame \in DOMAIN frame_heads

-----------------------------------------------------------------------------
\* The inductive strengthening.  The window of a start h is what was handed
\* out between h and tail, going round the end of the ring when tail is below
\* h; as long as the ring was never exactly full, tail has not caught up with
\* h and the two shapes cannot be confused.
InWindow(h, a) ==
  IF tail >= h THEN h <= a.offset /\ End(a) <= tail
  ELSE (h <= a.offset /\ End(a) <= MaxSize) \/ End(a) <= tail

PointInWindow(h, p) ==
  IF tail >= h THEN h <= p /\ p <= tail ELSE h <= p \/ p <= tail

\* Everything live is in head's window; everything a frame or its successors
\* allocated is in the window of that frame's start; the starts follow one
\* another round the ring in frame order, from head on.
LiveInWindow == \A a \in live_allocs : InWindow(head, a)
FrameInWindow ==
  \A g \in DOMAIN frame_heads, a \in live_allocs :
    g <= a.frame => InWindow(frame_heads[g], a)
HeadsInOrder ==
  /\ \A g \in DOMAIN frame_heads : PointInWindow(head, frame_heads[g])
  /\ \A g, k \in DOMAIN frame_heads :
       g <= k => PointInWindow(frame_heads[g], frame_heads[k])

RingIInv ==
  /\ RingTypeOK
  /\ LiveFramesAreRemembered
  /\ current_frame \in DOMAIN frame_heads
  /\ ~filled => /\ ~collision
                /\ LiveInWindow
                /\ FrameInWindow
                /\ HeadsInOrder
=============================================================================
