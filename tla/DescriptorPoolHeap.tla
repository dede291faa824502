------------------------ MODULE DescriptorPoolHeap -------------------------
(***************************************************************************)
(* A pool of descriptor slots, src/pool_heap.cpp.  The GPU resolves a      *)
(* descriptor when it executes a draw, not when the draw is recorded, so a *)
(* freed slot is parked with the heap's current frame and goes back to the *)
(* free list only when ReleaseCompleted is told of that frame.             *)
(*                                                                         *)
(* The free list is a stack in the code; which free slot is handed out is  *)
(* left open here.                                                         *)
(***************************************************************************)
EXTENDS Naturals

CONSTANT Descriptors

VARIABLES
  free_list,    \* free_list_
  pending_free, \* pending_free_: pairs of the frame and the slot parked in it
  heap_frame    \* current_frame_

heapVars == <<free_list, pending_free, heap_frame>>

\* The constructor (FreeAll); current_frame_ stays 0 until the first
\* FreeFrameResources, although the device's first frame is number 1.
HeapInit ==
  /\ free_list = Descriptors
  /\ pending_free = {}
  /\ heap_frame = 0

Allocate(d) ==
  /\ d \in free_list
  /\ free_list' = free_list \ {d}
  /\ UNCHANGED <<pending_free, heap_frame>>

Park(D) == pending_free \cup ({heap_frame} \X D)

FreeAtOnce(D) ==  \* fault: straight onto the free list
  /\ free_list' = free_list \cup D
  /\ UNCHANGED <<pending_free, heap_frame>>

\* Free, called by the destructors of the textures that own the slots D.
Free(D) ==
  /\ pending_free' = Park(D)
  /\ UNCHANGED <<free_list, heap_frame>>

\* What ReleaseCompleted(f) finds in pending_free_ once D has been parked.
CompletedLate(D, f) == {p \in Park(D) : p[1] < f}       \* fault: keeps f itself

Completed(D, f) == {p \in Park(D) : p[1] <= f}

\* The tail of Device::FreeFrameResources: the destructors it triggers park D,
\* then ReleaseCompleted(f) and SetCurrentFrame(cur).
FreeAndRelease(D, f, cur) ==
  /\ free_list' = free_list \cup {p[2] : p \in Completed(D, f)}
  /\ pending_free' = Park(D) \ Completed(D, f)
  /\ heap_frame' = cur

HeapTypeOK ==
  /\ free_list \subseteq Descriptors
  /\ pending_free \subseteq Nat \X Descriptors
  /\ heap_frame \in Nat
=============================================================================
