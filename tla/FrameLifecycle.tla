--------------------------- MODULE FrameLifecycle ---------------------------
(***************************************************************************)
(* Frames, fences and the lifetime of what a command list names            *)
(* (src/device.cpp: SubmitAndWait, WaitForFrame, FreeFrameResources,       *)
(* WaitForGpuIdle, Reset; src/device.h: MarkResourceAsUsed; src/util.h:    *)
(* RefCounted).                                                            *)
(*                                                                         *)
(* The render thread records draws into the one command list, closes and   *)
(* submits it with the fence next_fence_, and reopens it on the allocator  *)
(* of the current back buffer once that buffer's last fence has passed.    *)
(* The GPU executes the submitted lists in order, whenever it likes.  A    *)
(* texture is deleted with its last reference: the application's, a        *)
(* binding, or the keep-alive reference that every draw takes on what it   *)
(* names, in the list of the current back buffer.  FreeFrameResources      *)
(* drops the keep-alive lists of the buffers whose fence has passed.       *)
(***************************************************************************)
EXTENDS Integers, FiniteSets

CONSTANTS
  Textures,       \* identities of texture objects
  Descriptors,    \* slots of the SRV heap
  NoTexture,      \* an unbound stage
  NoDescriptor,   \* "this texture does not exist"
  NumBackBuffers, \* kNumBackBuffers
  MaxFence,       \* bound of the exploration: submissions made
  HelperRestarts  \* does DlssClient::Stop run between draws and submission?

ASSUME TexturesAssumption == NoTexture \notin Textures
ASSUME DescriptorsAssumption == NoDescriptor \notin Descriptors
ASSUME NumBackBuffersAssumption == NumBackBuffers \in Nat \ {0}
ASSUME MaxFenceAssumption == MaxFence \in Nat
ASSUME HelperRestartsAssumption == HelperRestarts \in BOOLEAN

Slots == 0 .. NumBackBuffers - 1
Fences == 1 .. MaxFence
Uses == Textures \X Descriptors

VARIABLES
  pc,                  \* where the render thread is
  next_fence,          \* next_fence_, also CurrentFrame()
  fence_values,        \* fence_values_, per back buffer
  current_back_buffer, \* current_back_buffer_
  recorded,            \* what the open command list names, with its SRV slot
  frame_resources,     \* frame_resources_to_free_, per back buffer
  stamped,             \* per back buffer: the textures whose
                       \*   last_marked_generation_ is the slot_generation_
  completed,           \* GetCompletedValue() of the fence
  submitted,           \* per fence: what the list it closes names
  list_slot,           \* per unfinished fence: the allocator it records into
  app,                 \* textures the application holds a reference to
  bound,               \* bound_textures_[0]
  srv,                 \* srv_handle_ per texture, NoDescriptor if deleted
  ring_frame,          \* current_frame_ of the upload ring
  recycled,            \* the last frame HasCompletedFrame was told of
  resetting,           \* the wait is the one of Device::Reset
  free_list, pending_free, heap_frame

Heap == INSTANCE DescriptorPoolHeap

cpuVars == <<pc, next_fence, fence_values, current_back_buffer, ring_frame,
             recycled, resetting>>
gpuVars == <<completed, submitted, list_slot>>
textureVars == <<app, bound, srv>>
heapVars == <<free_list, pending_free, heap_frame>>
vars == <<cpuVars, gpuVars, textureVars, heapVars, recorded, frame_resources,
          stamped>>

NoSlot == NumBackBuffers

-----------------------------------------------------------------------------
\* Reference counting.  A texture exists from its creation to the moment its
\* last reference is dropped.
Exists(t) == srv[t] # NoDescriptor

\* What the command lists name that the GPU has not finished, or not begun.
InFlight == UNION {submitted[f] : f \in {g \in Fences : g > completed}}
Busy == recorded \cup InFlight

\* A definition marked "fault" is a plausible slip in the one that follows it,
\* which the properties are tried on.

\* The textures deleted when the references become app2, bound2 and kept2.
Orphans(app2, bound2, kept2) ==
  {t \in Textures : /\ Exists(t)
                    /\ t \notin app2 /\ t # bound2
                    /\ \A s \in Slots : t \notin kept2[s]}

\* ~GpuTexture for every texture of D; an object made later has no stamp.
Delete(D) ==
  /\ srv' = [t \in Textures |-> IF t \in D THEN NoDescriptor ELSE srv[t]]
  /\ stamped' = [s \in Slots |-> stamped[s] \ D]

SrvsOf(D) == {srv[t] : t \in D}

-----------------------------------------------------------------------------
Init ==
  /\ pc = "recording"
  /\ next_fence = 1
  /\ fence_values = [s \in Slots |-> 0]
  /\ current_back_buffer = 0
  /\ recorded = {}
  /\ frame_resources = [s \in Slots |-> {}]
  /\ stamped = [s \in Slots |-> {}]
  /\ completed = 0
  /\ submitted = [f \in Fences |-> {}]
  /\ list_slot = [f \in Fences |-> NoSlot]
  /\ app = {}
  /\ bound = NoTexture
  /\ srv = [t \in Textures |-> NoDescriptor]
  /\ ring_frame = 1
  /\ recycled = 0
  /\ resetting = FALSE
  /\ Heap!HeapInit

\* CreateTexture and InitViews.  An identity is reused only when no command
\* list names the object that had it, so that the two are not confused.
CreateTexture(t, d) ==
  /\ pc = "recording"
  /\ ~Exists(t)
  /\ \A u \in Busy : u[1] # t
  /\ Heap!Allocate(d)
  /\ srv' = [srv EXCEPT ![t] = d]
  /\ app' = app \cup {t}
  /\ UNCHANGED <<cpuVars, gpuVars, bound, recorded, frame_resources, stamped>>

\* Replace the references the application and the binding hold; what loses its
\* last one is deleted on the spot and its SRV slot parked.
Rebind(app2, bound2) ==
  LET dead == Orphans(app2, bound2, frame_resources)
  IN  /\ app' = app2
      /\ bound' = bound2
      /\ Delete(dead)
      /\ Heap!Free(SrvsOf(dead))
      /\ UNCHANGED <<cpuVars, gpuVars, recorded, frame_resources>>

\* IDirect3DTexture8::Release of the application's reference.
ReleaseTexture(t) ==
  /\ pc = "recording"
  /\ t \in app
  /\ Rebind(app \ {t}, bound)

\* SetTexture; a redundant set returns early.
SetTexture(t) ==
  /\ pc = "recording"
  /\ t \in app \cup {NoTexture}
  /\ t # bound
  /\ Rebind(app, t)

MarkOnce(t) ==  \* fault: one stamp shared by all back buffers
  IF \E s \in Slots : t \in stamped[s] THEN UNCHANGED <<stamped, frame_resources>>
  ELSE /\ stamped' = [stamped EXCEPT ![current_back_buffer] = @ \cup {t}]
       /\ frame_resources' = [frame_resources EXCEPT ![current_back_buffer] = @ \cup {t}]

\* The keep-alive reference of MarkResourceAsUsed, deduplicated by the
\* generation stamp of the current back buffer.
MarkResourceAsUsed(t) ==
  LET s == current_back_buffer
  IN  IF t \in stamped[s]
      THEN UNCHANGED <<stamped, frame_resources>>
      ELSE /\ stamped' = [stamped EXCEPT ![s] = @ \cup {t}]
           /\ frame_resources' = [frame_resources EXCEPT ![s] = @ \cup {t}]

\* A draw call (PrepareDrawCall): it names the bound texture through its SRV
\* slot and marks it, whether or not the binding is new.
Draw ==
  /\ pc = "recording"
  /\ bound # NoTexture
  /\ recorded' = recorded \cup {<<bound, srv[bound]>>}
  /\ MarkResourceAsUsed(bound)
  /\ UNCHANGED <<cpuVars, gpuVars, textureVars, heapVars>>

-----------------------------------------------------------------------------
\* The keep-alive lists FreeFrameResources(f) leaves: those of the back buffers
\* whose fence is no later than f are cleared.
KeptAfterOneMore(f) ==  \* fault: the frame after f as well
  [s \in Slots |-> IF fence_values[s] <= f + 1 THEN {} ELSE frame_resources[s]]

KeptAfter(f) ==
  [s \in Slots |-> IF fence_values[s] <= f THEN {} ELSE frame_resources[s]]

\* The stamps that still count once the textures of dead are gone: clearing a
\* list starts its next generation.
StampedAfterSameGeneration(f, dead) ==  \* fault: the generation is not advanced
  [s \in Slots |-> stamped[s] \ dead]

StampedAfter(f, dead) ==
  [s \in Slots |-> IF fence_values[s] <= f THEN {} ELSE stamped[s] \ dead]

\* SetCurrentFrame of the upload ring.
RingFrameStays(cur) == ring_frame  \* fault: not called

RingFrameAfter(cur) == IF cur > ring_frame THEN cur ELSE ring_frame

\* FreeFrameResources(f): clear the keep-alive lists, tell the ring and the
\* heaps.
FreeFrameResources(f) ==
  LET kept == KeptAfter(f)
      dead == Orphans(app, bound, kept)
  IN  /\ frame_resources' = kept
      /\ srv' = [t \in Textures |-> IF t \in dead THEN NoDescriptor ELSE srv[t]]
      /\ stamped' = StampedAfter(f, dead)
      /\ recycled' = f
      /\ ring_frame' = RingFrameAfter(next_fence)
      /\ Heap!FreeAndRelease(SrvsOf(dead), f, next_fence)
      /\ UNCHANGED <<app, bound>>

\* GetCurrentBackBufferIndex of a swap chain that presents its buffers in turn.
NextBackBuffer(presented) ==
  IF presented THEN (current_back_buffer + 1) % NumBackBuffers
  ELSE current_back_buffer

\* SubmitAndWait up to its WaitForFrame: close and execute the list, signal
\* the fence, move to the buffer the swap chain presents next.
SubmitAndWait(should_present) ==
  /\ next_fence \in Fences
  /\ submitted' = [submitted EXCEPT ![next_fence] = recorded]
  /\ list_slot' = [list_slot EXCEPT ![next_fence] = current_back_buffer]
  /\ recorded' = {}
  /\ fence_values' = [fence_values EXCEPT ![current_back_buffer] = next_fence]
  /\ next_fence' = next_fence + 1
  /\ current_back_buffer' = NextBackBuffer(should_present)
  /\ pc' = "waiting"
  /\ UNCHANGED <<completed, textureVars, heapVars, frame_resources, stamped,
                 ring_frame, recycled>>

Present ==
  /\ pc = "recording"
  /\ SubmitAndWait(TRUE)
  /\ UNCHANGED resetting

\* LockGpuReadback, and Present of an additional swap chain: the frame goes on
\* afterwards.
MidFrameFlush ==
  /\ pc = "recording"
  /\ SubmitAndWait(FALSE)
  /\ UNCHANGED resetting

\* Device::Reset submits what is recorded before it rebuilds the back buffers.
Reset ==
  /\ pc = "recording"
  /\ SubmitAndWait(FALSE)
  /\ resetting' = TRUE

\* The fence event of WaitForFrame.
HasPassedEarly(f) == f <= completed + 1  \* fault
HasPassedLate(f) == f < completed        \* fault

HasPassed(f) == f <= completed

\* WaitForFrame(fence_values_[current_back_buffer_]) succeeds and the list is
\* reset on that buffer's allocator.  Reset then waits for next_fence_ - 1,
\* the same fence, and takes the index ResizeBuffers leaves, the first.
WaitForFrame ==
  /\ pc = "waiting"
  /\ HasPassed(fence_values[current_back_buffer])
  /\ FreeFrameResources(fence_values[current_back_buffer])
  /\ pc' = "recording"
  /\ resetting' = FALSE
  /\ current_back_buffer' = IF resetting THEN 0 ELSE current_back_buffer
  /\ UNCHANGED <<gpuVars, next_fence, fence_values, recorded>>

\* The 60 second timeout: FAIL, before anything is freed.
WaitTimesOut ==
  /\ pc = "waiting"
  /\ ~HasPassed(fence_values[current_back_buffer])
  /\ pc' = "aborted"
  /\ UNCHANGED <<gpuVars, textureVars, heapVars, recorded, frame_resources,
                 stamped, next_fence, fence_values, current_back_buffer,
                 ring_frame, recycled, resetting>>

\* DlssClient::Stop calls WaitForGpuIdle, that is WaitForFrame(next_fence_-1),
\* with draws recorded in the open list (an F8 restart in Present, a changed
\* TemporalAA or render size in SubmitAndWait).  A fence not yet passed makes
\* WaitForFrame flush the open list; one that has passed goes straight to
\* FreeFrameResources.
StopHelperFlushes ==
  /\ HelperRestarts
  /\ pc = "recording"
  /\ next_fence > 1
  /\ ~HasPassed(next_fence - 1)
  /\ SubmitAndWait(FALSE)
  /\ UNCHANGED resetting

StopHelperFrees ==
  /\ HelperRestarts
  /\ pc = "recording"
  /\ next_fence > 1
  /\ HasPassed(next_fence - 1)
  /\ FreeFrameResources(next_fence - 1)
  /\ UNCHANGED <<gpuVars, pc, next_fence, fence_values, current_back_buffer,
                 resetting, recorded>>

\* The GPU finishes the oldest submitted list and signals its fence.
GpuCompletes ==
  /\ pc # "aborted"
  /\ completed + 1 < next_fence
  /\ completed' = completed + 1
  /\ submitted' = [submitted EXCEPT ![completed + 1] = {}]
  /\ list_slot' = [list_slot EXCEPT ![completed + 1] = NoSlot]
  /\ UNCHANGED <<cpuVars, textureVars, heapVars, recorded, frame_resources,
                 stamped>>

Next ==
  \/ \E t \in Textures, d \in Descriptors : CreateTexture(t, d)
  \/ \E t \in Textures : ReleaseTexture(t)
  \/ \E t \in Textures \cup {NoTexture} : SetTexture(t)
  \/ Draw
  \/ Present
  \/ MidFrameFlush
  \/ Reset
  \/ WaitForFrame
  \/ WaitTimesOut
  \/ StopHelperFlushes
  \/ StopHelperFrees
  \/ GpuCompletes

Spec == Init /\ [][Next]_vars

\* The GPU eventually finishes what it was given (a hung GPU is the timeout),
\* and the render thread, blocked on the fence event, is then woken.
FairSpec == Spec /\ WF_vars(GpuCompletes) /\ WF_vars(WaitForFrame)

-----------------------------------------------------------------------------
TypeOK ==
  /\ pc \in {"recording", "waiting", "aborted"}
  /\ next_fence \in 1 .. MaxFence + 1
  /\ fence_values \in [Slots -> 0 .. MaxFence]
  /\ current_back_buffer \in Slots
  /\ recorded \subseteq Uses
  /\ frame_resources \in [Slots -> SUBSET Textures]
  /\ stamped \in [Slots -> SUBSET Textures]
  /\ completed \in 0 .. MaxFence
  /\ submitted \in [Fences -> SUBSET Uses]
  /\ list_slot \in [Fences -> Slots \cup {NoSlot}]
  /\ app \subseteq Textures
  /\ bound \in Textures \cup {NoTexture}
  /\ srv \in [Textures -> Descriptors \cup {NoDescriptor}]
  /\ ring_frame \in Nat
  /\ recycled \in Nat
  /\ resetting \in BOOLEAN
  /\ Heap!HeapTypeOK

\* No texture is deleted while a command list still to be executed, or being
\* executed, names it ("safe to reuse only once the GPU has finished every
\* frame whose command list could still name them", FreeFrameResources).
ResourcesOutliveCommands == \A u \in Busy : Exists(u[1])

\* Nor does the SRV slot a draw was recorded with ever come to describe
\* another texture, or go back to the free list, before the GPU is past it.
DescriptorsOutliveCommands ==
  \A u \in Busy : /\ u[2] \notin free_list
                  /\ \A t \in Textures : srv[t] = u[2] => t = u[1]

\* The command list is only ever reopened on an allocator whose last list the
\* GPU has finished.
AllocatorIsIdle ==
  pc = "recording" =>
    \A f \in Fences : f > completed => list_slot[f] # current_back_buffer

\* What the upload ring relies on (module DynamicRingBuffer): while draws are
\* recorded its frame is the frame they will be submitted with, the assertion
\* of GetCpuPtrFor, and it is told only of frames the GPU has finished.
RingFollowsFences ==
  /\ pc = "recording" => ring_frame = next_fence
  /\ recycled <= completed

\* Whatever is used again for a new frame, the allocator and the bytes of the
\* ring, belongs to frames the GPU has finished.
ReuseFollowsFences == AllocatorIsIdle /\ RingFollowsFences

\* A stamp never outlives the list it stands for: the deduplication of
\* MarkResourceAsUsed cannot skip a texture that holds no reference.
StampMeansKept == \A s \in Slots : stamped[s] \subseteq frame_resources[s]

\* Nothing is kept longer than the frame after: with the list open, another
\* buffer's keep-alive references and every parked descriptor belong to the
\* last submission.  A leak here exhausts the 32 slots of the RTV heap.
RetentionIsBounded ==
  pc = "recording" =>
    /\ \A s \in Slots \ {current_back_buffer} :
         frame_resources[s] # {} =>
           fence_values[s] > next_fence - NumBackBuffers
    /\ \A p \in pending_free : p[1] > next_fence - NumBackBuffers

\* The wait inside SubmitAndWait ends, with the list open again or in FAIL.
WaitEnds == pc = "waiting" ~> pc # "waiting"

-----------------------------------------------------------------------------
\* The textures that exist and those the GPU is busy with, seen as the objects
\* of the abstract lifetime.
LiveTextures == {t \in Textures : Exists(t)}
BusyTextures == {u[1] : u \in Busy}

Lifetime == INSTANCE ResourceLifetime WITH
  Objects <- Textures, live <- LiveTextures, busy <- BusyTextures

\* Every step of the frame lifecycle is a step of the abstract lifetime, or
\* none at all: reference counts, keep-alive lists and fences together never
\* delete what the GPU is busy with.
ImplementsLifetime == Lifetime!Spec

\* The inductive strengthening, for a device whose helper is never stopped
\* between draws and their submission.  A command list is covered while some
\* keep-alive list that outlasts it holds everything it names.
CoveredBy(u, s) == u[1] \in frame_resources[s] /\ srv[u[1]] = u[2]

KeptExist ==
  /\ \A s \in Slots : \A t \in frame_resources[s] : Exists(t)
  /\ \A t \in app : Exists(t)
  /\ bound # NoTexture => Exists(bound)

FencesInOrder ==
  /\ completed < next_fence
  /\ \A s \in Slots : fence_values[s] < next_fence

RecordedIsCovered ==
  /\ pc # "recording" => recorded = {}
  /\ \A u \in recorded : CoveredBy(u, current_back_buffer)

SubmittedIsCovered ==
  \A f \in Fences : f > completed =>
    \A u \in submitted[f] :
      \E s \in Slots : fence_values[s] >= f /\ CoveredBy(u, s)

CoverInv ==
  /\ TypeOK
  /\ FencesInOrder
  /\ StampMeansKept
  /\ KeptExist
  /\ RecordedIsCovered
  /\ SubmittedIsCovered

\* The inductive strengthening for the SRV slots, with or without helper
\* restarts.  A slot is free, parked, or owned by one texture; one that a list
\* names is covered, or its owner's death will park it, or has parked it, in a
\* frame no earlier than the list's.
SlotsAreDisjoint ==
  /\ \A t \in Textures : Exists(t) =>
       /\ srv[t] \notin free_list
       /\ \A t2 \in Textures : srv[t2] = srv[t] => t2 = t
  /\ \A p \in pending_free :
       /\ p[2] \notin free_list
       /\ \A t \in Textures : srv[t] # p[2]
       /\ \A q \in pending_free : q[2] = p[2] => q = p

SafeUntil(u, f) ==
  \/ srv[u[1]] = u[2] /\ heap_frame >= f
  \/ \E p \in pending_free : p[2] = u[2] /\ p[1] >= f

HeapFollowsFences ==
  /\ heap_frame <= next_fence
  /\ pc = "recording" /\ next_fence > 1 => heap_frame = next_fence

RecordedSlotsAreSafe ==
  /\ pc # "recording" => recorded = {}
  /\ \A u \in recorded :
       CoveredBy(u, current_back_buffer) \/ SafeUntil(u, next_fence)

SubmittedSlotsAreSafe ==
  \A f \in Fences : f > completed =>
    \A u \in submitted[f] :
      \/ \E s \in Slots : fence_values[s] >= f /\ CoveredBy(u, s)
      \/ SafeUntil(u, f)

SlotInv ==
  /\ TypeOK
  /\ FencesInOrder
  /\ StampMeansKept
  /\ KeptExist
  /\ SlotsAreDisjoint
  /\ HeapFollowsFences
  /\ RecordedSlotsAreSafe
  /\ SubmittedSlotsAreSafe
=============================================================================
