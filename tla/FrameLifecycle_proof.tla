------------------------ MODULE FrameLifecycle_proof ------------------------
(***************************************************************************)
(* For every set of textures and descriptors, number of back buffers and   *)
(* number of submissions: nothing a command list names is deleted before   *)
(* the GPU has finished it, provided the helper is not stopped between     *)
(* draws and their submission.  Then, with or without such a stop: no SRV  *)
(* slot, allocator or ring byte is used again before the GPU is past its   *)
(* last use, and nothing is kept for longer than a round of back buffers.  *)
(* For every capacity, alignment and size: the upload ring, whose frames   *)
(* these are, hands out no range over a live one while it was never        *)
(* exactly full.                                                           *)
(***************************************************************************)
EXTENDS FrameLifecycle, DynamicRingBuffer, WellFoundedInduction, TLAPS

\* The next back buffer is a back buffer.
LEMMA NextSlot ==
  ASSUME NEW s \in Slots
  PROVE  (s + 1) % NumBackBuffers \in Slots /\ 0 \in Slots
  BY NumBackBuffersAssumption DEF Slots

LEMMA InitTypes == Init => TypeOK
<1> SUFFICES ASSUME Init PROVE TypeOK
  OBVIOUS
<1>1. 0 \in Slots /\ NumBackBuffers \in Slots \cup {NoSlot} /\ 0 \in 0 .. MaxFence
      /\ 1 \in 1 .. MaxFence + 1
  BY NumBackBuffersAssumption, MaxFenceAssumption DEF Slots, NoSlot
<1>2. /\ fence_values \in [Slots -> 0 .. MaxFence]
      /\ frame_resources \in [Slots -> SUBSET Textures]
      /\ stamped \in [Slots -> SUBSET Textures]
      /\ submitted \in [Fences -> SUBSET Uses]
      /\ list_slot \in [Fences -> Slots \cup {NoSlot}]
      /\ srv \in [Textures -> Descriptors \cup {NoDescriptor}]
  BY <1>1 DEF Init, NoSlot
<1>3. Heap!HeapTypeOK
  BY DEF Init, Heap!HeapInit, Heap!HeapTypeOK
<1>4. QED
  BY <1>1, <1>2, <1>3 DEF Init, TypeOK

\* The SRV slots of the textures that are deleted are slots of the heap.
LEMMA SrvsOfOrphans ==
  ASSUME TypeOK, NEW app2, NEW bound2, NEW kept2
  PROVE  SrvsOf(Orphans(app2, bound2, kept2)) \subseteq Descriptors
  BY DEF TypeOK, SrvsOf, Orphans, Exists

\* What Free and the tail of FreeFrameResources do to the heap.
LEMMA HeapTypes ==
  ASSUME Heap!HeapTypeOK, NEW D \in SUBSET Descriptors
  PROVE  /\ Heap!Free(D) => Heap!HeapTypeOK'
         /\ \A f, cur \in Nat : Heap!FreeAndRelease(D, f, cur) => Heap!HeapTypeOK'
<1>1. Heap!Park(D) \subseteq Nat \X Descriptors
  BY DEF Heap!HeapTypeOK, Heap!Park
<1>2. Heap!Free(D) => Heap!HeapTypeOK'
  BY <1>1 DEF Heap!HeapTypeOK, Heap!Free
<1>3. ASSUME NEW f \in Nat, NEW cur \in Nat, Heap!FreeAndRelease(D, f, cur)
      PROVE  Heap!HeapTypeOK'
  BY <1>1, <1>3 DEF Heap!HeapTypeOK, Heap!FreeAndRelease, Heap!Completed
<1>4. QED
  BY <1>2, <1>3

LEMMA TypesInductive == TypeOK /\ KeptExist /\ [Next]_vars => TypeOK'
<1> SUFFICES ASSUME TypeOK, KeptExist, [Next]_vars PROVE TypeOK'
  OBVIOUS
<1> USE DEF TypeOK
<1>1. ASSUME NEW t \in Textures, NEW d \in Descriptors, CreateTexture(t, d)
      PROVE  TypeOK'
  BY <1>1 DEF CreateTexture, Heap!Allocate, Heap!HeapTypeOK, cpuVars, gpuVars
<1>2. ASSUME NEW app2 \in SUBSET Textures, NEW bound2 \in Textures \cup {NoTexture},
             Rebind(app2, bound2), pc' = pc
      PROVE  TypeOK'
  <2> DEFINE dead == Orphans(app2, bound2, frame_resources)
  <2>1. /\ app' = app2 /\ bound' = bound2 /\ Delete(dead)
        /\ UNCHANGED <<cpuVars, gpuVars, recorded, frame_resources>>
        /\ Heap!Free(SrvsOf(dead))
    BY <1>2 DEF Rebind
  <2>2. Heap!HeapTypeOK'
    BY <2>1, SrvsOfOrphans, HeapTypes
  <2>3. QED
    BY <2>1, <2>2 DEF Delete, cpuVars, gpuVars
<1>3. ASSUME NEW t \in Textures, ReleaseTexture(t)
      PROVE  TypeOK'
  BY <1>2, <1>3 DEF ReleaseTexture, Rebind, cpuVars
<1>4. ASSUME NEW t \in Textures \cup {NoTexture}, SetTexture(t)
      PROVE  TypeOK'
  BY <1>2, <1>4 DEF SetTexture, Rebind, cpuVars
<1>5. CASE Draw
  <2>1. recorded' \subseteq Uses
    BY <1>5 DEF Draw, Uses, KeptExist, Exists
  <2>2. QED
    BY <1>5, <2>1 DEF Draw, MarkResourceAsUsed, cpuVars, gpuVars, textureVars,
                      heapVars, Heap!HeapTypeOK
<1>6. ASSUME NEW p \in BOOLEAN, SubmitAndWait(p), resetting' \in BOOLEAN
      PROVE  TypeOK'
  <2>1. current_back_buffer' \in Slots
    BY <1>6, NextSlot DEF SubmitAndWait, NextBackBuffer
  <2>2. next_fence' \in 1 .. MaxFence + 1 /\ fence_values' \in [Slots -> 0 .. MaxFence]
    BY <1>6, MaxFenceAssumption DEF SubmitAndWait, Fences
  <2>3. QED
    BY <1>6, <2>1, <2>2 DEF SubmitAndWait, textureVars, heapVars, Heap!HeapTypeOK
<1>7. ASSUME NEW f \in 0 .. MaxFence, FreeFrameResources(f), UNCHANGED gpuVars,
             UNCHANGED <<next_fence, fence_values, recorded>>,
             pc' \in {"recording", "waiting", "aborted"},
             current_back_buffer' \in Slots, resetting' \in BOOLEAN
      PROVE  TypeOK'
  <2> DEFINE kept == [s \in Slots |->
                        IF fence_values[s] <= f THEN {} ELSE frame_resources[s]]
             dead == Orphans(app, bound, kept)
  <2>1. /\ frame_resources' = kept
        /\ srv' = [t \in Textures |-> IF t \in dead THEN NoDescriptor ELSE srv[t]]
        /\ stamped' = [s \in Slots |->
                         IF fence_values[s] <= f THEN {} ELSE stamped[s] \ dead]
        /\ recycled' = f
        /\ ring_frame' = IF next_fence > ring_frame THEN next_fence ELSE ring_frame
        /\ Heap!FreeAndRelease(SrvsOf(dead), f, next_fence)
        /\ UNCHANGED <<app, bound>>
    BY <1>7 DEF FreeFrameResources, KeptAfter, StampedAfter, RingFrameAfter
  <2>2. Heap!HeapTypeOK'
    <3>1. SrvsOf(dead) \in SUBSET Descriptors
      BY SrvsOfOrphans
    <3>2. f \in Nat /\ next_fence \in Nat
      BY MaxFenceAssumption
    <3> HIDE DEF dead
    <3>3. QED
      BY <2>1, <3>1, <3>2, HeapTypes
  <2>3. QED
    BY <1>7, <2>1, <2>2 DEF gpuVars
<1>8. CASE WaitForFrame
  BY <1>7, <1>8, NextSlot, NumBackBuffersAssumption DEF WaitForFrame, Slots
<1>9. CASE WaitTimesOut
  BY <1>9 DEF WaitTimesOut, gpuVars, textureVars, heapVars, Heap!HeapTypeOK
<1>10. CASE StopHelperFrees
  BY <1>7, <1>10, MaxFenceAssumption DEF StopHelperFrees
<1>11. CASE GpuCompletes
  <2>1. completed' \in 0 .. MaxFence
    BY <1>11, MaxFenceAssumption DEF GpuCompletes
  <2>2. QED
    BY <1>11, <2>1 DEF GpuCompletes, cpuVars, textureVars, heapVars, Heap!HeapTypeOK
<1>12. CASE UNCHANGED vars
  BY <1>12 DEF vars, cpuVars, gpuVars, textureVars, heapVars, Heap!HeapTypeOK
<1>13. QED
  BY <1>1, <1>3, <1>4, <1>5, <1>6, <1>8, <1>9, <1>10, <1>11, <1>12
     DEF Next, Present, MidFrameFlush, Reset, StopHelperFlushes

-----------------------------------------------------------------------------
\* What references hold exists, and a stamped texture is in the list its stamp
\* stands for: the deduplication of MarkResourceAsUsed never loses a reference.
RefInv == TypeOK /\ KeptExist /\ StampMeansKept

\* Swapping the application's and the binding's references for ones that exist.
LEMMA RebindKeeps ==
  ASSUME RefInv, NEW app2 \in SUBSET app, NEW bound2 \in app \cup {bound, NoTexture},
         Rebind(app2, bound2)
  PROVE  KeptExist' /\ StampMeansKept'
<1> DEFINE dead == Orphans(app2, bound2, frame_resources)
<1>1. /\ app' = app2 /\ bound' = bound2 /\ frame_resources' = frame_resources
      /\ srv' = [t \in Textures |-> IF t \in dead THEN NoDescriptor ELSE srv[t]]
      /\ stamped' = [s \in Slots |-> stamped[s] \ dead]
  BY DEF Rebind, Delete
<1>2. /\ \A t \in app2 : t \notin dead
      /\ bound2 \notin dead
      /\ \A s \in Slots : \A t \in frame_resources[s] : t \notin dead
  BY DEF Orphans
<1> HIDE DEF dead
<1>3. KeptExist'
  BY <1>1, <1>2, TexturesAssumption DEF KeptExist, Exists, RefInv, TypeOK
<1>4. StampMeansKept'
  BY <1>1 DEF StampMeansKept, RefInv
<1>5. QED
  BY <1>3, <1>4

\* Clearing the lists of the back buffers whose fence has passed.
LEMMA FreeKeeps ==
  ASSUME RefInv, NEW f \in Nat, FreeFrameResources(f)
  PROVE  KeptExist' /\ StampMeansKept'
<1> DEFINE kept == [s \in Slots |->
                      IF fence_values[s] <= f THEN {} ELSE frame_resources[s]]
           dead == Orphans(app, bound, kept)
<1>1. /\ frame_resources' = kept /\ app' = app /\ bound' = bound
      /\ srv' = [t \in Textures |-> IF t \in dead THEN NoDescriptor ELSE srv[t]]
      /\ stamped' = [s \in Slots |->
                       IF fence_values[s] <= f THEN {} ELSE stamped[s] \ dead]
  BY DEF FreeFrameResources, KeptAfter, StampedAfter, RingFrameAfter
<1>2. /\ \A t \in app : t \notin dead
      /\ bound \notin dead
      /\ \A s \in Slots : \A t \in kept[s] : t \notin dead /\ t \in frame_resources[s]
  BY DEF Orphans
<1>3. KeptExist'
  <2> HIDE DEF dead, kept
  <2>1. QED
    BY <1>1, <1>2, TexturesAssumption DEF KeptExist, Exists, RefInv, TypeOK
<1>4. StampMeansKept'
  BY <1>1 DEF StampMeansKept, RefInv
<1>5. QED
  BY <1>3, <1>4

LEMMA InitRefs == Init => RefInv
  BY InitTypes DEF Init, RefInv, KeptExist, StampMeansKept

LEMMA RefsInductive == RefInv /\ [Next]_vars => RefInv'
<1> SUFFICES ASSUME RefInv, [Next]_vars PROVE KeptExist' /\ StampMeansKept'
  BY TypesInductive DEF RefInv
<1>1. ASSUME NEW t \in Textures, NEW d \in Descriptors, CreateTexture(t, d)
      PROVE  KeptExist' /\ StampMeansKept'
  BY <1>1, DescriptorsAssumption
     DEF CreateTexture, RefInv, KeptExist, StampMeansKept, Exists, TypeOK
<1>2. ASSUME NEW t \in Textures, ReleaseTexture(t)
      PROVE  KeptExist' /\ StampMeansKept'
  BY <1>2, RebindKeeps DEF ReleaseTexture
<1>3. ASSUME NEW t \in Textures \cup {NoTexture}, SetTexture(t)
      PROVE  KeptExist' /\ StampMeansKept'
  BY <1>3, RebindKeeps DEF SetTexture
<1>4. CASE Draw
  BY <1>4 DEF Draw, MarkResourceAsUsed, textureVars, RefInv, TypeOK, KeptExist,
              Exists, StampMeansKept
<1>5. ASSUME NEW p \in BOOLEAN, SubmitAndWait(p)
      PROVE  KeptExist' /\ StampMeansKept'
  BY <1>5 DEF SubmitAndWait, textureVars, RefInv, KeptExist, Exists, StampMeansKept
<1>6. CASE WaitForFrame
  BY <1>6, FreeKeeps DEF WaitForFrame, RefInv, TypeOK
<1>7. CASE WaitTimesOut
  BY <1>7 DEF WaitTimesOut, textureVars, RefInv, KeptExist, Exists, StampMeansKept
<1>8. CASE StopHelperFrees
  BY <1>8, FreeKeeps DEF StopHelperFrees, RefInv, TypeOK
<1>9. CASE GpuCompletes
  BY <1>9 DEF GpuCompletes, textureVars, RefInv, KeptExist, Exists, StampMeansKept
<1>10. CASE UNCHANGED vars
  BY <1>10 DEF vars, textureVars, RefInv, KeptExist, Exists, StampMeansKept
<1>11. QED
  BY <1>1, <1>2, <1>3, <1>4, <1>5, <1>6, <1>7, <1>8, <1>9, <1>10
     DEF Next, Present, MidFrameFlush, Reset, StopHelperFlushes

LEMMA Refs == Spec => []RefInv
  BY InitRefs, RefsInductive, PTL DEF Spec

\* Every variable of the frame lifecycle keeps its type, whether or not the
\* helper is stopped mid-frame; in particular a draw is only ever recorded
\* with the SRV slot of a texture that exists.
THEOREM FrameTypes == Spec => []TypeOK
<1>1. RefInv => TypeOK
  BY DEF RefInv
<1>2. QED
  BY <1>1, Refs, PTL

\* The deduplication of MarkResourceAsUsed (src/device.h) is sound: a stamp
\* never outlives the keep-alive list it stands for.
THEOREM FrameStamps == Spec => []StampMeansKept
<1>1. RefInv => StampMeansKept
  BY DEF RefInv
<1>2. QED
  BY <1>1, Refs, PTL

-----------------------------------------------------------------------------
LEMMA InitCover == Init => CoverInv
<1> SUFFICES ASSUME Init PROVE CoverInv
  OBVIOUS
<1>1. RefInv
  BY InitRefs
<1>2. FencesInOrder /\ RecordedIsCovered /\ SubmittedIsCovered
  BY DEF Init, FencesInOrder, RecordedIsCovered, SubmittedIsCovered
<1>3. QED
  BY <1>1, <1>2 DEF RefInv, CoverInv

\* Rebinding deletes nothing a keep-alive list holds.
LEMMA RebindCovers ==
  ASSUME CoverInv, NEW app2, NEW bound2, Rebind(app2, bound2)
  PROVE  FencesInOrder' /\ RecordedIsCovered' /\ SubmittedIsCovered'
<1> DEFINE dead == Orphans(app2, bound2, frame_resources)
<1>1. /\ srv' = [t \in Textures |-> IF t \in dead THEN NoDescriptor ELSE srv[t]]
      /\ UNCHANGED <<cpuVars, gpuVars, recorded, frame_resources>>
  BY DEF Rebind, Delete
<1>2. ASSUME NEW u \in Uses, NEW s \in Slots, CoveredBy(u, s)
      PROVE  CoveredBy(u, s)'
  <2>1. u[1] \notin dead /\ u[1] \in Textures
    BY <1>2 DEF CoveredBy, Orphans, Uses
  <2>2. QED
    BY <1>1, <1>2, <2>1 DEF CoveredBy
<1>3. recorded \subseteq Uses /\ (\A f \in Fences : submitted[f] \subseteq Uses)
      /\ current_back_buffer \in Slots
  BY DEF CoverInv, TypeOK
<1>4. FencesInOrder' /\ (pc # "recording" => recorded = {})'
  BY <1>1 DEF cpuVars, gpuVars, CoverInv, FencesInOrder, RecordedIsCovered
<1>5. RecordedIsCovered'
  BY <1>1, <1>2, <1>3, <1>4 DEF cpuVars, CoverInv, RecordedIsCovered
<1>6. SubmittedIsCovered'
  BY <1>1, <1>2, <1>3 DEF cpuVars, gpuVars, CoverInv, SubmittedIsCovered
<1>7. QED
  BY <1>4, <1>5, <1>6

\* The step the invariant is for: the wait has ended, so every list whose
\* keep-alive references are dropped has been executed, and the open list
\* names nothing yet.
LEMMA WaitCovers ==
  ASSUME CoverInv, WaitForFrame
  PROVE  FencesInOrder' /\ RecordedIsCovered' /\ SubmittedIsCovered'
<1> DEFINE f == fence_values[current_back_buffer]
           kept == [s \in Slots |->
                      IF fence_values[s] <= f THEN {} ELSE frame_resources[s]]
           dead == Orphans(app, bound, kept)
<1>1. /\ frame_resources' = kept
      /\ srv' = [t \in Textures |-> IF t \in dead THEN NoDescriptor ELSE srv[t]]
      /\ f <= completed /\ pc = "waiting" /\ pc' = "recording"
      /\ UNCHANGED <<gpuVars, next_fence, fence_values, recorded>>
  BY DEF WaitForFrame, HasPassed, FreeFrameResources, KeptAfter
<1>2. /\ f \in Nat /\ completed \in Nat /\ \A s \in Slots : fence_values[s] \in Nat
      /\ \A g \in Fences : submitted[g] \subseteq Uses /\ g \in Nat
  <2>1. current_back_buffer \in Slots /\ fence_values \in [Slots -> 0 .. MaxFence]
        /\ completed \in 0 .. MaxFence /\ submitted \in [Fences -> SUBSET Uses]
    BY DEF CoverInv, TypeOK
  <2>2. f \in 0 .. MaxFence
    BY <2>1
  <2>3. QED
    BY <2>1, <2>2 DEF Fences
<1>3. recorded' = {}
  BY <1>1 DEF CoverInv, RecordedIsCovered
<1>4. FencesInOrder' /\ RecordedIsCovered'
  BY <1>1, <1>3 DEF gpuVars, CoverInv, FencesInOrder, RecordedIsCovered
<1>5. ASSUME NEW g \in Fences, g > completed, NEW u \in submitted[g]
      PROVE  \E s \in Slots : fence_values[s] >= g /\ CoveredBy(u, s)'
  <2>1. PICK s \in Slots : fence_values[s] >= g /\ CoveredBy(u, s)
    BY <1>5 DEF CoverInv, SubmittedIsCovered
  <2>2. kept[s] = frame_resources[s]
    BY <1>1, <1>2, <1>5, <2>1
  <2>3. u[1] \in Textures /\ u[1] \notin dead
    BY <1>2, <2>1, <2>2 DEF CoveredBy, Orphans, Uses
  <2>4. CoveredBy(u, s)'
    BY <1>1, <2>1, <2>2, <2>3 DEF CoveredBy
  <2>5. QED
    BY <2>1, <2>4
<1>6. SubmittedIsCovered'
  BY <1>1, <1>5 DEF gpuVars, SubmittedIsCovered
<1>7. QED
  BY <1>4, <1>6

\* The fence a list is submitted with outlasts every fence before it.
LEMMA SubmitCovers ==
  ASSUME CoverInv, pc = "recording", NEW p \in BOOLEAN, SubmitAndWait(p)
  PROVE  FencesInOrder' /\ RecordedIsCovered' /\ SubmittedIsCovered'
<1>c. PICK c : c = current_back_buffer
  OBVIOUS
<1>1. /\ next_fence \in Fences /\ c \in Slots /\ Fences \subseteq Nat
      /\ \A s \in Slots : fence_values[s] \in Nat /\ fence_values[s] < next_fence
      /\ completed \in Nat /\ completed < next_fence
      /\ fence_values \in [Slots -> Nat] /\ submitted \in [Fences -> SUBSET Uses]
  BY <1>c DEF SubmitAndWait, CoverInv, FencesInOrder, TypeOK, Fences
<1>2. /\ submitted' = [submitted EXCEPT ![next_fence] = recorded]
      /\ recorded' = {} /\ pc' = "waiting"
      /\ fence_values' = [fence_values EXCEPT ![c] = next_fence]
      /\ next_fence' = next_fence + 1
      /\ UNCHANGED <<completed, srv, frame_resources>>
  BY <1>c DEF SubmitAndWait, textureVars
<1>3. FencesInOrder'
  BY <1>1, <1>2 DEF FencesInOrder
<1>4. RecordedIsCovered'
  BY <1>2 DEF RecordedIsCovered
<1>5. \A s \in Slots : fence_values'[s] >= fence_values[s]
  BY <1>1, <1>2
<1>6. ASSUME NEW f \in Fences, f > completed, NEW u \in submitted'[f]
      PROVE  \E s \in Slots : fence_values'[s] >= f /\ CoveredBy(u, s)'
  <2>1. CASE f = next_fence
    <3>1. u \in recorded /\ fence_values'[c] >= f
      BY <1>1, <1>2, <1>6, <2>1
    <3>2. CoveredBy(u, c)'
      BY <1>c, <1>2, <3>1 DEF CoverInv, RecordedIsCovered, CoveredBy
    <3>3. QED
      BY <1>1, <3>1, <3>2
  <2>2. CASE f # next_fence
    <3>1. PICK s \in Slots : fence_values[s] >= f /\ CoveredBy(u, s)
      BY <1>1, <1>2, <1>6, <2>2 DEF CoverInv, SubmittedIsCovered
    <3>2. fence_values'[s] >= f
      BY <1>1, <1>2, <1>5, <3>1
    <3>3. CoveredBy(u, s)'
      BY <1>2, <3>1 DEF CoveredBy
    <3>4. QED
      BY <3>2, <3>3
  <2>3. QED
    BY <2>1, <2>2
<1>7. SubmittedIsCovered'
  BY <1>2, <1>6 DEF SubmittedIsCovered
<1>8. QED
  BY <1>3, <1>4, <1>7

LEMMA CoverInductive ==
  ASSUME HelperRestarts = FALSE
  PROVE  CoverInv /\ [Next]_vars => CoverInv'
<1> SUFFICES ASSUME CoverInv, [Next]_vars
             PROVE  FencesInOrder' /\ RecordedIsCovered' /\ SubmittedIsCovered'
  BY RefsInductive DEF CoverInv, RefInv
<1> DEFINE Goal == FencesInOrder' /\ RecordedIsCovered' /\ SubmittedIsCovered'
<1>1. ASSUME NEW t \in Textures, NEW d \in Descriptors, CreateTexture(t, d)
      PROVE  Goal
  <2>1. /\ UNCHANGED <<cpuVars, gpuVars, recorded, frame_resources>>
        /\ srv' = [srv EXCEPT ![t] = d] /\ ~Exists(t)
    BY <1>1 DEF CreateTexture
  <2>2. \A s \in Slots : t \notin frame_resources[s]
    BY <2>1 DEF CoverInv, KeptExist
  <2>3. \A u, s : s \in Slots /\ CoveredBy(u, s) => CoveredBy(u, s)'
    BY <2>1, <2>2 DEF CoveredBy, CoverInv, TypeOK
  <2>4. current_back_buffer \in Slots
    BY DEF CoverInv, TypeOK
  <2>5. QED
    BY <2>1, <2>3, <2>4 DEF cpuVars, gpuVars, CoverInv, FencesInOrder,
                            RecordedIsCovered, SubmittedIsCovered
<1>2. ASSUME NEW t \in Textures, ReleaseTexture(t)
      PROVE  Goal
  BY <1>2, RebindCovers DEF ReleaseTexture
<1>3. ASSUME NEW t \in Textures \cup {NoTexture}, SetTexture(t)
      PROVE  Goal
  BY <1>3, RebindCovers DEF SetTexture
<1>4. CASE Draw
  <2>c. PICK c, use : c = current_back_buffer /\ use = <<bound, srv[bound]>>
    OBVIOUS
  <2>1. /\ UNCHANGED <<cpuVars, gpuVars, srv>> /\ pc = "recording"
        /\ recorded' = recorded \cup {use}
        /\ c \in Slots
    BY <1>4, <2>c DEF Draw, textureVars, CoverInv, TypeOK
  <2>2. /\ bound \in frame_resources'[c]
        /\ \A s \in Slots : frame_resources[s] \subseteq frame_resources'[s]
    BY <1>4, <2>1, <2>c DEF Draw, MarkResourceAsUsed, CoverInv, StampMeansKept, TypeOK
  <2>3. \A u, s : s \in Slots /\ CoveredBy(u, s) => CoveredBy(u, s)'
    BY <2>1, <2>2 DEF CoveredBy
  <2>4. CoveredBy(use, c)'
    <3>1. use[1] = bound /\ use[2] = srv[bound]
      BY <2>c
    <3>2. use[1] \in frame_resources'[c] /\ srv'[use[1]] = use[2]
      BY <2>1, <2>2, <3>1
    <3>3. QED
      BY <3>2 DEF CoveredBy
  <2>5. current_back_buffer' = c /\ pc' = "recording"
    BY <2>1, <2>c DEF cpuVars
  <2>6. RecordedIsCovered'
    <3>1. ASSUME NEW u \in recorded'
          PROVE  CoveredBy(u, c)'
      <4>1. CASE u = use
        BY <2>4, <4>1
      <4>2. CASE u \in recorded
        BY <2>1, <2>3, <2>c, <4>2 DEF CoverInv, RecordedIsCovered
      <4>3. QED
        BY <2>1, <3>1, <4>1, <4>2
    <3>2. QED
      BY <2>5, <3>1 DEF RecordedIsCovered
  <2>7. QED
    BY <2>1, <2>3, <2>6 DEF cpuVars, gpuVars, CoverInv, FencesInOrder,
                            SubmittedIsCovered
<1>5. CASE Present \/ MidFrameFlush \/ Reset
  BY <1>5, SubmitCovers DEF Present, MidFrameFlush, Reset
<1>6. CASE WaitForFrame
  BY <1>6, WaitCovers
<1>7. CASE WaitTimesOut
  BY <1>7 DEF WaitTimesOut, gpuVars, textureVars, CoverInv, FencesInOrder,
              RecordedIsCovered, SubmittedIsCovered, CoveredBy
<1>8. CASE GpuCompletes
  <2>1. /\ UNCHANGED <<cpuVars, srv, recorded, frame_resources>>
        /\ completed' = completed + 1 /\ completed + 1 < next_fence
        /\ submitted' = [submitted EXCEPT ![completed + 1] = {}]
        /\ completed \in Nat /\ submitted \in [Fences -> SUBSET Uses]
    BY <1>8 DEF GpuCompletes, textureVars, CoverInv, TypeOK
  <2>2. FencesInOrder' /\ RecordedIsCovered'
    BY <2>1 DEF cpuVars, CoverInv, FencesInOrder, RecordedIsCovered, CoveredBy
  <2>3. SubmittedIsCovered'
    BY <2>1 DEF cpuVars, CoverInv, SubmittedIsCovered, CoveredBy, Fences
  <2>4. QED
    BY <2>2, <2>3
<1>9. CASE UNCHANGED vars
  BY <1>9 DEF vars, cpuVars, gpuVars, textureVars, CoverInv, FencesInOrder,
              RecordedIsCovered, SubmittedIsCovered, CoveredBy
<1>10. QED
  BY <1>1, <1>2, <1>3, <1>4, <1>5, <1>6, <1>7, <1>8, <1>9
     DEF Next, StopHelperFlushes, StopHelperFrees

LEMMA Cover == HelperRestarts = FALSE => (Spec => []CoverInv)
<1> SUFFICES ASSUME HelperRestarts = FALSE PROVE Spec => []CoverInv
  OBVIOUS
<1>1. Init => CoverInv
  BY InitCover
<1>2. CoverInv /\ [Next]_vars => CoverInv'
  BY CoverInductive
<1>3. QED
  BY <1>1, <1>2, PTL DEF Spec

LEMMA CoverOutlives == CoverInv => ResourcesOutliveCommands
<1> SUFFICES ASSUME CoverInv, NEW u \in Busy PROVE Exists(u[1])
  BY DEF ResourcesOutliveCommands
<1>1. \E s \in Slots : CoveredBy(u, s)
  BY DEF Busy, InFlight, CoverInv, RecordedIsCovered, SubmittedIsCovered, TypeOK
<1>2. QED
  BY <1>1 DEF CoveredBy, CoverInv, KeptExist

\* No texture is deleted while the GPU may still execute a draw that names it,
\* as long as no helper restart calls WaitForGpuIdle between draws and their
\* submission (FreeFrameResources and MarkResourceAsUsed, src/device.cpp and
\* src/device.h).
THEOREM FrameResourcesOutliveCommands ==
  HelperRestarts = FALSE => (Spec => []ResourcesOutliveCommands)
  BY CoverOutlives, Cover, PTL

-----------------------------------------------------------------------------
\* Dropping references is a deletion of the abstract lifetime.
LEMMA DropsAreDeletions ==
  ASSUME NEW dead, UNCHANGED <<gpuVars, recorded>>, ResourcesOutliveCommands',
         srv' = [t \in Textures |-> IF t \in dead THEN NoDescriptor ELSE srv[t]]
  PROVE  Lifetime!Delete
<1>1. UNCHANGED Busy
  BY DEF gpuVars, Busy, InFlight
<1>2. LiveTextures' \subseteq LiveTextures
  BY DEF LiveTextures, Exists
<1>3. BusyTextures' = BusyTextures
  BY <1>1 DEF BusyTextures
<1>4. ASSUME NEW t \in Textures, t \in BusyTextures PROVE Exists(t)'
  <2>1. PICK u \in Busy : t = u[1]
    BY <1>4 DEF BusyTextures
  <2>2. u \in Busy'
    BY <1>1, <2>1
  <2>3. QED
    BY <2>1, <2>2 DEF ResourcesOutliveCommands, Exists
<1>5. LiveTextures \ LiveTextures' \subseteq Textures \ BusyTextures
  BY <1>4 DEF LiveTextures
<1>6. QED
  BY <1>2, <1>3, <1>5 DEF Lifetime!Delete

\* Submitting moves what is recorded into the list of its fence: the GPU is
\* busy with nothing new.
LEMMA SubmitsAreFinishes ==
  ASSUME NEW p \in BOOLEAN, SubmitAndWait(p), CoverInv
  PROVE  Lifetime!Finish
<1>1. /\ submitted' = [submitted EXCEPT ![next_fence] = recorded]
      /\ recorded' = {} /\ UNCHANGED <<completed, srv>>
      /\ submitted \in [Fences -> SUBSET Uses]
  BY DEF SubmitAndWait, textureVars, CoverInv, TypeOK
<1>2. \A g \in Fences : submitted'[g] \subseteq submitted[g] \cup recorded
  BY <1>1
<1>3. \A g \in Fences : g # next_fence => submitted'[g] = submitted[g]
  BY <1>1
<1>4. Busy' \subseteq Busy
  <2> SUFFICES ASSUME NEW u \in Busy' PROVE u \in Busy
    OBVIOUS
  <2>1. PICK g \in Fences : g > completed /\ u \in submitted'[g]
    BY <1>1 DEF Busy, InFlight
  <2>2. u \in submitted[g] \/ u \in recorded
    BY <1>2, <2>1
  <2>3. QED
    BY <2>1, <2>2 DEF Busy, InFlight
<1>5. BusyTextures' \subseteq BusyTextures /\ UNCHANGED LiveTextures
  BY <1>1, <1>4 DEF BusyTextures, LiveTextures, Exists
<1>6. QED
  BY <1>5 DEF Lifetime!Finish

LEMMA StepsImplementLifetime ==
  ASSUME HelperRestarts = FALSE, CoverInv, CoverInv', [Next]_vars
  PROVE  [Lifetime!Next]_<<LiveTextures, BusyTextures>>
<1>r. ResourcesOutliveCommands'
  BY CoverOutlives, PTL
<1>1. ASSUME NEW t \in Textures, NEW d \in Descriptors, CreateTexture(t, d)
      PROVE  Lifetime!Create(t)
  <2>1. /\ srv' = [srv EXCEPT ![t] = d] /\ srv \in [Textures -> Descriptors \cup {NoDescriptor}]
        /\ ~Exists(t) /\ d # NoDescriptor
        /\ \A u \in Busy : u[1] # t
        /\ UNCHANGED <<gpuVars, recorded>>
    BY <1>1, DescriptorsAssumption DEF CreateTexture, CoverInv, TypeOK
  <2>2. UNCHANGED BusyTextures /\ t \notin BusyTextures
    BY <2>1 DEF gpuVars, BusyTextures, Busy, InFlight
  <2>3. LiveTextures' = LiveTextures \cup {t} /\ t \notin LiveTextures
    BY <2>1 DEF LiveTextures, Exists
  <2>4. QED
    BY <2>2, <2>3 DEF Lifetime!Create
<1>2. ASSUME NEW t \in Textures, ReleaseTexture(t)
      PROVE  Lifetime!Delete
  BY <1>2, <1>r, DropsAreDeletions DEF ReleaseTexture, Rebind, Delete
<1>3. ASSUME NEW t \in Textures \cup {NoTexture}, SetTexture(t)
      PROVE  Lifetime!Delete
  BY <1>3, <1>r, DropsAreDeletions DEF SetTexture, Rebind, Delete
<1>4. ASSUME Draw
      PROVE  bound \in Textures /\ Lifetime!Record(bound)
  <2>1. /\ recorded' = recorded \cup {<<bound, srv[bound]>>}
        /\ UNCHANGED <<gpuVars, srv>>
        /\ bound \in Textures /\ Exists(bound)
    BY <1>4 DEF Draw, textureVars, CoverInv, TypeOK, KeptExist
  <2>2. PICK use : use = <<bound, srv[bound]>>
    OBVIOUS
  <2>3. Busy' = Busy \cup {use} /\ use[1] = bound
    BY <2>1, <2>2 DEF gpuVars, Busy, InFlight
  <2>4. BusyTextures' = BusyTextures \cup {bound}
    BY <2>3 DEF BusyTextures
  <2>5. UNCHANGED LiveTextures /\ bound \in LiveTextures
    BY <2>1 DEF LiveTextures, Exists
  <2>6. QED
    BY <2>1, <2>4, <2>5 DEF Lifetime!Record
<1>5. ASSUME Present \/ MidFrameFlush \/ Reset
      PROVE  Lifetime!Finish
  BY <1>5, SubmitsAreFinishes DEF Present, MidFrameFlush, Reset
<1>6. ASSUME WaitForFrame
      PROVE  Lifetime!Delete
  BY <1>6, <1>r, DropsAreDeletions DEF WaitForFrame, HasPassed, FreeFrameResources, KeptAfter
<1>7. ASSUME WaitTimesOut \/ UNCHANGED vars
      PROVE  UNCHANGED <<LiveTextures, BusyTextures>>
  BY <1>7 DEF WaitTimesOut, vars, gpuVars, textureVars, LiveTextures, Exists,
              BusyTextures, Busy, InFlight
<1>8. ASSUME GpuCompletes
      PROVE  Lifetime!Finish
  <2>1. /\ UNCHANGED <<srv, recorded>> /\ completed' = completed + 1
        /\ submitted' = [submitted EXCEPT ![completed + 1] = {}]
        /\ completed \in Nat /\ submitted \in [Fences -> SUBSET Uses]
    BY <1>8 DEF GpuCompletes, textureVars, CoverInv, TypeOK
  <2>2. \A g \in Fences : submitted'[g] \subseteq submitted[g]
    BY <2>1
  <2>3. Busy' \subseteq Busy
    BY <2>1, <2>2 DEF Busy, InFlight, Fences
  <2>4. BusyTextures' \subseteq BusyTextures /\ UNCHANGED LiveTextures
    BY <2>1, <2>3 DEF BusyTextures, LiveTextures, Exists
  <2>5. QED
    BY <2>4 DEF Lifetime!Finish
<1>9. QED
  BY <1>1, <1>2, <1>3, <1>4, <1>5, <1>6, <1>7, <1>8
     DEF Next, StopHelperFlushes, StopHelperFrees, Lifetime!Next

\* The fences, keep-alive lists and reference counts implement the abstract
\* lifetime: what the GPU is busy with is never deleted, and every deletion,
\* creation and completion is one of the abstract specification.
THEOREM FrameImplementsLifetime ==
  HelperRestarts = FALSE => (Spec => ImplementsLifetime)
<1> SUFFICES ASSUME HelperRestarts = FALSE PROVE Spec => ImplementsLifetime
  OBVIOUS
<1>1. Init => Lifetime!Init
  BY DEF Init, Lifetime!Init, LiveTextures, BusyTextures, Exists, Busy, InFlight
<1>2. CoverInv /\ CoverInv' /\ [Next]_vars =>
        [Lifetime!Next]_<<LiveTextures, BusyTextures>>
  BY StepsImplementLifetime
<1>3. QED
  BY <1>1, <1>2, Cover, PTL DEF Spec, ImplementsLifetime, Lifetime!Spec

-----------------------------------------------------------------------------
(***************************************************************************)
(* The SRV slot a draw was recorded with describes its texture, or         *)
(* nothing, until the GPU is past the draw, with or without helper         *)
(* restarts.                                                               *)
(***************************************************************************)
\* What is parked, before anything is released.
LEMMA Parked ==
  ASSUME TypeOK, NEW dead \in SUBSET Textures, \A t \in dead : Exists(t)
  PROVE  /\ pending_free \subseteq Heap!Park(SrvsOf(dead))
         /\ \A t \in dead : <<heap_frame, srv[t]>> \in Heap!Park(SrvsOf(dead))
         /\ \A p \in Heap!Park(SrvsOf(dead)) :
              \/ p \in pending_free
              \/ \E t \in dead : p = <<heap_frame, srv[t]>>
         /\ \A p \in Heap!Park(SrvsOf(dead)) : p[1] \in Nat /\ p[2] \in Descriptors
<1>1. \A t \in dead : srv[t] \in Descriptors
  BY DEF TypeOK, Exists
<1>2. heap_frame \in Nat /\ pending_free \subseteq Nat \X Descriptors
  BY DEF TypeOK, Heap!HeapTypeOK
<1>3. \A p \in Heap!Park(SrvsOf(dead)) :
        p \in pending_free \/ \E t \in dead : p = <<heap_frame, srv[t]>>
  BY DEF Heap!Park, SrvsOf
<1>4. \A p \in Heap!Park(SrvsOf(dead)) : p[1] \in Nat /\ p[2] \in Descriptors
  BY <1>1, <1>2, <1>3
<1>5. QED
  BY <1>3, <1>4 DEF Heap!Park, SrvsOf

\* Deleting textures, parking their slots and releasing some of what is parked
\* leaves every slot with one owner.
LEMMA DropsKeepDisjoint ==
  ASSUME TypeOK, SlotsAreDisjoint,
         NEW dead \in SUBSET Textures, \A t \in dead : Exists(t),
         NEW released \in SUBSET Heap!Park(SrvsOf(dead)),
         srv' = [t \in Textures |-> IF t \in dead THEN NoDescriptor ELSE srv[t]],
         pending_free' = Heap!Park(SrvsOf(dead)) \ released,
         free_list' = free_list \cup {p[2] : p \in released}
  PROVE  SlotsAreDisjoint'
<1> DEFINE P == Heap!Park(SrvsOf(dead))
<1>1. \A p \in P : \/ p \in pending_free
                   \/ \E t \in dead : p = <<heap_frame, srv[t]>>
  BY Parked
<1>2. \A p \in P : p[2] \in Descriptors /\ p[2] # NoDescriptor
  BY Parked, DescriptorsAssumption
<1> HIDE DEF P
<1>3. \A t \in Textures : srv'[t] # NoDescriptor =>
        t \notin dead /\ srv'[t] = srv[t] /\ Exists(t)
  BY DEF Exists
<1>4. ASSUME NEW p \in P
      PROVE  /\ p[2] \notin free_list
             /\ \A t \in Textures : srv'[t] # p[2]
             /\ \A q \in P : q[2] = p[2] => q = p
  <2>1. CASE p \in pending_free
    <3>1. p[2] \notin free_list /\ \A t \in Textures : srv[t] # p[2]
      BY <2>1 DEF SlotsAreDisjoint
    <3>2. ASSUME NEW q \in P, q[2] = p[2] PROVE q = p
      <4>1. CASE q \in pending_free
        BY <2>1, <3>2, <4>1 DEF SlotsAreDisjoint
      <4>2. CASE \E t \in dead : q = <<heap_frame, srv[t]>>
        BY <3>1, <3>2, <4>2
      <4>3. QED
        BY <1>1, <4>1, <4>2
    <3>3. QED
      BY <1>2, <1>3, <3>1, <3>2
  <2>2. CASE \E t \in dead : p = <<heap_frame, srv[t]>>
    <3>1. PICK t \in dead : p = <<heap_frame, srv[t]>>
      BY <2>2
    <3>2. p[2] = srv[t] /\ Exists(t) /\ t \in Textures
      BY <3>1
    <3>3. p[2] \notin free_list /\ \A t2 \in Textures : srv[t2] = p[2] => t2 = t
      BY <3>2 DEF SlotsAreDisjoint
    <3>4. \A t2 \in Textures : srv'[t2] # p[2]
      BY <1>2, <1>3, <3>3
    <3>5. ASSUME NEW q \in P, q[2] = p[2] PROVE q = p
      <4>1. CASE q \in pending_free
        BY <3>2, <3>5, <4>1 DEF SlotsAreDisjoint
      <4>2. CASE \E t2 \in dead : q = <<heap_frame, srv[t2]>>
        <5>1. PICK t2 \in dead : q = <<heap_frame, srv[t2]>>
          BY <4>2
        <5>2. t2 = t
          BY <3>3, <3>5, <5>1
        <5>3. QED
          BY <3>1, <5>1, <5>2
      <4>3. QED
        BY <1>1, <4>1, <4>2
    <3>6. QED
      BY <3>3, <3>4, <3>5
  <2>3. QED
    BY <1>1, <2>1, <2>2
<1>5. ASSUME NEW t \in Textures, Exists(t)'
      PROVE  /\ srv'[t] \notin free_list'
             /\ \A t2 \in Textures : srv'[t2] = srv'[t] => t2 = t
  <2>1. srv'[t] # NoDescriptor /\ srv'[t] = srv[t] /\ Exists(t)
    BY <1>3, <1>5 DEF Exists
  <2>2. srv'[t] \notin free_list
    BY <2>1 DEF SlotsAreDisjoint
  <2>3. \A p \in released : p[2] # srv'[t]
    BY <1>4 DEF P
  <2>4. \A t2 \in Textures : srv'[t2] = srv'[t] => srv[t2] = srv[t]
    BY <1>3, <2>1
  <2>5. QED
    BY <2>1, <2>2, <2>3, <2>4 DEF SlotsAreDisjoint
<1>6. ASSUME NEW p \in pending_free'
      PROVE  /\ p[2] \notin free_list'
             /\ \A t \in Textures : srv'[t] # p[2]
             /\ \A q \in pending_free' : q[2] = p[2] => q = p
  <2>1. p \in P /\ p \notin released /\ pending_free' \subseteq P /\ released \subseteq P
    BY <1>6 DEF P
  <2>2. \A q \in released : q[2] # p[2]
    BY <1>4, <2>1
  <2>3. QED
    BY <1>4, <2>1, <2>2
<1>7. QED
  BY <1>5, <1>6 DEF SlotsAreDisjoint

\* What was safe until f stays so when only earlier frames are released: the
\* slot of a texture that dies now is parked in the heap's current frame.
LEMMA DropsStaySafe ==
  ASSUME TypeOK, NEW dead \in SUBSET Textures, \A t \in dead : Exists(t),
         NEW released, NEW f \in Nat, NEW u \in Uses, SafeUntil(u, f),
         srv' = [t \in Textures |-> IF t \in dead THEN NoDescriptor ELSE srv[t]],
         pending_free' = Heap!Park(SrvsOf(dead)) \ released,
         \A p \in Heap!Park(SrvsOf(dead)) : p \in released => p[1] < f,
         heap_frame' \in Nat, heap_frame' >= heap_frame
  PROVE  SafeUntil(u, f)'
<1>1. heap_frame \in Nat /\ u[1] \in Textures
  BY DEF TypeOK, Heap!HeapTypeOK, Uses
<1>2. CASE srv[u[1]] = u[2] /\ heap_frame >= f /\ u[1] \notin dead
  <2>1. srv'[u[1]] = u[2] /\ heap_frame' >= f
    BY <1>1, <1>2
  <2>2. QED
    BY <2>1 DEF SafeUntil
<1>3. CASE srv[u[1]] = u[2] /\ heap_frame >= f /\ u[1] \in dead
  <2>1. PICK p : p = <<heap_frame, u[2]>>
    OBVIOUS
  <2>2. p \in Heap!Park(SrvsOf(dead)) /\ p[1] = heap_frame /\ p[2] = u[2]
    BY <1>3, <2>1, Parked
  <2>3. p \in pending_free'
    BY <1>1, <1>3, <2>2
  <2>4. QED
    BY <1>3, <2>2, <2>3 DEF SafeUntil
<1>4. CASE \E p \in pending_free : p[2] = u[2] /\ p[1] >= f
  <2>1. PICK p \in pending_free : p[2] = u[2] /\ p[1] >= f
    BY <1>4
  <2>2. p \in Heap!Park(SrvsOf(dead)) /\ p[1] \in Nat
    BY <2>1, Parked
  <2>3. p \in pending_free'
    BY <2>1, <2>2
  <2>4. QED
    BY <2>1, <2>3 DEF SafeUntil
<1>5. QED
  BY <1>2, <1>3, <1>4 DEF SafeUntil
-----------------------------------------------------------------------------
\* A covered use stays covered when its keep-alive list is kept.
LEMMA KeptStaysCovered ==
  ASSUME NEW app2, NEW bound2, NEW kept, NEW dead, NEW u \in Uses, NEW s \in Slots,
         dead = Orphans(app2, bound2, kept), CoveredBy(u, s), u[1] \in kept[s],
         srv' = [t \in Textures |-> IF t \in dead THEN NoDescriptor ELSE srv[t]],
         frame_resources' = kept
  PROVE  CoveredBy(u, s)'
<1>1. u[1] \in Textures /\ u[1] \notin dead
  BY DEF Orphans, Uses
<1>2. srv'[u[1]] = u[2]
  BY <1>1 DEF CoveredBy
<1>3. QED
  BY <1>2 DEF CoveredBy

LEMMA OrphansExist ==
  ASSUME NEW app2, NEW bound2, NEW kept
  PROVE  /\ Orphans(app2, bound2, kept) \in SUBSET Textures
         /\ \A t \in Orphans(app2, bound2, kept) : Exists(t)
  BY DEF Orphans

\* What the steps of the proof need of the types.
LEMMA SlotTypes ==
  ASSUME SlotInv
  PROVE  /\ next_fence \in Nat /\ completed \in Nat /\ heap_frame \in Nat
         /\ current_back_buffer \in Slots /\ recorded \subseteq Uses
         /\ \A s \in Slots : fence_values[s] \in Nat /\ fence_values[s] < next_fence
         /\ \A f \in Fences : f \in Nat /\ submitted[f] \subseteq Uses
         /\ fence_values \in [Slots -> Nat] /\ submitted \in [Fences -> SUBSET Uses]
         /\ srv \in [Textures -> Descriptors \cup {NoDescriptor}]
<1>1. /\ next_fence \in Nat /\ completed \in Nat /\ heap_frame \in Nat
      /\ current_back_buffer \in Slots /\ recorded \subseteq Uses
      /\ srv \in [Textures -> Descriptors \cup {NoDescriptor}]
  BY MaxFenceAssumption DEF SlotInv, TypeOK, Heap!HeapTypeOK
<1>2. fence_values \in [Slots -> Nat] /\ submitted \in [Fences -> SUBSET Uses]
  BY DEF SlotInv, TypeOK
<1>3. \A s \in Slots : fence_values[s] \in Nat /\ fence_values[s] < next_fence
  BY <1>2 DEF SlotInv, FencesInOrder
<1>4. \A f \in Fences : f \in Nat /\ submitted[f] \subseteq Uses
  BY <1>2 DEF Fences
<1>5. QED
  BY <1>1, <1>2, <1>3, <1>4

\* The goal of every step below: the parts of the invariant that speak of slots.
SlotsStaySafe ==
  /\ SlotsAreDisjoint /\ HeapFollowsFences
  /\ RecordedSlotsAreSafe /\ SubmittedSlotsAreSafe

LEMMA RebindSlots ==
  ASSUME SlotInv, NEW app2, NEW bound2, Rebind(app2, bound2)
  PROVE  SlotsStaySafe'
<1> DEFINE dead == Orphans(app2, bound2, frame_resources)
<1>1. /\ srv' = [t \in Textures |-> IF t \in dead THEN NoDescriptor ELSE srv[t]]
      /\ pending_free' = Heap!Park(SrvsOf(dead)) \ {}
      /\ free_list' = free_list \cup {p[2] : p \in {}}
      /\ UNCHANGED <<cpuVars, gpuVars, recorded, frame_resources, heap_frame>>
  BY DEF Rebind, Delete, Heap!Free
<1>2. dead \in SUBSET Textures /\ \A t \in dead : Exists(t)
  BY OrphansExist
<1>t. TypeOK /\ SlotsAreDisjoint
  BY DEF SlotInv
<1>3. ASSUME NEW u \in Uses, NEW s \in Slots, CoveredBy(u, s)
      PROVE  CoveredBy(u, s)'
  <2>1. u[1] \in frame_resources[s]
    BY <1>3 DEF CoveredBy
  <2>2. QED
    BY <1>1, <1>3, <2>1, KeptStaysCovered
<1> HIDE DEF dead
<1>4. SlotsAreDisjoint'
  <2>1. {} \in SUBSET Heap!Park(SrvsOf(dead))
    OBVIOUS
  <2>2. QED
    BY <1>1, <1>2, <1>t, <2>1, DropsKeepDisjoint
<1>5. ASSUME NEW u \in Uses, NEW f \in Nat, SafeUntil(u, f)
      PROVE  SafeUntil(u, f)'
  <2>1. heap_frame' \in Nat /\ heap_frame' >= heap_frame
    BY <1>1, SlotTypes
  <2>2. PICK released : released = {}
    OBVIOUS
  <2>3. /\ pending_free' = Heap!Park(SrvsOf(dead)) \ released
        /\ \A p \in Heap!Park(SrvsOf(dead)) : p \in released => p[1] < f
    BY <1>1, <2>2
  <2>4. QED
    BY <1>1, <1>2, <1>t, <1>5, <2>1, <2>3, DropsStaySafe
<1>6. HeapFollowsFences'
  BY <1>1 DEF cpuVars, SlotInv, HeapFollowsFences
<1>7. UNCHANGED <<pc, next_fence, fence_values, current_back_buffer, recorded,
                  completed, submitted>>
  BY <1>1 DEF cpuVars, gpuVars
<1>8. RecordedSlotsAreSafe'
  <2>1. PICK c, n : c = current_back_buffer /\ n = next_fence
    OBVIOUS
  <2>2. \A u \in recorded : CoveredBy(u, c)' \/ SafeUntil(u, n)'
    BY <1>3, <1>5, <2>1, SlotTypes DEF SlotInv, RecordedSlotsAreSafe
  <2>3. QED
    BY <1>7, <2>1, <2>2 DEF SlotInv, RecordedSlotsAreSafe
<1>9. SubmittedSlotsAreSafe'
  <2>1. ASSUME NEW f \in Fences, f > completed, NEW u \in submitted[f]
        PROVE  \/ \E s \in Slots : fence_values[s] >= f /\ CoveredBy(u, s)'
               \/ SafeUntil(u, f)'
    BY <1>3, <1>5, <2>1, SlotTypes DEF SlotInv, SubmittedSlotsAreSafe
  <2>2. QED
    BY <1>7, <2>1 DEF SubmittedSlotsAreSafe
<1>10. QED
  BY <1>4, <1>6, <1>8, <1>9 DEF SlotsStaySafe

\* FreeFrameResources of a finished frame: the slots of lists the GPU has not
\* finished are never among those it releases.
LEMMA FreeSlots ==
  ASSUME SlotInv, NEW f0 \in Nat, f0 <= completed, FreeFrameResources(f0),
         UNCHANGED <<gpuVars, fence_values, next_fence>>
  PROVE  /\ SlotsAreDisjoint' /\ SubmittedSlotsAreSafe'
         /\ heap_frame' = next_fence
         /\ \A u \in Uses : \A f \in Nat :
              f0 < f /\ SafeUntil(u, f) => SafeUntil(u, f)'
<1> DEFINE kept == [s \in Slots |->
                      IF fence_values[s] <= f0 THEN {} ELSE frame_resources[s]]
           dead == Orphans(app, bound, kept)
           released == {p \in Heap!Park(SrvsOf(dead)) : p[1] <= f0}
<1>1. /\ frame_resources' = kept
      /\ srv' = [t \in Textures |-> IF t \in dead THEN NoDescriptor ELSE srv[t]]
      /\ pending_free' = Heap!Park(SrvsOf(dead)) \ released
      /\ free_list' = free_list \cup {p[2] : p \in released}
      /\ heap_frame' = next_fence
  BY DEF FreeFrameResources, KeptAfter, Heap!FreeAndRelease, Heap!Completed
<1>2. /\ dead \in SUBSET Textures /\ \A t \in dead : Exists(t)
      /\ released \in SUBSET Heap!Park(SrvsOf(dead))
  BY OrphansExist
<1>t. TypeOK /\ SlotsAreDisjoint /\ heap_frame <= next_fence
  BY DEF SlotInv, HeapFollowsFences
<1>3. ASSUME NEW u \in Uses, NEW s \in Slots, CoveredBy(u, s), fence_values[s] > f0
      PROVE  CoveredBy(u, s)'
  <2>1. u[1] \in kept[s]
    BY <1>3, SlotTypes DEF CoveredBy
  <2>2. QED
    BY <1>1, <1>3, <2>1, KeptStaysCovered
<1>r. \A p \in Heap!Park(SrvsOf(dead)) : p \in released => p[1] <= f0 /\ p[1] \in Nat
  BY <1>2, <1>t, Parked
<1> HIDE DEF dead, released, kept
<1>4. SlotsAreDisjoint'
  BY <1>1, <1>2, <1>t, DropsKeepDisjoint
<1>5. ASSUME NEW u \in Uses, NEW f \in Nat, f0 < f, SafeUntil(u, f)
      PROVE  SafeUntil(u, f)'
  <2>1. \A p \in Heap!Park(SrvsOf(dead)) : p \in released => p[1] < f
    BY <1>r, <1>5
  <2>2. heap_frame' \in Nat /\ heap_frame' >= heap_frame
    BY <1>1, <1>t, SlotTypes
  <2>3. QED
    BY <1>1, <1>2, <1>t, <1>5, <2>1, <2>2, DropsStaySafe
<1>6. ASSUME NEW f \in Fences, f > completed, NEW u \in submitted[f]
      PROVE  \/ \E s \in Slots : fence_values[s] >= f /\ CoveredBy(u, s)'
             \/ SafeUntil(u, f)'
  <2>1. f \in Nat /\ f0 < f /\ u \in Uses
    BY <1>6, SlotTypes
  <2>2. CASE \E s \in Slots : fence_values[s] >= f /\ CoveredBy(u, s)
    <3>1. PICK s \in Slots : fence_values[s] >= f /\ CoveredBy(u, s)
      BY <2>2
    <3>2. fence_values[s] > f0
      BY <2>1, <3>1, SlotTypes
    <3>3. CoveredBy(u, s)'
      BY <1>3, <2>1, <3>1, <3>2
    <3>4. QED
      BY <3>1, <3>3
  <2>3. CASE SafeUntil(u, f)
    BY <1>5, <2>1, <2>3
  <2>4. QED
    BY <1>6, <2>2, <2>3 DEF SlotInv, SubmittedSlotsAreSafe
<1>7. SubmittedSlotsAreSafe'
  BY <1>6 DEF gpuVars, SubmittedSlotsAreSafe
<1>8. QED
  BY <1>1, <1>4, <1>5, <1>7

LEMMA CreateSlots ==
  ASSUME SlotInv, NEW t \in Textures, NEW d \in Descriptors, CreateTexture(t, d)
  PROVE  SlotsStaySafe'
<1>1. /\ UNCHANGED <<cpuVars, gpuVars, recorded, frame_resources,
                     pending_free, heap_frame>>
      /\ srv' = [srv EXCEPT ![t] = d] /\ ~Exists(t)
      /\ d \in free_list /\ free_list' = free_list \ {d}
      /\ \A u \in Busy : u[1] # t
  BY DEF CreateTexture, Heap!Allocate
<1>2. SlotsAreDisjoint'
  <2>1. SlotsAreDisjoint /\ d # NoDescriptor
    BY DescriptorsAssumption DEF SlotInv
  <2>2. /\ \A t2 \in Textures : srv[t2] # d
        /\ \A p \in pending_free : p[2] # d
    BY <1>1, <2>1 DEF SlotsAreDisjoint, Exists
  <2>3. \A t2 \in Textures : srv'[t2] = IF t2 = t THEN d ELSE srv[t2]
    BY <1>1, SlotTypes
  <2>4. \A t2 \in Textures : Exists(t2)' => t2 = t \/ Exists(t2)
    BY <2>3 DEF Exists
  <2>5. ASSUME NEW t1 \in Textures, Exists(t1)'
        PROVE  /\ srv'[t1] \notin free_list'
               /\ \A t2 \in Textures : srv'[t2] = srv'[t1] => t2 = t1
    BY <1>1, <2>1, <2>2, <2>3, <2>4, <2>5 DEF SlotsAreDisjoint
  <2>6. ASSUME NEW p \in pending_free
        PROVE  /\ p[2] \notin free_list'
               /\ \A t1 \in Textures : srv'[t1] # p[2]
               /\ \A q \in pending_free : q[2] = p[2] => q = p
    BY <1>1, <2>1, <2>2, <2>3 DEF SlotsAreDisjoint
  <2>7. QED
    BY <1>1, <2>5, <2>6 DEF SlotsAreDisjoint
<1>3. \A u \in Busy : srv'[u[1]] = srv[u[1]]
  BY <1>1, SlotTypes
<1>4. \A u \in Busy : \A s \in Slots : CoveredBy(u, s) => CoveredBy(u, s)'
  BY <1>1, <1>3 DEF CoveredBy
<1>5. \A u \in Busy : \A f \in Nat : SafeUntil(u, f) => SafeUntil(u, f)'
  BY <1>1, <1>3 DEF SafeUntil
<1>6. UNCHANGED <<pc, next_fence, fence_values, current_back_buffer, recorded,
                  completed, submitted>>
  BY <1>1 DEF cpuVars, gpuVars
<1>7. HeapFollowsFences'
  BY <1>1, <1>6 DEF SlotInv, HeapFollowsFences
<1>8. RecordedSlotsAreSafe'
  <2>1. PICK c, n : c = current_back_buffer /\ n = next_fence
    OBVIOUS
  <2>2. \A u \in recorded : CoveredBy(u, c)' \/ SafeUntil(u, n)'
    BY <1>4, <1>5, <2>1, SlotTypes DEF SlotInv, RecordedSlotsAreSafe, Busy
  <2>3. QED
    BY <1>6, <2>1, <2>2 DEF SlotInv, RecordedSlotsAreSafe
<1>9. SubmittedSlotsAreSafe'
  <2>1. ASSUME NEW f \in Fences, f > completed, NEW u \in submitted[f]
        PROVE  \/ \E s \in Slots : fence_values[s] >= f /\ CoveredBy(u, s)'
               \/ SafeUntil(u, f)'
    <3>1. u \in Busy /\ f \in Nat
      BY <2>1, SlotTypes DEF Busy, InFlight
    <3>2. QED
      BY <1>4, <1>5, <2>1, <3>1 DEF SlotInv, SubmittedSlotsAreSafe
  <2>2. QED
    BY <1>6, <2>1 DEF SubmittedSlotsAreSafe
<1>10. QED
  BY <1>2, <1>7, <1>8, <1>9 DEF SlotsStaySafe

\* Steps that leave textures and descriptors alone.
LEMMA SlotsUntouched ==
  ASSUME UNCHANGED <<srv, heapVars>>
  PROVE  /\ SlotsAreDisjoint => SlotsAreDisjoint'
         /\ \A u, f : SafeUntil(u, f) => SafeUntil(u, f)'
         /\ \A u, s : u[1] \in frame_resources'[s] /\ CoveredBy(u, s) => CoveredBy(u, s)'
  BY DEF heapVars, SlotsAreDisjoint, Exists, SafeUntil, CoveredBy

LEMMA DrawSlots ==
  ASSUME SlotInv, Draw
  PROVE  SlotsStaySafe'
<1>c. PICK c, n, use : /\ c = current_back_buffer /\ n = next_fence
                       /\ use = <<bound, srv[bound]>>
  OBVIOUS
<1>1. /\ UNCHANGED <<cpuVars, gpuVars, srv, heapVars>> /\ pc = "recording"
      /\ recorded' = recorded \cup {use}
      /\ c \in Slots
  BY <1>c, SlotTypes DEF Draw, textureVars
<1>2. /\ bound \in frame_resources'[c]
      /\ \A s \in Slots : frame_resources[s] \subseteq frame_resources'[s]
  BY <1>1, <1>c DEF Draw, MarkResourceAsUsed, SlotInv, StampMeansKept, TypeOK
<1>3. \A u, s : s \in Slots /\ CoveredBy(u, s) => CoveredBy(u, s)'
  BY <1>1, <1>2 DEF CoveredBy
<1>4. CoveredBy(use, c)'
  <2>1. use[1] = bound /\ use[2] = srv[bound]
    BY <1>c
  <2>2. use[1] \in frame_resources'[c] /\ srv'[use[1]] = use[2]
    BY <1>1, <1>2, <2>1
  <2>3. QED
    BY <2>2 DEF CoveredBy
<1>5. UNCHANGED <<pc, next_fence, fence_values, current_back_buffer, completed, submitted>>
  BY <1>1 DEF cpuVars, gpuVars
<1>6. SlotsAreDisjoint' /\ \A u, f : SafeUntil(u, f) => SafeUntil(u, f)'
  BY <1>1, SlotsUntouched DEF SlotInv
<1>7. HeapFollowsFences'
  BY <1>1, <1>5 DEF heapVars, SlotInv, HeapFollowsFences
<1>8. RecordedSlotsAreSafe'
  <2>1. \A u \in recorded : CoveredBy(u, c)' \/ SafeUntil(u, n)'
    BY <1>1, <1>3, <1>6, <1>c DEF SlotInv, RecordedSlotsAreSafe
  <2>2. \A u \in recorded' : CoveredBy(u, c)' \/ SafeUntil(u, n)'
    BY <1>1, <1>4, <2>1
  <2>3. QED
    BY <1>1, <1>5, <1>c, <2>2 DEF RecordedSlotsAreSafe
<1>9. SubmittedSlotsAreSafe'
  <2>1. ASSUME NEW f \in Fences, f > completed, NEW u \in submitted[f]
        PROVE  \/ \E s \in Slots : fence_values[s] >= f /\ CoveredBy(u, s)'
               \/ SafeUntil(u, f)'
    BY <1>3, <1>6, <2>1 DEF SlotInv, SubmittedSlotsAreSafe
  <2>2. QED
    BY <1>5, <2>1 DEF SubmittedSlotsAreSafe
<1>10. QED
  BY <1>6, <1>7, <1>8, <1>9 DEF SlotsStaySafe

LEMMA SubmitSlots ==
  ASSUME SlotInv, pc = "recording", NEW p \in BOOLEAN, SubmitAndWait(p)
  PROVE  SlotsStaySafe'
<1>c. PICK c : c = current_back_buffer
  OBVIOUS
<1>1. /\ next_fence \in Fences /\ c \in Slots
      /\ submitted' = [submitted EXCEPT ![next_fence] = recorded]
      /\ recorded' = {} /\ pc' = "waiting"
      /\ fence_values' = [fence_values EXCEPT ![c] = next_fence]
      /\ next_fence' = next_fence + 1
      /\ UNCHANGED <<completed, srv, heapVars, frame_resources>>
  BY <1>c, SlotTypes DEF SubmitAndWait, textureVars
<1>2. /\ SlotsAreDisjoint'
      /\ \A u, f : SafeUntil(u, f) => SafeUntil(u, f)'
      /\ \A u, s : CoveredBy(u, s) => CoveredBy(u, s)'
  BY <1>1, SlotsUntouched DEF SlotInv, CoveredBy
<1>3. HeapFollowsFences'
  BY <1>1, SlotTypes DEF heapVars, SlotInv, HeapFollowsFences
<1>4. RecordedSlotsAreSafe'
  BY <1>1 DEF RecordedSlotsAreSafe
<1>5. \A s \in Slots : fence_values'[s] \in Nat /\ fence_values'[s] >= fence_values[s]
  BY <1>1, SlotTypes
<1>6. ASSUME NEW f \in Fences, f > completed, NEW u \in submitted'[f]
      PROVE  \/ \E s \in Slots : fence_values'[s] >= f /\ CoveredBy(u, s)'
             \/ SafeUntil(u, f)'
  <2>1. CASE f = next_fence
    <3>1. u \in recorded /\ fence_values'[c] >= f
      BY <1>1, <1>6, <2>1, SlotTypes
    <3>2. CoveredBy(u, c) \/ SafeUntil(u, f)
      BY <1>c, <2>1, <3>1 DEF SlotInv, RecordedSlotsAreSafe
    <3>3. QED
      BY <1>1, <1>2, <3>1, <3>2
  <2>2. CASE f # next_fence
    <3>1. u \in submitted[f]
      BY <1>1, <1>6, <2>2, SlotTypes
    <3>2. CASE SafeUntil(u, f)
      BY <1>2, <3>2
    <3>3. CASE \E s \in Slots : fence_values[s] >= f /\ CoveredBy(u, s)
      <4>1. PICK s \in Slots : fence_values[s] >= f /\ CoveredBy(u, s)
        BY <3>3
      <4>2. fence_values'[s] >= f
        BY <1>5, <4>1, SlotTypes
      <4>3. QED
        BY <1>2, <4>1, <4>2
    <3>4. QED
      BY <1>6, <3>1, <3>2, <3>3 DEF SlotInv, SubmittedSlotsAreSafe
  <2>3. QED
    BY <2>1, <2>2
<1>7. SubmittedSlotsAreSafe'
  BY <1>1, <1>6 DEF SubmittedSlotsAreSafe
<1>8. QED
  BY <1>2, <1>3, <1>4, <1>7 DEF SlotsStaySafe

LEMMA WaitSlots ==
  ASSUME SlotInv, WaitForFrame
  PROVE  SlotsStaySafe'
<1>c. PICK f0 : f0 = fence_values[current_back_buffer]
  OBVIOUS
<1>1. /\ f0 \in Nat /\ f0 <= completed /\ FreeFrameResources(f0)
      /\ pc = "waiting" /\ UNCHANGED <<gpuVars, next_fence, fence_values, recorded>>
  BY <1>c, SlotTypes DEF WaitForFrame, HasPassed
<1>2. SlotsAreDisjoint' /\ SubmittedSlotsAreSafe' /\ heap_frame' = next_fence
  BY <1>1, FreeSlots
<1>3. RecordedSlotsAreSafe'
  BY <1>1 DEF SlotInv, RecordedSlotsAreSafe
<1>4. HeapFollowsFences'
  BY <1>1, <1>2, SlotTypes DEF HeapFollowsFences
<1>5. QED
  BY <1>2, <1>3, <1>4 DEF SlotsStaySafe

\* The step that deletes textures the open list names: it parks their slots in
\* the frame of that list.
LEMMA StopSlots ==
  ASSUME SlotInv, StopHelperFrees
  PROVE  SlotsStaySafe'
<1>c. PICK f0, n, c : f0 = next_fence - 1 /\ n = next_fence /\ c = current_back_buffer
  OBVIOUS
<1>1. /\ f0 \in Nat /\ n \in Nat /\ f0 < n /\ f0 <= completed /\ FreeFrameResources(f0)
      /\ pc = "recording" /\ next_fence > 1 /\ heap_frame = n
      /\ UNCHANGED <<gpuVars, pc, next_fence, fence_values, current_back_buffer, recorded>>
  BY <1>c, SlotTypes DEF StopHelperFrees, HasPassed, SlotInv, HeapFollowsFences
<1>2. /\ SlotsAreDisjoint' /\ SubmittedSlotsAreSafe' /\ heap_frame' = next_fence
      /\ \A u \in Uses : \A f \in Nat : f0 < f /\ SafeUntil(u, f) => SafeUntil(u, f)'
  BY <1>1, FreeSlots
<1>3. ASSUME NEW u \in recorded PROVE SafeUntil(u, n)'
  <2>1. u \in Uses
    BY SlotTypes
  <2>2. SafeUntil(u, n)
    BY <1>1, <1>c DEF SlotInv, RecordedSlotsAreSafe, CoveredBy, SafeUntil
  <2>3. QED
    BY <1>1, <1>2, <2>1, <2>2
<1>4. RecordedSlotsAreSafe'
  BY <1>1, <1>3, <1>c DEF RecordedSlotsAreSafe
<1>5. HeapFollowsFences'
  BY <1>1, <1>2, SlotTypes DEF HeapFollowsFences
<1>6. QED
  BY <1>2, <1>4, <1>5 DEF SlotsStaySafe

LEMMA CompleteSlots ==
  ASSUME SlotInv, GpuCompletes
  PROVE  SlotsStaySafe'
<1>1. /\ UNCHANGED <<cpuVars, srv, heapVars, recorded, frame_resources>>
      /\ completed' = completed + 1
      /\ submitted' = [submitted EXCEPT ![completed + 1] = {}]
  BY DEF GpuCompletes, textureVars
<1>2. /\ SlotsAreDisjoint'
      /\ \A u, f : SafeUntil(u, f) => SafeUntil(u, f)'
      /\ \A u, s : CoveredBy(u, s) => CoveredBy(u, s)'
  BY <1>1, SlotsUntouched DEF SlotInv, CoveredBy
<1>3. UNCHANGED <<pc, next_fence, fence_values, current_back_buffer>>
  BY <1>1 DEF cpuVars
<1>4. HeapFollowsFences'
  BY <1>1, <1>3 DEF heapVars, SlotInv, HeapFollowsFences
<1>5. RecordedSlotsAreSafe'
  <2>1. PICK c, n : c = current_back_buffer /\ n = next_fence
    OBVIOUS
  <2>2. \A u \in recorded : CoveredBy(u, c)' \/ SafeUntil(u, n)'
    BY <1>2, <2>1 DEF SlotInv, RecordedSlotsAreSafe
  <2>3. QED
    BY <1>1, <1>3, <2>1, <2>2 DEF SlotInv, RecordedSlotsAreSafe
<1>6. ASSUME NEW f \in Fences, f > completed + 1, NEW u \in submitted'[f]
      PROVE  \/ \E s \in Slots : fence_values[s] >= f /\ CoveredBy(u, s)'
             \/ SafeUntil(u, f)'
  <2>1. f > completed /\ u \in submitted[f]
    BY <1>1, <1>6, SlotTypes
  <2>2. QED
    BY <1>2, <2>1 DEF SlotInv, SubmittedSlotsAreSafe
<1>7. SubmittedSlotsAreSafe'
  BY <1>1, <1>3, <1>6 DEF SubmittedSlotsAreSafe
<1>8. QED
  BY <1>2, <1>4, <1>5, <1>7 DEF SlotsStaySafe

-----------------------------------------------------------------------------
LEMMA InitSlots == Init => SlotInv
<1> SUFFICES ASSUME Init PROVE SlotInv
  OBVIOUS
<1>1. TypeOK /\ KeptExist /\ StampMeansKept
  BY InitRefs DEF RefInv
<1>2. FencesInOrder /\ HeapFollowsFences /\ RecordedSlotsAreSafe /\ SubmittedSlotsAreSafe
  BY DEF Init, Heap!HeapInit, FencesInOrder, HeapFollowsFences, RecordedSlotsAreSafe,
         SubmittedSlotsAreSafe
<1>3. SlotsAreDisjoint
  BY DEF Init, Heap!HeapInit, SlotsAreDisjoint, Exists
<1>4. QED
  BY <1>1, <1>2, <1>3 DEF SlotInv

\* Fences are numbered in the order of submission.
LEMMA FencesStayInOrder ==
  ASSUME SlotInv, [Next]_vars
  PROVE  FencesInOrder'
<1>1. ASSUME NEW p \in BOOLEAN, SubmitAndWait(p) PROVE FencesInOrder'
  BY <1>1, SlotTypes DEF SubmitAndWait, SlotInv, FencesInOrder
<1>2. CASE GpuCompletes
  BY <1>2, SlotTypes DEF GpuCompletes, cpuVars, SlotInv, FencesInOrder
<1>3. CASE UNCHANGED <<completed, next_fence, fence_values>>
  BY <1>3 DEF SlotInv, FencesInOrder
<1>4. QED
  BY <1>1, <1>2, <1>3 DEF Next, CreateTexture, ReleaseTexture, SetTexture, Rebind,
     Draw, Present, MidFrameFlush, Reset, WaitForFrame, WaitTimesOut,
     StopHelperFlushes, StopHelperFrees, vars, cpuVars, gpuVars

LEMMA SlotsInductive == SlotInv /\ [Next]_vars => SlotInv'
<1>r. SlotInv /\ [Next]_vars => RefInv' /\ FencesInOrder'
  BY RefsInductive, FencesStayInOrder DEF SlotInv, RefInv
<1> SUFFICES ASSUME SlotInv, [Next]_vars PROVE SlotsStaySafe'
  BY <1>r DEF SlotsStaySafe, SlotInv, RefInv
<1>1. ASSUME NEW t \in Textures, ReleaseTexture(t) PROVE SlotsStaySafe'
  BY <1>1, RebindSlots DEF ReleaseTexture
<1>2. ASSUME NEW t \in Textures \cup {NoTexture}, SetTexture(t) PROVE SlotsStaySafe'
  BY <1>2, RebindSlots DEF SetTexture
<1>3. CASE Present \/ MidFrameFlush \/ Reset \/ StopHelperFlushes
  BY <1>3, SubmitSlots DEF Present, MidFrameFlush, Reset, StopHelperFlushes
<1>4. CASE WaitTimesOut \/ UNCHANGED vars
  <2>1. /\ UNCHANGED <<srv, heapVars, recorded, frame_resources, next_fence,
                       fence_values, current_back_buffer, completed, submitted>>
        /\ pc' = pc \/ (pc = "waiting" /\ pc' = "aborted")
    BY <1>4 DEF WaitTimesOut, vars, cpuVars, gpuVars, textureVars
  <2>2. QED
    BY <2>1 DEF SlotInv, SlotsStaySafe, heapVars, SlotsAreDisjoint, Exists,
       HeapFollowsFences, RecordedSlotsAreSafe, SubmittedSlotsAreSafe, CoveredBy,
       SafeUntil
<1>5. QED
  BY <1>1, <1>2, <1>3, <1>4, CreateSlots, DrawSlots, WaitSlots, StopSlots,
     CompleteSlots DEF Next

\* The SRV slot a draw was recorded with is neither handed to another texture
\* nor returned to the free list before the GPU is past the draw, even when a
\* helper restart deletes the texture under it (DescriptorPoolHeap::Free and
\* ReleaseCompleted, src/pool_heap.cpp).
THEOREM FrameDescriptorsOutliveCommands == Spec => []DescriptorsOutliveCommands
<1>1. SlotInv => DescriptorsOutliveCommands
  <2> SUFFICES ASSUME SlotInv, NEW u \in Busy
               PROVE  /\ u[2] \notin free_list
                      /\ \A t \in Textures : srv[t] = u[2] => t = u[1]
    BY DEF DescriptorsOutliveCommands
  <2>1. u \in Uses
    BY SlotTypes DEF Busy, InFlight
  <2>2. \/ Exists(u[1]) /\ srv[u[1]] = u[2]
        \/ \E p \in pending_free : p[2] = u[2]
    <3>1. (\E s \in Slots : CoveredBy(u, s)) \/ (\E f \in Nat : SafeUntil(u, f))
      <4>1. CASE u \in recorded
        BY <4>1, SlotTypes DEF SlotInv, RecordedSlotsAreSafe
      <4>2. CASE u \in InFlight
        BY <4>2, SlotTypes DEF InFlight, SlotInv, SubmittedSlotsAreSafe
      <4>3. QED
        BY <4>1, <4>2 DEF Busy
    <3>2. u[2] # NoDescriptor
      BY <2>1, DescriptorsAssumption DEF Uses
    <3>3. QED
      BY <3>1, <3>2 DEF CoveredBy, SafeUntil, Exists
  <2>3. QED
    BY <2>1, <2>2 DEF SlotInv, SlotsAreDisjoint, Uses
<1>2. QED
  BY <1>1, InitSlots, SlotsInductive, PTL DEF Spec
-----------------------------------------------------------------------------
\* What is used again, and what is kept: the numbers behind both.

\* A list that is not finished records into an allocator whose fence is no
\* earlier; the open list's has passed; the wait of Device::Reset is for the
\* fence submitted last.
AllocatorsFollowFences ==
  /\ \A f \in Fences : f > completed /\ list_slot[f] \in Slots => fence_values[list_slot[f]] >= f
  /\ pc = "recording" => fence_values[current_back_buffer] <= completed
  /\ resetting => pc # "recording" /\ fence_values[current_back_buffer] = next_fence - 1

RingStaysBehind == ring_frame <= next_fence /\ RingFollowsFences

ReuseInv == AllocatorsFollowFences /\ RingStaysBehind

\* Every step, by what it does to fences, lists and the heap.
StepOfReferences ==
  /\ UNCHANGED <<cpuVars, completed, list_slot, heap_frame>>
  /\ \A s \in Slots \ {current_back_buffer} : frame_resources'[s] = frame_resources[s]
  /\ \A p \in pending_free' : p \in pending_free \/ p[1] = heap_frame
  /\ pc = "recording" \/ UNCHANGED <<frame_resources, pending_free>>

StepOfSubmission ==
  /\ pc = "recording"
  /\ \E presented \in BOOLEAN : SubmitAndWait(presented)
  /\ \/ resetting' = resetting
     \/ resetting' = TRUE /\ current_back_buffer' = current_back_buffer

LEMMA StepsAreOfFiveKinds ==
  ASSUME SlotInv, [Next]_vars
  PROVE  StepOfReferences \/ StepOfSubmission \/ WaitForFrame \/ WaitTimesOut
         \/ StopHelperFrees \/ GpuCompletes
<1>1. ASSUME NEW t \in Textures, NEW d \in Descriptors, CreateTexture(t, d)
      PROVE  StepOfReferences
  BY <1>1 DEF CreateTexture, Heap!Allocate, gpuVars, StepOfReferences
<1>2. ASSUME pc = "recording", NEW app2, NEW bound2, Rebind(app2, bound2)
      PROVE  StepOfReferences
  <2>1. UNCHANGED <<cpuVars, completed, list_slot, heap_frame, frame_resources>>
    BY <1>2 DEF Rebind, Heap!Free, gpuVars
  <2>2. \A p \in pending_free' : p \in pending_free \/ p[1] = heap_frame
    BY <1>2 DEF Rebind, Heap!Free, Heap!Park
  <2>3. QED
    BY <1>2, <2>1, <2>2 DEF StepOfReferences
<1>3. CASE Draw
  <2>1. /\ pc = "recording"
        /\ UNCHANGED <<cpuVars, completed, list_slot, heap_frame, pending_free>>
    BY <1>3 DEF Draw, gpuVars, heapVars
  <2>2. \A s \in Slots \ {current_back_buffer} : frame_resources'[s] = frame_resources[s]
    BY <1>3 DEF Draw, MarkResourceAsUsed, SlotInv, TypeOK
  <2>3. QED
    BY <2>1, <2>2 DEF StepOfReferences
<1>4. CASE UNCHANGED vars
  BY <1>4 DEF vars, gpuVars, heapVars, StepOfReferences
<1>5. CASE Present \/ MidFrameFlush \/ StopHelperFlushes
  BY <1>5 DEF Present, MidFrameFlush, StopHelperFlushes, StepOfSubmission
<1>6. CASE Reset
  BY <1>6 DEF Reset, SubmitAndWait, NextBackBuffer, StepOfSubmission
<1>7. QED
  BY <1>1, <1>2, <1>3, <1>4, <1>5, <1>6 DEF Next, ReleaseTexture, SetTexture

\* What submission does to the numbers.
LEMMA SubmissionNumbers ==
  ASSUME SlotInv, StepOfSubmission
  PROVE  /\ pc' = "waiting" /\ next_fence \in Fences /\ next_fence' = next_fence + 1
         /\ fence_values' = [fence_values EXCEPT ![current_back_buffer] = next_fence]
         /\ list_slot' = [list_slot EXCEPT ![next_fence] = current_back_buffer]
         /\ \/ current_back_buffer' = current_back_buffer
            \/ /\ current_back_buffer' = (current_back_buffer + 1) % NumBackBuffers
               /\ resetting' = resetting
         /\ UNCHANGED <<completed, heapVars, frame_resources, ring_frame, recycled>>
  BY DEF StepOfSubmission, SubmitAndWait, NextBackBuffer, gpuVars

LEMMA ReuseTypes ==
  ASSUME SlotInv
  PROVE  /\ ring_frame \in Nat /\ recycled \in Nat /\ resetting \in BOOLEAN
         /\ list_slot \in [Fences -> Slots \cup {NoSlot}]
         /\ Fences \subseteq Nat /\ NoSlot \notin Slots
  BY NumBackBuffersAssumption DEF SlotInv, TypeOK, Fences, Slots, NoSlot

LEMMA ReuseInductive ==
  ASSUME SlotInv, ReuseInv, [Next]_vars
  PROVE  ReuseInv'
<1>t. /\ next_fence \in Nat /\ completed \in Nat /\ completed < next_fence
      /\ current_back_buffer \in Slots /\ fence_values \in [Slots -> Nat]
      /\ \A s \in Slots : fence_values[s] < next_fence
      /\ ring_frame \in Nat /\ list_slot \in [Fences -> Slots \cup {NoSlot}]
      /\ Fences \subseteq Nat /\ NoSlot \notin Slots
  BY SlotTypes, ReuseTypes DEF SlotInv, FencesInOrder
<1>1. CASE StepOfReferences
  <2>1. UNCHANGED <<pc, next_fence, fence_values, current_back_buffer, ring_frame,
                    recycled, resetting, completed, list_slot>>
    BY <1>1 DEF StepOfReferences, cpuVars
  <2>2. QED
    BY <2>1 DEF ReuseInv, AllocatorsFollowFences, RingStaysBehind, RingFollowsFences
<1>2. CASE StepOfSubmission
  <2>1. RingStaysBehind'
    BY <1>2, <1>t, SubmissionNumbers DEF ReuseInv, RingStaysBehind, RingFollowsFences
  <2>2. ~resetting
    BY <1>2 DEF StepOfSubmission, ReuseInv, AllocatorsFollowFences
  <2>3. resetting' => fence_values'[current_back_buffer'] = next_fence' - 1
    <3>1. CASE current_back_buffer' = current_back_buffer
      BY <1>2, <1>t, <3>1, SubmissionNumbers
    <3>2. CASE resetting' = resetting
      BY <2>2, <3>2
    <3>3. QED
      BY <1>2, <3>1, <3>2, SubmissionNumbers
  <2>4. ASSUME NEW f \in Fences, f > completed', list_slot'[f] \in Slots
        PROVE  fence_values'[list_slot'[f]] >= f
    <3>1. CASE f = next_fence
      BY <1>2, <1>t, <3>1, SubmissionNumbers
    <3>2. CASE f # next_fence
      <4>1. list_slot'[f] = list_slot[f] /\ fence_values[list_slot[f]] >= f
        BY <1>2, <1>t, <2>4, <3>2, SubmissionNumbers DEF ReuseInv, AllocatorsFollowFences
      <4>2. QED
        BY <1>2, <1>t, <2>4, <4>1, SubmissionNumbers
    <3>3. QED
      BY <3>1, <3>2
  <2>5. AllocatorsFollowFences'
    BY <1>2, <2>3, <2>4, SubmissionNumbers DEF AllocatorsFollowFences
  <2>6. QED
    BY <2>1, <2>5 DEF ReuseInv
<1>3. ASSUME NEW f0 \in Nat, FreeFrameResources(f0), f0 <= completed
      PROVE  ring_frame' = next_fence /\ recycled' <= completed
  BY <1>3, <1>t DEF FreeFrameResources, RingFrameAfter, ReuseInv, RingStaysBehind
<1>4. CASE WaitForFrame
  <2>1. /\ fence_values[current_back_buffer] \in Nat
        /\ fence_values[current_back_buffer] <= completed
        /\ FreeFrameResources(fence_values[current_back_buffer])
        /\ UNCHANGED <<completed, list_slot, next_fence, fence_values>>
        /\ ~resetting'
        /\ current_back_buffer' = IF resetting THEN 0 ELSE current_back_buffer
    BY <1>4, <1>t DEF WaitForFrame, HasPassed, gpuVars
  <2>2. fence_values[current_back_buffer'] <= completed
    <3>1. CASE resetting
      <4>1. completed >= next_fence - 1 /\ 0 \in Slots
        BY <1>t, <2>1, <3>1, NextSlot DEF ReuseInv, AllocatorsFollowFences
      <4>2. QED
        BY <1>t, <2>1, <3>1, <4>1
    <3>2. QED
      BY <2>1, <3>1
  <2>3. AllocatorsFollowFences'
    BY <2>1, <2>2 DEF ReuseInv, AllocatorsFollowFences
  <2>4. RingStaysBehind'
    BY <1>3, <1>t, <2>1 DEF RingStaysBehind, RingFollowsFences
  <2>5. QED
    BY <2>3, <2>4 DEF ReuseInv
<1>5. CASE WaitTimesOut
  BY <1>5 DEF WaitTimesOut, gpuVars, ReuseInv, AllocatorsFollowFences, RingStaysBehind,
              RingFollowsFences
<1>6. CASE StopHelperFrees
  <2>1. /\ next_fence - 1 \in Nat /\ next_fence - 1 <= completed
        /\ FreeFrameResources(next_fence - 1)
        /\ UNCHANGED <<completed, list_slot, pc, next_fence, fence_values,
                       current_back_buffer, resetting>>
    BY <1>6, <1>t DEF StopHelperFrees, HasPassed, gpuVars
  <2>2. AllocatorsFollowFences'
    BY <2>1 DEF ReuseInv, AllocatorsFollowFences
  <2>3. RingStaysBehind'
    BY <1>3, <1>t, <2>1 DEF RingStaysBehind, RingFollowsFences
  <2>4. QED
    BY <2>2, <2>3 DEF ReuseInv
<1>7. CASE GpuCompletes
  <2>1. /\ completed' = completed + 1
        /\ list_slot' = [list_slot EXCEPT ![completed + 1] = NoSlot]
        /\ UNCHANGED <<pc, next_fence, fence_values, current_back_buffer, ring_frame,
                       recycled, resetting>>
    BY <1>7 DEF GpuCompletes, cpuVars
  <2>2. RingStaysBehind'
    BY <1>t, <2>1, ReuseTypes DEF ReuseInv, RingStaysBehind, RingFollowsFences
  <2>3. AllocatorsFollowFences'
    BY <1>t, <2>1 DEF ReuseInv, AllocatorsFollowFences
  <2>4. QED
    BY <2>2, <2>3 DEF ReuseInv
<1>8. QED
  BY <1>1, <1>2, <1>4, <1>5, <1>6, <1>7, StepsAreOfFiveKinds

LEMMA InitReuse == Init => ReuseInv
  BY NumBackBuffersAssumption
     DEF Init, ReuseInv, AllocatorsFollowFences, RingStaysBehind, RingFollowsFences, Slots, NoSlot

\* The command list is reopened only on an allocator whose last list the GPU has
\* finished, and the ring is told only of frames it has finished, helper restarts
\* and Reset included (SubmitAndWait, WaitForFrame, FreeFrameResources).
THEOREM FrameReuseFollowsFences == Spec => []ReuseFollowsFences
<1>1. SlotInv /\ ReuseInv => ReuseFollowsFences
  <2> SUFFICES ASSUME SlotInv, ReuseInv PROVE AllocatorIsIdle
    BY DEF ReuseFollowsFences, ReuseInv, RingStaysBehind
  <2> SUFFICES ASSUME pc = "recording", NEW f \in Fences, f > completed,
                      list_slot[f] = current_back_buffer
               PROVE  FALSE
    BY DEF AllocatorIsIdle
  <2>1. fence_values[current_back_buffer] >= f /\ fence_values[current_back_buffer] <= completed
    BY SlotTypes DEF ReuseInv, AllocatorsFollowFences
  <2>2. QED
    BY <2>1, SlotTypes, ReuseTypes
<1>2. Init => SlotInv /\ ReuseInv
  BY InitSlots, InitReuse
<1>3. SlotInv /\ ReuseInv /\ [Next]_vars => (SlotInv /\ ReuseInv)'
  BY SlotsInductive, ReuseInductive
<1>4. QED
  BY <1>1, <1>2, <1>3, PTL DEF Spec
-----------------------------------------------------------------------------
\* How long anything is kept.  The back buffers take turns: Distance(s) frames
\* ago the list was submitted from s, or everything was emptied since by a wait
\* for the fence submitted last (a flush in mid-frame, Reset, a helper restart).
Distance(s) ==
  IF s < current_back_buffer THEN current_back_buffer - s
  ELSE current_back_buffer - s + NumBackBuffers

Emptied(s, d) ==
  /\ frame_resources[s] = {}
  /\ heap_frame > next_fence - d
  /\ \A p \in pending_free : p[1] > next_fence - d

Turn(s) == fence_values[s] = next_fence - Distance(s) \/ Emptied(s, Distance(s))

ParkedBeforeNow == \A p \in pending_free : p[1] <= heap_frame

KeptWhileRecording ==
  /\ \A s \in Slots \ {current_back_buffer} : Turn(s)
  /\ heap_frame > next_fence - NumBackBuffers
  /\ \A p \in pending_free : p[1] > next_fence - NumBackBuffers

KeptWhileWaiting ==
  /\ heap_frame < next_fence
  /\ fence_values[current_back_buffer] = next_fence - 1 \/ \A s \in Slots : Turn(s)

RotationInv ==
  /\ ParkedBeforeNow
  /\ pc = "recording" => KeptWhileRecording
  /\ pc = "waiting" => KeptWhileWaiting

LEMMA RotationTypes ==
  ASSUME SlotInv
  PROVE  /\ \A p \in pending_free : p[1] \in Nat
         /\ NumBackBuffers \in Nat \ {0} /\ heap_frame \in Nat
         /\ Slots \subseteq Nat /\ \A s \in Slots : s < NumBackBuffers
  BY NumBackBuffersAssumption DEF SlotInv, TypeOK, Heap!HeapTypeOK, Slots

\* A distance is between one frame and a whole round.
LEMMA DistanceBounds ==
  ASSUME SlotInv, NEW s \in Slots
  PROVE  /\ Distance(s) \in Nat /\ Distance(s) >= 1 /\ Distance(s) <= NumBackBuffers
         /\ s # current_back_buffer => Distance(s) < NumBackBuffers
         /\ s = current_back_buffer => Distance(s) = NumBackBuffers
  BY SlotTypes, RotationTypes DEF Distance

\* Presenting moves every back buffer one frame further away, and the one just
\* presented next to the new one.
LEMMA PresentMovesAway ==
  ASSUME SlotInv, current_back_buffer' = (current_back_buffer + 1) % NumBackBuffers,
         current_back_buffer' # current_back_buffer,
         NEW s \in Slots
  PROVE  Distance(s)' = IF s = current_back_buffer THEN 1 ELSE Distance(s) + 1
<1>1. /\ current_back_buffer \in Nat /\ current_back_buffer < NumBackBuffers
      /\ s \in Nat /\ s < NumBackBuffers /\ NumBackBuffers \in Nat
  BY SlotTypes, RotationTypes
<1>2. CASE current_back_buffer + 1 < NumBackBuffers
  <2>1. current_back_buffer' = current_back_buffer + 1
    BY <1>1, <1>2
  <2>2. QED
    BY <1>1, <2>1 DEF Distance
<1>3. CASE current_back_buffer + 1 = NumBackBuffers
  <2>1. current_back_buffer' = 0
    BY <1>1, <1>3
  <2>2. QED
    BY <1>1, <1>3, <2>1 DEF Distance
<1>4. QED
  BY <1>1, <1>2, <1>3

\* FreeFrameResources, as far as what is kept goes.
LEMMA FreedNumbers ==
  ASSUME SlotInv, NEW f \in Nat, FreeFrameResources(f)
  PROVE  /\ heap_frame' = next_fence
         /\ \A s \in Slots : frame_resources'[s] =
              IF fence_values[s] <= f THEN {} ELSE frame_resources[s]
         /\ \A p \in pending_free' : /\ p[1] \in Nat /\ p[1] > f
                                     /\ p \in pending_free \/ p[1] = heap_frame
<1>1. PICK D : /\ pending_free' = Heap!Park(D) \ Heap!Completed(D, f)
               /\ heap_frame' = next_fence
               /\ frame_resources' = KeptAfter(f)
  BY DEF FreeFrameResources, Heap!FreeAndRelease
<1>2. \A p \in Heap!Park(D) : p \in pending_free \/ p[1] = heap_frame
  BY DEF Heap!Park
<1>3. \A p \in Heap!Park(D) : p[1] \in Nat
  BY <1>2, RotationTypes
<1>4. \A p \in pending_free' : p \in Heap!Park(D) /\ ~(p[1] <= f)
  BY <1>1 DEF Heap!Completed
<1>5. QED
  BY <1>1, <1>2, <1>3, <1>4 DEF KeptAfter

\* A wait for the fence submitted last leaves nothing to keep.
LEMMA LastFenceEmpties ==
  ASSUME SlotInv, ParkedBeforeNow, heap_frame <= next_fence,
         FreeFrameResources(next_fence - 1), next_fence' = next_fence,
         heap_frame < next_fence \/ pc = "recording"
  PROVE  /\ heap_frame' = next_fence
         /\ \A s \in Slots : frame_resources'[s] = {}
         /\ \A p \in pending_free' : p[1] = next_fence
<1>1. next_fence \in Nat /\ next_fence - 1 \in Nat
      /\ \A s \in Slots : fence_values[s] \in Nat /\ fence_values[s] <= next_fence - 1
  BY SlotTypes DEF SlotInv, FencesInOrder
<1>2. \A p \in pending_free' :
        p[1] \in Nat /\ p[1] > next_fence - 1 /\ p[1] <= heap_frame
  BY <1>1, FreedNumbers, RotationTypes DEF ParkedBeforeNow
<1>3. QED
  BY <1>1, <1>2, FreedNumbers, RotationTypes

LEMMA RotationInductive ==
  ASSUME SlotInv, ReuseInv, RotationInv, [Next]_vars
  PROVE  RotationInv'
<1>t. /\ next_fence \in Nat /\ current_back_buffer \in Slots
      /\ fence_values \in [Slots -> Nat] /\ \A s \in Slots : fence_values[s] < next_fence
      /\ NumBackBuffers \in Nat \ {0} /\ heap_frame \in Nat
      /\ \A p \in pending_free : p[1] \in Nat
      /\ heap_frame <= next_fence
  BY SlotTypes, RotationTypes DEF SlotInv, FencesInOrder, HeapFollowsFences
<1>i. SlotInv'
  BY SlotsInductive
<1>e. ASSUME \A s \in Slots : frame_resources'[s] = {}, heap_frame' = next_fence,
             next_fence' = next_fence, \A p \in pending_free' : p[1] = next_fence,
             pc' = "recording"
      PROVE  RotationInv'
  <2>1. ASSUME NEW s \in Slots PROVE Turn(s)'
    <3>1. Distance(s)' \in Nat /\ Distance(s)' >= 1
      <4>1. current_back_buffer' \in Slots
        BY <1>i DEF SlotInv, TypeOK
      <4>2. QED
        BY <4>1, RotationTypes DEF Distance
    <3>2. QED
      BY <1>e, <1>t, <3>1 DEF Turn, Emptied
  <2>2. QED
    BY <1>e, <1>t, <2>1 DEF RotationInv, ParkedBeforeNow, KeptWhileRecording
<1>1. CASE StepOfReferences
  <2>1. UNCHANGED <<pc, next_fence, fence_values, current_back_buffer, heap_frame>>
    BY <1>1 DEF StepOfReferences, cpuVars
  <2>2. \A s : Distance(s)' = Distance(s)
    BY <2>1 DEF Distance
  <2>3. CASE pc = "recording"
    <3>1. \A p \in pending_free' : p \in pending_free \/ p[1] = heap_frame
      BY <1>1 DEF StepOfReferences
    <3>2. ASSUME NEW s \in Slots \ {current_back_buffer} PROVE Turn(s)'
      <4>1. Turn(s) /\ frame_resources'[s] = frame_resources[s]
        BY <1>1, <2>3 DEF StepOfReferences, RotationInv, KeptWhileRecording
      <4>2. QED
        BY <2>1, <2>2, <3>1, <4>1 DEF Turn, Emptied
    <3>3. QED
      BY <1>t, <2>1, <2>3, <3>1, <3>2
         DEF RotationInv, ParkedBeforeNow, KeptWhileRecording
  <2>4. CASE UNCHANGED <<frame_resources, pending_free>>
    BY <2>1, <2>2, <2>4 DEF RotationInv, ParkedBeforeNow, KeptWhileRecording,
       KeptWhileWaiting, Turn, Emptied
  <2>5. QED
    BY <1>1, <2>3, <2>4 DEF StepOfReferences
<1>2. CASE StepOfSubmission
  <2>1. /\ pc = "recording" /\ pc' = "waiting" /\ next_fence' = next_fence + 1
        /\ fence_values' = [fence_values EXCEPT ![current_back_buffer] = next_fence]
        /\ UNCHANGED <<heap_frame, pending_free, frame_resources>>
    BY <1>2, SubmissionNumbers DEF heapVars, StepOfSubmission
  <2>2. ParkedBeforeNow' /\ heap_frame' < next_fence'
    BY <1>t, <2>1 DEF RotationInv, ParkedBeforeNow
  <2>3. CASE current_back_buffer' = current_back_buffer
    <3>1. fence_values'[current_back_buffer'] = next_fence' - 1
      BY <1>t, <2>1, <2>3
    <3>2. QED
      BY <2>1, <2>2, <3>1 DEF RotationInv, KeptWhileWaiting
  <2>4. CASE current_back_buffer' # current_back_buffer
    <3>1. current_back_buffer' = (current_back_buffer + 1) % NumBackBuffers
      BY <1>2, <2>4, SubmissionNumbers
    <3>2. ASSUME NEW s \in Slots PROVE Turn(s)'
      <4>1. Distance(s) \in Nat
            /\ Distance(s)' = IF s = current_back_buffer THEN 1 ELSE Distance(s) + 1
        BY <2>4, <3>1, PresentMovesAway, DistanceBounds
      <4>2. CASE s = current_back_buffer
        BY <1>t, <2>1, <4>1, <4>2 DEF Turn
      <4>3. CASE s # current_back_buffer
        <5>1. Turn(s) /\ fence_values'[s] = fence_values[s]
          BY <1>t, <2>1, <4>3 DEF RotationInv, KeptWhileRecording
        <5>2. next_fence' - Distance(s)' = next_fence - Distance(s)
          BY <1>t, <2>1, <4>1, <4>3
        <5>3. QED
          BY <2>1, <5>1, <5>2 DEF Turn, Emptied
      <4>4. QED
        BY <4>2, <4>3
    <3>3. QED
      BY <2>1, <2>2, <3>2 DEF RotationInv, KeptWhileWaiting
  <2>5. QED
    BY <2>3, <2>4
<1>3. CASE WaitForFrame
  <2>1. /\ pc = "waiting" /\ pc' = "recording"
        /\ FreeFrameResources(fence_values[current_back_buffer])
        /\ UNCHANGED <<next_fence, fence_values>>
        /\ current_back_buffer' = IF resetting THEN 0 ELSE current_back_buffer
    BY <1>3 DEF WaitForFrame
  <2>2. KeptWhileWaiting /\ ParkedBeforeNow
    BY <2>1 DEF RotationInv
  <2>3. CASE fence_values[current_back_buffer] = next_fence - 1
    BY <1>e, <1>t, <2>1, <2>2, <2>3, LastFenceEmpties DEF KeptWhileWaiting
  <2>4. CASE fence_values[current_back_buffer] # next_fence - 1
    <3>1. ~resetting /\ \A s \in Slots : Turn(s)
      BY <2>2, <2>4 DEF ReuseInv, AllocatorsFollowFences, KeptWhileWaiting
    <3>2. current_back_buffer' = current_back_buffer
      BY <2>1, <3>1
    <3>3. \A s : Distance(s)' = Distance(s)
      BY <3>2 DEF Distance
    <3>4. /\ heap_frame' = next_fence /\ heap_frame < next_fence
          /\ \A s \in Slots : frame_resources'[s] = {} \/ frame_resources'[s] = frame_resources[s]
          /\ \A p \in pending_free' :
               /\ p[1] \in Nat /\ p[1] > fence_values[current_back_buffer]
               /\ p \in pending_free \/ p[1] = heap_frame
      BY <1>t, <2>1, <2>2, FreedNumbers DEF KeptWhileWaiting
    <3>5. ParkedBeforeNow'
      BY <1>t, <2>2, <3>4 DEF ParkedBeforeNow
    <3>6. ASSUME NEW s \in Slots PROVE Turn(s)'
      <4>1. Distance(s) \in Nat /\ Distance(s) >= 1
        BY DistanceBounds
      <4>2. CASE fence_values[s] = next_fence - Distance(s)
        BY <2>1, <3>3, <4>2 DEF Turn
      <4>3. CASE Emptied(s, Distance(s))
        BY <1>t, <2>1, <3>3, <3>4, <4>1, <4>3 DEF Turn, Emptied
      <4>4. QED
        BY <3>1, <4>2, <4>3 DEF Turn
    <3>7. \A p \in pending_free' : p[1] > next_fence - NumBackBuffers
      <4>1. Turn(current_back_buffer) /\ Distance(current_back_buffer) = NumBackBuffers
        BY <1>t, <3>1, DistanceBounds
      <4>2. QED
        BY <1>t, <3>4, <4>1 DEF Turn, Emptied
    <3>8. QED
      BY <1>t, <2>1, <3>4, <3>5, <3>6, <3>7 DEF RotationInv, KeptWhileRecording
  <2>5. QED
    BY <2>3, <2>4
<1>4. CASE WaitTimesOut
  BY <1>4 DEF WaitTimesOut, heapVars, RotationInv, ParkedBeforeNow
<1>5. CASE StopHelperFrees
  <2>1. /\ pc = "recording" /\ pc' = "recording" /\ next_fence' = next_fence
        /\ FreeFrameResources(next_fence - 1) /\ ParkedBeforeNow
    BY <1>5 DEF StopHelperFrees, RotationInv
  <2>2. QED
    BY <1>e, <1>t, <2>1, LastFenceEmpties
<1>6. CASE GpuCompletes
  <2>1. UNCHANGED <<pc, next_fence, fence_values, current_back_buffer, heap_frame,
                    pending_free, frame_resources>>
    BY <1>6 DEF GpuCompletes, cpuVars, heapVars
  <2>2. QED
    BY <2>1 DEF RotationInv, ParkedBeforeNow, KeptWhileRecording, KeptWhileWaiting,
       Turn, Emptied, Distance
<1>7. QED
  BY <1>1, <1>2, <1>3, <1>4, <1>5, <1>6, StepsAreOfFiveKinds

LEMMA InitRotation == NumBackBuffers # 1 /\ Init => RotationInv
<1> SUFFICES ASSUME NumBackBuffers # 1, Init PROVE RotationInv
  OBVIOUS
<1>1. NumBackBuffers \in Nat /\ NumBackBuffers >= 2
  BY NumBackBuffersAssumption
<1>2. /\ pc = "recording" /\ pending_free = {} /\ heap_frame = 0 /\ next_fence = 1
      /\ current_back_buffer = 0 /\ \A s \in Slots : fence_values[s] = 0 /\ frame_resources[s] = {}
  BY DEF Init, Heap!HeapInit
<1>3. ASSUME NEW s \in Slots \ {current_back_buffer} PROVE Turn(s)
  <2>1. s \in Nat /\ s > 0 /\ s < NumBackBuffers
    BY <1>1, <1>2, <1>3 DEF Slots
  <2>2. Distance(s) = NumBackBuffers - s
    BY <1>1, <1>2, <2>1 DEF Distance
  <2>3. CASE Distance(s) = 1
    BY <1>2, <2>3 DEF Turn
  <2>4. CASE Distance(s) # 1
    BY <1>1, <1>2, <2>1, <2>2, <2>4 DEF Turn, Emptied
  <2>5. QED
    BY <2>3, <2>4
<1>4. QED
  BY <1>1, <1>2, <1>3 DEF RotationInv, ParkedBeforeNow, KeptWhileRecording

\* With two back buffers or more (kNumBackBuffers is 2), no keep-alive list and
\* no parked descriptor outlasts one round of the back buffers, whatever flushes,
\* resets and helper restarts come between the frames: nothing is leaked
\* (FreeFrameResources, DescriptorPoolHeap::ReleaseCompleted).
THEOREM FrameRetentionIsBounded ==
  NumBackBuffers # 1 => (Spec => []RetentionIsBounded)
<1> SUFFICES ASSUME NumBackBuffers # 1 PROVE Spec => []RetentionIsBounded
  OBVIOUS
<1>1. SlotInv /\ RotationInv => RetentionIsBounded
  <2> SUFFICES ASSUME SlotInv, KeptWhileRecording,
                      NEW s \in Slots \ {current_back_buffer}, frame_resources[s] # {}
               PROVE  fence_values[s] > next_fence - NumBackBuffers
    BY DEF RetentionIsBounded, RotationInv, KeptWhileRecording
  <2>1. fence_values[s] = next_fence - Distance(s)
    BY DEF KeptWhileRecording, Turn, Emptied
  <2>2. QED
    BY <2>1, SlotTypes, RotationTypes, DistanceBounds
<1>2. Init => SlotInv /\ ReuseInv /\ RotationInv
  BY InitSlots, InitReuse, InitRotation
<1>3. SlotInv /\ ReuseInv /\ RotationInv /\ [Next]_vars => (SlotInv /\ ReuseInv /\ RotationInv)'
  BY SlotsInductive, ReuseInductive, RotationInductive
<1>4. QED
  BY <1>1, <1>2, <1>3, PTL DEF Spec

-----------------------------------------------------------------------------
\* The upload ring, for every capacity, alignment and size.

\* Rounding up moves forward, by less than the alignment.
LEMMA AlignUpBounds ==
  ASSUME NEW x \in Nat, NEW align \in Nat \ {0}
  PROVE  AlignUp(x, align) \in Nat /\ x <= AlignUp(x, align)
<1>1. (x + align - 1) % align \in 0 .. (align - 1)
  OBVIOUS
<1>2. QED
  BY <1>1 DEF AlignUp

\* A non-empty set of frame numbers has a least element: the front of the
\* deque that HasCompletedFrame leaves.
LEMMA LeastFrame ==
  ASSUME NEW S \in SUBSET Nat, S # {}
  PROVE  LET m == CHOOSE g \in S : \A h \in S : g <= h
         IN  m \in S /\ \A h \in S : m <= h
<1> DEFINE Less == {ss \in Nat \X Nat : ss[1] < ss[2]}
<1>1. IsWellFoundedOn(Less, Nat)
  BY NatLessThanWellFounded, Zenon DEF OpToRel
<1>2. PICK g \in S : \A h \in S : <<h, g>> \notin Less
  BY <1>1, WFMin, Zenon
<1>3. ASSUME NEW h \in S PROVE g <= h
  <2>1. <<h, g>> \in Nat \X Nat /\ ~(<<h, g>>[1] < <<h, g>>[2])
    BY <1>2
  <2>2. QED
    BY <2>1
<1>4. QED
  BY <1>3

-----------------------------------------------------------------------------
LEMMA RingInitInvariant == RingInit => RingIInv
<1> SUFFICES ASSUME RingInit PROVE RingIInv
  OBVIOUS
<1>1. DOMAIN frame_heads = {1} /\ frame_heads[1] = 0
  BY DEF RingInit
<1>2. 0 \in 0 .. MaxSize /\ frame_heads = [f \in {1} |-> 0]
  BY MaxSizeAssumption DEF RingInit
<1>3. frame_heads \in [DOMAIN frame_heads -> 0 .. MaxSize]
  BY <1>1, <1>2, Zenon
<1>4. RingTypeOK
  <2>1. DOMAIN frame_heads \subseteq 0 .. current_frame
    BY <1>1 DEF RingInit
  <2>2. QED
    BY <1>2, <1>3, <2>1 DEF RingInit, RingTypeOK
<1>5. QED
  BY <1>1, <1>4
     DEF RingInit, RingIInv, LiveFramesAreRemembered, LiveInWindow, FrameInWindow,
         HeadsInOrder, PointInWindow

\* What the arithmetic of TryAllocate guarantees of the range it picks, used by
\* both placements: it lies in the ring, and unless the ring just became full
\* it keeps clear of head's window and extends every window it had.
LEMMA AllocateStep ==
  ASSUME RingIInv, NEW n \in Sizes, NEW align \in Aligns, TryAllocate(n, align)
  PROVE  RingIInv'
<1> DEFINE up == AlignUp(tail, align)
<1>1. up \in Nat /\ tail <= up /\ n \in Nat /\ n > 0
  BY AlignUpBounds, AlignsAssumption, SizesAssumption DEF RingIInv, RingTypeOK
<1> HIDE DEF up
<1>2. PICK offset \in Nat :
        /\ Place(offset, n)
        /\ \/ offset = up /\ tail >= head /\ up + n <= MaxSize
           \/ offset = up /\ tail < head /\ up + n <= head
           \/ offset = 0 /\ tail >= head /\ n <= head
  BY <1>1 DEF TryAllocate, AllocateAtTail, AllocateAtStart, FitsAtTail,
              FitsAtStart, RingIInv, RingTypeOK, up
<1>a. PICK alloc : alloc = [frame |-> current_frame, offset |-> offset, size |-> n]
  OBVIOUS
<1>3. /\ tail' = offset + n
      /\ live_allocs' = live_allocs \cup {alloc}
      /\ collision' = (collision \/ \E a \in live_allocs : Overlap(a, alloc))
      /\ filled' = (filled \/ offset + n = head)
      /\ head' = head /\ current_frame' = current_frame
      /\ frame_heads' = frame_heads
  BY <1>2, <1>a DEF Place
<1>4. /\ alloc \in Allocation /\ alloc.offset = offset /\ alloc.size = n
      /\ alloc.frame = current_frame /\ End(alloc) = offset + n
  BY <1>1, <1>a DEF Allocation, End, RingIInv, RingTypeOK
<1>5. /\ head \in 0 .. MaxSize /\ tail \in 0 .. MaxSize /\ MaxSize \in Nat
      /\ \A g \in DOMAIN frame_heads : frame_heads[g] \in 0 .. MaxSize
      /\ \A a \in live_allocs : a.offset \in Nat /\ End(a) \in Nat
      /\ DOMAIN frame_heads \subseteq Nat /\ current_frame \in Nat
      /\ \A a \in live_allocs : a.frame \in Nat
  BY MaxSizeAssumption DEF RingIInv, RingTypeOK, Allocation, End
<1>6. RingTypeOK'
  BY <1>1, <1>2, <1>3, <1>4, <1>5 DEF RingIInv, RingTypeOK
<1>7. LiveFramesAreRemembered' /\ (current_frame \in DOMAIN frame_heads)'
  BY <1>3, <1>4 DEF RingIInv, LiveFramesAreRemembered
<1>8. ASSUME ~filled'
      PROVE  ~collision' /\ LiveInWindow' /\ FrameInWindow' /\ HeadsInOrder'
  <2>1. /\ ~filled /\ ~collision /\ LiveInWindow /\ FrameInWindow
        /\ HeadsInOrder /\ offset + n # head
    BY <1>3, <1>8 DEF RingIInv
  <2>2. ~collision'
    <3>1. SUFFICES ASSUME NEW a \in live_allocs PROVE ~Overlap(a, alloc)
      BY <2>1, <1>3
    <3>2. InWindow(head, a)
      BY <2>1 DEF LiveInWindow
    <3>3. QED
      BY <1>1, <1>2, <1>4, <1>5, <3>2 DEF Overlap, InWindow
  \* A window that started at h, with h in head's window, has grown.
  <2>3. ASSUME NEW h \in 0 .. MaxSize, PointInWindow(head, h)
        PROVE  /\ PointInWindow(head, h)'
               /\ \A p \in 0 .. MaxSize :
                    PointInWindow(h, p) => PointInWindow(h, p)'
               /\ \A a \in live_allocs : InWindow(h, a) => InWindow(h, a)'
               /\ InWindow(h, alloc)'
    <3>1. /\ tail' = offset + n /\ head' = head /\ End(alloc) = offset + n
          /\ alloc.offset = offset /\ (alloc.offset)' = alloc.offset
      BY <1>3, <1>4
    <3>2. PointInWindow(head, h)'
      BY <1>1, <1>2, <1>5, <2>1, <2>3, <3>1 DEF PointInWindow
    <3>3. ASSUME NEW p \in 0 .. MaxSize, PointInWindow(h, p)
          PROVE  PointInWindow(h, p)'
      BY <1>1, <1>2, <1>5, <2>1, <2>3, <3>1, <3>3 DEF PointInWindow
    <3>4. ASSUME NEW a \in live_allocs, InWindow(h, a)
          PROVE  InWindow(h, a)'
      <4>1. InWindow(head, a)
        BY <2>1 DEF LiveInWindow
      <4>2. a.offset \in Nat /\ End(a) \in Nat /\ End(a)' = End(a)
        BY <1>5 DEF End
      <4>3. QED
        BY <1>1, <1>2, <1>5, <2>1, <2>3, <3>1, <3>4, <4>1, <4>2
           DEF PointInWindow, InWindow
    <3>5. InWindow(h, alloc)'
      <4>1. End(alloc)' = End(alloc)
        BY DEF End
      <4>2. QED
        BY <1>1, <1>2, <1>5, <2>1, <2>3, <3>1, <4>1 DEF PointInWindow, InWindow
    <3>6. QED
      BY <3>2, <3>3, <3>4, <3>5
  <2>4. LiveInWindow'
    <3>1. PointInWindow(head, head)
      BY <1>5 DEF PointInWindow
    <3>2. QED
      BY <1>3, <1>5, <2>1, <2>3, <3>1 DEF LiveInWindow, InWindow
  <2>5. FrameInWindow'
    <3>1. \A g \in DOMAIN frame_heads : PointInWindow(head, frame_heads[g])
      BY <2>1 DEF HeadsInOrder
    <3>2. QED
      BY <1>3, <1>5, <2>1, <2>3, <3>1 DEF FrameInWindow, InWindow
  <2>6. HeadsInOrder'
    BY <1>3, <1>5, <2>1, <2>3 DEF HeadsInOrder, PointInWindow
  <2>7. QED
    BY <2>2, <2>4, <2>5, <2>6
<1>9. QED
  BY <1>6, <1>7, <1>8 DEF RingIInv

\* Giving frames back only drops windows: head moves to the start of the oldest
\* frame kept, and whatever is still live belongs to it or to a later one.
LEMMA FreeStep ==
  ASSUME RingIInv, NEW cur \in {current_frame, current_frame + 1},
         NEW f \in Nat, FreeRingFrames(f, cur)
  PROVE  RingIInv'
<1> DEFINE kept == HeadsAfter(f)
           new == IF cur > current_frame THEN {cur} ELSE {}
<1>1. /\ head \in 0 .. MaxSize /\ tail \in 0 .. MaxSize /\ MaxSize \in Nat
      /\ current_frame \in Nat /\ cur \in Nat /\ f < cur
      /\ DOMAIN frame_heads \subseteq 0 .. current_frame
      /\ \A g \in DOMAIN frame_heads : frame_heads[g] \in 0 .. MaxSize
      /\ \A a \in live_allocs : a.offset \in Nat /\ End(a) \in Nat
      /\ \A a \in live_allocs : a.frame \in DOMAIN frame_heads
  BY MaxSizeAssumption
     DEF RingIInv, RingTypeOK, Allocation, End, FreeRingFrames,
         LiveFramesAreRemembered
<1>2. /\ live_allocs' = {a \in live_allocs : a.frame > f}
      /\ current_frame' = cur /\ tail' = tail
      /\ collision' = collision /\ filled' = filled
      /\ DOMAIN frame_heads' = kept \cup new
      /\ \A g \in kept : frame_heads'[g] = frame_heads[g]
      /\ \A g \in new : frame_heads'[g] = tail
      /\ \A g \in DOMAIN frame_heads' : frame_heads'[g] \in 0 .. MaxSize
      /\ frame_heads' \in [DOMAIN frame_heads' -> 0 .. MaxSize]
  <2>1. /\ frame_heads' =
             [g \in kept \cup new |->
                IF g = cur /\ cur > current_frame THEN tail ELSE frame_heads[g]]
        /\ live_allocs' = {a \in live_allocs : a.frame > f}
        /\ current_frame' = cur /\ tail' = tail
        /\ collision' = collision /\ filled' = filled
    BY DEF FreeRingFrames
  <2>2. \A g \in kept : g \in DOMAIN frame_heads /\ ~(g = cur /\ cur > current_frame)
    BY <1>1 DEF HeadsAfter
  <2>3. \A g \in new : g = cur /\ cur > current_frame
    OBVIOUS
  <2>4. \A g \in kept \cup new :
          (IF g = cur /\ cur > current_frame THEN tail ELSE frame_heads[g])
            \in 0 .. MaxSize
    BY <1>1, <2>2, <2>3
  <2> HIDE DEF kept, new
  <2>5. QED
    BY <2>1, <2>2, <2>3, <2>4
<1>3. /\ kept = {g \in DOMAIN frame_heads : g > f} /\ kept \in SUBSET Nat
      /\ \A g \in new : g = cur /\ cur = current_frame + 1
  BY <1>1 DEF HeadsAfter
<1>4. \/ kept = {} /\ head' = tail
      \/ \E m \in kept : head' = frame_heads[m] /\ \A g \in kept : m <= g
  <2>1. head' = IF kept = {} THEN tail
                ELSE frame_heads[CHOOSE g \in kept : \A h \in kept : g <= h]
    BY DEF FreeRingFrames, HasCompletedFrame
  <2> HIDE DEF kept
  <2>2. QED
    BY <1>3, <2>1, LeastFrame
<1>5. current_frame' \in DOMAIN frame_heads'
  <2>1. CASE cur = current_frame
    BY <1>1, <1>2, <1>3, <2>1 DEF RingIInv
  <2>2. CASE cur = current_frame + 1
    <3>1. cur \in new
      BY <1>1, <2>2
    <3>2. QED
      BY <1>2, <3>1
  <2>3. QED
    BY <2>1, <2>2
<1> HIDE DEF kept, new
<1>6. /\ head' \in 0 .. MaxSize
      /\ DOMAIN frame_heads' \subseteq 0 .. current_frame'
  BY <1>1, <1>2, <1>3, <1>4
<1>7. RingTypeOK'
  BY <1>1, <1>2, <1>6 DEF RingIInv, RingTypeOK
<1>8. LiveFramesAreRemembered'
  BY <1>1, <1>2, <1>3 DEF LiveFramesAreRemembered
<1>9. ASSUME ~filled'
      PROVE  ~collision' /\ LiveInWindow' /\ FrameInWindow' /\ HeadsInOrder'
  <2>1. /\ ~filled /\ ~collision /\ LiveInWindow /\ FrameInWindow
        /\ HeadsInOrder
    BY <1>2, <1>9 DEF RingIInv
  <2>2. \A g \in kept \cup new : frame_heads'[g] \in 0 .. MaxSize
    BY <1>2
  <2>3. \A g \in kept, a \in live_allocs :
          g <= a.frame => InWindow(frame_heads'[g], a)
    BY <1>2, <1>3, <2>1 DEF FrameInWindow
  <2>4. \A g \in new, a \in live_allocs : ~(g <= a.frame)
    BY <1>1, <1>3
  <2>5. FrameInWindow'
    BY <1>2, <2>3, <2>4 DEF FrameInWindow, InWindow, End
  <2>7. \A h \in 0 .. MaxSize : PointInWindow(h, tail)
    BY <1>1 DEF PointInWindow
  <2>8. \A g, k \in kept \cup new :
          g <= k => PointInWindow(frame_heads'[g], frame_heads'[k])
    <3>1. SUFFICES ASSUME NEW g \in kept \cup new, NEW k \in kept \cup new, g <= k
                   PROVE  PointInWindow(frame_heads'[g], frame_heads'[k])
      OBVIOUS
    <3>2. CASE k \in new
      BY <1>2, <2>2, <2>7, <3>2
    <3>3. CASE k \in kept /\ g \in kept
      BY <1>2, <1>3, <2>1, <3>1, <3>3 DEF HeadsInOrder
    <3>4. CASE k \in kept /\ g \in new
      BY <1>1, <1>3, <3>1, <3>4
    <3>5. QED
      BY <3>2, <3>3, <3>4
  <2>9. \A g \in kept \cup new : PointInWindow(head', frame_heads'[g])
    <3>1. SUFFICES ASSUME NEW g \in kept \cup new
                   PROVE  PointInWindow(head', frame_heads'[g])
      OBVIOUS
    <3>2. CASE g \in new
      BY <1>2, <1>6, <2>7, <3>2
    <3>3. CASE g \in kept
      <4>1. PICK m \in kept : head' = frame_heads'[m] /\ m <= g
        BY <1>2, <1>4, <3>3
      <4>2. QED
        BY <2>8, <3>3, <4>1
    <3>4. QED
      BY <3>2, <3>3
  <2>10. LiveInWindow'
    <3>1. SUFFICES ASSUME NEW a \in live_allocs, a.frame > f
                   PROVE  InWindow(head', a)
      BY <1>2 DEF LiveInWindow, InWindow, End
    <3>2. a.frame \in kept
      BY <1>1, <1>3, <3>1
    <3>3. PICK m \in kept : head' = frame_heads'[m] /\ m <= a.frame
      BY <1>2, <1>4, <3>2
    <3>4. QED
      BY <2>3, <3>3
  <2>11. HeadsInOrder'
    BY <1>2, <2>8, <2>9 DEF HeadsInOrder, PointInWindow
  <2>12. QED
    BY <1>2, <2>1, <2>5, <2>10, <2>11
<1>10. QED
  BY <1>5, <1>7, <1>8, <1>9 DEF RingIInv

-----------------------------------------------------------------------------
LEMMA RingInductive == RingIInv /\ [RingNext]_ringVars => RingIInv'
<1> SUFFICES ASSUME RingIInv, [RingNext]_ringVars PROVE RingIInv'
  OBVIOUS
<1>1. ASSUME NEW n \in Sizes, NEW align \in Aligns, TryAllocate(n, align)
      PROVE  RingIInv'
  BY <1>1, AllocateStep
<1>2. ASSUME NEW cur \in {current_frame, current_frame + 1} \cap Frames,
             NEW f \in 0 .. MaxFrame, FreeRingFrames(f, cur)
      PROVE  RingIInv'
  BY <1>2, FreeStep
<1>3. CASE UNCHANGED ringVars
  BY <1>3 DEF ringVars, RingIInv, RingTypeOK, LiveFramesAreRemembered, LiveInWindow,
              FrameInWindow, HeadsInOrder, InWindow, PointInWindow, End
<1>4. QED
  BY <1>1, <1>2, <1>3 DEF RingNext

\* The inductive invariant of the ring (src/dynamic_ring_buffer.cpp): every
\* reachable state keeps live ranges inside the windows head and the frame
\* starts span, as long as the ring was never exactly full.
THEOREM RingInvariant == RingSpec => []RingIInv
  BY RingInitInvariant, RingInductive, PTL DEF RingSpec

\* head_ and tail_ stay inside the buffer and every recorded range is a range
\* of it (the ASSERTs of TryAllocate and GetCpuPtrFor).
THEOREM RingTypes == RingSpec => []RingTypeOK
<1>1. RingIInv => RingTypeOK
  BY DEF RingIInv
<1>2. QED
  BY <1>1, RingInvariant, PTL

\* TryAllocate hands out no range that is still live, unless an earlier
\* allocation left tail exactly on head.
THEOREM RingNoCollisionUntilFilled == RingSpec => []NoCollisionUntilFilled
<1>1. RingIInv => NoCollisionUntilFilled
  BY DEF RingIInv, NoCollisionUntilFilled
<1>2. QED
  BY <1>1, RingInvariant, PTL

\* HasCompletedFrame never forgets the start of a frame that still owns a
\* range.
THEOREM RingLiveFramesAreRemembered == RingSpec => []LiveFramesAreRemembered
<1>1. RingIInv => LiveFramesAreRemembered
  BY DEF RingIInv
<1>2. QED
  BY <1>1, RingInvariant, PTL
=============================================================================
