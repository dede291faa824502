---------------------------- MODULE ShadowBuffer ----------------------------
(***************************************************************************)
(* The other way of src/buffer.cpp to serve locks: DX8TO12_BUFFER_SHADOW.  *)
(* Every lock, whatever its flags and the buffer's usage, hands out the    *)
(* CPU shadow and widens one dirty range; the draw that needs the bytes    *)
(* first records their upload, so that it comes after every draw recorded  *)
(* before the lock.  When the upload ring is full the bytes are written to *)
(* the resource at once instead, and reported.                             *)
(***************************************************************************)
EXTENDS BufferTimeline

CONSTANT RingMayFill \* may TryAllocate run out of memory?

ASSUME RingMayFillAssumption == RingMayFill \in BOOLEAN

VARIABLES
  shadow,          \* shadow_
  shadow_dirty_lo, \* shadow_dirty_lo_
  shadow_dirty_hi, \* shadow_dirty_hi_
  fell_back        \* SHADOWFLUSH-FALLBACK has been reported

shadowVars == <<shadow, shadow_dirty_lo, shadow_dirty_hi, fell_back>>
vars == <<timelineVars, shadowVars>>

Init ==
  /\ TimelineInit
  /\ shadow = [b \in Bytes |-> 0]
  /\ shadow_dirty_lo = 0
  /\ shadow_dirty_hi = 0
  /\ fell_back = FALSE

Clean == shadow_dirty_lo >= shadow_dirty_hi
DirtyBytes == shadow_dirty_lo .. shadow_dirty_hi - 1

\* ShadowLock: widen the dirty range.
LastLockOnly(r) ==  \* fault: forgets what was dirty before
  /\ shadow_dirty_lo' = r.offset
  /\ shadow_dirty_hi' = r.offset + r.size

Widen(r) ==
  /\ shadow_dirty_lo' = IF ~Clean /\ shadow_dirty_lo < r.offset
                        THEN shadow_dirty_lo ELSE r.offset
  /\ shadow_dirty_hi' = IF ~Clean /\ shadow_dirty_hi > r.offset + r.size
                        THEN shadow_dirty_hi ELSE r.offset + r.size

\* Lock, the writes, Unlock.  keep is what the application still relies on
\* elsewhere in the buffer: nothing if it said DISCARD.
Lock(r, keep) ==
  /\ app /\ ~waiting
  /\ AppWrites(BytesOf(r), keep)
  /\ Widen(r)
  /\ shadow' = Overwrite(shadow, BytesOf(r), writes + 1)
  /\ UNCHANGED <<frameVars, gpuVars, refVars, used, list, own, ring, raced,
                 fell_back>>

\* GetGpuPtr, when there is nothing to flush.
DrawClean ==
  /\ Clean
  /\ RecordDraw(<<DrawFrom(0)>>)
  /\ UNCHANGED <<own, ring, raced, shadowVars>>

Cleaned == shadow_dirty_lo' = 0 /\ shadow_dirty_hi' = 0

\* FlushShadowToResource: the dirty bytes into a ring allocation, a copy of
\* them into the resource recorded before the draw.
UploadAfterDraw ==  \* fault: the draw is recorded first
  <<DrawFrom(0), CopyFrom(Len(ring) + 1, DirtyBytes)>>

UploadBeforeDraw == <<CopyFrom(Len(ring) + 1, DirtyBytes), DrawFrom(0)>>

DrawFlushing ==
  /\ ~Clean
  /\ RecordDraw(UploadBeforeDraw)
  /\ ring' = Append(ring, shadow)
  /\ Cleaned
  /\ UNCHANGED <<own, raced, shadow, fell_back>>

\* No room in the ring: memcpy into the mapped resource.
DrawFallingBack ==
  /\ RingMayFill
  /\ ~Clean
  /\ RecordDraw(<<DrawFrom(0)>>)
  /\ own' = [b \in Bytes |-> IF b \in DirtyBytes THEN shadow[b] ELSE own[b]]
  /\ raced' = (raced \/ \E cmd \in Pending : Names(cmd, DirtyBytes))
  /\ fell_back' = TRUE
  /\ Cleaned
  /\ UNCHANGED <<ring, shadow>>

\* No buffer is ever queued to be persisted.
Submit(should_present) ==
  /\ SubmitAndWait(<<>>, should_present)
  /\ UNCHANGED <<ring, shadowVars>>

Next ==
  \/ \E r \in Ranges, keep \in {{}, Bytes} : Lock(r, keep)
  \/ DrawClean
  \/ DrawFlushing
  \/ DrawFallingBack
  \/ Submit(TRUE)
  \/ Submit(FALSE)
  \/ (WaitForFrame \/ GpuExecutes \/ Bind \/ Unbind \/ ReleaseBuffer)
       /\ UNCHANGED shadowVars

Spec == Init /\ [][Next]_vars

-----------------------------------------------------------------------------
TypeOK ==
  /\ TimelineTypeOK
  /\ shadow \in Contents
  /\ shadow_dirty_lo \in 0 .. Size
  /\ shadow_dirty_hi \in 0 .. Size
  /\ fell_back \in BOOLEAN

\* With the shadow, every draw reads what the buffer held at the call, whatever
\* was locked, how and when: "the app can never write memory the GPU is already
\* reading" (buffer.h), unless the ring ran full.
WrongReadsAreFallbacks == misread => fell_back

\* The shadow, the dirty range and the resource never lose a byte between them:
\* with no copy under way the resource differs from the application's buffer
\* only in dirty bytes.
DirtyCoversTheDifference ==
  (\A cmd \in Pending : cmd.op # "copy") /\ ~fell_back =>
    \A b \in Bytes : want[b] \in {0, own[b]} \/ b \in DirtyBytes

=============================================================================
