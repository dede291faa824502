---------------------------- MODULE DynamicBuffer ----------------------------
(***************************************************************************)
(* A D3DUSAGE_DYNAMIC buffer (class DynamicBuffer of src/buffer.cpp) in    *)
(* the default build: no CPU shadow, upload heap, persistent mapping.      *)
(*                                                                         *)
(* DISCARD writes go to a CPU cache, which the first draw or append moves  *)
(* to a ring allocation; appends (NOOVERWRITE) of the same frame go to     *)
(* that allocation, and the ranges written are copied into the buffer's    *)
(* own resource at the end of the frame.  A first NOOVERWRITE of a frame   *)
(* and a lock without either flag write the own resource at once.          *)
(***************************************************************************)
EXTENDS BufferTimeline

CONSTANT HabitSets \* the applications looked at

\* What an application may do besides DISCARD and append.
AllHabits == {
  "append first",     \* NOOVERWRITE may be a frame's first lock
  "relock",           \* NOOVERWRITE of bytes locked, but not drawn, before
  "plain",            \* locks with neither flag, of any bytes
  "undrawn"}          \* frames may end with the buffer locked but not drawn

ASSUME HabitsAssumption == HabitSets \subseteq SUBSET AllHabits

VARIABLES
  habits,           \* those of this application
  prev_lock_frame,  \* prev_lock_frame_
  has_spec,         \* has_speculative_write_
  spec_persisted,   \* is_speculative_write_persisted_
  cache,            \* speculative_write_cache_, continued with zeroes
  ring_alloc,       \* current_ring_alloc_: its place and frame
  written_ranges,   \* written_ranges_
  queued,           \* is_marked_for_persist_: in buffers_to_persist_
  locked            \* history: bytes locked since the last DISCARD

dynamicVars == <<habits, prev_lock_frame, has_spec, spec_persisted, cache, ring_alloc,
                 written_ranges, queued, locked>>
vars == <<timelineVars, dynamicVars>>

NoAlloc == [place |-> 0, frame |-> 0]

Init ==
  /\ TimelineInit
  /\ habits \in HabitSets
  /\ prev_lock_frame = 0
  /\ has_spec = FALSE
  /\ spec_persisted = FALSE
  /\ cache = [b \in Bytes |-> 0]
  /\ ring_alloc = NoAlloc
  /\ written_ranges = {}
  /\ queued = FALSE
  /\ locked = {}

-----------------------------------------------------------------------------
\* RangeSet::insert.  Its two ASSERTs report and go on, so that a range that
\* overlaps another is added to the other's size.
End(r) == r.offset + r.size

Insert(ranges, r) ==
  LET below == {q \in ranges : q.offset < r.offset}
      above == ranges \ below
      prev == CHOOSE q \in below : \A p \in below : p.offset <= q.offset
      next == CHOOSE q \in above : \A p \in above : q.offset <= p.offset
  IN  IF below # {} /\ End(prev) >= r.offset
      THEN (ranges \ {prev}) \cup {[prev EXCEPT !.size = @ + r.size]}
      ELSE IF above # {} /\ End(r) >= next.offset
      THEN IF next = r THEN ranges
           ELSE (ranges \ {next}) \cup
                {[offset |-> r.offset, size |-> r.size + next.size]}
      ELSE ranges \cup {r}

RangeBytes == UNION {BytesOf(r) : r \in written_ranges}

-----------------------------------------------------------------------------
\* PersistSpeculativeWrite, if the cached write has not reached the ring yet:
\* a full-size allocation, zeroes after what the DISCARD covered.
SpeculativeAgain == has_spec  \* fault: whether or not a draw has persisted it

Speculative == has_spec /\ ~spec_persisted

RingAfter == IF Speculative THEN Append(ring, cache) ELSE ring

AllocAfter ==
  IF Speculative THEN [place |-> Len(ring) + 1, frame |-> frame] ELSE ring_alloc

\* What GetGpuPtr leaves and where the draw will read.
GetGpuPtr ==
  /\ ring' = RingAfter
  /\ ring_alloc' = AllocAfter
  /\ spec_persisted' = (spec_persisted \/ Speculative)
  /\ prev_lock_frame' = IF Speculative THEN frame ELSE prev_lock_frame

OnRing == Speculative \/ prev_lock_frame = frame
Place == IF OnRing THEN AllocAfter.place ELSE 0

\* The cached write a DISCARD lock starts.
StartSpeculation(r) ==
  /\ ring_alloc' = NoAlloc
  /\ cache' = Overwrite([b \in Bytes |-> 0], BytesOf(r), writes + 1)
  /\ has_spec' = TRUE
  /\ spec_persisted' = FALSE

RangesKept(r) == Insert(written_ranges, r)  \* fault: ranges not cleared

RangesRestarted(r) == Insert({}, r)

LockDiscard(r) ==
  /\ app /\ ~waiting
  /\ r.offset = 0
  /\ AppWrites(BytesOf(r), {})
  /\ queued' = TRUE
  /\ prev_lock_frame' = frame
  /\ StartSpeculation(r)
  /\ written_ranges' = RangesRestarted(r)
  /\ used' = {}
  /\ locked' = BytesOf(r)
  /\ UNCHANGED <<habits, frameVars, gpuVars, refVars, list, own, ring, raced>>

\* What D3DLOCK_NOOVERWRITE promises: no byte drawn since the last DISCARD.
\* Without the habit, no byte locked since then either.
Promised(B) ==
  /\ B \cap used = {}
  /\ "relock" \notin habits => B \cap locked = {}

LockNoOverwriteOwn(r) ==
  /\ app /\ ~waiting
  /\ "append first" \in habits
  /\ Promised(BytesOf(r))
  /\ prev_lock_frame < frame
  /\ AppWrites(BytesOf(r), Bytes)
  /\ WriteOwn(BytesOf(r), FALSE)
  /\ locked' = locked \cup BytesOf(r)
  /\ UNCHANGED <<habits, frameVars, gpuVars, refVars, used, list,
                 ring, prev_lock_frame, has_spec, spec_persisted, cache,
                 ring_alloc, written_ranges, queued>>

LockNoOverwriteRing(r) ==
  /\ app /\ ~waiting
  /\ Promised(BytesOf(r))
  /\ prev_lock_frame = frame
  /\ AppWrites(BytesOf(r), Bytes)
  /\ queued' = TRUE
  /\ has_spec' = FALSE
  /\ spec_persisted' = (spec_persisted \/ Speculative)
  /\ ring_alloc' = AllocAfter
  /\ ring' = [i \in DOMAIN RingAfter |->
                IF i = AllocAfter.place
                THEN Overwrite(RingAfter[i], BytesOf(r), writes + 1)
                ELSE RingAfter[i]]
  /\ written_ranges' = Insert(written_ranges, r)
  /\ locked' = locked \cup BytesOf(r)
  /\ UNCHANGED <<habits, frameVars, gpuVars, refVars, used, list, own,
                 raced, prev_lock_frame, cache>>

LockPlain(r) ==
  /\ app /\ ~waiting
  /\ "plain" \in habits
  /\ AppWrites(BytesOf(r), Bytes)
  /\ WriteOwn(BytesOf(r), OnRing)
  /\ locked' = locked \cup BytesOf(r)
  /\ UNCHANGED <<habits, frameVars, gpuVars, refVars, used, list,
                 ring, prev_lock_frame, has_spec, spec_persisted, cache,
                 ring_alloc, written_ranges, queued>>

Draw ==
  /\ RecordDraw(<<DrawFrom(Place)>>)
  /\ GetGpuPtr
  /\ UNCHANGED <<habits, own, raced, has_spec, cache, written_ranges, queued,
                 locked>>

-----------------------------------------------------------------------------
\* The copies PersistDynamicChanges records, one per written range; all of them
\* have the ring as their source and bytes of their own, so one command stands
\* for them.
PersistFirstCopy ==  \* fault: the first range only
  IF queued
  THEN LET first == CHOOSE r \in written_ranges :
                      \A q \in written_ranges : r.offset <= q.offset
       IN  <<CopyFrom(AllocAfter.place, BytesOf(first) \cap Bytes)>>
  ELSE <<>>

PersistCopies ==
  IF queued THEN <<CopyFrom(AllocAfter.place, RangeBytes \cap Bytes)>> ELSE <<>>

\* Without the habit, a draw of the frame keeps alive whatever is going to be
\* persisted, before the application lets go of it and before submission.
Covered ==
  \/ "undrawn" \in habits
  \/ ~queued
  \/ current_back_buffer \in kept

\* SubmitAndWait: the persist loop, then buffers_to_persist_.clear(), which may
\* drop the last reference, then execution.
Submit(should_present) ==
  /\ Covered
  /\ SubmitAndWait(PersistCopies, should_present)
  /\ queued' = FALSE
  /\ IF queued
     THEN /\ ring' = RingAfter
          /\ spec_persisted' = (spec_persisted \/ Speculative)
          /\ prev_lock_frame' = IF Speculative THEN frame ELSE prev_lock_frame
          /\ written_ranges' = {}
          /\ ring_alloc' = NoAlloc
     ELSE UNCHANGED <<ring, spec_persisted, prev_lock_frame, written_ranges,
                      ring_alloc>>
  /\ UNCHANGED <<habits, has_spec, cache, locked>>

Next ==
  \/ \E r \in Ranges : \/ LockDiscard(r)
                       \/ LockNoOverwriteOwn(r)
                       \/ LockNoOverwriteRing(r)
                       \/ LockPlain(r)
  \/ Draw
  \/ Submit(TRUE)
  \/ Submit(FALSE)
  \/ (WaitForFrame \/ GpuExecutes \/ Bind) /\ UNCHANGED dynamicVars
  \/ Covered /\ (Unbind \/ ReleaseBuffer) /\ UNCHANGED dynamicVars

Spec == Init /\ [][Next]_vars

-----------------------------------------------------------------------------
TypeOK ==
  /\ TimelineTypeOK
  /\ habits \in HabitSets
  /\ prev_lock_frame \in 0 .. MaxFrame + 1
  /\ cache \in Contents
  /\ ring_alloc \in [place : 0 .. Len(ring), frame : 0 .. MaxFrame + 1]
  /\ written_ranges \subseteq [offset : Bytes, size : Nat \ {0}]
  /\ {has_spec, spec_persisted, queued} \subseteq BOOLEAN
  /\ locked \subseteq Bytes

\* Whatever the application does, a draw reads the wrong contents only where
\* the CPU has written resource() under a command still to be executed or
\* behind a ring allocation of the same frame: cache, ring, written ranges and
\* persist loop lose nothing.
WrongReadsAreRaces == misread => raced

\* Every frame's writes reach the buffer's own resource: once the GPU has
\* caught up, and but for such a race, it holds what the application's buffer
\* holds ("persist any changes made to dynamic buffers", buffer.h), so that a
\* later frame may draw without locking again.
PersistedWhenIdle ==
  Pending = {} /\ ~queued /\ ~raced =>
    \A b \in Bytes : want[b] \in {0, own[b]}

\* The ranges copied at the end of the frame do not overlap and end with the
\* buffer: RangeSet's ASSERTs hold, and the GPU is asked for no byte outside.
\* For every application, and for those that lock no byte twice in a frame.
CopiesStayInside ==
  /\ \A r \in written_ranges : End(r) <= Size
  /\ \A r, q \in written_ranges : r # q => BytesOf(r) \cap BytesOf(q) = {}

CopiesStayInsideWithoutRelock == "relock" \notin habits => CopiesStayInside

\* The buffer exists as long as a recorded or submitted command names its
\* resource.  For every application, and for those that draw what they lock.
BufferOutlivesCommands ==
  (\E cmd \in Pending : NamesOwn(cmd)) => app \/ bound \/ kept # {} \/ queued

DrawnBufferOutlivesCommands == "undrawn" \notin habits => BufferOutlivesCommands
=============================================================================
