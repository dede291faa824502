--------------------------- MODULE BufferTimeline ---------------------------
(***************************************************************************)
(* One vertex or index buffer on the two time lines of the device: the     *)
(* render thread that locks it and records draws and copies, and the GPU   *)
(* that executes them later, in order.  What is common to the two ways     *)
(* src/buffer.cpp has of serving locks (modules DynamicBuffer and          *)
(* ShadowBuffer): the buffer's own resource, which the GPU reads and       *)
(* copies into and the CPU has mapped; the allocations it makes in the     *)
(* upload ring; submission and fences as in module FrameLifecycle.         *)
(*                                                                         *)
(* Contents are stamps: byte b holds the number of the lock that wrote it, *)
(* 0 if nothing the application relies on.                                 *)
(***************************************************************************)
EXTENDS Integers, Sequences

CONSTANTS
  Size,           \* size_, in units
  NumBackBuffers, \* kNumBackBuffers
  MaxFrame,       \* bound: submissions
  MaxWrites,      \* bound: locks
  MaxDraws        \* bound: draws in one command list

ASSUME SizeAssumption == Size \in Nat \ {0}
ASSUME TimelineNumBackBuffersAssumption == NumBackBuffers \in Nat \ {0}
ASSUME BoundsAssumption ==
  MaxFrame \in Nat /\ MaxWrites \in Nat /\ MaxDraws \in Nat

Bytes == 0 .. Size - 1
Slots == 0 .. NumBackBuffers - 1
Contents == [Bytes -> 0 .. MaxWrites]
Ranges == {r \in [offset : Bytes, size : 1 .. Size] : r.offset + r.size <= Size}
BytesOf(r) == r.offset .. r.offset + r.size - 1

VARIABLES
  frame,               \* CurrentFrame(), that is next_fence_
  fence_values,        \* fence_values_, per back buffer
  current_back_buffer, \* current_back_buffer_
  waiting,             \* in WaitForFrame
  list,                \* the commands of the open list that name the buffer
  submitted,           \* those the GPU has not executed, and the fence signals
  completed,           \* GetCompletedValue() of the fence
  own,                 \* contents of resource()
  ring,                \* contents of the buffer's ring allocations, in order
  app,                 \* the application holds a reference
  bound,               \* bound_vertex_streams_ or bound_index_buffer_ does
  kept,                \* the back buffers whose keep-alive list does
  want,                \* history: what the application's buffer holds
  used,                \* history: bytes drawn since the last DISCARD
  writes,              \* history: locks so far
  misread,             \* history: a draw has read something else than the
                       \*   buffer held at the draw call
  raced                \* history: the CPU has written bytes of resource()
                       \*   that a command still to be executed names, or
                       \*   that this frame's draws do not read

frameVars == <<frame, fence_values, current_back_buffer, waiting>>
gpuVars == <<submitted, completed, misread>>
refVars == <<app, bound, kept>>
appVars == <<want, used, writes>>
timelineVars == <<frameVars, gpuVars, refVars, appVars, list, own, ring, raced>>

TimelineInit ==
  /\ frame = 1
  /\ fence_values = [s \in Slots |-> 0]
  /\ current_back_buffer = 0
  /\ waiting = FALSE
  /\ list = <<>>
  /\ submitted = <<>>
  /\ completed = 0
  /\ own = [b \in Bytes |-> 0]
  /\ ring = <<>>
  /\ app = TRUE
  /\ bound = FALSE
  /\ kept = {}
  /\ want = [b \in Bytes |-> 0]
  /\ used = {}
  /\ writes = 0
  /\ misread = FALSE
  /\ raced = FALSE

-----------------------------------------------------------------------------
\* Commands.  A draw remembers what the buffer held when it was called; place
\* 0 is the buffer's own resource, place i its i-th ring allocation.
DrawFrom(place) == [op |-> "draw", place |-> place, expect |-> want]
CopyFrom(place, B) == [op |-> "copy", place |-> place, bytes |-> B]
Signal(f) == [op |-> "signal", fence |-> f]

Pending == {list[i] : i \in DOMAIN list} \cup
           {submitted[i] : i \in DOMAIN submitted}

NamesOwn(cmd) == cmd.op = "copy" \/ (cmd.op = "draw" /\ cmd.place = 0)

\* Does the command read or write one of the bytes B of resource()?
Names(cmd, B) ==
  \/ cmd.op = "draw" /\ cmd.place = 0 /\ \E b \in B : cmd.expect[b] # 0
  \/ cmd.op = "copy" /\ B \cap cmd.bytes # {}

Overwrite(mem, B, stamp) == [b \in DOMAIN mem |-> IF b \in B THEN stamp ELSE mem[b]]

\* The application writes all of the range it has locked, and relies on nothing
\* outside keep.
AppWrites(B, keep) ==
  /\ writes < MaxWrites
  /\ writes' = writes + 1
  /\ want' = [b \in Bytes |-> IF b \in B THEN writes + 1
                              ELSE IF b \in keep THEN want[b] ELSE 0]

\* Buffer::Lock, the writes, Buffer::Unlock: the pointer is into the mapping of
\* resource() itself, whatever the GPU is doing with it, and although the frame
\* may already draw from elsewhere.
WriteOwn(B, elsewhere) ==
  /\ own' = Overwrite(own, B, writes + 1)
  /\ raced' = (raced \/ elsewhere \/ \E cmd \in Pending : Names(cmd, B))

\* PrepareDrawCall, the part about one stream: the commands cmds, ending with
\* the draw, and the keep-alive reference.
RecordDraw(cmds) ==
  /\ ~waiting
  /\ bound
  /\ Len(SelectSeq(list, LAMBDA c : c.op = "draw")) < MaxDraws
  /\ list' = list \o cmds
  /\ kept' = kept \cup {current_back_buffer}
  /\ used' = used \cup {b \in Bytes : want[b] # 0}
  /\ UNCHANGED <<frameVars, gpuVars, app, bound, want, writes>>

\* A definition marked "fault" is a plausible slip in the one that follows it,
\* which the properties are tried on.
NextBackBuffer(presented) ==
  IF presented THEN (current_back_buffer + 1) % NumBackBuffers
  ELSE current_back_buffer

\* SubmitAndWait up to its wait, after the persist loop has added cmds.
SubmitAndWait(cmds, should_present) ==
  /\ ~waiting
  /\ frame <= MaxFrame
  /\ submitted' = (submitted \o list \o cmds) \o <<Signal(frame)>>
  /\ list' = <<>>
  /\ fence_values' = [fence_values EXCEPT ![current_back_buffer] = frame]
  /\ frame' = frame + 1
  /\ current_back_buffer' = NextBackBuffer(should_present)
  /\ waiting' = TRUE
  /\ UNCHANGED <<completed, misread, refVars, appVars, own, raced>>

KeptAfterOneMore(f) == {s \in kept : fence_values[s] > f + 1}  \* fault

KeptAfter(f) == {s \in kept : fence_values[s] > f}

\* WaitForFrame returns; FreeFrameResources drops the keep-alive references.
WaitForFrame ==
  /\ waiting
  /\ fence_values[current_back_buffer] <= completed
  /\ waiting' = FALSE
  /\ kept' = KeptAfter(fence_values[current_back_buffer])
  /\ UNCHANGED <<frame, fence_values, current_back_buffer, gpuVars, app, bound,
                 appVars, list, own, ring, raced>>

\* SetStreamSource, SetIndices; Release.
Bind ==
  /\ app /\ ~bound /\ ~waiting
  /\ bound' = TRUE
  /\ UNCHANGED <<frameVars, gpuVars, app, kept, appVars, list, own, ring, raced>>

Unbind ==
  /\ bound /\ ~waiting
  /\ bound' = FALSE
  /\ UNCHANGED <<frameVars, gpuVars, app, kept, appVars, list, own, ring, raced>>

ReleaseBuffer ==
  /\ app /\ ~waiting
  /\ app' = FALSE
  /\ UNCHANGED <<frameVars, gpuVars, bound, kept, appVars, list, own, ring, raced>>

\* The GPU executes its next command.
Memory(place) == IF place = 0 THEN own ELSE ring[place]

GpuExecutes ==
  /\ submitted # <<>>
  /\ submitted' = Tail(submitted)
  /\ LET cmd == Head(submitted)
     IN  /\ own' = IF cmd.op = "copy"
                   THEN [b \in Bytes |-> IF b \in cmd.bytes
                                         THEN Memory(cmd.place)[b] ELSE own[b]]
                   ELSE own
         /\ completed' = IF cmd.op = "signal" THEN cmd.fence ELSE completed
         /\ misread' = (misread \/ /\ cmd.op = "draw"
                                   /\ \E b \in Bytes :
                                        cmd.expect[b] \notin {0, Memory(cmd.place)[b]})
  /\ UNCHANGED <<frameVars, refVars, appVars, list, ring, raced>>

-----------------------------------------------------------------------------
TimelineTypeOK ==
  /\ frame \in 1 .. MaxFrame + 1
  /\ fence_values \in [Slots -> 0 .. MaxFrame]
  /\ current_back_buffer \in Slots
  /\ completed \in 0 .. MaxFrame
  /\ own \in Contents
  /\ \A i \in DOMAIN ring : ring[i] \in Contents
  /\ kept \subseteq Slots
  /\ want \in Contents
  /\ used \subseteq Bytes
  /\ writes \in 0 .. MaxWrites
  /\ {app, bound, waiting, misread, raced} \subseteq BOOLEAN
=============================================================================
